------------------------------- MODULE Usage -------------------------------
(***************************************************************************)
(* Subscription usage (svarm-agent's usage/, server.rs 1477-1513, 1904-1912 *)
(* and 2078-2082, app.rs 827-891): the server keeps the last report of each *)
(* provider, one worker thread asks the providers one after the other, and  *)
(* every interactive client is sent an overview.  A percentage is a number, *)
(* a text that only explains a report is left out.                          *)
(***************************************************************************)
EXTENDS Integers, Sequences, FiniteSets

CONSTANTS Order,          \* the providers that publish limits, in the order of AgentKind::ALL
          Installations,  \* the sets of them a machine may have
          Clients,
          Ttl,            \* USAGE_TTL_MS, in ticks
          MaxTime,        \* bound: ticks of the clock
          MaxProbes,      \* bound: probes that the worker finishes
          MaxInbox,       \* bound: overviews on their way to a client
          Percents,       \* percentages a provider may report
          None

In(s) == {s[i] : i \in DOMAIN s}

UsageAssumption ==
  /\ Ttl \in Nat \ {0} /\ MaxTime \in Nat /\ MaxProbes \in Nat /\ MaxInbox \in Nat \ {0}
  /\ Percents \subseteq Nat
  /\ Order \in Seq(In(Order)) /\ \A i, j \in DOMAIN Order : Order[i] = Order[j] => i = j
  /\ In(Order) \subseteq {"claude", "codex", "grok"}   \* AgentKind::reports_usage
  /\ \A some \in Installations : some \subseteq In(Order)

Providers == In(Order)
Ordered(kinds) ==
  LET places == {i \in DOMAIN Order : Order[i] \in kinds}
      listed == CHOOSE s \in UNION {[1..n -> places] : n \in 0..Len(Order)} :
                  /\ \A i, j \in DOMAIN s : i < j => s[i] < s[j]
                  /\ \A place \in places : \E i \in DOMAIN s : s[i] = place
  IN [i \in DOMAIN listed |-> Order[listed[i]]]

VARIABLES enabled,       \* SVARM_USAGE is not off
          installed,     \* available_harnesses, looked up whenever it is needed
          now,           \* now_ms, in ticks
          observations,  \* UsageCache: the last report of a provider, or None
          inFlight,
          requests,      \* the worker's channels
          results,
          probes,        \* probes finished
          clients        \* the interactive connections and what each client shows

cache == <<observations, inFlight>>
channels == <<requests, results, probes>>
vars == <<enabled, installed, now, cache, channels, clients>>

-----------------------------------------------------------------------------
(* The probes: what a provider's answer is reported as. *)

Without(reason) == [state |-> reason, windows |-> {}]
NotProbed == Without("NotProbed")
Available(windows) ==
  IF windows = {} THEN Without("Unsupported") ELSE [state |-> "Available", windows |-> windows]

(* get_json, as interpret reads it: no answer, a refusal, or a body. *)
Failures == {"status", "transport", "malformed"}
Refusal(credentials) == Without(IF credentials = "expired" THEN "Expired" ELSE "NotSignedIn")

(* Claude: a window without a utilization is left out. *)
ClaudeAnswers ==
  [credentials: {"unreadable", "valid", "expired"},
   outcome: Failures \cup {"unauthorized"}, windows: {{}}]
    \cup [credentials: {"valid", "expired"}, outcome: {"ok"}, windows: SUBSET Percents]

Fetched(credentials, outcome, windows) ==
  IF credentials = "unreadable" THEN Without("NotSignedIn")
  ELSE IF outcome = "unauthorized" THEN Refusal(credentials)
  ELSE IF outcome \in Failures THEN Without("ProbeFailed")
  ELSE Available(windows)

(* Grok: the first scope of auth.json whose session is not a web login. *)
Entries == {"absent", "malformed", "web login", "empty", "valid", "expired"}
Credentials(store) ==
  LET usable == SelectSeq(store, LAMBDA entry : entry \notin {"absent", "web login"})
  IN IF usable = <<>> \/ Head(usable) \in {"malformed", "empty"} THEN "unreadable" ELSE Head(usable)

(* A configuration: the share of the period, the share computed from the    *)
(* deprecated fields, whether the period is described, and the products.     *)
Optional == Percents \cup {None}
PeriodPercent(config) ==
  IF config.percent # None THEN {config.percent}
  ELSE IF config.ratio # None THEN {config.ratio}
  ELSE IF config.described THEN {0} ELSE {}
GrokWindows(config) ==
  PeriodPercent(config)
    \cup {IF product = None THEN 0 ELSE product : product \in config.products}

Empty == [percent |-> None, ratio |-> None, described |-> FALSE, products |-> {}]
GrokAnswers ==
  [store: Entries \X Entries, outcome: Failures \cup {"unauthorized"}, config: {Empty}]
    \cup [store: {<<"valid", "absent">>, <<"web login", "expired">>}, outcome: {"ok"},
          config: [percent: Optional, ratio: Optional, described: BOOLEAN,
                   products: SUBSET Optional]]

GrokReport(a) == Fetched(Credentials(a.store), a.outcome, GrokWindows(a.config))

(* Codex: lines of its app-server, in any order and among others.  A line   *)
(* answers a request, is an error, or is something else.                     *)
Line(id, is, value) == [id |-> id, is |-> is, value |-> value]
Initialized == Line("initialize", "result", None)
Lines ==
  {Line("account", "result", {}), Line("account", "result", None),
   Line("limits", "result", None), Line("other", "notice", None)}
    \cup {Line("limits", "result", windows) : windows \in SUBSET Percents}
    \cup {Line(id, "error", None) : id \in {"limits", "other"}}
CodexAnswers ==
  {<<>>} \cup {<<Initialized>> \o rest : rest \in
     {r \in UNION {[1 .. n -> Lines] : n \in 0 .. 3} :
        \A i, j \in DOMAIN r : i < j /\ r[i].id = r[j].id => r[i].is = "notice"}}

Exchange == [error |-> FALSE, account |-> <<>>, limits |-> <<>>]
Complete(exchange) == exchange.error \/ (exchange.account # <<>> /\ exchange.limits # <<>>)

(* absorb: an error ends the exchange, whatever request it answers. *)
Absorb(exchange, line) ==
  IF Complete(exchange) THEN exchange
  ELSE IF line.is = "error" THEN [exchange EXCEPT !.error = TRUE]
  ELSE IF line.is = "result" /\ line.id = "account" THEN [exchange EXCEPT !.account = <<line.value>>]
  ELSE IF line.is = "result" /\ line.id = "limits" THEN [exchange EXCEPT !.limits = <<line.value>>]
  ELSE exchange

Driven(lines) ==
  LET after[n \in 0..Len(lines)] == IF n = 0 THEN Exchange ELSE Absorb(after[n - 1], lines[n])
  IN after[Len(lines)]

(* Without a complete exchange the lines end in a timeout or a closed pipe. *)
CodexReport(exchange) ==
  IF exchange.error \/ ~Complete(exchange) THEN Without("ProbeFailed")
  ELSE IF exchange.account = <<None>> THEN Without("NotSignedIn")
  ELSE IF exchange.limits = <<None>> THEN Without("Unsupported")
  ELSE Available(exchange.limits[1])

(* Percentages that an answer names for an account somebody is signed in to: *)
(* proto3 leaves a zero out of what it names.                                *)
NamedByClaude(a) == IF a.outcome = "ok" THEN a.windows ELSE {}
NamedByGrok(a) ==
  IF a.outcome # "ok" \/ {"valid", "expired"} \cap In(a.store) = {} THEN {}
  ELSE (({a.config.percent, a.config.ratio} \cup a.config.products) \ {None})
         \cup (IF a.config.described \/ None \in a.config.products THEN {0} ELSE {})
NamedByCodex(lines) ==
  IF \A l \in In(lines) : l.id = "account" => l.value = None THEN {}
  ELSE UNION {l.value : l \in {m \in In(lines) : m.id = "limits" /\ m.value # None}}

(* probe, of a kind *)
Answer(report, named) == [report |-> report, named |-> named]
Answers(kind) ==
  CASE kind = "claude" -> {Answer(Fetched(a.credentials, a.outcome, a.windows), NamedByClaude(a)) :
                             a \in ClaudeAnswers}
    [] kind = "grok" -> {Answer(GrokReport(a), NamedByGrok(a)) : a \in GrokAnswers}
    [] kind = "codex" -> {Answer(CodexReport(Driven(lines)), NamedByCodex(lines)) : lines \in CodexAnswers}

(* The worker thread: one probe at a time. *)
Probe ==
  /\ requests # <<>> /\ requests' = Tail(requests)
  /\ probes < MaxProbes /\ probes' = probes + 1
  /\ \E answer \in Answers(Head(requests)) :
       results' = Append(results, [kind |-> Head(requests), report |-> answer.report])
  /\ UNCHANGED <<enabled, installed, now, cache, clients>>

-----------------------------------------------------------------------------
(* The coordinator *)

(* UsageCache::overview *)
ReportOf(k, seen) ==
  IF ~enabled THEN Without("Unsupported")
  ELSE IF seen[k] = None THEN NotProbed ELSE seen[k].report
Overview(seen, flight) ==
  [k \in installed |-> [report |-> ReportOf(k, seen), refreshing |-> k \in flight,
                        at |-> IF seen[k] = None THEN None ELSE seen[k].at]]

(* refresh: the channel has room for every kind that is not in it. *)
Refresh(kinds) ==
  LET new == IF enabled THEN kinds \ inFlight ELSE {}
  IN /\ inFlight' = inFlight \cup new
     /\ requests' = requests \o Ordered(new)

Stale == {k \in installed : observations[k] = None \/ now - observations[k].at >= Ttl}

NoClient == [attached |-> FALSE, inbox |-> <<>>, shown |-> <<>>, tab |-> None, missed |-> FALSE]

(* A session is created or attached: what went stale is asked for, and the   *)
(* client's interface starts from nothing.                                   *)
Attach(c) ==
  /\ ~clients[c].attached
  /\ Refresh(Stale)
  /\ clients' = [clients EXCEPT ![c] = [NoClient EXCEPT
       !.attached = TRUE, !.inbox = <<Overview(observations, inFlight')>>]]
  /\ UNCHANGED <<enabled, installed, now, observations, results, probes>>

Leave(c) ==
  /\ clients[c].attached
  /\ clients' = [clients EXCEPT ![c] = NoClient]
  /\ UNCHANGED <<enabled, installed, now, cache, channels>>

(* ReadUsage, as request_usage sends it: only who asks is told. *)
ReadUsage(c) ==
  /\ clients[c].attached /\ Len(clients[c].inbox) < MaxInbox
  /\ Refresh(installed)
  /\ clients' = [clients EXCEPT ![c].inbox = Append(@, Overview(observations, inFlight'))]
  /\ UNCHANGED <<enabled, installed, now, observations, results, probes>>

(* absorb: a result ends the probe, and replaces what was reported before. *)
KeepInFlight(flight, done) == flight
Landed(flight, done) == flight \ done
Observed(result) == [report |-> result.report, at |-> now]

Interactive == {c \in Clients : clients[c].attached}

(* poll_usage *)
Poll ==
  /\ results # <<>> /\ results' = <<>>
  /\ \A c \in Clients : Len(clients[c].inbox) < MaxInbox
  /\ observations' = [k \in Providers |->
       LET of == {i \in DOMAIN results : results[i].kind = k} IN
       IF of = {} THEN observations[k]
       ELSE Observed(results[CHOOSE i \in of : \A j \in of : j <= i])]
  /\ inFlight' = Landed(inFlight, {r.kind : r \in In(results)})
  /\ clients' = [c \in Clients |-> IF c \in Interactive
       THEN [clients[c] EXCEPT !.inbox = Append(@, Overview(observations', inFlight'))]
       ELSE clients[c]]
  /\ UNCHANGED <<enabled, installed, now, requests, probes>>

-----------------------------------------------------------------------------
(* A client *)

Tabs(overview) == Ordered(DOMAIN overview)

Clamped(tab, overview) ==
  IF tab \in DOMAIN overview THEN tab
  ELSE IF Tabs(overview) = <<>> THEN None ELSE Tabs(overview)[1]

(* apply_remote_update and set_usage *)
Receive(c) ==
  /\ clients[c].inbox # <<>>
  /\ LET v == clients[c]
         overview == Head(v.inbox)
     IN clients' = [clients EXCEPT ![c] =
          [v EXCEPT !.inbox = Tail(v.inbox), !.shown = overview, !.missed = FALSE,
                    !.tab = Clamped(v.tab, overview)]]
  /\ UNCHANGED <<enabled, installed, now, cache, channels>>

(* send_and_wait, while an agent is spawned, drops what is no answer. *)
ReceiveWhileWaiting(c) ==
  /\ clients[c].inbox # <<>>
  /\ clients' = [clients EXCEPT ![c] =
       [clients[c] EXCEPT !.inbox = Tail(clients[c].inbox), !.missed = TRUE]]
  /\ UNCHANGED <<enabled, installed, now, cache, channels>>

(* move_usage_tab *)
MoveTab(c, delta) ==
  /\ clients[c].attached
  /\ LET tabs == Tabs(clients[c].shown)
         at == CHOOSE i \in {j \in DOMAIN tabs : tabs[j] = clients[c].tab} \cup {1} :
                 clients[c].tab \in In(tabs) => tabs[i] = clients[c].tab
     IN clients' = [clients EXCEPT ![c].tab =
          IF tabs = <<>> THEN None ELSE tabs[1 + ((at - 1 + delta) % Len(tabs))]]
  /\ UNCHANGED <<enabled, installed, now, cache, channels>>

-----------------------------------------------------------------------------
(* Outside the program *)

Tick == /\ now < MaxTime /\ now' = now + 1
        /\ UNCHANGED <<enabled, installed, cache, channels, clients>>

Install == /\ installed' \in Installations
           /\ UNCHANGED <<enabled, now, cache, channels, clients>>

(* run asks for every provider before it serves anybody. *)
Init ==
  /\ enabled \in BOOLEAN /\ installed \in Installations /\ now = 0
  /\ observations = [k \in Providers |-> None]
  /\ inFlight = (IF enabled THEN installed ELSE {})
  /\ requests = Ordered(inFlight)
  /\ results = <<>> /\ probes = 0 /\ clients = [c \in Clients |-> NoClient]

Next ==
  \/ Probe \/ Poll \/ Tick \/ Install
  \/ \E c \in Clients : \/ Attach(c) \/ Leave(c) \/ ReadUsage(c) \/ Receive(c) \/ ReceiveWhileWaiting(c)
                         \/ \E delta \in {1, -1} : MoveTab(c, delta)

Spec == Init /\ [][Next]_vars

-----------------------------------------------------------------------------
(* Values of the variables. *)
TypeOK ==
  /\ \A k \in Providers : observations[k] # None => observations[k].at \in 0..now
  /\ inFlight \subseteq Providers /\ now <= MaxTime
  /\ \A c \in Clients : clients[c].tab \in Providers \cup {None} /\ Len(clients[c].inbox) <= MaxInbox

UpToDate(c) == clients[c].attached /\ clients[c].inbox = <<>> /\ ~clients[c].missed

(* "A probe is in flight" (protocol.rs 406): a provider in flight is asked   *)
(* once, and a client that received everything and shows a refresh waits for *)
(* one, whatever other clients asked for and what was installed meanwhile.   *)
RefreshingIsReal ==
  /\ \A k \in Providers :
       LET open == {i \in DOMAIN requests : requests[i] = k}
           done == {i \in DOMAIN results : results[i].kind = k}
       IN IF k \in inFlight THEN \E i \in DOMAIN requests \cup DOMAIN results : {open, done} = {{i}, {}}
          ELSE open = {} /\ done = {}
  /\ \A c \in Clients : UpToDate(c) =>
       \A k \in DOMAIN clients[c].shown : clients[c].shown[k].refreshing => k \in inFlight

(* "Every interactive client sees the same overview" (server.rs 1485): what  *)
(* a client that received everything shows of a provider is the last report, *)
(* and it shows one of them whatever was installed or removed meanwhile.     *)
ShownIsTheLastReport ==
  \A c \in Clients : UpToDate(c) =>
    /\ \A k \in DOMAIN clients[c].shown : clients[c].shown[k].report = ReportOf(k, observations)
    /\ clients[c].tab \in DOMAIN clients[c].shown \/ DOMAIN clients[c].shown = {}

Reports == {Available(windows) : windows \in SUBSET (Percents \cup {0})}
             \cup {Without(reason) : reason \in {"NotSignedIn", "Expired", "ProbeFailed"}}

(* A report "carries windows a provider affirmatively returned" (protocol.rs *)
(* 391) to somebody signed in, and is not called unsupported if it returned  *)
(* some: through credentials, failures, and lines in any order.  Answers are *)
(* the same in every state; what is asked for first is looked at once.       *)
PercentagesAreReported ==
  probes = 0 => \A k \in In(requests) : \A answer \in Answers(k) :
      /\ answer.report \in Reports
      /\ answer.report.windows \subseteq answer.named
      /\ answer.report.state = "Unsupported" => answer.named = {}
=============================================================================
