----------------------------- MODULE App_proofs -----------------------------
(***************************************************************************)
(* Proofs about the client's application model, for every number of agents *)
(* and every set of conversations: that its lists follow the session's,    *)
(* that confirmations keep their subject, and that the review is shown.    *)
(***************************************************************************)
EXTENDS App, SequenceTheorems, WellFoundedInduction, TLAPS

-----------------------------------------------------------------------------
\* Lists

\* A set of natural numbers that is not empty has a least member.
LEMMA LeastNatural ==
  ASSUME NEW T \in SUBSET Nat, T # {}
  PROVE  \E n \in T : \A m \in T : n <= m
PROOF
  <1>1. PICK n \in T : \A m \in T : <<m, n>> \notin OpToRel(<, Nat)
    BY NatLessThanWellFounded, WFMin, Zenon
  <1>2. \A m \in T : ~(m < n)
    BY <1>1, Zenon DEF OpToRel
  <1> QED
    BY <1>2

\* Dropping the members equal to one leaves a sequence of the others.
LEMMA DroppingIsAList ==
  ASSUME NEW S, NEW list \in Seq(S), NEW c
  PROVE  Dropping(list, c) \in Seq(S)
PROOF
  <1> DEFINE Step(f, n) == IF n = 0 THEN <<>>
                           ELSE IF list[n] = c THEN f[n - 1] ELSE Append(f[n - 1], list[n])
             Kept(n) == \E f \in [0 .. n -> Seq(S)] : \A i \in 0 .. n : f[i] = Step(f, i)
             kept == CHOOSE f : f = [n \in 0 .. Len(list) |-> Step(f, n)]
  <1>1. Len(list) \in Nat /\ \A i \in 1 .. Len(list) : list[i] \in S
    BY LenProperties, ElementOfSeq
  <1>2. Kept(0)
    <2> DEFINE f == [i \in 0 .. 0 |-> <<>>]
    <2>1. f \in [0 .. 0 -> Seq(S)]
      BY EmptySeq
    <2>2. \A i \in 0 .. 0 : f[i] = Step(f, i)
      OBVIOUS
    <2> HIDE DEF f
    <2> QED
      BY <2>1, <2>2
  <1>3. ASSUME NEW n \in 1 .. Len(list), Kept(n - 1) PROVE Kept(n)
    <2>1. PICK f \in [0 .. n - 1 -> Seq(S)] : \A i \in 0 .. n - 1 : f[i] = Step(f, i)
      BY <1>3
    <2> DEFINE g == [i \in 0 .. n |-> IF i < n THEN f[i] ELSE Step(f, n)]
    <2>2. Step(f, n) \in Seq(S)
      BY <1>1, <2>1, AppendProperties
    <2>3. g \in [0 .. n -> Seq(S)]
      BY <1>1, <2>1, <2>2
    <2>4. ASSUME NEW i \in 0 .. n PROVE g[i] = Step(g, i)
      <3>1. i # 0 => i - 1 \in 0 .. n - 1 /\ g[i - 1] = f[i - 1]
        BY <1>1
      <3>2. g[i] = Step(f, i)
        <4>1. i < n => i \in 0 .. n - 1 /\ g[i] = f[i]
          BY <1>1
        <4>2. ~(i < n) => i = n /\ g[i] = Step(f, n)
          BY <1>1
        <4> HIDE DEF g, Step
        <4> QED
          BY <2>1, <4>1, <4>2
      <3> HIDE DEF g
      <3> QED
        BY <3>1, <3>2
    <2> HIDE DEF g
    <2> QED
      BY <2>3, <2>4
  <1>4. Kept(Len(list))
    <2> DEFINE T == {n \in 0 .. Len(list) : ~Kept(n)}
    <2> SUFFICES ASSUME T # {} PROVE FALSE
      BY <1>1
    <2> HIDE DEF Kept
    <2>0. T \in SUBSET Nat
      BY <1>1
    <2>1. PICK n \in T : \A m \in T : n <= m
      <3> HIDE DEF T
      <3> QED
        BY <2>0, LeastNatural
    <2>2. n \in 1 .. Len(list) /\ Kept(n - 1)
      BY <1>1, <1>2, <2>1
    <2> QED
      BY <1>3, <2>1, <2>2
  <1>5. kept = [n \in 0 .. Len(list) |-> Step(kept, n)]
    <2>1. PICK f \in [0 .. Len(list) -> Seq(S)] : \A i \in 0 .. Len(list) : f[i] = Step(f, i)
      BY <1>4
    <2>2. f = [n \in 0 .. Len(list) |-> Step(f, n)]
      BY <2>1
    <2> QED
      BY <2>2
  <1>6. kept[Len(list)] \in Seq(S)
    <2> DEFINE T == {n \in 0 .. Len(list) : kept[n] \notin Seq(S)}
    <2> HIDE DEF kept
    <2> SUFFICES ASSUME T # {} PROVE FALSE
      BY <1>1
    <2>0. T \in SUBSET Nat
      BY <1>1
    <2>1. PICK n \in T : \A m \in T : n <= m
      <3> HIDE DEF T
      <3> QED
        BY <2>0, LeastNatural
    <2>2. kept[n] = Step(kept, n) /\ n \in 0 .. Len(list)
      BY <1>5, <2>1
    <2>3. n # 0 => kept[n - 1] \in Seq(S)
      BY <1>1, <2>1, <2>2
    <2>4. Step(kept, n) \in Seq(S)
      BY <1>1, <2>2, <2>3, AppendProperties, EmptySeq
    <2> QED
      BY <2>1, <2>2, <2>4
  <1>7. Dropping(list, c) = kept[Len(list)]
    BY DEF Dropping
  <1> QED
    BY <1>6, <1>7

-----------------------------------------------------------------------------
\* The invariant

Requests ==
  [type: {"spawn"}] \cup [type: {"close", "archive", "select"}, id: {0} \cup Ids]
    \cup [type: {"resume"}, conv: Conversations \cup {None}]
Events ==
  [type: {"response"}, ok: BOOLEAN] \cup [type: {"added", "resumed"}, agent: AgentRecords]
    \cup [type: {"removed"}, id: Ids]
    \cup [type: {"archived", "changed"}, id: Ids, conv: Conversations]
    \cup [type: {"switched"}, id: Ids, conv: Conversations, old: Conversations \cup {None}]
Sessions ==
  [agents: Seq(AgentRecords), archived: Seq(Conversations), selected: {0} \cup Ids,
   next: 1 .. (MaxAgents + 1)]

TypeInv == TypeOK /\ session \in Sessions /\ up \in Seq(Requests) /\ down \in Seq(Events)

\* A client that has ended has nothing open, and nothing is sent to it.
EndedIsEmpty ==
  exit # None => down = <<>> /\ mode = "Terminal" /\ hunk = "none" /\ ~waiting /\ ~deaf /\ ~lost

\* While a spawn is waited for, the dialog stays where it is.
WaitingInDialog == waiting => mode = "NewAgent"

ClientInv ==
  TypeInv /\ EndedIsEmpty /\ WaitingInDialog /\ ConfirmationsKeepTheirSubject /\ ReviewIsShown

\* The two lists, and what an event makes of them.
Lists(list, kept) == [agents |-> list, archived |-> kept]
After(lists, e) ==
  CASE e.type = "added" -> Lists(Append(lists.agents, e.agent), lists.archived)
    [] e.type = "removed" -> Lists(Without(lists.agents, e.id), lists.archived)
    [] e.type = "archived" -> Lists(Without(lists.agents, e.id), Put(lists.archived, e.conv))
    [] e.type = "resumed" ->
         Lists(Append(lists.agents, e.agent), Dropping(lists.archived, e.agent.conv))
    [] e.type = "changed" -> Lists(Holding(lists.agents, e.id, e.conv), lists.archived)
    [] e.type = "switched" ->
         Lists(Holding(lists.agents, e.id, e.conv),
               IF e.old = None THEN Dropping(lists.archived, e.conv)
               ELSE Put(Dropping(lists.archived, e.conv), e.old))
    [] OTHER -> lists

\* The events lead from some lists to others, one after the other.
LeadsBy(h, from, events, to) ==
  /\ h[0] = from /\ h[Len(events)] = to
  /\ \A i \in 1 .. Len(events) : h[i] = After(h[i - 1], events[i])
Leads(from, events, to) == \E h : LeadsBy(h, from, events, to)

\* What is on its way makes the client's lists the session's.
EventsLeadToTheSession ==
  exit = None /\ ~deaf /\ ~lost =>
    Leads(Lists(agents, archived), down, Lists(session.agents, session.archived))

IInv == ClientInv /\ EventsLeadToTheSession

-----------------------------------------------------------------------------
\* What the helpers make of lists of agents and of conversations

LEMMA IndexOfAgent ==
  ASSUME NEW list \in Seq(AgentRecords), NEW id, HasAgent(list, id)
  PROVE  /\ IndexOf(list, id) \in DOMAIN list /\ list[IndexOf(list, id)].id = id
         /\ list[IndexOf(list, id)] \in AgentRecords
PROOF
  <1>1. IndexOf(list, id) \in DOMAIN list /\ list[IndexOf(list, id)].id = id
    BY DEF HasAgent, IndexOf
  <1> QED
    BY <1>1, LenProperties, ElementOfSeq

LEMMA WithoutIsAList ==
  ASSUME NEW list \in Seq(AgentRecords), NEW id
  PROVE  /\ Without(list, id) \in Seq(AgentRecords)
         /\ HasAgent(list, id) => Len(Without(list, id)) = Len(list) - 1
PROOF
  <1>1. CASE ~HasAgent(list, id)
    BY <1>1 DEF Without
  <1>2. CASE HasAgent(list, id)
    <2> DEFINE at == IndexOf(list, id)
               before == SubSeq(list, 1, at - 1)
               behind == SubSeq(list, at + 1, Len(list))
    <2>1. Len(list) \in Nat /\ at \in 1 .. Len(list) /\ at \in Int
      BY <1>2, IndexOfAgent, LenProperties
    <2>2. \A i \in 1 .. Len(list) : list[i] \in AgentRecords
      BY ElementOfSeq
    <2> HIDE DEF at
    <2>3. before \in Seq(AgentRecords) /\ Len(before) = at - 1
      <3>1. 1 \in Int /\ at - 1 \in Int /\ \A i \in 1 .. at - 1 : list[i] \in AgentRecords
        BY <2>1, <2>2
      <3> QED
        BY <2>1, <3>1, SubSeqProperties
    <2>4. behind \in Seq(AgentRecords) /\ Len(behind) = Len(list) - at
      <3>1. at + 1 \in Int /\ Len(list) \in Int
            /\ \A i \in at + 1 .. Len(list) : list[i] \in AgentRecords
        BY <2>1, <2>2
      <3> QED
        BY <2>1, <3>1, SubSeqProperties
    <2>5. Without(list, id) = before \o behind
      BY <1>2 DEF Without, RemoveAt, at
    <2> HIDE DEF before, behind
    <2> QED
      BY <2>1, <2>3, <2>4, <2>5, ConcatProperties
  <1> QED
    BY <1>1, <1>2

LEMMA HoldingIsAList ==
  ASSUME NEW list \in Seq(AgentRecords), NEW id, NEW c \in Conversations
  PROVE  /\ Holding(list, id, c) \in Seq(AgentRecords)
         /\ Len(Holding(list, id, c)) = Len(list)
         /\ DOMAIN Holding(list, id, c) = DOMAIN list
         /\ \A i \in DOMAIN list : Holding(list, id, c)[i].id = list[i].id
PROOF
  <1> DEFINE new == Holding(list, id, c)
  <1>1. Len(list) \in Nat /\ DOMAIN list = 1 .. Len(list)
        /\ \A i \in 1 .. Len(list) : list[i] \in AgentRecords
    BY LenProperties, ElementOfSeq
  <1>2. DOMAIN new = 1 .. Len(list)
        /\ \A i \in 1 .. Len(list) : new[i] \in AgentRecords /\ new[i].id = list[i].id
    BY <1>1 DEF Holding, AgentRecords
  <1>3. new = [i \in 1 .. Len(list) |-> new[i]]
    BY <1>1 DEF Holding
  <1> HIDE DEF new
  <1>4. new \in Seq(AgentRecords)
    BY <1>1, <1>2, <1>3
  <1>5. Len(new) = Len(list)
    BY <1>1, <1>2, <1>4, LenProperties
  <1> QED
    BY <1>1, <1>2, <1>4, <1>5 DEF new

LEMMA PutIsAList ==
  ASSUME NEW list \in Seq(Conversations), NEW c \in Conversations
  PROVE  Put(list, c) \in Seq(Conversations)
PROOF
  <1>1. Dropping(list, c) \in Seq(Conversations) /\ <<c>> \in Seq(Conversations)
    BY DroppingIsAList
  <1> QED
    BY <1>1, ConcatProperties DEF Put

-----------------------------------------------------------------------------
\* Chains of events

\* Without events the lists are the same.
LEMMA LeadsNowhere ==
  ASSUME NEW from, NEW to
  PROVE  Leads(from, <<>>, to) <=> from = to
PROOF
  <1>1. Len(<<>>) = 0
    OBVIOUS
  <1>2. ASSUME Leads(from, <<>>, to) PROVE from = to
    BY <1>1, <1>2 DEF Leads, LeadsBy
  <1>3. ASSUME from = to PROVE Leads(from, <<>>, to)
    <2> DEFINE h == [i \in {0} |-> from]
    <2>1. LeadsBy(h, from, <<>>, to)
      BY <1>1, <1>3 DEF LeadsBy
    <2> QED
      BY <2>1 DEF Leads
  <1> QED
    BY <1>2, <1>3

\* One more event leads one step further.
LEMMA LeadsOn ==
  ASSUME NEW from, NEW to, NEW events \in Seq(Events), NEW e \in Events,
         Leads(from, events, to)
  PROVE  Leads(from, Append(events, e), After(to, e))
PROOF
  <1> DEFINE more == Append(events, e)
             n == Len(events)
  <1>1. PICK h : LeadsBy(h, from, events, to)
    BY DEF Leads
  <1>2. n \in Nat /\ Len(more) = n + 1 /\ more[n + 1] = e /\ \A i \in 1 .. n : more[i] = events[i]
    BY AppendProperties, LenProperties
  <1> DEFINE g == [i \in 0 .. n + 1 |-> IF i <= n THEN h[i] ELSE After(to, e)]
  <1>3. g[0] = from /\ g[n + 1] = After(to, e) /\ \A i \in 0 .. n : g[i] = h[i]
    BY <1>1, <1>2 DEF LeadsBy
  <1>4. ASSUME NEW i \in 1 .. n + 1 PROVE g[i] = After(g[i - 1], more[i])
    <2> HIDE DEF g, more, n
    <2>1. CASE i \in 1 .. n
      <3>1. i - 1 \in 0 .. n /\ i \in 0 .. n
        BY <1>2, <2>1
      <3>2. h[i] = After(h[i - 1], events[i])
        BY <1>1, <2>1 DEF LeadsBy, n
      <3> QED
        BY <1>2, <1>3, <2>1, <3>1, <3>2
    <2>2. CASE i = n + 1
      <3>1. i - 1 = n /\ n \in 0 .. n
        BY <1>2, <2>2
      <3>2. h[n] = to
        BY <1>1 DEF LeadsBy, n
      <3> QED
        BY <1>2, <1>3, <2>2, <3>1, <3>2
    <2> QED
      BY <1>2, <2>1, <2>2
  <1> HIDE DEF g, more, n
  <1>5. LeadsBy(g, from, more, After(to, e))
    BY <1>2, <1>3, <1>4 DEF LeadsBy
  <1> QED
    BY <1>5 DEF Leads, more

\* The first event is a step of its own.
LEMMA LeadsNext ==
  ASSUME NEW from, NEW to, NEW events \in Seq(Events), events # <<>>,
         Leads(from, events, to)
  PROVE  Leads(After(from, Head(events)), Tail(events), to)
PROOF
  <1> DEFINE rest == Tail(events)
             n == Len(rest)
  <1>1. PICK h : LeadsBy(h, from, events, to)
    BY DEF Leads
  <1>2. n \in Nat /\ Len(events) = n + 1 /\ \A i \in 1 .. n : rest[i] = events[i + 1]
    BY HeadTailProperties, LenProperties
  <1> DEFINE g == [i \in 0 .. n |-> h[i + 1]]
  <1>3. g[0] = After(from, Head(events)) /\ g[n] = to
    BY <1>1, <1>2 DEF LeadsBy
  <1>4. ASSUME NEW i \in 1 .. n PROVE g[i] = After(g[i - 1], rest[i])
    <2>1. i + 1 \in 1 .. Len(events) /\ i + 1 - 1 = i /\ i - 1 + 1 = i
          /\ i \in 0 .. n /\ i - 1 \in 0 .. n
      BY <1>2
    <2>2. h[i + 1] = After(h[i], events[i + 1])
      BY <1>1, <2>1 DEF LeadsBy
    <2>3. g[i] = h[i + 1] /\ g[i - 1] = h[i]
      BY <1>2, <2>1
    <2> HIDE DEF g
    <2> QED
      BY <1>2, <2>2, <2>3
  <1> HIDE DEF g, rest
  <1>5. LeadsBy(g, After(from, Head(events)), rest, to)
    BY <1>2, <1>3, <1>4 DEF LeadsBy
  <1> QED
    BY <1>5 DEF Leads, rest

-----------------------------------------------------------------------------
\* The user

\* What the sequences of a state hold.
LEMMA Contents ==
  ASSUME TypeInv
  PROVE  /\ Len(agents) \in Nat /\ DOMAIN agents = 1 .. Len(agents)
         /\ \A i \in DOMAIN agents : agents[i] \in AgentRecords
         /\ Len(archived) \in Nat /\ DOMAIN archived = 1 .. Len(archived)
         /\ \A i \in DOMAIN archived : archived[i] \in Conversations
         /\ agents # <<>> => Len(agents) # 0
         /\ archived # <<>> => Len(archived) # 0
         /\ None \notin Conversations /\ 0 \notin Ids
PROOF
  <1>1. agents \in Seq(AgentRecords) /\ archived \in Seq(Conversations)
    BY DEF TypeInv, TypeOK
  <1>2. 0 \notin Ids /\ None \notin Conversations
    BY AppAssumption DEF Ids
  <1>3. /\ Len(agents) \in Nat /\ DOMAIN agents = 1 .. Len(agents)
        /\ \A i \in DOMAIN agents : agents[i] \in AgentRecords
    BY <1>1, LenProperties, ElementOfSeq
  <1>4. /\ Len(archived) \in Nat /\ DOMAIN archived = 1 .. Len(archived)
        /\ \A i \in DOMAIN archived : archived[i] \in Conversations
    BY <1>1, LenProperties, ElementOfSeq
  <1>5. (agents # <<>> => Len(agents) # 0) /\ (archived # <<>> => Len(archived) # 0)
    BY <1>1, EmptySeq
  <1> QED
    BY <1>2, <1>3, <1>4, <1>5

\* A request is put behind the others.
LEMMA RequestIsTold ==
  ASSUME TypeInv, NEW r \in Requests, Tell(r)
  PROVE  up' \in Seq(Requests) /\ Len(up') <= MaxRequests
PROOF
  <1>1. up \in Seq(Requests) /\ Len(up) < MaxRequests /\ up' = Append(up, r)
    BY DEF Tell, TypeInv
  <1>2. up' \in Seq(Requests) /\ Len(up') = Len(up) + 1 /\ Len(up) \in Nat
    BY <1>1, AppendProperties, LenProperties
  <1> QED
    BY <1>1, <1>2, AppAssumption

\* The part of a step that only opens and closes pages.
LEMMA PageStep ==
  ASSUME ClientInv, Alive, UNCHANGED <<client, exit, session, up, down, link, lost>>,
         mode' \in Modes \ Dialogs, shown' = Nothing,
         hunk' = hunk \/ hunk' = Hide(hunk), 
         hunk' = "shown" => mode' \in Reviews
  PROVE  ClientInv'
PROOF
  <1> USE DEF ClientInv
  <1>1. TypeInv'
    BY DEF link, TypeInv, TypeOK, client, Nothing, Hide, None
  <1>2. EndedIsEmpty' /\ WaitingInDialog'
    BY DEF link, Alive, EndedIsEmpty, WaitingInDialog
  <1>3. ConfirmationsKeepTheirSubject'
    BY DEF ConfirmationsKeepTheirSubject, Dialogs
  <1>4. ReviewIsShown'
    BY DEF ReviewIsShown
  <1> QED
    BY <1>1, <1>2, <1>3, <1>4

LEMMA PagesKeep ==
  ASSUME ClientInv,
         \/ Press \/ PlainCommand \/ LeavePage \/ ClickNotification
         \/ \E m \in {"Menu", "Usage", "NewAgent", "Settings", "Keybinds", "ConfirmQuit"} :
              OpenPage(m) \/ ActivateMenuItem(m)
  PROVE  ClientInv' /\ UNCHANGED <<agents, archived, exit, session, down, deaf, lost>>
PROOF
  <1> USE DEF Alive, Commanded, Goto, Ask, Quiet, client, ChromeModes, Modes, Dialogs, Reviews
  <1> DEFINE Opened == mode' \in Modes \ Dialogs /\ shown' = Nothing
             Plain == UNCHANGED <<client, exit, session, up, down, link, lost>>
             Covered == mode \notin Reviews /\ hunk' = hunk
  <1>1. ClientInv => (exit = None /\ hunk = "shown" => mode \in Reviews)
    BY DEF ClientInv, ReviewIsShown
  <1>2. CASE Press
    <2>1. Opened /\ Plain /\ Covered /\ Alive
      BY <1>2 DEF Press
    <2> QED
      BY <1>1, <2>1, PageStep DEF link
  <1>3. CASE PlainCommand
    <2>1. Opened /\ Plain /\ Covered /\ Alive
      BY <1>3 DEF PlainCommand
    <2> QED
      BY <1>1, <2>1, PageStep DEF link
  <1>4. CASE LeavePage
    <2>1. Opened /\ Plain /\ Covered /\ Alive
      BY <1>4 DEF LeavePage
    <2> QED
      BY <1>1, <2>1, PageStep DEF link
  <1>5. CASE ClickNotification
    <2>1. Opened /\ Plain /\ Alive /\ hunk' = Hide(hunk) /\ hunk' # "shown"
      BY <1>5 DEF ClickNotification, Hide
    <2> QED
      BY <2>1, PageStep DEF link
  <1>6. ASSUME NEW m \in {"Menu", "Usage", "NewAgent", "Settings", "Keybinds", "ConfirmQuit"},
               OpenPage(m)
        PROVE  ClientInv' /\ UNCHANGED <<agents, archived, exit, session, down, deaf, lost>>
    <2>1. Opened /\ Plain /\ Covered /\ Alive
      BY <1>6 DEF OpenPage
    <2> QED
      BY <1>1, <2>1, PageStep DEF link
  <1>7. ASSUME NEW m \in {"Menu", "Usage", "NewAgent", "Settings", "Keybinds", "ConfirmQuit"},
               ActivateMenuItem(m)
        PROVE  ClientInv' /\ UNCHANGED <<agents, archived, exit, session, down, deaf, lost>>
    <2>1. Opened /\ Plain /\ Covered /\ Alive
      BY <1>7 DEF ActivateMenuItem
    <2> QED
      BY <1>1, <2>1, PageStep DEF link
  <1> QED
    BY <1>2, <1>3, <1>4, <1>5, <1>6, <1>7

\* The part of a step that selects, or opens or answers a prompt.
LEMMA PromptStep ==
  ASSUME ClientInv, Alive, UNCHANGED <<agents, archived>>, Quiet,
         selected' \in (IF agents = <<>> THEN {0} ELSE DOMAIN agents),
         pending_resume' \in Conversations \cup {None}, archive_target' \in {0} \cup Ids,
         shown' \in [agent: {0} \cup Ids, conv: {None} \cup Conversations],
         up' \in Seq(Requests), Len(up') <= MaxRequests,
         mode \notin Reviews, mode' \in Modes \ Reviews, ConfirmationsKeepTheirSubject'
  PROVE  ClientInv' /\ UNCHANGED <<agents, archived, exit, session, down, deaf, lost>>
PROOF
  <1> USE DEF ClientInv, Quiet
  <1>1. TypeInv'
    BY DEF link, TypeInv, TypeOK
  <1>2. EndedIsEmpty' /\ WaitingInDialog'
    BY DEF link, Alive, EndedIsEmpty, WaitingInDialog
  <1>3. ReviewIsShown'
    BY DEF Alive, ReviewIsShown
  <1> QED
    BY <1>1, <1>2, <1>3 DEF link

\* The same for a prompt about an agent.
LEMMA AboutAgent ==
  ASSUME TypeInv, NEW i \in DOMAIN agents
  PROVE  /\ agents[i] \in AgentRecords /\ agents[i].id \in Ids
         /\ agents[i].conv \in Conversations \cup {None}
         /\ AgentNamed(agents[i].id) \in [agent: {0} \cup Ids, conv: {None} \cup Conversations]
         /\ AgentNamed(agents[i].id) # Nothing
PROOF
  BY Contents DEF AgentNamed, AgentRecords, Nothing

LEMMA AboutConversation ==
  ASSUME TypeInv, NEW i \in DOMAIN archived
  PROVE  /\ archived[i] \in Conversations
         /\ ConversationNamed(archived[i])
              \in [agent: {0} \cup Ids, conv: {None} \cup Conversations]
         /\ ConversationNamed(archived[i]) # Nothing
PROOF
  BY Contents DEF ConversationNamed, Nothing

\* The selected one is an agent if there are any.
LEMMA SelectedIsAnAgent ==
  ASSUME TypeInv, agents # <<>>
  PROVE  selected \in DOMAIN agents
PROOF
  BY DEF TypeInv, TypeOK

LEMMA NothingIsAsked ==
  Nothing \in [agent: {0} \cup Ids, conv: {None} \cup Conversations]
PROOF
  BY DEF Nothing

\* The prompt for a conversation to resume, whichever it is.
LEMMA ResumeIsAsked ==
  ASSUME ClientInv, Alive, Quiet, mode \notin Reviews,
         NEW i \in DOMAIN archived, RequestResume(i)
  PROVE  ClientInv' /\ UNCHANGED <<agents, archived, exit, session, down, deaf, lost>>
PROOF
  <1>1. TypeInv
    BY DEF ClientInv
  <1>2. /\ archived[i] \in Conversations /\ pending_resume' = archived[i]
        /\ mode' = "ConfirmResume" /\ shown' = ConversationNamed(archived[i])
        /\ UNCHANGED <<agents, archived, selected, archive_target, up>>
    BY <1>1, AboutConversation DEF RequestResume, Ask
  <1>3. ConfirmationsKeepTheirSubject'
    <2>1. shown'.conv = pending_resume' /\ shown' # Nothing
      BY <1>1, <1>2, AboutConversation DEF ConversationNamed
    <2>2. Nothing' = Nothing
      BY DEF Nothing
    <2> QED
      BY <1>2, <2>1, <2>2 DEF ConfirmationsKeepTheirSubject
  <1>4. mode' \in Modes \ Reviews
    BY <1>2 DEF Modes, Dialogs, Reviews
  <1> QED
    BY <1>1, <1>2, <1>3, <1>4, AboutConversation, PromptStep DEF TypeInv, TypeOK

LEMMA SelectingKeeps ==
  ASSUME ClientInv,
         \/ \E forward \in BOOLEAN : Cycle(forward)
         \/ \E i \in 1..(Len(agents) + Len(archived)) : SelectSidebarIndex(i)
  PROVE  ClientInv' /\ UNCHANGED <<agents, archived, exit, session, down, deaf, lost>>
PROOF
  <1>1. TypeInv
    BY DEF ClientInv
  <1>2. ASSUME NEW i \in DOMAIN agents, Alive, SelectIndex(i), Goto("Terminal"), Quiet,
               mode \notin Reviews, UNCHANGED <<agents, archived, pending_resume, archive_target>>
        PROVE  ClientInv' /\ UNCHANGED <<agents, archived, exit, session, down, deaf, lost>>
    <2>1. [type |-> "select", id |-> agents[i].id] \in Requests
      BY <1>1, AboutAgent DEF Requests
    <2>2. up' \in Seq(Requests) /\ Len(up') <= MaxRequests
      BY <1>1, <1>2, <2>1, RequestIsTold DEF SelectIndex
    <2>3. selected' \in DOMAIN agents /\ agents # <<>>
      BY <1>1, <1>2, Contents DEF SelectIndex
    <2>4. mode' = "Terminal" /\ shown' = Nothing
      BY <1>2 DEF Goto, Ask
    <2>5. ConfirmationsKeepTheirSubject'
      BY <2>4 DEF ConfirmationsKeepTheirSubject, Dialogs
    <2> QED
      BY <1>1, <1>2, <2>2, <2>3, <2>4, <2>5, PromptStep, NothingIsAsked
        DEF TypeInv, TypeOK, Modes, Reviews
  <1>3. ASSUME NEW forward \in BOOLEAN, Cycle(forward)
        PROVE  ClientInv' /\ UNCHANGED <<agents, archived, exit, session, down, deaf, lost>>
    <2>1. /\ Alive /\ Goto("Terminal") /\ Quiet /\ mode \notin Reviews
          /\ UNCHANGED <<agents, archived, pending_resume, archive_target>>
      BY <1>3 DEF Cycle, Commanded, Reviews
    <2>2. CASE agents = <<>>
      <3>1. UNCHANGED <<selected, up>>
        BY <1>3, <2>2 DEF Cycle
      <3>2. mode' = "Terminal" /\ shown' = Nothing
        BY <2>1 DEF Goto, Ask
      <3>3. ConfirmationsKeepTheirSubject'
        BY <3>2 DEF ConfirmationsKeepTheirSubject, Dialogs
      <3> QED
        BY <1>1, <2>1, <2>2, <3>1, <3>2, <3>3, PromptStep, NothingIsAsked
          DEF TypeInv, TypeOK, Modes, Reviews
    <2>3. CASE agents # <<>>
      <3> DEFINE i == IF forward THEN (selected % Len(agents)) + 1
                      ELSE IF selected = 1 THEN Len(agents) ELSE selected - 1
      <3>1. SelectIndex(i)
        BY <1>3, <2>3 DEF Cycle
      <3>2. i \in DOMAIN agents
        <4>1. selected \in 1 .. Len(agents) /\ Len(agents) \in Nat \ {0}
          BY <1>1, <2>3, SelectedIsAnAgent, Contents
        <4>2. selected % Len(agents) \in 0 .. (Len(agents) - 1)
          BY <4>1
        <4> QED
          BY <1>1, <4>1, <4>2, Contents
      <3> HIDE DEF i
      <3> QED
        BY <1>2, <2>1, <3>1, <3>2
    <2> QED
      BY <2>2, <2>3
  <1>4. ASSUME NEW i \in 1..(Len(agents) + Len(archived)), SelectSidebarIndex(i)
        PROVE  ClientInv' /\ UNCHANGED <<agents, archived, exit, session, down, deaf, lost>>
    <2>1. Alive /\ Quiet /\ mode \notin Reviews
      BY <1>4 DEF SelectSidebarIndex, Commanded, Reviews
    <2>2. CASE /\ i \in DOMAIN agents /\ SelectIndex(i) /\ Goto("Terminal")
               /\ UNCHANGED <<agents, archived, pending_resume, archive_target>>
      BY <1>2, <2>1, <2>2
    <2>3. CASE i - Len(agents) \in DOMAIN archived /\ RequestResume(i - Len(agents))
      BY <1>1, <2>1, <2>3, ResumeIsAsked
    <2> QED
      BY <1>4, <2>2, <2>3 DEF SelectSidebarIndex
  <1> QED
    BY <1>3, <1>4

\* A prompt that is answered or left, and asks about nothing any longer.
LEMMA PromptIsLeft ==
  ASSUME ClientInv, Alive, UNCHANGED <<agents, archived, selected>>, Quiet, mode \notin Reviews,
         pending_resume' \in {None, pending_resume}, archive_target' \in {0, archive_target},
         up' = up \/ \E r \in Requests : Tell(r), Goto("Terminal")
  PROVE  ClientInv' /\ UNCHANGED <<agents, archived, exit, session, down, deaf, lost>>
PROOF
  <1>1. TypeInv
    BY DEF ClientInv
  <1>2. mode' = "Terminal" /\ shown' = Nothing
    BY DEF Goto, Ask
  <1>3. ConfirmationsKeepTheirSubject' /\ mode' \in Modes \ Reviews
    BY <1>2 DEF ConfirmationsKeepTheirSubject, Dialogs, Modes, Reviews
  <1>4. up' \in Seq(Requests) /\ Len(up') <= MaxRequests
    BY <1>1, RequestIsTold DEF TypeInv, TypeOK
  <1> QED
    BY <1>1, <1>2, <1>3, <1>4, PromptStep, NothingIsAsked DEF TypeInv, TypeOK

LEMMA PromptsKeep ==
  ASSUME ClientInv,
         \/ AskClose \/ CloseSelected \/ ArchiveTarget
         \/ \E i \in DOMAIN agents : RequestArchive(i)
         \/ AskResume \/ ResumePending \/ CancelConfirmation
         \/ \E forward \in BOOLEAN : CyclePendingArchive(forward)
  PROVE  ClientInv' /\ UNCHANGED <<agents, archived, exit, session, down, deaf, lost>>
PROOF
  <1>1. TypeInv /\ (Alive => exit = None)
    BY DEF ClientInv, Alive
  <1>2. CASE AskClose
    <2>1. /\ Alive /\ agents # <<>> /\ UNCHANGED <<client, up>> /\ Quiet /\ mode \notin Reviews
          /\ mode' = "ConfirmClose" /\ shown' = AgentNamed(SelectedAgent)
      BY <1>2 DEF AskClose, Ask, Commanded, Reviews
    <2>2. selected \in DOMAIN agents /\ SelectedAgent' = SelectedAgent
      BY <1>1, <2>1, SelectedIsAnAgent DEF client, SelectedAgent
    <2>3. ConfirmationsKeepTheirSubject'
      <3>1. shown'.agent = SelectedAgent /\ shown' # Nothing /\ Nothing' = Nothing
        BY <1>1, <2>1, <2>2, AboutAgent DEF AgentNamed, SelectedAgent, Nothing
      <3> QED
        BY <2>1, <2>2, <3>1 DEF ConfirmationsKeepTheirSubject, client
    <2>4. shown' \in [agent: {0} \cup Ids, conv: {None} \cup Conversations]
          /\ mode' \in Modes \ Reviews
      BY <1>1, <2>1, <2>2, AboutAgent DEF SelectedAgent, Modes, Dialogs, Reviews
    <2> QED
      BY <1>1, <2>1, <2>3, <2>4, PromptStep DEF TypeInv, TypeOK, client
  <1>3. CASE CloseSelected
    <2>1. /\ Alive /\ Tell([type |-> "close", id |-> SelectedAgent]) /\ Goto("Terminal")
          /\ UNCHANGED client /\ Quiet /\ mode \notin Reviews
      BY <1>3 DEF CloseSelected, Reviews
    <2>2. agents # <<>>
      BY <1>1, <1>3 DEF CloseSelected, ClientInv, ConfirmationsKeepTheirSubject
    <2>3. [type |-> "close", id |-> SelectedAgent] \in Requests
      BY <1>1, <2>2, SelectedIsAnAgent, AboutAgent DEF SelectedAgent, Requests
    <2> QED
      BY <2>1, <2>3, PromptIsLeft DEF client
  <1>4. CASE ArchiveTarget
    <2>1. [type |-> "archive", id |-> archive_target] \in Requests
      BY <1>1 DEF TypeInv, TypeOK, Requests
    <2>2. /\ Alive /\ Tell([type |-> "archive", id |-> archive_target]) /\ Goto("Terminal")
          /\ archive_target' = 0 /\ mode \notin Reviews
          /\ UNCHANGED <<agents, archived, selected, pending_resume>> /\ Quiet
      BY <1>4 DEF ArchiveTarget, Reviews
    <2> QED
      BY <2>1, <2>2, PromptIsLeft
  <1>5. ASSUME NEW i \in DOMAIN agents, RequestArchive(i)
        PROVE  ClientInv' /\ UNCHANGED <<agents, archived, exit, session, down, deaf, lost>>
    <2>1. Alive /\ UNCHANGED <<agents, archived, selected, pending_resume>> /\ Quiet
          /\ mode \notin Reviews
      BY <1>5 DEF RequestArchive, Commanded, Reviews
    <2>2. CASE /\ archive_target' = agents[i].id /\ UNCHANGED up
               /\ \E m \in {"ArchiveUnavailable", "ConfirmArchive"} : Ask(m, AgentNamed(agents[i].id))
      <3>1. /\ mode' \in {"ArchiveUnavailable", "ConfirmArchive"}
            /\ shown' = AgentNamed(agents[i].id)
        BY <2>2 DEF Ask
      <3>2. ConfirmationsKeepTheirSubject'
        <4>1. shown'.agent = archive_target' /\ shown' # Nothing /\ Nothing' = Nothing
          BY <1>1, <2>2, <3>1, AboutAgent DEF AgentNamed, Nothing
        <4> QED
          BY <3>1, <4>1 DEF ConfirmationsKeepTheirSubject
      <3>3. mode' \in Modes \ Reviews
        BY <3>1 DEF Modes, Dialogs, Reviews
      <3> QED
        BY <1>1, <2>1, <2>2, <3>1, <3>2, <3>3, AboutAgent, PromptStep DEF TypeInv, TypeOK
    <2>3. CASE /\ archive_target' = 0 /\ Goto("Terminal")
               /\ Tell([type |-> "archive", id |-> agents[i].id])
      <3>1. [type |-> "archive", id |-> agents[i].id] \in Requests
        BY <1>1, AboutAgent DEF Requests
      <3> QED
        BY <2>1, <2>3, <3>1, PromptIsLeft
    <2> QED
      BY <1>5, <2>2, <2>3 DEF RequestArchive
  <1>6. CASE AskResume
    <2>1. Alive /\ archived # <<>> /\ RequestResume(1) /\ Quiet /\ mode \notin Reviews
      BY <1>6 DEF AskResume, Commanded, Reviews
    <2>2. 1 \in DOMAIN archived
      BY <1>1, <2>1, Contents
    <2> QED
      BY <2>1, <2>2, ResumeIsAsked
  <1>7. CASE ResumePending
    <2>1. [type |-> "resume", conv |-> pending_resume] \in Requests
      BY <1>1 DEF TypeInv, TypeOK, Requests
    <2>2. /\ Alive /\ Tell([type |-> "resume", conv |-> pending_resume]) /\ Goto("Terminal")
          /\ pending_resume' = None /\ archive_target' = 0 /\ mode \notin Reviews
          /\ UNCHANGED <<agents, archived, selected>> /\ Quiet
      BY <1>7 DEF ResumePending, Reviews
    <2> QED
      BY <2>1, <2>2, PromptIsLeft
  <1>8. CASE CancelConfirmation
    <2>1. /\ Alive /\ Goto("Terminal") /\ mode \notin Reviews
          /\ pending_resume' \in {None, pending_resume} /\ archive_target' = 0
          /\ UNCHANGED <<agents, archived, selected, up>> /\ Quiet
      BY <1>8 DEF CancelConfirmation, Reviews
    <2> QED
      BY <2>1, PromptIsLeft
  <1>9. ASSUME NEW forward \in BOOLEAN, CyclePendingArchive(forward)
        PROVE  ClientInv' /\ UNCHANGED <<agents, archived, exit, session, down, deaf, lost>>
    <2>1. /\ Alive /\ mode = "ConfirmResume" /\ archived # <<>> /\ Quiet
          /\ UNCHANGED <<agents, archived, selected, archive_target, up>>
      BY <1>9 DEF CyclePendingArchive
    <2>2. \E i \in DOMAIN archived : RequestResume(i)
      <3> DEFINE at == IF pending_resume \in Range(archived)
                       THEN CHOOSE i \in DOMAIN archived : archived[i] = pending_resume ELSE 1
                 i == IF forward THEN (at % Len(archived)) + 1
                      ELSE IF at = 1 THEN Len(archived) ELSE at - 1
      <3>1. Len(archived) \in Nat \ {0} /\ DOMAIN archived = 1 .. Len(archived)
        BY <1>1, <2>1, Contents
      <3>2. at \in 1 .. Len(archived)
        BY <3>1 DEF Range
      <3>3. pending_resume' = archived[i] /\ Ask(mode, ConversationNamed(archived[i]))
        BY <1>9 DEF CyclePendingArchive
      <3> HIDE DEF at
      <3>4. i \in 1 .. Len(archived)
        <4>1. at % Len(archived) \in 0 .. (Len(archived) - 1)
          BY <3>1, <3>2
        <4> QED
          BY <3>1, <3>2, <4>1
      <3> HIDE DEF i
      <3> QED
        BY <2>1, <3>1, <3>3, <3>4 DEF RequestResume
    <2>3. mode \notin Reviews
      BY <2>1 DEF Reviews
    <2> QED
      BY <2>1, <2>2, <2>3, ResumeIsAsked
  <1> QED
    BY <1>2, <1>3, <1>4, <1>5, <1>6, <1>7, <1>8, <1>9

\* The review, and the submission of the dialog.
LEMMA ReviewsKeep ==
  ASSUME ClientInv, OpenReview \/ ReviewKeys \/ FinishReview \/ SubmitSpawn
  PROVE  ClientInv' /\ UNCHANGED <<agents, archived, exit, session, down, deaf, lost>>
PROOF
  <1>1. TypeInv
    BY DEF ClientInv
  <1>2. CASE OpenReview
    <2>1. /\ Alive /\ UNCHANGED <<client, exit, session, up, down, link, lost>>
          /\ shown' = Nothing /\ hunk = "none"
          /\ (mode' = "Terminal" /\ hunk' = hunk) \/ (mode' = "Review" /\ hunk' = "shown")
      BY <1>2 DEF OpenReview, Goto, Ask
    <2>2. TypeInv'
      BY <1>1, <2>1, NothingIsAsked DEF link, TypeInv, TypeOK, client, Modes, Reviews
    <2>3. /\ EndedIsEmpty' /\ WaitingInDialog' /\ ConfirmationsKeepTheirSubject' /\ ReviewIsShown'
      BY <2>1 DEF link, Alive, EndedIsEmpty, WaitingInDialog, ConfirmationsKeepTheirSubject,
                  ReviewIsShown, Dialogs, Reviews
    <2> QED
      BY <2>1, <2>2, <2>3 DEF link, ClientInv, client
  <1>3. CASE ReviewKeys
    <2>1. /\ Alive /\ UNCHANGED <<client, hunk, exit, session, up, down, link, history>>
          /\ mode' \in Reviews
      BY <1>3 DEF ReviewKeys, Reviews
    <2>2. TypeInv'
      BY <1>1, <2>1 DEF link, TypeInv, TypeOK, client, history, Modes, Reviews
    <2>3. /\ EndedIsEmpty' /\ WaitingInDialog' /\ ConfirmationsKeepTheirSubject' /\ ReviewIsShown'
      BY <2>1 DEF link, Alive, EndedIsEmpty, WaitingInDialog, ConfirmationsKeepTheirSubject,
                  ReviewIsShown, Dialogs, Reviews
    <2> QED
      BY <2>1, <2>2, <2>3 DEF link, ClientInv, client, history
  <1>4. CASE FinishReview
    <2>1. /\ Alive /\ UNCHANGED <<client, exit, session, up, down, link, lost>>
          /\ shown' = Nothing /\ mode' = "Terminal" /\ hunk' = "none"
      BY <1>4 DEF FinishReview, Goto, Ask
    <2>2. TypeInv'
      BY <1>1, <2>1, NothingIsAsked DEF link, TypeInv, TypeOK, client, Modes, Reviews
    <2>3. /\ EndedIsEmpty' /\ WaitingInDialog' /\ ConfirmationsKeepTheirSubject' /\ ReviewIsShown'
      BY <2>1 DEF link, Alive, EndedIsEmpty, WaitingInDialog, ConfirmationsKeepTheirSubject,
                  ReviewIsShown, Dialogs, Reviews
    <2> QED
      BY <2>1, <2>2, <2>3 DEF link, ClientInv, client
  <1>5. CASE SubmitSpawn
    <2>1. /\ Alive /\ mode = "NewAgent" /\ Tell([type |-> "spawn"]) /\ waiting' = TRUE
          /\ UNCHANGED <<client, mode, hunk, exit, session, down, deaf, history>>
      BY <1>5 DEF SubmitSpawn
    <2>2. TypeInv'
      <3>1. [type |-> "spawn"] \in Requests
        BY DEF Requests
      <3>2. up' \in Seq(Requests) /\ Len(up') <= MaxRequests
        BY <1>1, <2>1, <3>1, RequestIsTold
      <3> QED
        BY <1>1, <2>1, <3>2 DEF TypeInv, TypeOK, client, history
    <2>3. /\ EndedIsEmpty' /\ WaitingInDialog'
      BY <2>1 DEF Alive, EndedIsEmpty, WaitingInDialog
    <2>4. ConfirmationsKeepTheirSubject' /\ ReviewIsShown'
      BY <2>1 DEF ClientInv, Alive, ConfirmationsKeepTheirSubject,
                  ReviewIsShown, Dialogs, Reviews, client, history
    <2> QED
      BY <2>1, <2>2, <2>3, <2>4 DEF ClientInv, client, history
  <1> QED
    BY <1>2, <1>3, <1>4, <1>5

-----------------------------------------------------------------------------
\* Ends and beginnings of a client

\* A client that ends leaves the session alone.
LEMMA ClientIsGone ==
  ASSUME ClientInv, exit' \in {"detach", "stop", "failed"}, ClientEnds, UNCHANGED <<session, up>>
  PROVE  IInv'
PROOF
  <1>1. /\ agents' = <<>> /\ archived' = <<>> /\ selected' = 0
        /\ mode' = "Terminal" /\ shown' = Nothing
        /\ pending_resume' = None /\ archive_target' = 0 /\ hunk' = "none"
        /\ down' = <<>> /\ waiting' = FALSE /\ deaf' = FALSE /\ lost' = FALSE
    BY DEF ClientEnds, Goto, Ask
  <1>2. TypeInv'
    <2>1. /\ agents' \in Seq(AgentRecords) /\ archived' \in Seq(Conversations)
          /\ down' \in Seq(Events) /\ Len(down') = 0
      BY <1>1, EmptySeq
    <2>2. shown' \in [agent: {0} \cup Ids, conv: {None} \cup Conversations]
      BY <1>1, NothingIsAsked
    <2>3. /\ selected' \in (IF agents' = <<>> THEN {0} ELSE DOMAIN agents')
          /\ mode' \in Modes /\ exit' \in {None, "detach", "stop", "failed"}
      BY <1>1 DEF Modes
    <2>4. Len(up') <= MaxRequests /\ Len(down') <= MaxEvents
      BY <2>1, AppAssumption DEF ClientInv, TypeInv, TypeOK
    <2> QED
      BY <1>1, <2>1, <2>2, <2>3, <2>4 DEF ClientInv, TypeInv, TypeOK
  <1>3. exit' # None
    BY DEF None
  <1> QED
    BY <1>1, <1>2, <1>3
      DEF IInv, ClientInv, EndedIsEmpty, WaitingInDialog, ConfirmationsKeepTheirSubject,
          ReviewIsShown, EventsLeadToTheSession

\* Another client begins with the lists of the session.
LEMMA HydrateStep ==
  ASSUME IInv, Hydrate PROVE IInv'
PROOF
  <1>1. ClientInv /\ TypeInv
    BY DEF IInv, ClientInv
  <1>2. /\ exit # None /\ exit' = None /\ up' = <<>>
        /\ agents' = session.agents /\ archived' = session.archived
        /\ selected' = IF HasAgent(session.agents, session.selected)
                       THEN IndexOf(session.agents, session.selected)
                       ELSE Smaller(1, Len(session.agents))
        /\ UNCHANGED <<mode, pending_resume, archive_target, hunk, session, down, link, history>>
    BY DEF Hydrate, None
  <1>3. down = <<>> /\ mode = "Terminal" /\ hunk = "none" /\ ~waiting /\ ~deaf /\ ~lost
    BY <1>1, <1>2 DEF ClientInv, EndedIsEmpty
  <1>4. selected' \in (IF agents' = <<>> THEN {0} ELSE DOMAIN agents')
    <2>1. /\ session.agents \in Seq(AgentRecords) /\ Len(session.agents) \in Nat
          /\ DOMAIN session.agents = 1 .. Len(session.agents)
          /\ session.agents # <<>> => Len(session.agents) # 0
          /\ session.agents = <<>> => Len(session.agents) = 0
      BY <1>1, LenProperties, EmptySeq DEF TypeInv, Sessions
    <2>2. CASE HasAgent(session.agents, session.selected)
      BY <1>2, <2>1, <2>2, IndexOfAgent
    <2>3. CASE ~HasAgent(session.agents, session.selected)
      BY <1>2, <2>1, <2>3 DEF Smaller
    <2> QED
      BY <2>2, <2>3
  <1>5. TypeInv'
    <2>1. up' \in Seq(Requests) /\ Len(up') <= MaxRequests
      BY <1>2, EmptySeq, AppAssumption
    <2>2. agents' \in Seq(AgentRecords) /\ archived' \in Seq(Conversations)
      BY <1>1, <1>2 DEF TypeInv, Sessions
    <2> QED
      BY <1>1, <1>2, <1>4, <2>1, <2>2 DEF link, TypeInv, TypeOK, history
  <1>6. Lists(agents, archived)' = Lists(session.agents, session.archived)'
    BY <1>2 DEF Lists
  <1>7. EventsLeadToTheSession'
    BY <1>2, <1>3, <1>6, LeadsNowhere DEF EventsLeadToTheSession
  <1> QED
    BY <1>1, <1>2, <1>3, <1>5, <1>7
      DEF link, IInv, ClientInv, EndedIsEmpty, WaitingInDialog, ConfirmationsKeepTheirSubject,
          ReviewIsShown, Dialogs

\* What the user does but for leaving changes no list and no session.
LEMMA UserStep ==
  ASSUME IInv, User PROVE IInv'
PROOF
  <1>1. ClientInv
    BY DEF IInv
  <1>2. CASE Leave
    <2>1. exit' \in {"detach", "stop"} /\ ClientEnds /\ UNCHANGED <<session, up>>
      BY <1>2 DEF Leave
    <2> QED
      BY <1>1, <2>1, ClientIsGone
  <1>3. CASE ~Leave
    <2>1. ClientInv' /\ UNCHANGED <<agents, archived, exit, session, down, deaf, lost>>
      BY <1>1, <1>3, PagesKeep, SelectingKeeps, PromptsKeep, ReviewsKeep DEF User
    <2> QED
      BY <2>1 DEF IInv, EventsLeadToTheSession
  <1> QED
    BY <1>2, <1>3

-----------------------------------------------------------------------------
\* Events that arrive

\* An agent that came or went takes the mode; other events leave the list's identifiers.
Interrupted == mode' = "Terminal" /\ shown' = Nothing /\ hunk' = Hide(hunk)
Undisturbed ==
  /\ UNCHANGED <<selected, mode, pending_resume, shown, hunk>>
  /\ DOMAIN agents' = DOMAIN agents /\ \A i \in DOMAIN agents : agents'[i].id = agents[i].id

\* The selection after an agent was added.
LEMMA AgentIsAdded ==
  ASSUME TypeInv, NEW agent \in AgentRecords, AddRemoteAgent(agent)
  PROVE  /\ agents' = Append(agents, agent) /\ agents' \in Seq(AgentRecords)
         /\ selected' \in (IF agents' = <<>> THEN {0} ELSE DOMAIN agents')
         /\ Interrupted
PROOF
  <1>1. agents \in Seq(AgentRecords) /\ agents' = Append(agents, agent)
        /\ selected' = Len(agents) + 1
    BY DEF TypeInv, TypeOK, AddRemoteAgent
  <1>2. /\ agents' \in Seq(AgentRecords) /\ agents' # <<>> /\ Len(agents') = Len(agents) + 1
        /\ Len(agents) \in Nat
    BY <1>1, AppendProperties, LenProperties
  <1>3. DOMAIN agents' = 1 .. Len(agents')
    BY <1>2, LenProperties
  <1> QED
    BY <1>1, <1>2, <1>3 DEF AddRemoteAgent, Interrupt, Interrupted, Goto, Ask

\* The selection after an agent was removed, if it was there.
LEMMA AgentIsRemoved ==
  ASSUME TypeInv, NEW id, RemoveAgent(id)
  PROVE  /\ agents' = Without(agents, id) /\ agents' \in Seq(AgentRecords)
         /\ selected' \in (IF agents' = <<>> THEN {0} ELSE DOMAIN agents')
         /\ Interrupted \/ UNCHANGED <<agents, selected, mode, shown, hunk>>
PROOF
  <1>1. agents \in Seq(AgentRecords)
    BY DEF TypeInv, TypeOK
  <1>2. CASE ~HasAgent(agents, id)
    BY <1>1, <1>2 DEF RemoveAgent, Without, TypeInv, TypeOK
  <1>3. CASE HasAgent(agents, id)
    <2>1. agents' = Without(agents, id) /\ selected' = Selecting(Len(agents) - 1) /\ Interrupt
      BY <1>3 DEF RemoveAgent
    <2>2. agents' \in Seq(AgentRecords) /\ Len(agents') = Len(agents) - 1
      BY <1>1, <1>3, <2>1, WithoutIsAList
    <2>3. /\ DOMAIN agents' = 1 .. Len(agents') /\ Len(agents') \in Nat
          /\ agents' # <<>> => Len(agents') # 0
          /\ agents' = <<>> => Len(agents') = 0
      BY <2>2, LenProperties, EmptySeq
    <2>4. selected \in 1 .. Len(agents) /\ Len(agents) \in Nat
      <3>1. agents # <<>>
        BY <1>3 DEF HasAgent
      <3> QED
        BY <3>1, SelectedIsAnAgent, Contents
    <2>5. selected' \in (IF agents' = <<>> THEN {0} ELSE DOMAIN agents')
      BY <2>1, <2>2, <2>3, <2>4 DEF Selecting, Smaller
    <2> QED
      BY <2>1, <2>2, <2>5 DEF Interrupt, Interrupted, Goto, Ask
  <1> QED
    BY <1>2, <1>3

\* A selected index stays one.
LEMMA HoldingKeepsSelection ==
  ASSUME TypeInv, NEW id, NEW c \in Conversations
  PROVE  selected \in (IF Holding(agents, id, c) = <<>> THEN {0} ELSE DOMAIN Holding(agents, id, c))
PROOF
  <1> DEFINE new == Holding(agents, id, c)
  <1>1. agents \in Seq(AgentRecords)
    BY DEF TypeInv, TypeOK
  <1>2. new \in Seq(AgentRecords) /\ Len(new) = Len(agents) /\ DOMAIN new = DOMAIN agents
    BY <1>1, HoldingIsAList
  <1> HIDE DEF new
  <1>3. new = <<>> <=> agents = <<>>
    <2>1. (new # <<>> => Len(new) # 0) /\ (agents # <<>> => Len(agents) # 0) /\ Len(<<>>) = 0
      BY <1>1, <1>2, EmptySeq
    <2> QED
      BY <1>2, <2>1
  <1> QED
    BY <1>2, <1>3 DEF TypeInv, TypeOK, new

\* What an event does to the lists, and what else it may change.
LEMMA EventIsApplied ==
  ASSUME TypeInv, NEW e \in Events, ApplyRemoteUpdate(e)
  PROVE  /\ Lists(agents', archived') = After(Lists(agents, archived), e)
         /\ agents' \in Seq(AgentRecords) /\ archived' \in Seq(Conversations)
         /\ selected' \in (IF agents' = <<>> THEN {0} ELSE DOMAIN agents')
         /\ pending_resume' \in {None, pending_resume}
         /\ Interrupted \/ Undisturbed
PROOF
  <1>1. agents \in Seq(AgentRecords) /\ archived \in Seq(Conversations)
    BY DEF TypeInv, TypeOK
  <1>2. CASE e.type = "added"
    <2>1. AddRemoteAgent(e.agent) /\ UNCHANGED <<archived, pending_resume>> /\ e.agent \in AgentRecords
      BY <1>2 DEF ApplyRemoteUpdate, Events
    <2> QED
      BY <1>1, <1>2, <2>1, AgentIsAdded DEF After, Lists
  <1>3. CASE e.type = "removed"
    <2>1. RemoveAgent(e.id) /\ UNCHANGED <<archived, pending_resume>>
      BY <1>3 DEF ApplyRemoteUpdate
    <2> QED
      BY <1>1, <1>3, <2>1, AgentIsRemoved DEF After, Lists, Undisturbed
  <1>4. CASE e.type = "archived"
    <2>1. RemoveAgent(e.id) /\ archived' = Put(archived, e.conv) /\ UNCHANGED pending_resume
          /\ e.conv \in Conversations
      BY <1>4 DEF ApplyRemoteUpdate, Events
    <2> QED
      BY <1>1, <1>4, <2>1, AgentIsRemoved, PutIsAList DEF After, Lists, Undisturbed
  <1>5. CASE e.type = "resumed"
    <2>1. /\ AddRemoteAgent(e.agent) /\ archived' = Dropping(archived, e.agent.conv)
          /\ pending_resume' = None /\ e.agent \in AgentRecords
      BY <1>5 DEF ApplyRemoteUpdate, Events
    <2> QED
      BY <1>1, <1>5, <2>1, AgentIsAdded, DroppingIsAList DEF After, Lists
  <1>6. CASE e.type = "changed"
    <2>1. /\ agents' = Holding(agents, e.id, e.conv) /\ e.conv \in Conversations
          /\ UNCHANGED <<archived, selected, mode, pending_resume, shown, hunk>>
      BY <1>6 DEF ApplyRemoteUpdate, Events
    <2> QED
      BY <1>1, <1>6, <2>1, HoldingIsAList, HoldingKeepsSelection DEF After, Lists, Undisturbed
  <1>7. CASE e.type = "switched"
    <2>1. /\ agents' = Holding(agents, e.id, e.conv) /\ archived' = ArchiveAfterSwitch(e)
          /\ UNCHANGED <<selected, mode, pending_resume, shown, hunk>>
          /\ e.conv \in Conversations /\ e.old \in Conversations \cup {None}
      BY <1>7 DEF ApplyRemoteUpdate, Events
    <2>2. Dropping(archived, e.conv) \in Seq(Conversations)
      BY <1>1, DroppingIsAList
    <2>3. archived' \in Seq(Conversations)
      BY <2>1, <2>2, PutIsAList DEF ArchiveAfterSwitch
    <2> QED
      BY <1>1, <1>7, <2>1, <2>3, HoldingIsAList, HoldingKeepsSelection
        DEF After, Lists, Undisturbed, ArchiveAfterSwitch
  <1>8. CASE e.type = "response"
    <2>1. UNCHANGED <<agents, archived, selected, mode, pending_resume, shown, hunk>>
      BY <1>8 DEF ApplyRemoteUpdate
    <2> QED
      BY <1>1, <1>8, <2>1 DEF After, Lists, Undisturbed, TypeInv, TypeOK
  <1> QED
    BY <1>2, <1>3, <1>4, <1>5, <1>6, <1>7, <1>8 DEF Events

LEMMA ReceiveStep ==
  ASSUME IInv, Receive PROVE IInv'
PROOF
  <1> DEFINE e == Head(down)
  <1>1. ClientInv /\ TypeInv /\ exit = None /\ ~waiting
    BY DEF IInv, ClientInv, Receive, Alive
  <1>2. /\ down # <<>> /\ down' = Tail(down) /\ ApplyRemoteUpdate(e)
        /\ UNCHANGED <<archive_target, exit, session, up, link, lost>>
    BY DEF Receive
  <1>3. e \in Events /\ down' \in Seq(Events) /\ Len(down') = Len(down) - 1 /\ Len(down) \in Nat
    BY <1>1, <1>2, HeadTailProperties, LenProperties DEF TypeInv
  <1> HIDE DEF e
  <1>4. /\ Lists(agents', archived') = After(Lists(agents, archived), e)
        /\ agents' \in Seq(AgentRecords) /\ archived' \in Seq(Conversations)
        /\ selected' \in (IF agents' = <<>> THEN {0} ELSE DOMAIN agents')
        /\ pending_resume' \in {None, pending_resume}
        /\ Interrupted \/ Undisturbed
    BY <1>1, <1>2, <1>3, EventIsApplied
  <1>5. TypeInv'
    <2>1. /\ mode' \in Modes /\ hunk' \in {"none", "shown", "hidden"}
          /\ shown' \in [agent: {0} \cup Ids, conv: {None} \cup Conversations]
      BY <1>1, <1>4, NothingIsAsked DEF TypeInv, TypeOK, Interrupted, Undisturbed, Hide, Modes
    <2>2. Len(down') <= MaxEvents
      BY <1>1, <1>3, AppAssumption DEF TypeInv, TypeOK
    <2> QED
      BY <1>1, <1>2, <1>3, <1>4, <2>1, <2>2 DEF link, TypeInv, TypeOK
  <1>6. EndedIsEmpty' /\ WaitingInDialog'
    BY <1>1, <1>2 DEF link, EndedIsEmpty, WaitingInDialog
  <1>7. ConfirmationsKeepTheirSubject' /\ ReviewIsShown'
    <2>1. CASE Interrupted
      BY <2>1 DEF Interrupted, ConfirmationsKeepTheirSubject, ReviewIsShown, Dialogs, Hide
    <2>2. CASE Undisturbed
      <3>1. mode = "ConfirmClose" => /\ agents # <<>> /\ selected \in DOMAIN agents
                                     /\ shown.agent = agents[selected].id /\ shown # Nothing
        BY <1>1, SelectedIsAnAgent
          DEF ClientInv, ConfirmationsKeepTheirSubject, SelectedAgent, Dialogs
      <3>2. mode' = "ConfirmClose" => agents' # <<>> /\ shown'.agent = SelectedAgent'
        BY <2>2, <3>1 DEF Undisturbed, SelectedAgent
      <3>3. Nothing' = Nothing /\ Dialogs' = Dialogs
        BY DEF Nothing, Dialogs
      <3>4. UNCHANGED <<mode, pending_resume, shown, hunk, archive_target>>
        BY <1>2, <2>2 DEF Undisturbed
      <3> QED
        BY <1>1, <3>2, <3>3, <3>4
          DEF ClientInv, ConfirmationsKeepTheirSubject, ReviewIsShown
    <2> QED
      BY <1>4, <2>1, <2>2
  <1>8. EventsLeadToTheSession'
    <2> SUFFICES ASSUME ~deaf, ~lost
                 PROVE  Leads(Lists(agents', archived'), down',
                              Lists(session'.agents, session'.archived))
      BY <1>2 DEF EventsLeadToTheSession, link
    <2>1. Leads(Lists(agents, archived), down, Lists(session.agents, session.archived))
      BY <1>1 DEF IInv, EventsLeadToTheSession
    <2>2. Leads(After(Lists(agents, archived), e), Tail(down),
                Lists(session.agents, session.archived))
      BY <1>1, <1>2, <2>1, LeadsNext DEF TypeInv, e
    <2> QED
      BY <1>2, <1>4, <2>2
  <1> QED
    BY <1>5, <1>6, <1>7, <1>8 DEF IInv, ClientInv

\* While a spawn is waited for only responses count.
LEMMA WaitingStep ==
  ASSUME IInv, ReceiveWhileWaiting \/ SpawnTimesOut \/ DisconnectedWhileWaiting PROVE IInv'
PROOF
  <1>1. /\ ClientInv /\ TypeInv /\ exit = None /\ waiting /\ mode = "NewAgent" /\ hunk # "shown"
    BY DEF IInv, ClientInv, WaitingInDialog, ReviewIsShown, Reviews, ReceiveWhileWaiting,
           SpawnTimesOut, DisconnectedWhileWaiting
  <1>2. CASE SpawnTimesOut
    <2>1. /\ waiting' = FALSE
          /\ UNCHANGED <<client, mode, hunk, exit, session, up, down, deaf, history>>
      BY <1>2 DEF SpawnTimesOut
    <2>2. TypeInv'
      BY <1>1, <2>1 DEF TypeInv, TypeOK, client, history
    <2> QED
      BY <1>1, <2>1, <2>2
        DEF IInv, ClientInv, EndedIsEmpty, WaitingInDialog, ConfirmationsKeepTheirSubject, Dialogs,
            ReviewIsShown, EventsLeadToTheSession, client, history
  <1>3. CASE ReceiveWhileWaiting
    <2> DEFINE e == Head(down)
    <2>1. /\ down # <<>> /\ down' = Tail(down)
          /\ UNCHANGED <<client, hunk, exit, session, up, deaf>>
          /\ \/ /\ e.type = "response" /\ waiting' = FALSE /\ UNCHANGED lost
                /\ (mode' = "Terminal" /\ shown' = Nothing) \/ UNCHANGED <<mode, shown>>
             \/ /\ e.type # "response" /\ lost' = TRUE /\ UNCHANGED <<waiting, mode, shown>>
      BY <1>3 DEF ReceiveWhileWaiting, Goto, Ask
    <2>2. e \in Events /\ down' \in Seq(Events) /\ Len(down') = Len(down) - 1 /\ Len(down) \in Nat
      BY <1>1, <2>1, HeadTailProperties, LenProperties DEF TypeInv
    <2> HIDE DEF e
    <2>3. TypeInv'
      <3>1. Len(down') <= MaxEvents
        BY <1>1, <2>2, AppAssumption DEF TypeInv, TypeOK
      <3>2. /\ mode' \in Modes /\ {waiting', lost'} \subseteq BOOLEAN
            /\ shown' \in [agent: {0} \cup Ids, conv: {None} \cup Conversations]
        BY <1>1, <2>1, NothingIsAsked DEF TypeInv, TypeOK, Modes
      <3> QED
        BY <1>1, <2>1, <2>2, <3>1, <3>2 DEF TypeInv, TypeOK, client
    <2>4. /\ EndedIsEmpty' /\ WaitingInDialog' /\ ConfirmationsKeepTheirSubject' /\ ReviewIsShown'
      BY <1>1, <2>1
        DEF EndedIsEmpty, WaitingInDialog, ConfirmationsKeepTheirSubject, Dialogs, ReviewIsShown
    <2>5. EventsLeadToTheSession'
      <3> SUFFICES ASSUME ~deaf, ~lost, e.type = "response"
                   PROVE  Leads(Lists(agents, archived), Tail(down),
                                Lists(session.agents, session.archived))
        BY <2>1 DEF EventsLeadToTheSession, client
      <3>1. Leads(Lists(agents, archived), down, Lists(session.agents, session.archived))
        BY <1>1 DEF IInv, EventsLeadToTheSession
      <3>2. Leads(After(Lists(agents, archived), e), Tail(down),
                  Lists(session.agents, session.archived))
        BY <1>1, <2>1, <3>1, LeadsNext DEF TypeInv, e
      <3>3. After(Lists(agents, archived), e) = Lists(agents, archived)
        BY DEF After
      <3> QED
        BY <3>2, <3>3
    <2> QED
      BY <2>3, <2>4, <2>5 DEF IInv, ClientInv
  <1>4. CASE DisconnectedWhileWaiting
    <2>1. /\ waiting' = FALSE /\ deaf' = TRUE /\ down' = <<>>
          /\ UNCHANGED <<client, mode, hunk, exit, session, up, history>>
      BY <1>4 DEF DisconnectedWhileWaiting
    <2>2. TypeInv'
      <3>1. down' \in Seq(Events) /\ Len(down') <= MaxEvents
        BY <2>1, EmptySeq, AppAssumption
      <3> QED
        BY <1>1, <2>1, <3>1 DEF TypeInv, TypeOK, client, history
    <2> QED
      BY <1>1, <2>1, <2>2
        DEF IInv, ClientInv, EndedIsEmpty, WaitingInDialog, ConfirmationsKeepTheirSubject, Dialogs,
            ReviewIsShown, EventsLeadToTheSession, client, history
  <1> QED
    BY <1>2, <1>3, <1>4

-----------------------------------------------------------------------------
\* The session

\* The session with its lists.
SessionLists(s) == Lists(s.agents, s.archived)

\* One event is sent, or nothing to a client that has ended or no longer reads.
LEMMA EventIsSent ==
  ASSUME TypeInv, EndedIsEmpty, NEW e \in Events, Emit(e)
  PROVE  /\ down' \in Seq(Events) /\ Len(down') <= MaxEvents
         /\ exit # None => down' = <<>>
         /\ exit = None /\ ~deaf => down' = Append(down, e)
PROOF
  <1>1. CASE exit # None \/ deaf
    BY <1>1 DEF Emit, EmitAll, TypeInv, TypeOK, EndedIsEmpty
  <1>2. CASE exit = None /\ ~deaf
    <2>1. down \in Seq(Events) /\ Len(<<e>>) = 1
          /\ Len(down) + Len(<<e>>) <= MaxEvents /\ down' = down \o <<e>>
      BY <1>2 DEF Emit, EmitAll, TypeInv
    <2>2. down' = Append(down, e)
      BY <2>1, AppendIsConcat
    <2>3. down' \in Seq(Events) /\ Len(down') = Len(down) + 1
      BY <2>1, <2>2, AppendProperties
    <2> QED
      BY <1>2, <2>1, <2>2, <2>3
  <1> QED
    BY <1>1, <1>2

\* What changes only the session and what is on its way.
LEMMA ServerStep ==
  ASSUME IInv, UNCHANGED <<client, mode, hunk, exit, link, history>>,
         up' \in Seq(Requests), Len(up') <= MaxRequests, session' \in Sessions,
         down' \in Seq(Events), Len(down') <= MaxEvents, exit # None => down' = <<>>,
         exit = None /\ ~deaf /\ ~lost =>
              Leads(Lists(agents, archived), down', SessionLists(session'))
  PROVE  IInv'
PROOF
  <1>1. ClientInv /\ TypeInv
    BY DEF IInv, ClientInv
  <1>2. TypeInv'
    BY <1>1 DEF link, TypeInv, TypeOK, client, history, Sessions
  <1>3. EndedIsEmpty' /\ WaitingInDialog' /\ ConfirmationsKeepTheirSubject' /\ ReviewIsShown'
    BY <1>1 DEF link, ClientInv, EndedIsEmpty, WaitingInDialog, ConfirmationsKeepTheirSubject,
                Nothing, Dialogs, SelectedAgent, ReviewIsShown, client, history
  <1>4. EventsLeadToTheSession'
    BY DEF link, EventsLeadToTheSession, client, history, SessionLists
  <1> QED
    BY <1>2, <1>3, <1>4 DEF IInv, ClientInv

\* The session changes as one event says.
LEMMA SessionStep ==
  ASSUME IInv, UNCHANGED <<client, mode, hunk, exit, link, history>>,
         up' \in Seq(Requests), Len(up') <= MaxRequests, session' \in Sessions,
         NEW e \in Events, Emit(e), SessionLists(session') = After(SessionLists(session), e)
  PROVE  IInv'
PROOF
  <1>1. ClientInv /\ TypeInv /\ EndedIsEmpty /\ down \in Seq(Events)
    BY DEF IInv, ClientInv, TypeInv
  <1>2. /\ down' \in Seq(Events) /\ Len(down') <= MaxEvents
        /\ exit # None => down' = <<>>
        /\ exit = None /\ ~deaf => down' = Append(down, e)
    BY <1>1, EventIsSent
  <1>3. exit = None /\ ~deaf /\ ~lost =>
              Leads(Lists(agents, archived), down', SessionLists(session'))
    BY <1>1, <1>2, LeadsOn DEF IInv, EventsLeadToTheSession, SessionLists
  <1> QED
    BY <1>2, <1>3, ServerStep

-----------------------------------------------------------------------------
\* What the session becomes

\* An agent is registered.
LEMMA RegisteredIsASession ==
  ASSUME NEW s \in Sessions, NEW c \in Conversations \cup {None}, s.next \in Ids
  PROVE  LET agent == [id |-> s.next, conv |-> c]
         IN  /\ agent \in AgentRecords /\ Registered(s, agent) \in Sessions
             /\ Registered(s, agent).archived = s.archived
             /\ SessionLists(Registered(s, agent)) = Lists(Append(s.agents, agent), s.archived)
PROOF
  <1> DEFINE agent == [id |-> s.next, conv |-> c]
  <1>1. agent \in AgentRecords /\ s.next + 1 \in 1 .. (MaxAgents + 1)
    BY AppAssumption DEF AgentRecords, Ids
  <1>2. Append(s.agents, agent) \in Seq(AgentRecords)
    BY <1>1, AppendProperties DEF Sessions
  <1> QED
    BY <1>1, <1>2 DEF Registered, SessionLists, Lists, Sessions

\* An agent is removed, and the last one selected.
LEMMA RemovedIsASession ==
  ASSUME NEW s \in Sessions, NEW id
  PROVE  /\ Removed(s, id) \in Sessions
         /\ Removed(s, id).archived = s.archived
         /\ SessionLists(Removed(s, id)) = Lists(Without(s.agents, id), s.archived)
PROOF
  <1> DEFINE rest == Without(s.agents, id)
  <1>1. rest \in Seq(AgentRecords)
    BY WithoutIsAList DEF Sessions
  <1>2. rest # <<>> => Last(rest).id \in Ids
    <2>1. rest # <<>> => Len(rest) \in 1 .. Len(rest)
      BY <1>1, EmptySeq
    <2>2. rest # <<>> => rest[Len(rest)] \in AgentRecords
      BY <1>1, <2>1, ElementOfSeq
    <2> QED
      BY <2>2 DEF Last, AgentRecords
  <1> QED
    BY <1>1, <1>2 DEF Removed, SessionLists, Lists, Sessions

\* An agent with a conversation is archived.
LEMMA ArchivedIsASession ==
  ASSUME NEW s \in Sessions, NEW id, ConvOf(s.agents, id) \in Conversations
  PROVE  /\ Archived(s, id) \in Sessions
         /\ SessionLists(Archived(s, id))
              = Lists(Without(s.agents, id), Put(s.archived, ConvOf(s.agents, id)))
PROOF
  <1>1. /\ Removed(s, id) \in Sessions /\ Removed(s, id).archived = s.archived
        /\ SessionLists(Removed(s, id)) = Lists(Without(s.agents, id), s.archived)
    BY RemovedIsASession
  <1>2. Removed(s, id).agents = Without(s.agents, id)
    BY <1>1 DEF SessionLists, Lists
  <1>3. Put(s.archived, ConvOf(s.agents, id)) \in Seq(Conversations)
    BY PutIsAList DEF Sessions
  <1> QED
    BY <1>1, <1>2, <1>3 DEF Archived, SessionLists, Lists, Sessions

\* The conversation of an agent that is listed.
LEMMA ConvOfAgent ==
  ASSUME NEW s \in Sessions, NEW id, HasAgent(s.agents, id)
  PROVE  id \in Ids /\ ConvOf(s.agents, id) \in Conversations \cup {None}
PROOF
  BY IndexOfAgent DEF Sessions, ConvOf, AgentRecords

-----------------------------------------------------------------------------
\* Requests and polls

\* An error, or any response, changes no list.
LEMMA AfterResponse ==
  ASSUME NEW lists, NEW ok \in BOOLEAN
  PROVE  /\ [type |-> "response", ok |-> ok] \in Events
         /\ After(lists, [type |-> "response", ok |-> ok]) = lists
PROOF
  BY DEF Events, After

LEMMA HandleSpawnStep ==
  ASSUME IInv, UNCHANGED <<client, mode, hunk, exit, link, history>>,
         up' \in Seq(Requests), Len(up') <= MaxRequests, HandleSpawn
  PROVE  IInv'
PROOF
  <1>1. ClientInv /\ TypeInv /\ EndedIsEmpty /\ session \in Sessions /\ down \in Seq(Events)
    BY DEF IInv, ClientInv, TypeInv
  <1> DEFINE agent == [id |-> session.next, conv |-> None]
             done == [type |-> "response", ok |-> TRUE]
             added == [type |-> "added", agent |-> agent]
  <1>2. CASE Emit(Error) /\ UNCHANGED session
    <2>1. Error \in Events /\ After(SessionLists(session), Error) = SessionLists(session)
      BY AfterResponse DEF Error
    <2> QED
      BY <1>1, <1>2, <2>1, SessionStep
  <1>3. CASE session.next \in Ids /\ session' = Registered(session, agent) /\ EmitAll(<<done, added>>)
    <2>1. /\ agent \in AgentRecords /\ session' \in Sessions
          /\ SessionLists(session') = Lists(Append(session.agents, agent), session.archived)
      BY <1>1, <1>3, RegisteredIsASession
    <2>2. done \in Events /\ added \in Events /\ After(SessionLists(session), done) = SessionLists(session)
      BY <2>1, AfterResponse DEF Events
    <2>3. After(SessionLists(session), added) = SessionLists(session')
      BY <2>1 DEF After, SessionLists, Lists
    <2> HIDE DEF agent, done, added
    <2>4. CASE exit # None \/ deaf
      <3>1. down' = down /\ (exit # None => down' = <<>>)
        BY <1>1, <1>3, <2>4 DEF EmitAll, EndedIsEmpty
      <3> QED
        BY <1>1, <2>1, <2>4, <3>1, ServerStep DEF TypeInv, TypeOK
    <2>5. CASE exit = None /\ ~deaf
      <3>1. Len(<<done, added>>) = 2 /\ Len(down) + Len(<<done, added>>) <= MaxEvents
            /\ down' = down \o <<done, added>>
        BY <1>3, <2>5 DEF EmitAll
      <3>2. /\ Append(down, done) \in Seq(Events)
            /\ down' = Append(Append(down, done), added)
        <4>1. Append(down, done) = down \o <<done>> /\ Append(down, done) \in Seq(Events)
          BY <1>1, <2>2, AppendIsConcat, AppendProperties
        <4>2. Append(Append(down, done), added) = (down \o <<done>>) \o <<added>>
          BY <2>2, <4>1, AppendIsConcat
        <4>3. (down \o <<done>>) \o <<added>> = down \o (<<done>> \o <<added>>)
          <5>1. <<done>> \in Seq(Events) /\ <<added>> \in Seq(Events)
            BY <2>2
          <5> QED
            BY <1>1, <5>1, ConcatAssociative
        <4>4. <<done>> \o <<added>> = <<done, added>>
          <5>1. /\ <<done>> \in Seq(Events) /\ <<added>> \in Seq(Events)
                /\ <<done, added>> \in Seq(Events)
                /\ Len(<<done>>) = 1 /\ Len(<<added>>) = 1
                /\ <<done>>[1] = done /\ <<added>>[1] = added
                /\ <<done, added>>[1] = done /\ <<done, added>>[2] = added
            BY <2>2
          <5> DEFINE both == <<done>> \o <<added>>
                     pair == <<done, added>>
          <5>2. both \in Seq(Events) /\ Len(both) = 2 /\ both[1] = done /\ both[2] = added
            BY <5>1, ConcatProperties
          <5>3. pair \in Seq(Events) /\ Len(pair) = 2 /\ pair[1] = done /\ pair[2] = added
            BY <3>1, <5>1
          <5> HIDE DEF both, pair
          <5>4. \A i \in 1 .. Len(both) : both[i] = pair[i]
            BY <5>2, <5>3
          <5>5. both = pair
            BY <5>2, <5>3, <5>4, SeqEqual
          <5> QED
            BY <5>5 DEF both, pair
        <4> QED
          BY <3>1, <4>1, <4>2, <4>3, <4>4
      <3>3. down' \in Seq(Events) /\ Len(down') = Len(down) + 2 /\ Len(down) \in Nat
        BY <1>1, <2>2, <3>2, AppendProperties, LenProperties
      <3>4. exit = None /\ ~deaf /\ ~lost =>
              Leads(Lists(agents, archived), down', SessionLists(session'))
        <4> SUFFICES ASSUME ~lost
                     PROVE  Leads(Lists(agents, archived), down', SessionLists(session'))
          OBVIOUS
        <4>1. Leads(Lists(agents, archived), down, SessionLists(session))
          BY <2>5 DEF IInv, EventsLeadToTheSession, SessionLists
        <4>2. Leads(Lists(agents, archived), Append(down, done), SessionLists(session))
          BY <1>1, <2>2, <4>1, LeadsOn
        <4> QED
          BY <2>2, <2>3, <3>2, <4>2, LeadsOn
      <3> QED
        BY <2>1, <2>5, <3>1, <3>3, <3>4, ServerStep
    <2> QED
      BY <2>4, <2>5
  <1> QED
    BY <1>2, <1>3 DEF HandleSpawn

\* An agent leaves the session, into the archive if it has a conversation.
LEMMA RemovalStep ==
  ASSUME IInv, UNCHANGED <<client, mode, hunk, exit, link, history>>,
         up' \in Seq(Requests), Len(up') <= MaxRequests, NEW id, HasAgent(session.agents, id),
         \/ session' = Removed(session, id) /\ Emit([type |-> "removed", id |-> id])
         \/ /\ ConvOf(session.agents, id) # None /\ session' = Archived(session, id)
            /\ Emit([type |-> "archived", id |-> id, conv |-> ConvOf(session.agents, id)])
  PROVE  IInv'
PROOF
  <1>1. session \in Sessions
    BY DEF IInv, ClientInv, TypeInv
  <1>2. id \in Ids /\ ConvOf(session.agents, id) \in Conversations \cup {None}
    BY <1>1, ConvOfAgent
  <1>3. CASE session' = Removed(session, id) /\ Emit([type |-> "removed", id |-> id])
    <2> DEFINE e == [type |-> "removed", id |-> id]
    <2>1. e \in Events /\ session' \in Sessions
          /\ SessionLists(session') = After(SessionLists(session), e)
      BY <1>1, <1>2, <1>3, RemovedIsASession DEF Events, After, SessionLists, Lists
    <2> HIDE DEF e
    <2> QED
      BY <1>3, <2>1, SessionStep DEF e
  <1>4. CASE /\ ConvOf(session.agents, id) # None /\ session' = Archived(session, id)
             /\ Emit([type |-> "archived", id |-> id, conv |-> ConvOf(session.agents, id)])
    <2> DEFINE e == [type |-> "archived", id |-> id, conv |-> ConvOf(session.agents, id)]
    <2>1. e \in Events /\ session' \in Sessions
          /\ SessionLists(session') = After(SessionLists(session), e)
      BY <1>1, <1>2, <1>4, ArchivedIsASession DEF Events, After, SessionLists, Lists
    <2> HIDE DEF e
    <2> QED
      BY <1>4, <2>1, SessionStep DEF e
  <1> QED
    BY <1>3, <1>4

LEMMA ServeStep ==
  ASSUME IInv, Serve PROVE IInv'
PROOF
  <1> DEFINE request == Head(up)
  <1>1. ClientInv /\ TypeInv /\ EndedIsEmpty /\ session \in Sessions /\ down \in Seq(Events)
    BY DEF IInv, ClientInv, TypeInv
  <1>2. UNCHANGED <<client, mode, hunk, exit, link, history>>
        /\ request \in Requests /\ up' \in Seq(Requests) /\ Len(up') <= MaxRequests
    <2>1. up # <<>> /\ up' = Tail(up) /\ UNCHANGED <<client, mode, hunk, exit, link, history>>
      BY DEF Serve
    <2>2. request \in Requests /\ up' \in Seq(Requests) /\ Len(up') = Len(up) - 1 /\ Len(up) \in Nat
      BY <1>1, <2>1, HeadTailProperties, LenProperties DEF TypeInv
    <2> QED
      BY <1>1, <2>1, <2>2, AppAssumption DEF TypeInv, TypeOK
  <1>3. CASE Emit(Error) /\ UNCHANGED session
    <2>1. Error \in Events /\ After(SessionLists(session), Error) = SessionLists(session)
      BY AfterResponse DEF Error
    <2> QED
      BY <1>1, <1>2, <1>3, <2>1, SessionStep
  <1>4. CASE request.type = "spawn"
    <2>1. HandleSpawn
      BY <1>4 DEF Serve
    <2> QED
      BY <1>2, <2>1, HandleSpawnStep
  <1>5. CASE request.type = "close"
    <2>1. HandleClose(request.id)
      BY <1>5 DEF Serve
    <2> QED
      BY <1>2, <1>3, <2>1, RemovalStep DEF HandleClose
  <1>6. CASE request.type = "archive"
    <2>1. HandleArchive(request.id)
      BY <1>6 DEF Serve
    <2> QED
      BY <1>2, <1>3, <2>1, RemovalStep DEF HandleArchive
  <1>7. CASE request.type = "resume"
    <2>1. HandleResume(request.conv)
      BY <1>7 DEF Serve
    <2>2. CASE request.conv \notin Range(session.archived)
      BY <1>3, <2>1, <2>2 DEF HandleResume
    <2>3. CASE request.conv \in Range(session.archived)
      <3> DEFINE c == request.conv
                 agent == [id |-> session.next, conv |-> c]
                 e == [type |-> "resumed", agent |-> agent]
      <3>1. /\ session.next \in Ids /\ Emit(e)
            /\ session' = [Registered(session, agent) EXCEPT !.archived = Dropping(@, c)]
        BY <2>1, <2>3 DEF HandleResume
      <3>2. c \in Conversations
        <4>1. \A i \in DOMAIN session.archived : session.archived[i] \in Conversations
          BY <1>1, LenProperties, ElementOfSeq DEF Sessions
        <4> QED
          BY <2>3, <4>1 DEF Range
      <3> HIDE DEF c
      <3>3. /\ agent \in AgentRecords /\ Registered(session, agent) \in Sessions
            /\ Registered(session, agent).archived = session.archived
            /\ SessionLists(Registered(session, agent))
                 = Lists(Append(session.agents, agent), session.archived)
        BY <1>1, <3>1, <3>2, RegisteredIsASession
      <3>4. Dropping(session.archived, c) \in Seq(Conversations)
        BY <1>1, DroppingIsAList DEF Sessions
      <3>5. agent.conv = c
        OBVIOUS
      <3> HIDE DEF agent
      <3>6. e \in Events /\ session' \in Sessions
        BY <3>1, <3>3, <3>4 DEF Events, Sessions
      <3>7. SessionLists(session') = After(SessionLists(session), e)
        <4>1. /\ session'.agents = Append(session.agents, agent)
              /\ session'.archived = Dropping(session.archived, c)
          BY <3>1, <3>3 DEF SessionLists, Lists, Sessions
        <4> QED
          BY <3>5, <4>1 DEF After, SessionLists, Lists
      <3> HIDE DEF e
      <3> QED
        BY <1>2, <3>1, <3>6, <3>7, SessionStep DEF e
    <2> QED
      BY <2>2, <2>3
  <1>8. CASE request.type = "select"
    <2>1. HandleSelect(request.id)
      BY <1>8 DEF Serve
    <2>2. session' \in Sessions /\ SessionLists(session') = SessionLists(session) /\ down' = down
      <3>1. CASE HasAgent(session.agents, request.id)
        <4>1. request.id \in Ids
          BY <1>1, <3>1, ConvOfAgent
        <4> QED
          BY <1>1, <2>1, <3>1, <4>1 DEF HandleSelect, Sessions, SessionLists, Lists
      <3>2. CASE ~HasAgent(session.agents, request.id)
        BY <1>1, <2>1, <3>2 DEF HandleSelect
      <3> QED
        BY <3>1, <3>2
    <2>3. exit = None /\ ~deaf /\ ~lost =>
              Leads(Lists(agents, archived), down', SessionLists(session'))
      BY <2>2 DEF IInv, EventsLeadToTheSession, SessionLists
    <2> QED
      BY <1>1, <1>2, <2>2, <2>3, ServerStep DEF TypeInv, TypeOK, EndedIsEmpty
  <1> QED
    BY <1>2, <1>4, <1>5, <1>6, <1>7, <1>8 DEF Requests

LEMMA PollStep ==
  ASSUME IInv, Poll PROVE IInv'
PROOF
  <1>1. ClientInv /\ TypeInv /\ EndedIsEmpty /\ session \in Sessions /\ down \in Seq(Events)
        /\ up \in Seq(Requests) /\ Len(up) <= MaxRequests
    BY DEF IInv, ClientInv, TypeInv, TypeOK
  <1>2. PICK i \in DOMAIN session.agents :
          \/ PollQuit(session.agents[i].id)
          \/ \E c \in Conversations : PollConversation(session.agents[i].id, c)
    BY DEF Poll
  <1> DEFINE id == session.agents[i].id
  <1>3. HasAgent(session.agents, id)
    BY <1>2 DEF HasAgent
  <1> HIDE DEF id
  <1>4. id \in Ids /\ ConvOf(session.agents, id) \in Conversations \cup {None}
    BY <1>1, <1>3, ConvOfAgent
  <1>5. CASE PollQuit(id)
    <2>1. UNCHANGED <<client, mode, hunk, exit, up, link, history>>
      BY <1>5 DEF PollQuit
    <2> QED
      BY <1>1, <1>3, <1>5, <2>1, RemovalStep DEF PollQuit
  <1>6. ASSUME NEW c \in Conversations, PollConversation(id, c) PROVE IInv'
    <2> DEFINE old == ConvOf(session.agents, id)
               held == [session EXCEPT !.agents = Holding(@, id, c)]
    <2>1. UNCHANGED <<client, mode, hunk, exit, up, link, history>>
      BY <1>6 DEF PollConversation
    <2>2. Holding(session.agents, id, c) \in Seq(AgentRecords)
      BY <1>1, HoldingIsAList DEF Sessions
    <2>3. CASE old = None
      <3> DEFINE e == [type |-> "changed", id |-> id, conv |-> c]
      <3>1. session' = held /\ Emit(e)
        BY <1>6, <2>3 DEF PollConversation
      <3>2. e \in Events
        BY <1>4, <1>6 DEF Events
      <3>3. session' \in Sessions /\ SessionLists(session') = After(SessionLists(session), e)
        BY <1>1, <2>2, <3>1 DEF Sessions, SessionLists, Lists, After
      <3> HIDE DEF e
      <3> QED
        BY <1>1, <2>1, <3>1, <3>2, <3>3, SessionStep
    <2>4. CASE old # None
      <3>1. PICK left \in {old, None} :
              /\ session' = [held EXCEPT !.archived =
                   IF left = None THEN Dropping(@, c) ELSE Put(Dropping(@, c), left)]
              /\ Emit([type |-> "switched", id |-> id, conv |-> c, old |-> left])
        BY <1>6, <2>4 DEF PollConversation
      <3> DEFINE e == [type |-> "switched", id |-> id, conv |-> c, old |-> left]
                 kept == IF left = None THEN Dropping(session.archived, c)
                         ELSE Put(Dropping(session.archived, c), left)
      <3>2. left \in Conversations \cup {None}
        BY <1>4, <3>1
      <3>3. e \in Events
        BY <1>4, <1>6, <3>2 DEF Events
      <3>4. kept \in Seq(Conversations)
        BY <1>1, <3>2, DroppingIsAList, PutIsAList DEF Sessions
      <3>5. session' = [held EXCEPT !.archived = kept] /\ Emit(e)
        BY <3>1
      <3>6. After(SessionLists(session), e) = Lists(Holding(session.agents, id, c), kept)
        BY DEF After, SessionLists, Lists
      <3> HIDE DEF e, kept, old
      <3>7. session' \in Sessions /\ SessionLists(session') = After(SessionLists(session), e)
        BY <1>1, <2>2, <3>4, <3>5, <3>6 DEF Sessions, SessionLists, Lists
      <3> QED
        BY <1>1, <2>1, <3>3, <3>5, <3>7, SessionStep
    <2> QED
      BY <2>3, <2>4
  <1> QED
    BY <1>2, <1>5, <1>6 DEF id

-----------------------------------------------------------------------------
\* The theorems

LEMMA InitHolds ==
  ASSUME Init PROVE IInv
PROOF
  <1>1. TypeInv
    <2>1. /\ <<>> \in Seq(AgentRecords) /\ <<>> \in Seq(Conversations) /\ <<>> \in Seq(Requests)
          /\ <<>> \in Seq(Events) /\ Len(<<>>) = 0
      BY EmptySeq
    <2>2. session \in Sessions
      BY <2>1, AppAssumption DEF Init, NoSession, Sessions
    <2>3. /\ agents \in Seq(AgentRecords) /\ archived \in Seq(Conversations)
          /\ selected \in (IF agents = <<>> THEN {0} ELSE DOMAIN agents)
          /\ up \in Seq(Requests) /\ down \in Seq(Events)
          /\ Len(up) <= MaxRequests /\ Len(down) <= MaxEvents
      BY <2>1, AppAssumption DEF Init
    <2>4. shown \in [agent: {0} \cup Ids, conv: {None} \cup Conversations]
      BY NothingIsAsked DEF Init
    <2>5. mode \in Modes /\ exit \in {None, "detach", "stop", "failed"}
      BY DEF Init, Modes
    <2> QED
      BY <2>2, <2>3, <2>4, <2>5 DEF Init, TypeInv, TypeOK, Sessions
  <1>2. EventsLeadToTheSession
    <2>1. Lists(agents, archived) = Lists(session.agents, session.archived) /\ down = <<>>
      BY DEF Init, NoSession
    <2> QED
      BY <2>1, LeadsNowhere DEF EventsLeadToTheSession
  <1> QED
    BY <1>1, <1>2 DEF Init, IInv, ClientInv, EndedIsEmpty, WaitingInDialog,
                      ConfirmationsKeepTheirSubject, Dialogs, ReviewIsShown

LEMMA StepHolds ==
  ASSUME IInv, [Next]_vars PROVE IInv'
PROOF
  <1>1. CASE User
    BY <1>1, UserStep
  <1>2. CASE Receive
    BY <1>2, ReceiveStep
  <1>3. CASE ReceiveWhileWaiting \/ SpawnTimesOut \/ DisconnectedWhileWaiting
    BY <1>3, WaitingStep
  <1>4. CASE ConnectionFails \/ RequestFails
    <2>1. exit' \in {"detach", "stop", "failed"} /\ ClientEnds /\ UNCHANGED <<session, up>>
      BY <1>4 DEF ConnectionFails, RequestFails
    <2> QED
      BY <2>1, ClientIsGone DEF IInv
  <1>5. CASE Hydrate
    BY <1>5, HydrateStep
  <1>6. CASE Serve
    BY <1>6, ServeStep
  <1>7. CASE Poll
    BY <1>7, PollStep
  <1>8. CASE UNCHANGED vars
    <2>1. TypeInv'
      BY <1>8 DEF vars, client, link, history, IInv, ClientInv, TypeInv, TypeOK
    <2> QED
      BY <1>8, <2>1 DEF vars, client, link, history, IInv, ClientInv, EndedIsEmpty, WaitingInDialog,
           ConfirmationsKeepTheirSubject, Nothing, Dialogs, SelectedAgent, ReviewIsShown,
           EventsLeadToTheSession
  <1> QED
    BY <1>1, <1>2, <1>3, <1>4, <1>5, <1>6, <1>7, <1>8 DEF Next, Loop

LEMMA InvariantHolds == Spec => []IInv
PROOF
  <1>1. Init => IInv
    BY InitHolds
  <1>2. IInv /\ [Next]_vars => IInv'
    BY StepHolds
  <1> QED
    BY <1>1, <1>2, PTL DEF Spec

\* The client's variables have their types, and the selection is one of the list
\* whatever leaves it (app.rs 937-945, hydrate 590-611).
THEOREM AppTypeCorrect == Spec => []TypeOK
PROOF
  <1>1. IInv => TypeOK
    BY DEF IInv, ClientInv, TypeInv
  <1> QED
    BY <1>1, InvariantHolds, PTL

\* Replaying the events one by one makes the client's lists the session's, in its
\* order, for any number of agents and conversations, whatever quits, switches, is
\* archived or resumed meanwhile, while the client is told of the connection's end
\* (apply_remote_update, app.rs 929-977).
THEOREM ListsAreTheSessions == Spec => []ListsFollowTheSession
PROOF
  <1>1. IInv => ListsFollowTheSession
    <2> SUFFICES ASSUME IInv, exit = None, ~deaf, down = <<>>, ~lost
                 PROVE  agents = session.agents /\ archived = session.archived
      BY DEF ListsFollowTheSession
    <2>1. Lists(agents, archived) = Lists(session.agents, session.archived)
      BY LeadsNowhere DEF IInv, EventsLeadToTheSession
    <2> QED
      BY <2>1 DEF Lists
  <1> QED
    BY <1>1, InvariantHolds, PTL

\* A prompt asks about what it was opened for until it is answered: no event takes
\* its subject away and leaves it open (close_selected, archive_selected,
\* resume_selected_archive of app.rs).
THEOREM PromptsKeepTheirSubject == Spec => []ConfirmationsKeepTheirSubject
PROOF
  <1>1. IInv => ConfirmationsKeepTheirSubject
    BY DEF IInv, ClientInv
  <1> QED
    BY <1>1, InvariantHolds, PTL

\* Hunk is never on the screen in a mode whose keys are not for it.
THEOREM ReviewStaysShown == Spec => []ReviewIsShown
PROOF
  <1>1. IInv => ReviewIsShown
    BY DEF IInv, ClientInv
  <1> QED
    BY <1>1, InvariantHolds, PTL
=============================================================================
