-------------------------- MODULE FrameSync_proofs --------------------------
(***************************************************************************)
(* Proofs about the terminal frames, for every number of agents, every     *)
(* capacity of the queues and whatever users do.                           *)
(***************************************************************************)
EXTENDS FrameSync, FiniteSetTheorems, FunctionTheorems, SequenceTheorems, TLAPS

Item == Message \cup Owed
Screens == Nat \ {0}

-----------------------------------------------------------------------------
\* Messages, requests and enumerations

\* The kind of a message says what it carries.
LEMMA ItemKinds ==
  ASSUME NEW m \in Item
  PROVE  /\ m.type = "full" => m \in Full
         /\ m.type = "diff" => m \in Diff
         /\ m.type = "viewport" => m \in Viewport
         /\ m.type = "removed" => m \in Removed
         /\ m.type = "owed" => m \in Owed
         /\ m.type \notin {"full", "diff", "viewport", "removed", "owed"} => m \in Control
         /\ m.type # "owed" => m \in Message
PROOF
  BY DEF Item, Message, Full, Diff, Viewport, Removed, Control, Owed

\* Messages of a kind are messages.
LEMMA Messages ==
  /\ Full \subseteq Message /\ Diff \subseteq Message /\ Viewport \subseteq Message
  /\ Removed \subseteq Message /\ Control \subseteq Message
  /\ Message \subseteq Item /\ Owed \subseteq Item
PROOF
  BY DEF Item, Message

\* The kind of a request says what it carries.
LEMMA RequestKinds ==
  ASSUME NEW r \in Request
  PROVE  /\ r.type = "ack" => r.agent \in Agent /\ r.sequence \in Nat
         /\ r.type \in {"resync", "close"} => r.agent \in Agent
         /\ r.type = "viewport" => r.agent \in Agent /\ r.scrollback \in Nat
         /\ r.type \in {"ack", "resync", "close", "viewport", "resize", "spawn"}
PROOF
  BY DEF Request

\* An enumeration of a finite set names every member exactly once.
LEMMA EnumerationProperties ==
  ASSUME NEW S, IsFiniteSet(S), S \subseteq Nat, NEW f \in Enumerations(S)
  PROVE  /\ Cardinality(S) \in Nat /\ DOMAIN f = 1 .. Cardinality(S)
         /\ f \in Seq(S) /\ Len(f) = Cardinality(S)
         /\ \A i \in DOMAIN f : f[i] \in S
         /\ \A i, j \in DOMAIN f : i < j => f[i] < f[j]
         /\ \A x \in S : \E i \in DOMAIN f : f[i] = x
PROOF
  <1> DEFINE n == Cardinality(S)
  <1>1. n \in Nat
    BY FS_CardinalityType
  <1>2. f \in [1 .. n -> S] /\ \A i, j \in 1 .. n : i < j => f[i] < f[j]
    BY DEF Enumerations
  <1>3. \A i, j \in 1 .. n : f[i] = f[j] => i = j
    <2> SUFFICES ASSUME NEW i \in 1 .. n, NEW j \in 1 .. n, f[i] = f[j], i < j PROVE FALSE
      BY <1>1
    <2>1. f[i] < f[j] /\ f[i] \in Nat
      BY <1>2
    <2> QED
      BY <2>1
  <1>4. IsFiniteSet(1 .. n) /\ Cardinality(1 .. n) = n
    BY <1>1, FS_Interval
  <1>5. f \in Injection(1 .. n, S)
    BY <1>2, <1>3, Fun_IsInj
  <1>6. f \in Surjection(1 .. n, S)
    BY <1>4, <1>5, FS_Injection
  <1>7. \A x \in S : \E i \in 1 .. n : f[i] = x
    BY <1>6 DEF Surjection
  <1>8. f \in Seq(S)
    BY <1>1, <1>2, SeqDef
  <1>9. Len(f) = n
    BY <1>1, <1>2
  <1> QED
    BY <1>1, <1>2, <1>7, <1>8, <1>9

\* Agents are finitely many.
LEMMA AgentsAreFinite ==
  ASSUME NEW S, S \subseteq Agent PROVE IsFiniteSet(S) /\ S \subseteq Nat
PROOF
  <1>1. Agent \subseteq Nat /\ IsFiniteSet(Agent)
    BY FrameSyncAssumption, FS_Interval DEF Agent
  <1> QED
    BY <1>1, FS_Subset

\* Numbering frames keeps the numbers and the bases well typed.
LEMMA Issued ==
  ASSUME TypeOK, NEW S, S \subseteq Agent, NEW old \in [Agent -> Basis],
         NEW shown \in [Agent -> Screens], Issue(S, old, shown)
  PROVE  /\ frames' \in [Agent -> Seq(Screens)] /\ basis' \in [Agent -> Basis]
         /\ \A a \in Agent : Len(frames[a]) \in Nat
         /\ \A a \in S :
              /\ frames'[a] = Append(frames[a], shown[a])
              /\ basis'[a].sequence = Len(frames[a]) + 1 /\ basis'[a].snapshot = shown[a]
         /\ \A a \in Agent \ S : frames'[a] = frames[a] /\ basis'[a] = old[a]
PROOF
  <1>1. \A a \in Agent : frames[a] \in Seq(Screens) /\ Len(frames[a]) \in Nat
    BY LenProperties DEF TypeOK, Screens
  <1>2. \A a \in Agent : Append(frames[a], shown[a]) \in Seq(Screens)
    BY <1>1, AppendProperties
  <1>3. frames' \in [Agent -> Seq(Screens)]
    BY <1>1, <1>2 DEF Issue
  <1>4. basis' \in [Agent -> Basis]
    BY <1>1 DEF Issue, Sequence, Basis, Screens
  <1> QED
    BY <1>1, <1>3, <1>4 DEF Issue, Sequence

\* Bases that are cleared, for all agents or for some.
LEMMA Cleared ==
  ASSUME TypeOK, NEW S
  PROVE  /\ NoBases \in [Agent -> Basis]
         /\ [a \in Agent |-> IF a \in S THEN NoBasis ELSE basis[a]] \in [Agent -> Basis]
PROOF
  <1>1. NoBasis \in Basis
    BY DEF NoBasis, Basis
  <1> QED
    BY <1>1 DEF TypeOK, NoBases

\* A resize leaves every terminal with a screen.
LEMMA ResizedScreens ==
  ASSUME TypeOK, NEW shown \in Resized
  PROVE  shown \in [Agent -> Screens]
PROOF
  BY DEF TypeOK, Resized, Screens

\* A complete frame is a message.
LEMMA FullIsMessage ==
  ASSUME TypeOK, NEW a \in Agent, NEW shown \in [Agent -> Screens]
  PROVE  FullFrame(a, shown) \in Full
PROOF
  <1>1. Len(frames[a]) \in Nat
    BY LenProperties DEF TypeOK
  <1> QED
    BY <1>1 DEF FullFrame, Full, Sequence, Screens

\* And so is a frame on the basis of the last one.
LEMMA TerminalEventIsMessage ==
  ASSUME TypeOK, NEW a \in Agent
  PROVE  TerminalEvent(a) \in Full \cup Diff
PROOF
  <1>1. Len(frames[a]) \in Nat
    BY LenProperties DEF TypeOK
  <1>2. screen \in [Agent -> Screens]
    BY DEF TypeOK, Screens
  <1>3. DiffFrame(a) \in Diff
    BY <1>1 DEF DiffFrame, Diff, Sequence, TypeOK, Basis
  <1> QED
    BY <1>2, <1>3, FullIsMessage DEF TerminalEvent

\* What leaves the queue with the frames of an agent, and what stays.
LEMMA PurgedProperties ==
  ASSUME TypeOK, NEW a \in Agent, NEW kept \in Purged(a)
  PROVE  /\ kept \in Seq(Message) /\ Len(kept) \in Nat /\ DOMAIN kept = 1 .. Len(kept)
         /\ \E f \in [DOMAIN kept -> DOMAIN queue] :
              /\ \A i \in DOMAIN kept :
                   kept[i] = queue[f[i]] /\ ~(IsFrame(kept[i]) /\ kept[i].agent = a)
              /\ \A i, j \in DOMAIN kept : i < j => f[i] < f[j]
              /\ \A k \in DOMAIN queue :
                   ~(IsFrame(queue[k]) /\ queue[k].agent = a) => \E i \in DOMAIN kept : f[i] = k
PROOF
  <1> DEFINE S == {k \in DOMAIN queue : ~(IsFrame(queue[k]) /\ queue[k].agent = a)}
  <1>1. queue \in Seq(Message) /\ Len(queue) \in Nat /\ DOMAIN queue = 1 .. Len(queue)
    BY LenProperties DEF TypeOK
  <1>2. S \subseteq Nat /\ IsFiniteSet(S)
    <2>1. IsFiniteSet(1 .. Len(queue))
      BY <1>1, FS_Interval
    <2> QED
      BY <1>1, <2>1, FS_Subset
  <1>3. PICK f \in Enumerations(S) : kept = [i \in DOMAIN f |-> queue[f[i]]]
    BY DEF Purged
  <1>4. /\ Cardinality(S) \in Nat /\ DOMAIN f = 1 .. Cardinality(S)
        /\ f \in Seq(S) /\ Len(f) = Cardinality(S)
        /\ \A i \in DOMAIN f : f[i] \in S
        /\ \A i, j \in DOMAIN f : i < j => f[i] < f[j]
        /\ \A x \in S : \E i \in DOMAIN f : f[i] = x
    <2> HIDE DEF S
    <2> QED
      BY <1>2, EnumerationProperties
  <1>5. kept \in [1 .. Cardinality(S) -> Message]
    BY <1>1, <1>3, <1>4 DEF TypeOK
  <1>6. kept \in Seq(Message) /\ Len(kept) = Cardinality(S)
    <2> HIDE DEF S
    <2> QED
      BY <1>4, <1>5, SeqDef
  <1>7. f \in [DOMAIN kept -> DOMAIN queue]
    BY <1>3, <1>4
  <1>8. \A k \in DOMAIN queue :
          ~(IsFrame(queue[k]) /\ queue[k].agent = a) => \E i \in DOMAIN kept : f[i] = k
    BY <1>3, <1>4
  <1>9. \A i \in DOMAIN kept :
          kept[i] = queue[f[i]] /\ ~(IsFrame(kept[i]) /\ kept[i].agent = a)
    BY <1>3, <1>4
  <1>10. \A i, j \in DOMAIN kept : i < j => f[i] < f[j]
    BY <1>3, <1>4
  <1> QED
    BY <1>4, <1>5, <1>6, <1>7, <1>8, <1>9, <1>10

-----------------------------------------------------------------------------
\* What a handler sends

\* A picture is a frame that shows a screen.
IsPicture(m) == m.type \in {"full", "diff"}
Picture(m, a) == IsPicture(m) /\ m.agent = a
\* A frame of agent a, or the promise of one.
About(m, a) == (IsFrame(m) \/ m.type = "owed") /\ m.agent = a

\* The screen a picture leads to.
Target(m) == IF m.type = "full" THEN m.snapshot ELSE m.to

\* The picture is numbered by this step, on the basis of the frame before.
Published(m) ==
  /\ m.sequence = Len(frames[m.agent]) + 1
  /\ frames'[m.agent] = Append(frames[m.agent], Target(m))
  /\ m.type = "diff" =>
       /\ basis[m.agent] # NoBasis
       /\ m.base = basis[m.agent].sequence /\ m.from = basis[m.agent].snapshot

\* One handler's envelopes: pictures it has just numbered, one frame per agent.
Batch(s) ==
  /\ s \in Seq(Message)
  /\ \A i \in DOMAIN s : IsPicture(s[i]) => Published(s[i])
  /\ \A a \in Agent : \A i, j \in DOMAIN s : About(s[i], a) /\ About(s[j], a) => i = j

\* Envelopes without frames.
Quiet(s) == s \in Seq(Message) /\ \A i \in DOMAIN s : ~IsFrame(s[i])

\* Envelopes without frames may precede a batch or follow it.
LEMMA QuietAround ==
  ASSUME NEW p, NEW s, Quiet(p), Batch(s)
  PROVE  Batch(p \o s) /\ Batch(s \o p)
PROOF
  <1>1. /\ p \in Seq(Message) /\ Len(p) \in Nat /\ DOMAIN p = 1 .. Len(p)
        /\ s \in Seq(Message) /\ Len(s) \in Nat /\ DOMAIN s = 1 .. Len(s)
    BY LenProperties DEF Quiet, Batch
  <1>2. \A m \in Message : m.type # "owed"
    BY DEF Message, Full, Diff, Viewport, Removed, Control
  <1>3. Batch(p \o s)
    <2>1. /\ p \o s \in Seq(Message) /\ Len(p \o s) = Len(p) + Len(s)
          /\ \A i \in 1 .. Len(p) + Len(s) :
               (p \o s)[i] = IF i <= Len(p) THEN p[i] ELSE s[i - Len(p)]
      BY <1>1, ConcatProperties
    <2>2. DOMAIN (p \o s) = 1 .. Len(p) + Len(s)
      BY <2>1, LenProperties
    <2>3. \A i \in DOMAIN (p \o s) :
            IsFrame((p \o s)[i]) => i - Len(p) \in DOMAIN s /\ (p \o s)[i] = s[i - Len(p)]
      BY <1>1, <2>1, <2>2 DEF Quiet
    <2>4. \A i \in DOMAIN (p \o s) : (p \o s)[i].type # "owed"
      BY <1>1, <1>2, <2>1, <2>2, ElementOfSeq
    <2>5. ASSUME NEW a \in Agent, NEW i \in DOMAIN (p \o s), NEW j \in DOMAIN (p \o s),
                 About((p \o s)[i], a), About((p \o s)[j], a)
          PROVE  i = j
      <3>1. IsFrame((p \o s)[i]) /\ IsFrame((p \o s)[j])
        BY <2>4, <2>5 DEF About
      <3>2. i - Len(p) = j - Len(p)
        BY <2>3, <2>5, <3>1 DEF Batch
      <3> QED
        BY <1>1, <2>2, <3>2
    <2>6. \A i \in DOMAIN (p \o s) : IsPicture((p \o s)[i]) => Published((p \o s)[i])
      BY <2>3 DEF Batch, IsPicture, IsFrame
    <2> QED
      BY <2>1, <2>5, <2>6 DEF Batch
  <1>4. Batch(s \o p)
    <2>1. /\ s \o p \in Seq(Message) /\ Len(s \o p) = Len(s) + Len(p)
          /\ \A i \in 1 .. Len(s) + Len(p) :
               (s \o p)[i] = IF i <= Len(s) THEN s[i] ELSE p[i - Len(s)]
      BY <1>1, ConcatProperties
    <2>2. DOMAIN (s \o p) = 1 .. Len(s) + Len(p)
      BY <2>1, LenProperties
    <2>3. \A i \in DOMAIN (s \o p) :
            IsFrame((s \o p)[i]) => i \in DOMAIN s /\ (s \o p)[i] = s[i]
      BY <1>1, <2>1, <2>2 DEF Quiet
    <2>4. \A i \in DOMAIN (s \o p) : (s \o p)[i].type # "owed"
      BY <1>1, <1>2, <2>1, <2>2, ElementOfSeq
    <2>5. \A a \in Agent : \A i, j \in DOMAIN (s \o p) :
            About((s \o p)[i], a) /\ About((s \o p)[j], a) => i = j
      BY <2>3, <2>4 DEF About, Batch
    <2>6. \A i \in DOMAIN (s \o p) : IsPicture((s \o p)[i]) => Published((s \o p)[i])
      BY <2>3 DEF Batch, IsPicture, IsFrame
    <2> QED
      BY <2>1, <2>5, <2>6 DEF Batch
  <1> QED
    BY <1>3, <1>4

\* A complete frame of every agent of S.
LEMMA FullBatch ==
  ASSUME TypeOK, NEW S, S \subseteq Agent, NEW old \in [Agent -> Basis],
         NEW shown \in [Agent -> Screens], Issue(S, old, shown), NEW order \in Enumerations(S),
         NEW s, s = [i \in DOMAIN order |-> FullFrame(order[i], shown)]
  PROVE  /\ Batch(s)
         /\ \A a \in S : \E i \in DOMAIN s : s[i] = FullFrame(a, shown)
         /\ \A i \in DOMAIN s : \E a \in S : s[i] = FullFrame(a, shown)
PROOF
  <1>1. /\ Cardinality(S) \in Nat /\ DOMAIN order = 1 .. Cardinality(S)
        /\ \A i \in DOMAIN order : order[i] \in S
        /\ \A i, j \in DOMAIN order : i < j => order[i] < order[j]
        /\ \A a \in S : \E i \in DOMAIN order : order[i] = a
    BY AgentsAreFinite, EnumerationProperties
  <1>2. \A a \in S : FullFrame(a, shown) \in Full /\ FullFrame(a, shown) \in Message
    BY FullIsMessage, Messages
  <1>3. s \in Seq(Message)
    <2>1. s \in [1 .. Cardinality(S) -> Message]
      BY <1>1, <1>2
    <2> QED
      BY <1>1, <2>1, SeqDef
  <1>4. \A i \in DOMAIN s : s[i] = FullFrame(order[i], shown) /\ order[i] \in S
    BY <1>1
  <1>5. ASSUME NEW i \in DOMAIN s PROVE Published(s[i])
    <2>1. s[i] = FullFrame(order[i], shown) /\ order[i] \in S
      BY <1>4
    <2>2. frames'[order[i]] = Append(frames[order[i]], shown[order[i]])
      BY <2>1 DEF Issue
    <2> QED
      BY <2>1, <2>2 DEF Published, FullFrame, Target, Sequence
  <1>6. ASSUME NEW a \in Agent, NEW i \in DOMAIN s, NEW j \in DOMAIN s,
               About(s[i], a), About(s[j], a), i # j
        PROVE  FALSE
    <2>1. order[i] = a /\ order[j] = a
      BY <1>4, <1>6 DEF About, FullFrame
    <2>2. a < a
      BY <1>1, <1>6, <2>1
    <2> QED
      BY <2>2, FrameSyncAssumption DEF Agent
  <1> QED
    BY <1>1, <1>3, <1>4, <1>5, <1>6 DEF Batch

\* The frames of a poll.
LEMMA PollBatch ==
  ASSUME TypeOK, NEW S, S \subseteq Agent, NEW old \in [Agent -> Basis],
         Issue(S, old, screen), NEW order \in Enumerations(S),
         NEW s, s = [i \in DOMAIN order |-> TerminalEvent(order[i])]
  PROVE  /\ Batch(s)
         /\ \A a \in S : \E i \in DOMAIN s : s[i] = TerminalEvent(a)
         /\ \A i \in DOMAIN s : \E a \in S : s[i] = TerminalEvent(a)
PROOF
  <1>1. /\ Cardinality(S) \in Nat /\ DOMAIN order = 1 .. Cardinality(S)
        /\ \A i \in DOMAIN order : order[i] \in S
        /\ \A i, j \in DOMAIN order : i < j => order[i] < order[j]
        /\ \A a \in S : \E i \in DOMAIN order : order[i] = a
    BY AgentsAreFinite, EnumerationProperties
  <1>2. \A a \in S : TerminalEvent(a) \in Full \cup Diff /\ TerminalEvent(a) \in Message
    BY TerminalEventIsMessage, Messages
  <1>3. s \in Seq(Message)
    <2>1. s \in [1 .. Cardinality(S) -> Message]
      BY <1>1, <1>2
    <2> QED
      BY <1>1, <2>1, SeqDef
  <1>4. \A i \in DOMAIN s : s[i] = TerminalEvent(order[i]) /\ order[i] \in S
    BY <1>1
  <1>5. ASSUME NEW i \in DOMAIN s PROVE Published(s[i])
    <2>1. s[i] = TerminalEvent(order[i]) /\ order[i] \in S
      BY <1>4
    <2>2. frames'[order[i]] = Append(frames[order[i]], screen[order[i]])
      BY <2>1 DEF Issue
    <2> QED
      BY <2>1, <2>2 DEF Published, TerminalEvent, FullFrame, DiffFrame, Target, Sequence
  <1>6. ASSUME NEW a \in Agent, NEW i \in DOMAIN s, NEW j \in DOMAIN s,
               About(s[i], a), About(s[j], a), i # j
        PROVE  FALSE
    <2>1. order[i] = a /\ order[j] = a
      BY <1>4, <1>6 DEF About, TerminalEvent, FullFrame, DiffFrame
    <2>2. a < a
      BY <1>1, <1>6, <2>1
    <2> QED
      BY <2>2, FrameSyncAssumption DEF Agent
  <1> QED
    BY <1>1, <1>3, <1>4, <1>5, <1>6 DEF Batch

\* Responses and events without frames.
LEMMA QuietSequences ==
  /\ Quiet(<<>>) /\ Quiet(<<ControlMessage>>) /\ Quiet(<<ControlMessage, ControlMessage>>)
  /\ Quiet(<<[type |-> "spawned"]>>) /\ Quiet(<<[type |-> "spawned"], ControlMessage>>)
  /\ \A a \in Agent : Quiet(<<ControlMessage, [type |-> "removed", agent |-> a]>>)
  /\ \A S : S \subseteq Agent => \A order \in Enumerations(S) :
       /\ Quiet([i \in DOMAIN order |-> ControlMessage])
       /\ Quiet([i \in DOMAIN order |-> [type |-> "removed", agent |-> order[i]]])
PROOF
  <1>1. ControlMessage \in Message /\ ~IsFrame(ControlMessage)
    BY DEF ControlMessage, Message, Control, IsFrame
  <1>2. [type |-> "spawned"] \in Message /\ ~IsFrame([type |-> "spawned"])
    BY DEF Message, Control, IsFrame
  <1>3. \A a \in Agent : /\ [type |-> "removed", agent |-> a] \in Message
                         /\ ~IsFrame([type |-> "removed", agent |-> a])
    BY DEF Message, Removed, IsFrame
  <1>4. ASSUME NEW S, S \subseteq Agent, NEW order \in Enumerations(S)
        PROVE  /\ Quiet([i \in DOMAIN order |-> ControlMessage])
               /\ Quiet([i \in DOMAIN order |-> [type |-> "removed", agent |-> order[i]]])
    <2>1. /\ Cardinality(S) \in Nat /\ DOMAIN order = 1 .. Cardinality(S)
          /\ \A i \in DOMAIN order : order[i] \in Agent
      BY <1>4, AgentsAreFinite, EnumerationProperties
    <2>2. \A n \in Nat : \A s \in [1 .. n -> Message] : s \in Seq(Message)
      BY SeqDef
    <2>3. [i \in DOMAIN order |-> ControlMessage] \in Seq(Message)
      BY <1>1, <2>1, <2>2
    <2>4. [i \in DOMAIN order |-> [type |-> "removed", agent |-> order[i]]] \in Seq(Message)
      BY <1>3, <2>1, <2>2
    <2> QED
      BY <1>1, <1>3, <2>1, <2>3, <2>4 DEF Quiet
  <1> QED
    BY <1>1, <1>2, <1>3, <1>4 DEF Quiet

\* A single frame is a batch.
LEMMA SingleBatch ==
  ASSUME NEW m \in Message, IsPicture(m) => Published(m)
  PROVE  Batch(<<m>>)
PROOF
  BY DEF Batch

\* Envelopes without frames, one after the other.
LEMMA QuietConcat ==
  ASSUME NEW p, NEW s, Quiet(p), Quiet(s)
  PROVE  Quiet(p \o s)
PROOF
  <1>1. /\ p \in Seq(Message) /\ Len(p) \in Nat /\ DOMAIN p = 1 .. Len(p)
        /\ s \in Seq(Message) /\ Len(s) \in Nat /\ DOMAIN s = 1 .. Len(s)
    BY LenProperties DEF Quiet
  <1>2. /\ p \o s \in Seq(Message) /\ Len(p \o s) = Len(p) + Len(s)
        /\ \A i \in 1 .. Len(p) + Len(s) :
             (p \o s)[i] = IF i <= Len(p) THEN p[i] ELSE s[i - Len(p)]
    BY <1>1, ConcatProperties
  <1>3. DOMAIN (p \o s) = 1 .. Len(p) + Len(s)
    BY <1>2, LenProperties
  <1> QED
    BY <1>1, <1>2, <1>3 DEF Quiet

\* A batch without frames publishes nothing.
LEMMA QuietIsBatch ==
  ASSUME NEW s, Quiet(s) PROVE Batch(s)
PROOF
  <1>1. \A m \in Message : m.type # "owed"
    BY DEF Message, Full, Diff, Viewport, Removed, Control
  <1>2. \A i \in DOMAIN s : s[i] \in Message
    BY LenProperties, ElementOfSeq DEF Quiet
  <1> QED
    BY <1>1, <1>2 DEF Quiet, Batch, About, IsPicture, IsFrame

-----------------------------------------------------------------------------
\* The handlers

\* What every handler does to the connection and the client.
Handled ==
  /\ outbox = <<>> /\ Batch(outbox')
  /\ UNCHANGED <<queue, wire, clientVars>>

\* What the coordinator takes a request from.
LEMMA HandlingProperties ==
  ASSUME TypeOK, NEW type, Handling(type)
  PROVE  /\ uplink \in Seq(Request) /\ uplink # <<>>
         /\ Head(uplink) \in Request /\ Head(uplink).type = type
         /\ uplink' \in Seq(Request) /\ Len(uplink') <= UplinkCapacity
         /\ outbox = <<>> /\ UNCHANGED <<connected, queue, wire, clientVars, ops, attaches>>
PROOF
  <1>1. uplink \in Seq(Request) /\ uplink # <<>> /\ Len(uplink) <= UplinkCapacity
    BY DEF TypeOK, Handling
  <1>2. /\ Head(uplink) \in Request /\ Tail(uplink) \in Seq(Request)
        /\ Len(Tail(uplink)) = Len(uplink) - 1 /\ Len(uplink) \in Nat
    BY <1>1, HeadTailProperties, LenProperties
  <1> QED
    BY <1>1, <1>2, FrameSyncAssumption DEF Handling

\* A batch fits the outbox.
LEMMA BatchIsOutbox ==
  ASSUME NEW s, Batch(s) PROVE s \in Seq(Message \cup Owed)
PROOF
  BY Messages, SeqMonotonic DEF Batch, Item

LEMMA AttachType ==
  ASSUME TypeOK, Attach, outbox = <<>> PROVE Handled /\ TypeOK'
PROOF
  <1>1. PICK shown \in Resized, order \in Enumerations(agents) :
          /\ screen' = shown /\ Issue(agents, NoBases, shown)
          /\ outbox' = <<ControlMessage, ControlMessage>>
                         \o [i \in DOMAIN order |-> FullFrame(order[i], shown)]
                         \o <<ControlMessage>>
    BY DEF Attach
  <1> DEFINE s == [i \in DOMAIN order |-> FullFrame(order[i], shown)]
  <1>2. shown \in [Agent -> Screens] /\ NoBases \in [Agent -> Basis] /\ agents \subseteq Agent
    BY ResizedScreens, Cleared DEF TypeOK
  <1>3. Batch(s)
    BY <1>1, <1>2, FullBatch
  <1>4. Batch(outbox')
    <2> HIDE DEF s
    <2>1. outbox' = (<<ControlMessage, ControlMessage>> \o s) \o <<ControlMessage>>
      BY <1>1 DEF s
    <2>2. Batch(<<ControlMessage, ControlMessage>> \o s)
      BY <1>3, QuietSequences, QuietAround
    <2> QED
      BY <2>1, <2>2, QuietSequences, QuietAround
  <1>5. frames' \in [Agent -> Seq(Screens)] /\ basis' \in [Agent -> Basis]
    BY <1>1, <1>2, Issued
  <1>6. outbox' \in Seq(Message \cup Owed)
    BY <1>4, BatchIsOutbox
  <1>7. Handled
    BY <1>4 DEF Attach, Handled
  <1> QED
    BY <1>1, <1>2, <1>5, <1>6, <1>7 DEF TypeOK, Attach, clientVars, Screens

LEMMA PollType ==
  ASSUME TypeOK, NEW quit \in SUBSET agents, Poll(quit) PROVE Handled /\ TypeOK'
PROOF
  <1> DEFINE shown == dirty \ quit
             S == IF connected THEN shown ELSE {}
             old == [a \in Agent |-> IF a \in quit THEN NoBasis ELSE basis[a]]
  <1>1. PICK order \in Enumerations(shown), gone \in Enumerations(quit) :
          outbox' = IF connected
                    THEN [i \in DOMAIN order |-> ControlMessage]
                           \o [i \in DOMAIN gone |-> [type |-> "removed", agent |-> gone[i]]]
                           \o [i \in DOMAIN order |-> TerminalEvent(order[i])]
                    ELSE <<>>
    BY DEF Poll
  <1>2. /\ Issue(S, old, screen) /\ outbox = <<>>
        /\ agents' = agents \ quit /\ dirty' = {}
        /\ UNCHANGED <<nextId, screen, connected, queue, wire, uplink, clientVars, ops, attaches>>
    BY DEF Poll
  <1>3. /\ shown \subseteq Agent /\ quit \subseteq Agent /\ S \subseteq Agent
        /\ old \in [Agent -> Basis] /\ screen \in [Agent -> Screens]
    BY Cleared DEF TypeOK, Screens
  <1>4. Batch(outbox')
    <2>1. CASE connected
      <3> DEFINE s == [i \in DOMAIN order |-> TerminalEvent(order[i])]
                 c == [i \in DOMAIN order |-> ControlMessage]
                 g == [i \in DOMAIN gone |-> [type |-> "removed", agent |-> gone[i]]]
      <3>1. Issue(shown, old, screen)
        BY <1>2, <2>1
      <3>2. Batch(s)
        <4> HIDE DEF shown, old
        <4> QED
          BY <1>3, <3>1, PollBatch
      <3>3. Quiet(c) /\ Quiet(g)
        BY <1>3, QuietSequences
      <3>4. outbox' = (c \o g) \o s
        BY <1>1, <2>1
      <3> HIDE DEF s, c, g
      <3> QED
        BY <3>2, <3>3, <3>4, QuietConcat, QuietAround
    <2>2. CASE ~connected
      BY <1>1, <2>2, QuietSequences, QuietIsBatch
    <2> QED
      BY <2>1, <2>2
  <1>5. frames' \in [Agent -> Seq(Screens)] /\ basis' \in [Agent -> Basis]
    <2> HIDE DEF S, old
    <2> QED
      BY <1>2, <1>3, Issued
  <1>6. outbox' \in Seq(Message \cup Owed)
    BY <1>4, BatchIsOutbox
  <1>7. Handled
    BY <1>2, <1>4 DEF Handled
  <1> QED
    BY <1>2, <1>5, <1>6, <1>7 DEF TypeOK, clientVars, Screens

LEMMA HandleAckType ==
  ASSUME TypeOK, HandleAck PROVE Handled /\ TypeOK'
PROOF
  <1> DEFINE r == Head(uplink)
  <1>1. /\ r \in Request /\ r.type = "ack"
        /\ uplink' \in Seq(Request) /\ Len(uplink') <= UplinkCapacity
        /\ outbox = <<>> /\ UNCHANGED <<connected, queue, wire, clientVars, ops, attaches>>
    BY HandlingProperties DEF HandleAck
  <1>2. r.agent \in Agent /\ r.sequence \in Nat
    BY <1>1, RequestKinds
  <1>3. basis' \in [Agent -> Basis]
    <2>1. basis[r.agent] \in Basis
      BY <1>2 DEF TypeOK
    <2>2. [basis EXCEPT ![r.agent].acknowledged = r.sequence] \in [Agent -> Basis]
      BY <1>2, <2>1 DEF TypeOK, Basis
    <2> QED
      BY <2>2 DEF HandleAck, TypeOK
  <1>4. Batch(outbox')
    BY QuietSequences, QuietIsBatch DEF HandleAck
  <1>5. outbox' \in Seq(Message \cup Owed)
    BY <1>4, BatchIsOutbox
  <1> QED
    BY <1>1, <1>3, <1>4, <1>5 DEF TypeOK, HandleAck, Handled, clientVars

LEMMA HandleResyncType ==
  ASSUME TypeOK, HandleResync PROVE Handled /\ TypeOK'
PROOF
  <1> DEFINE a == Head(uplink).agent
  <1>1. /\ Head(uplink) \in Request /\ Head(uplink).type = "resync"
        /\ uplink' \in Seq(Request) /\ Len(uplink') <= UplinkCapacity
        /\ outbox = <<>> /\ UNCHANGED <<connected, queue, wire, clientVars, ops, attaches>>
    BY HandlingProperties DEF HandleResync
  <1>2. a \in Agent /\ {a} \cap agents \subseteq Agent
    BY <1>1, RequestKinds
  <1>3. Issue({a} \cap agents, basis, screen)
    BY DEF HandleResync
  <1>4. basis \in [Agent -> Basis] /\ screen \in [Agent -> Screens]
    BY DEF TypeOK, Screens
  <1>5. frames' \in [Agent -> Seq(Screens)] /\ basis' \in [Agent -> Basis]
    <2> HIDE DEF a
    <2> QED
      BY <1>2, <1>3, <1>4, Issued
  <1>6. Batch(outbox')
    <2>1. CASE a \in agents
      <3>1. outbox' = <<ControlMessage, FullFrame(a, screen)>>
        BY <2>1 DEF HandleResync
      <3>2. FullFrame(a, screen) \in Message
        BY <1>2, <1>4, FullIsMessage, Messages
      <3>3. Published(FullFrame(a, screen))
        BY <1>2, <1>3, <2>1 DEF Published, FullFrame, Target, Sequence, Issue
      <3>4. Batch(<<FullFrame(a, screen)>>)
        BY <3>2, <3>3, SingleBatch
      <3>5. outbox' = <<ControlMessage>> \o <<FullFrame(a, screen)>>
        BY <3>1
      <3> QED
        BY <3>4, <3>5, QuietSequences, QuietAround
    <2>2. CASE a \notin agents
      BY <2>2, QuietSequences, QuietIsBatch DEF HandleResync
    <2> QED
      BY <2>1, <2>2
  <1>7. outbox' \in Seq(Message \cup Owed)
    BY <1>6, BatchIsOutbox
  <1> QED
    BY <1>1, <1>5, <1>6, <1>7 DEF TypeOK, HandleResync, Handled, clientVars, Screens

LEMMA HandleViewportType ==
  ASSUME TypeOK, HandleViewport PROVE Handled /\ TypeOK'
PROOF
  <1> DEFINE r == Head(uplink)
  <1>1. /\ r \in Request /\ r.type = "viewport"
        /\ uplink' \in Seq(Request) /\ Len(uplink') <= UplinkCapacity
        /\ outbox = <<>> /\ UNCHANGED <<connected, queue, wire, clientVars, ops, attaches>>
    BY HandlingProperties DEF HandleViewport
  <1>2. r.agent \in Agent /\ r.scrollback \in Nat
    BY <1>1, RequestKinds
  <1>3. Batch(outbox')
    <2>1. CASE r.agent \in agents
      <3>1. PICK shown \in 0 .. r.scrollback :
              outbox' = <<ControlMessage,
                          [type |-> "viewport", agent |-> r.agent,
                           requested |-> r.scrollback, scrollback |-> shown]>>
        BY <2>1 DEF HandleViewport
      <3> DEFINE m == [type |-> "viewport", agent |-> r.agent,
                       requested |-> r.scrollback, scrollback |-> shown]
      <3>2. m \in Message /\ ~IsPicture(m)
        BY <1>2 DEF Message, Viewport, IsPicture
      <3>3. Batch(<<m>>)
        BY <3>2, SingleBatch
      <3>4. outbox' = <<ControlMessage>> \o <<m>>
        BY <3>1
      <3> QED
        BY <3>3, <3>4, QuietSequences, QuietAround
    <2>2. CASE r.agent \notin agents
      BY <2>2, QuietSequences, QuietIsBatch DEF HandleViewport
    <2> QED
      BY <2>1, <2>2
  <1>4. outbox' \in Seq(Message \cup Owed)
    BY <1>3, BatchIsOutbox
  <1> QED
    BY <1>1, <1>3, <1>4 DEF TypeOK, HandleViewport, Handled, serverVars, clientVars

LEMMA HandleResizeType ==
  ASSUME TypeOK, HandleResize PROVE Handled /\ TypeOK'
PROOF
  <1>1. /\ uplink' \in Seq(Request) /\ Len(uplink') <= UplinkCapacity
        /\ outbox = <<>> /\ UNCHANGED <<connected, queue, wire, clientVars, ops, attaches>>
    BY HandlingProperties DEF HandleResize
  <1>2. PICK shown \in Resized, order \in Enumerations(agents) :
          /\ screen' = shown /\ Issue(agents, NoBases, shown)
          /\ outbox' = <<ControlMessage>> \o [i \in DOMAIN order |-> FullFrame(order[i], shown)]
    BY DEF HandleResize
  <1> DEFINE s == [i \in DOMAIN order |-> FullFrame(order[i], shown)]
  <1>3. shown \in [Agent -> Screens] /\ NoBases \in [Agent -> Basis] /\ agents \subseteq Agent
    BY ResizedScreens, Cleared DEF TypeOK
  <1>4. Batch(s)
    BY <1>2, <1>3, FullBatch
  <1>5. Batch(outbox')
    <2>1. outbox' = <<ControlMessage>> \o s
      BY <1>2
    <2> HIDE DEF s
    <2> QED
      BY <1>4, <2>1, QuietSequences, QuietAround
  <1>6. frames' \in [Agent -> Seq(Screens)] /\ basis' \in [Agent -> Basis]
    BY <1>2, <1>3, Issued
  <1>7. outbox' \in Seq(Message \cup Owed)
    BY <1>5, BatchIsOutbox
  <1> QED
    BY <1>1, <1>2, <1>3, <1>5, <1>6, <1>7 DEF TypeOK, HandleResize, Handled, clientVars, Screens

LEMMA HandleSpawnType ==
  ASSUME TypeOK, HandleSpawn PROVE Handled /\ TypeOK'
PROOF
  <1> DEFINE S == {nextId} \cap Agent
  <1>1. /\ uplink' \in Seq(Request) /\ Len(uplink') <= UplinkCapacity
        /\ outbox = <<>> /\ UNCHANGED <<connected, queue, wire, clientVars, ops, attaches>>
    BY HandlingProperties DEF HandleSpawn
  <1>2. /\ S \subseteq Agent /\ Issue(S, basis, screen)
        /\ basis \in [Agent -> Basis] /\ screen \in [Agent -> Screens]
    BY DEF HandleSpawn, TypeOK, Screens
  <1>3. frames' \in [Agent -> Seq(Screens)] /\ basis' \in [Agent -> Basis]
    <2> HIDE DEF S
    <2> QED
      BY <1>2, Issued
  <1>4. Batch(outbox')
    <2>1. CASE nextId \in Agent
      <3>1. outbox' = <<[type |-> "spawned"], ControlMessage, FullFrame(nextId, screen)>>
        BY <2>1 DEF HandleSpawn
      <3>2. FullFrame(nextId, screen) \in Message
        BY <1>2, <2>1, FullIsMessage, Messages
      <3>3. Published(FullFrame(nextId, screen))
        BY <1>2, <2>1 DEF Published, FullFrame, Target, Sequence, Issue
      <3>4. Batch(<<FullFrame(nextId, screen)>>)
        BY <3>2, <3>3, SingleBatch
      <3>5. outbox' = <<[type |-> "spawned"], ControlMessage>> \o <<FullFrame(nextId, screen)>>
        BY <3>1
      <3> QED
        BY <3>4, <3>5, QuietSequences, QuietAround
    <2>2. CASE nextId \notin Agent
      BY <2>2, QuietSequences, QuietIsBatch DEF HandleSpawn
    <2> QED
      BY <2>1, <2>2
  <1>5. outbox' \in Seq(Message \cup Owed)
    BY <1>4, BatchIsOutbox
  <1>6. agents' \subseteq Agent /\ nextId' \in Nat
    BY DEF HandleSpawn, TypeOK
  <1>7. UNCHANGED <<screen, dirty>>
    BY DEF HandleSpawn
  <1> QED
    BY <1>1, <1>3, <1>4, <1>5, <1>6, <1>7 DEF TypeOK, Handled, clientVars, Screens

LEMMA HandleCloseType ==
  ASSUME TypeOK, HandleClose PROVE Handled /\ TypeOK'
PROOF
  <1> DEFINE a == Head(uplink).agent
  <1>1. /\ Head(uplink) \in Request /\ Head(uplink).type = "close"
        /\ uplink' \in Seq(Request) /\ Len(uplink') <= UplinkCapacity
        /\ outbox = <<>> /\ UNCHANGED <<connected, queue, wire, clientVars, ops, attaches>>
    BY HandlingProperties DEF HandleClose
  <1>2. a \in Agent
    BY <1>1, RequestKinds
  <1>3. Batch(outbox')
    BY <1>2, QuietSequences, QuietIsBatch DEF HandleClose
  <1>4. outbox' \in Seq(Message \cup Owed)
    BY <1>3, BatchIsOutbox
  <1>5. basis' \in [Agent -> Basis]
    BY DEF HandleClose, TypeOK, NoBasis, Basis
  <1>6. agents' \subseteq Agent /\ dirty' \subseteq Agent /\ UNCHANGED <<nextId, screen, frames>>
    BY DEF HandleClose, TypeOK
  <1> QED
    BY <1>1, <1>3, <1>4, <1>5, <1>6 DEF TypeOK, Handled, clientVars

-----------------------------------------------------------------------------
\* The connection

\* The oldest envelope of the outbox, and the others.
LEMMA OutboxProperties ==
  ASSUME TypeOK, outbox # <<>>
  PROVE  /\ outbox \in Seq(Item) /\ Head(outbox) \in Item /\ Head(outbox) = outbox[1]
         /\ Tail(outbox) \in Seq(Item) /\ Len(outbox) \in Nat \ {0}
         /\ Len(Tail(outbox)) = Len(outbox) - 1
         /\ DOMAIN outbox = 1 .. Len(outbox) /\ DOMAIN Tail(outbox) = 1 .. Len(outbox) - 1
         /\ \A i \in 1 .. Len(outbox) - 1 : Tail(outbox)[i] = outbox[i + 1]
         /\ Head(outbox).type # "owed" => Head(outbox) \in Message
PROOF
  <1>1. outbox \in Seq(Item)
    BY DEF TypeOK, Item
  <1>2. /\ Head(outbox) \in Item /\ Tail(outbox) \in Seq(Item)
        /\ Len(Tail(outbox)) = Len(outbox) - 1
        /\ \A i \in 1 .. Len(Tail(outbox)) : Tail(outbox)[i] = outbox[i + 1]
    BY <1>1, HeadTailProperties
  <1>3. Len(outbox) \in Nat \ {0} /\ DOMAIN outbox = 1 .. Len(outbox)
    BY <1>1, EmptySeq, LenProperties
  <1>4. DOMAIN Tail(outbox) = 1 .. Len(outbox) - 1
    BY <1>2, LenProperties
  <1>5. Head(outbox) = outbox[1]
    BY <1>1, <1>3
  <1> QED
    BY <1>1, <1>2, <1>3, <1>4, <1>5, ItemKinds

\* Frames are given up for an agent.
LEMMA VictimProperties ==
  ASSUME TypeOK, NEW m \in Message
  PROVE  Victim(m) \subseteq Agent
PROOF
  <1>1. \A n \in Message : IsFrame(n) => n.agent \in Agent
    BY DEF Message, Full, Diff, Viewport, Removed, Control, IsFrame
  <1>2. \A k \in DOMAIN queue : queue[k] \in Message
    BY LenProperties, ElementOfSeq DEF TypeOK
  <1> QED
    BY <1>1, <1>2 DEF Victim

\* A frame that is owed goes before the rest of the outbox.
LEMMA InsteadOfTheHead ==
  ASSUME TypeOK, outbox # <<>>, NEW m \in Item
  PROVE  /\ <<m>> \o Tail(outbox) \in Seq(Item)
         /\ Len(<<m>> \o Tail(outbox)) = Len(outbox)
         /\ DOMAIN (<<m>> \o Tail(outbox)) = 1 .. Len(outbox)
         /\ \A i \in 1 .. Len(outbox) :
              (<<m>> \o Tail(outbox))[i] = IF i = 1 THEN m ELSE outbox[i]
PROOF
  <1>1. <<m>> \in Seq(Item) /\ Len(<<m>>) = 1 /\ <<m>>[1] = m
    OBVIOUS
  <1>2. /\ Tail(outbox) \in Seq(Item) /\ Len(outbox) \in Nat \ {0}
        /\ Len(Tail(outbox)) = Len(outbox) - 1
        /\ \A i \in 1 .. Len(outbox) - 1 : Tail(outbox)[i] = outbox[i + 1]
    BY OutboxProperties
  <1>3. /\ <<m>> \o Tail(outbox) \in Seq(Item)
        /\ Len(<<m>> \o Tail(outbox)) = 1 + Len(Tail(outbox))
        /\ \A i \in 1 .. 1 + Len(Tail(outbox)) :
             (<<m>> \o Tail(outbox))[i] = IF i <= 1 THEN <<m>>[i] ELSE Tail(outbox)[i - 1]
    BY <1>1, <1>2, ConcatProperties
  <1>4. DOMAIN (<<m>> \o Tail(outbox)) = 1 .. Len(outbox)
    BY <1>2, <1>3, LenProperties
  <1>5. ASSUME NEW i \in 1 .. Len(outbox)
        PROVE  (<<m>> \o Tail(outbox))[i] = IF i = 1 THEN m ELSE outbox[i]
    <2>1. i = 1 \/ (i > 1 /\ i - 1 \in 1 .. Len(outbox) - 1)
      BY <1>2
    <2>2. i \in 1 .. 1 + Len(Tail(outbox))
      BY <1>2
    <2> QED
      BY <1>1, <1>2, <1>3, <2>1, <2>2
  <1> QED
    BY <1>2, <1>3, <1>4, <1>5

LEMMA PushQueuedType ==
  ASSUME TypeOK, PushQueued PROVE TypeOK'
PROOF
  <1>1. Head(outbox) \in Message /\ Tail(outbox) \in Seq(Message \cup Owed)
    BY OutboxProperties DEF PushQueued, Sending, Item
  <1>2. queue \in Seq(Message) /\ Len(queue) < Capacity
    BY DEF PushQueued, TypeOK, Room
  <1>3. /\ queue' \in Seq(Message) /\ Len(queue') <= Capacity
    BY <1>1, <1>2, AppendProperties, LenProperties, FrameSyncAssumption DEF PushQueued
  <1> QED
    BY <1>1, <1>3 DEF TypeOK, PushQueued, serverVars, clientVars

\* What a push on a full queue does: agent a gives up its frames.
Pressed(m, a, kept) ==
  /\ m = Head(outbox) /\ m \in Message /\ outbox # <<>>
  /\ a \in Agent /\ a \in Victim(m) /\ kept \in Purged(a) /\ Len(kept) < Capacity
  /\ queue' = IF m.type = "diff" THEN kept ELSE Append(kept, m)
  /\ outbox' = IF Owes(m) THEN <<[type |-> "owed", agent |-> a]>> \o Tail(outbox)
                          ELSE Tail(outbox)

LEMMA Pressure ==
  ASSUME TypeOK, PushUnderPressure PROVE \E m, a, kept : Pressed(m, a, kept)
PROOF
  <1> DEFINE m == Head(outbox)
  <1>1. m \in Message /\ outbox # <<>>
    BY OutboxProperties DEF PushUnderPressure, Sending
  <1>2. PICK a \in Victim(m) : \E kept \in Purged(a) :
          /\ Len(kept) < Capacity
          /\ queue' = IF m.type = "diff" THEN kept ELSE Append(kept, m)
          /\ outbox' = IF Owes(m) THEN <<[type |-> "owed", agent |-> a]>> \o Tail(outbox)
                                  ELSE Tail(outbox)
    BY DEF PushUnderPressure
  <1>3. a \in Agent
    BY <1>1, <1>2, VictimProperties
  <1> QED
    BY <1>1, <1>2, <1>3 DEF Pressed

LEMMA PushUnderPressureType ==
  ASSUME TypeOK, PushUnderPressure PROVE TypeOK'
PROOF
  <1>1. PICK m, a, kept : Pressed(m, a, kept)
    BY Pressure
  <1>2. kept \in Seq(Message) /\ Len(kept) \in Nat /\ m \in Message /\ a \in Agent
    BY <1>1, PurgedProperties DEF Pressed
  <1>3. queue' \in Seq(Message) /\ Len(queue') <= Capacity
    <2>1. Append(kept, m) \in Seq(Message) /\ Len(Append(kept, m)) = Len(kept) + 1
      BY <1>2, AppendProperties
    <2> QED
      BY <1>1, <1>2, <2>1, FrameSyncAssumption DEF Pressed
  <1>4. outbox' \in Seq(Message \cup Owed)
    <2>1. [type |-> "owed", agent |-> a] \in Item
      BY <1>2 DEF Item, Owed
    <2>2. /\ <<[type |-> "owed", agent |-> a]>> \o Tail(outbox) \in Seq(Item)
          /\ Tail(outbox) \in Seq(Item)
      BY <1>1, <2>1, InsteadOfTheHead, OutboxProperties DEF Pressed
    <2> QED
      BY <1>1, <2>2 DEF Pressed, Item
  <1> QED
    BY <1>3, <1>4 DEF TypeOK, PushUnderPressure, serverVars, clientVars

LEMMA SendOwedType ==
  ASSUME TypeOK, SendOwed PROVE TypeOK'
PROOF
  <1>1. PICK a \in agents :
          /\ outbox # <<>> /\ Head(outbox) = [type |-> "owed", agent |-> a]
          /\ outbox' = <<FullFrame(a, screen)>> \o Tail(outbox)
          /\ Issue({a}, basis, screen)
          /\ UNCHANGED <<agents, nextId, screen, dirty, connected, queue, wire, uplink,
                         clientVars, ops, attaches>>
    BY DEF SendOwed
  <1>2. a \in Agent /\ basis \in [Agent -> Basis] /\ screen \in [Agent -> Screens]
    BY DEF TypeOK, Screens
  <1>3. frames' \in [Agent -> Seq(Screens)] /\ basis' \in [Agent -> Basis]
    BY <1>1, <1>2, Issued
  <1>4. FullFrame(a, screen) \in Item
    BY <1>2, FullIsMessage, Messages
  <1>5. outbox' \in Seq(Message \cup Owed)
    BY <1>1, <1>4, InsteadOfTheHead DEF Item
  <1> QED
    BY <1>1, <1>3, <1>5 DEF TypeOK, clientVars, Screens

LEMMA LoseConnectionType ==
  ASSUME TypeOK, LoseConnection PROVE TypeOK'
PROOF
  <1>1. NoBasis \in Basis /\ NoTerminal \in Terminal
    BY DEF NoBasis, Basis, NoTerminal, Terminal
  <1>2. \A S : <<>> \in Seq(S) /\ Len(<<>>) = 0
    BY EmptySeq
  <1>3. basis' \in [Agent -> Basis] /\ cache' \in [Agent -> Terminal]
    BY <1>1 DEF LoseConnection, NoBases
  <1>4. /\ outbox' \in Seq(Message \cup Owed)
        /\ queue' \in Seq(Message) /\ Len(queue') <= Capacity
        /\ wire' \in Seq(Message) /\ Len(wire') <= WireCapacity
        /\ uplink' \in Seq(Request) /\ Len(uplink') <= UplinkCapacity
    BY <1>2, FrameSyncAssumption DEF LoseConnection
  <1>5. /\ pending' \subseteq Agent /\ dropped' \subseteq Agent
        /\ connected' \in BOOLEAN /\ waiting' \in BOOLEAN
        /\ UNCHANGED <<agents, nextId, screen, dirty, frames, ops, attaches>>
    BY DEF LoseConnection
  <1> QED
    BY <1>3, <1>4, <1>5 DEF TypeOK

LEMMA WriteType ==
  ASSUME TypeOK, Write PROVE TypeOK'
PROOF
  <1>1. /\ Head(queue) \in Message /\ Tail(queue) \in Seq(Message)
        /\ Len(Tail(queue)) = Len(queue) - 1 /\ Len(queue) \in Nat
    BY HeadTailProperties, LenProperties DEF TypeOK, Write
  <1>2. /\ Append(wire, Head(queue)) \in Seq(Message)
        /\ Len(Append(wire, Head(queue))) = Len(wire) + 1 /\ Len(wire) \in Nat
    BY <1>1, AppendProperties, LenProperties DEF TypeOK
  <1>3. wire' \in Seq(Message) /\ Len(wire') <= WireCapacity
    BY <1>2, FrameSyncAssumption DEF Write
  <1>4. queue' \in Seq(Message) /\ Len(queue') <= Capacity
    BY <1>1, FrameSyncAssumption DEF Write, TypeOK
  <1> QED
    BY <1>3, <1>4 DEF TypeOK, Write, serverVars, clientVars

-----------------------------------------------------------------------------
\* The client

\* The oldest envelope on the wire, and the others.
LEMMA WireProperties ==
  ASSUME TypeOK, wire # <<>>
  PROVE  /\ Head(wire) \in Message /\ Head(wire) \in Item /\ Head(wire) = wire[1]
         /\ Tail(wire) \in Seq(Message) /\ Len(wire) \in Nat \ {0}
         /\ Len(Tail(wire)) = Len(wire) - 1 /\ Len(Tail(wire)) <= WireCapacity
         /\ DOMAIN wire = 1 .. Len(wire) /\ DOMAIN Tail(wire) = 1 .. Len(wire) - 1
         /\ \A i \in 1 .. Len(wire) - 1 : Tail(wire)[i] = wire[i + 1]
PROOF
  <1>1. wire \in Seq(Message) /\ Len(wire) <= WireCapacity
    BY DEF TypeOK
  <1>2. /\ Head(wire) \in Message /\ Tail(wire) \in Seq(Message)
        /\ Len(Tail(wire)) = Len(wire) - 1
        /\ \A i \in 1 .. Len(Tail(wire)) : Tail(wire)[i] = wire[i + 1]
    BY <1>1, HeadTailProperties
  <1>3. Len(wire) \in Nat \ {0} /\ DOMAIN wire = 1 .. Len(wire)
    BY <1>1, EmptySeq, LenProperties
  <1>4. DOMAIN Tail(wire) = 1 .. Len(wire) - 1
    BY <1>2, LenProperties
  <1>5. Head(wire) = wire[1]
    BY <1>1, <1>3
  <1>6. Head(wire) \in Item
    BY <1>2, Messages
  <1> QED
    BY <1>1, <1>2, <1>3, <1>4, <1>5, <1>6, FrameSyncAssumption

\* A request that is sent joins the others.
LEMMA SendProperties ==
  ASSUME TypeOK, NEW r \in Request, Send(r)
  PROVE  /\ uplink' \in Seq(Request) /\ Len(uplink') <= UplinkCapacity
         /\ Len(uplink') = Len(uplink) + 1 /\ Len(uplink) \in Nat
         /\ DOMAIN uplink = 1 .. Len(uplink) /\ DOMAIN uplink' = 1 .. Len(uplink) + 1
         /\ \A i \in DOMAIN uplink : uplink'[i] = uplink[i]
         /\ uplink'[Len(uplink) + 1] = r
PROOF
  <1>1. uplink \in Seq(Request) /\ uplink' = Append(uplink, r) /\ Len(uplink) < UplinkCapacity
    BY DEF TypeOK, Send
  <1>2. Len(uplink) \in Nat /\ DOMAIN uplink = 1 .. Len(uplink)
    BY <1>1, LenProperties
  <1>3. /\ uplink' \in Seq(Request) /\ Len(uplink') = Len(uplink) + 1
        /\ \A i \in 1 .. Len(uplink) : uplink'[i] = uplink[i]
        /\ uplink'[Len(uplink) + 1] = r
    BY <1>1, AppendProperties
  <1>4. DOMAIN uplink' = 1 .. Len(uplink) + 1
    BY <1>3, LenProperties
  <1> QED
    BY <1>1, <1>2, <1>3, <1>4, FrameSyncAssumption

\* What a client sends is a request.
LEMMA SentRequests ==
  /\ \A m \in Full \cup Diff : Ack(m) \in Request
  /\ \A a \in Agent : [type |-> "resync", agent |-> a] \in Request
  /\ \A a \in Agent : [type |-> "close", agent |-> a] \in Request
  /\ \A a \in Agent, n \in Nat : [type |-> "viewport", agent |-> a, scrollback |-> n] \in Request
  /\ [type |-> "resize"] \in Request /\ [type |-> "spawn"] \in Request
PROOF
  BY DEF Request, Ack, Full, Diff

\* What the client takes from the wire, and what stays as it is.
Received ==
  /\ wire # <<>> /\ wire' = Tail(wire)
  /\ UNCHANGED <<serverVars, outbox, connected, queue, ops, attaches>>

\* Every receipt of the client keeps the types.
LEMMA ReceivedType ==
  ASSUME TypeOK, Received,
         uplink' \in Seq(Request), Len(uplink') <= UplinkCapacity,
         cache' \in [Agent -> Terminal], pending' \subseteq Agent,
         waiting' \in BOOLEAN, dropped' \subseteq Agent
  PROVE  TypeOK'
PROOF
  <1>1. wire' \in Seq(Message) /\ Len(wire') <= WireCapacity
    BY WireProperties DEF Received
  <1> QED
    BY <1>1 DEF TypeOK, Received, serverVars

LEMMA ReceiveFullType ==
  ASSUME TypeOK, ReceiveFull PROVE Received /\ TypeOK'
PROOF
  <1> DEFINE m == Head(wire)
  <1>1. m \in Full /\ Received
    BY WireProperties, ItemKinds DEF ReceiveFull, Receiving, Received
  <1>2. Ack(m) \in Request /\ Send(Ack(m))
    BY <1>1, SentRequests DEF ReceiveFull
  <1>3. uplink' \in Seq(Request) /\ Len(uplink') <= UplinkCapacity
    BY <1>2, SendProperties
  <1>4. cache' \in [Agent -> Terminal] /\ pending' \subseteq Agent
    <2>1. Renewed(m) \in Terminal
      BY <1>1 DEF Renewed, NoTerminal, Terminal, Full
    <2> QED
      BY <2>1 DEF ReceiveFull, TypeOK
  <1>5. waiting' \in BOOLEAN /\ dropped' \subseteq Agent
    BY DEF ReceiveFull, Receiving, TypeOK
  <1> QED
    BY <1>1, <1>3, <1>4, <1>5, ReceivedType

LEMMA ReceiveDiffType ==
  ASSUME TypeOK, ReceiveNextDiff \/ ReceiveDuplicateDiff \/ ReceiveDiffWithGap
  PROVE  Received /\ TypeOK'
PROOF
  <1> DEFINE m == Head(wire)
  <1>1. m \in Diff /\ Received
    BY WireProperties, ItemKinds
       DEF ReceiveNextDiff, ReceiveDuplicateDiff, ReceiveDiffWithGap, Receiving, Received
  <1>2. uplink' \in Seq(Request) /\ Len(uplink') <= UplinkCapacity
    <2>1. CASE ReceiveNextDiff \/ ReceiveDuplicateDiff
      <3>1. Ack(m) \in Request /\ Send(Ack(m))
        BY <1>1, <2>1, SentRequests DEF ReceiveNextDiff, ReceiveDuplicateDiff
      <3> QED
        BY <3>1, SendProperties
    <2>2. CASE ReceiveDiffWithGap
      <3>1. CASE m.agent \in pending
        BY <2>2, <3>1 DEF ReceiveDiffWithGap, TypeOK
      <3>2. CASE m.agent \notin pending
        <4>1. /\ [type |-> "resync", agent |-> m.agent] \in Request
              /\ Send([type |-> "resync", agent |-> m.agent])
          BY <1>1, <2>2, <3>2, SentRequests DEF ReceiveDiffWithGap, Diff
        <4> QED
          BY <4>1, SendProperties
      <3> QED
        BY <3>1, <3>2
    <2> QED
      BY <2>1, <2>2
  <1>3. cache' \in [Agent -> Terminal] /\ pending' \subseteq Agent
    <2>1. CASE ReceiveNextDiff
      <3>1. m.sequence \in Nat /\ m.agent \in Agent /\ cache[m.agent] \in Terminal
        BY <1>1 DEF Diff, TypeOK
      <3>2. \A t \in Terminal : Patched(t.snapshot, m) \in Nat
        BY <1>1 DEF Patched, Torn, Diff
      <3>3. Advanced(m) \in Terminal
        BY <3>1, <3>2 DEF Advanced, Terminal
      <3> QED
        BY <2>1, <3>3 DEF ReceiveNextDiff, TypeOK
    <2>2. CASE ReceiveDuplicateDiff
      BY <2>2 DEF ReceiveDuplicateDiff, TypeOK
    <2>3. CASE ReceiveDiffWithGap
      <3>1. m.agent \in Agent
        BY <1>1 DEF Diff
      <3>2. pending' = pending \cup {m.agent} /\ cache' = cache
        BY <2>3 DEF ReceiveDiffWithGap
      <3>3. pending \subseteq Agent /\ cache \in [Agent -> Terminal]
        BY DEF TypeOK
      <3> QED
        BY <3>1, <3>2, <3>3
    <2> QED
      BY <2>1, <2>2, <2>3
  <1>4. waiting' \in BOOLEAN /\ dropped' \subseteq Agent
    BY DEF ReceiveNextDiff, ReceiveDuplicateDiff, ReceiveDiffWithGap, Receiving, TypeOK
  <1> QED
    BY <1>1, <1>2, <1>3, <1>4, ReceivedType

LEMMA ReceiveViewportType ==
  ASSUME TypeOK, ReceiveViewport PROVE Received /\ TypeOK'
PROOF
  <1> DEFINE m == Head(wire)
             t == cache[m.agent]
             answers == t.request # 0 /\ t.request = m.requested
             again == answers /\ t.target # 0 /\ t.target # m.requested
  <1>1. m \in Viewport /\ Received
    BY WireProperties, ItemKinds DEF ReceiveViewport, Receiving, Received
  <1>2. m.agent \in Agent /\ m.requested \in Nat /\ m.scrollback \in Nat /\ t \in Terminal
    BY <1>1 DEF Viewport, TypeOK
  <1>3. cache' \in [Agent -> Terminal]
    BY <1>2 DEF ReceiveViewport, TypeOK, Terminal
  <1>4. uplink' \in Seq(Request) /\ Len(uplink') <= UplinkCapacity
    <2>1. CASE again
      <3>1. /\ [type |-> "viewport", agent |-> m.agent, scrollback |-> t.target] \in Request
            /\ Send([type |-> "viewport", agent |-> m.agent, scrollback |-> t.target])
        BY <1>2, <2>1, SentRequests DEF ReceiveViewport, Terminal
      <3> QED
        BY <3>1, SendProperties
    <2>2. CASE ~again
      BY <2>2 DEF ReceiveViewport, TypeOK
    <2> QED
      BY <2>1, <2>2
  <1>5. pending' \subseteq Agent /\ waiting' \in BOOLEAN /\ dropped' \subseteq Agent
    BY DEF ReceiveViewport, Receiving, TypeOK
  <1> QED
    BY <1>1, <1>3, <1>4, <1>5, ReceivedType

LEMMA ReceiveOtherType ==
  ASSUME TypeOK, ReceiveRemoved \/ ReceiveControl \/ ReceiveWhileWaiting
  PROVE  Received /\ TypeOK'
PROOF
  <1>1. Received
    BY DEF ReceiveRemoved, ReceiveControl, ReceiveWhileWaiting, Receiving, Received
  <1>2. cache' \in [Agent -> Terminal]
    <2>1. NoTerminal \in Terminal
      BY DEF NoTerminal, Terminal
    <2> QED
      BY <2>1 DEF ReceiveRemoved, ReceiveControl, ReceiveWhileWaiting, TypeOK
  <1>3. UNCHANGED uplink
    BY DEF ReceiveRemoved, ReceiveControl, ReceiveWhileWaiting
  <1>4. pending' \subseteq Agent /\ waiting' \in BOOLEAN /\ dropped' \subseteq Agent
    BY DEF ReceiveRemoved, ReceiveControl, ReceiveWhileWaiting, Receiving, TypeOK
  <1> QED
    BY <1>1, <1>2, <1>3, <1>4, ReceivedType DEF TypeOK

\* What a user's operation leaves alone.
Operated ==
  UNCHANGED <<serverVars, outbox, connected, queue, wire, pending, dropped, attaches>>

LEMMA UserType ==
  ASSUME TypeOK, User PROVE Operated /\ TypeOK'
PROOF
  <1> DEFINE Typed == /\ cache' \in [Agent -> Terminal] /\ waiting' \in BOOLEAN
                      /\ uplink' \in Seq(Request) /\ Len(uplink') <= UplinkCapacity
                      /\ ops' \in Nat /\ Operated
  <1>1. ASSUME NEW a \in Agent, ShowLive(a) PROVE Typed
    <2>1. \A t \in Terminal : [[t EXCEPT !.target = 0] EXCEPT !.view = 0] \in Terminal
      BY DEF Terminal
    <2>2. cache' = [cache EXCEPT ![a] = [[@ EXCEPT !.target = 0] EXCEPT !.view = 0]]
      BY <1>1 DEF ShowLive, TypeOK
    <2>3. cache' \in [Agent -> Terminal]
      BY <2>1, <2>2 DEF TypeOK
    <2> QED
      BY <1>1, <2>3 DEF ShowLive, UserOp, Operated, TypeOK
  <1>2. ASSUME NEW a \in Agent, Close(a) PROVE Typed
    BY <1>2, SentRequests, SendProperties DEF Close, UserOp, Operated, TypeOK
  <1>3. ASSUME NEW a \in Agent, NEW n \in 1 .. MaxScroll, Scroll(a, n) PROVE Typed
    <2>1. n \in Nat /\ cache[a] \in Terminal
      BY FrameSyncAssumption DEF TypeOK
    <2>2. cache' \in [Agent -> Terminal] /\ waiting' \in BOOLEAN /\ ops' \in Nat /\ Operated
      <3>1. [cache[a] EXCEPT !.target = n, !.request = IF @ = 0 THEN n ELSE @] \in Terminal
        BY <2>1 DEF Terminal
      <3> QED
        BY <1>3, <3>1 DEF Scroll, UserOp, Operated, TypeOK
    <2>3. CASE cache[a].request = 0
      <3>1. /\ [type |-> "viewport", agent |-> a, scrollback |-> n] \in Request
            /\ Send([type |-> "viewport", agent |-> a, scrollback |-> n])
        BY <1>3, <2>1, <2>3, SentRequests DEF Scroll
      <3> QED
        BY <2>2, <3>1, SendProperties
    <2>4. CASE cache[a].request # 0
      BY <1>3, <2>2, <2>4 DEF Scroll, TypeOK
    <2> QED
      BY <2>3, <2>4
  <1>4. ASSUME Resize PROVE Typed
    <2>1. uplink' \in Seq(Request) /\ Len(uplink') <= UplinkCapacity
      BY <1>4, SentRequests, SendProperties DEF Resize
    <2>2. cache' \in [Agent -> Terminal]
      BY <1>4 DEF Resize, TypeOK, Terminal
    <2>3. waiting' = waiting /\ waiting \in BOOLEAN
      BY <1>4 DEF Resize, TypeOK
    <2>4. ops' \in Nat
      <3>1. ops' = ops + 1 /\ ops \in Nat
        BY <1>4 DEF Resize, UserOp, TypeOK
      <3> QED
        BY <3>1
    <2>5. Operated
      BY <1>4 DEF Resize, UserOp, Operated
    <2> QED
      BY <2>1, <2>2, <2>3, <2>4, <2>5
  <1>5. ASSUME Spawn PROVE Typed
    <2>1. uplink' \in Seq(Request) /\ Len(uplink') <= UplinkCapacity
      BY <1>5, SentRequests, SendProperties DEF Spawn
    <2> QED
      BY <1>5, <2>1 DEF Spawn, UserOp, Operated, TypeOK
  <1>6. Typed
    <2> HIDE DEF Typed
    <2> QED
      BY <1>1, <1>2, <1>3, <1>4, <1>5 DEF User
  <1> QED
    BY <1>6 DEF TypeOK, Operated, serverVars

-----------------------------------------------------------------------------
\* Type correctness

\* Without a client nothing is on its way, and nothing is remembered of the last one.
Silent ==
  ~connected =>
    /\ outbox = <<>> /\ queue = <<>> /\ wire = <<>> /\ uplink = <<>>
    /\ cache = [a \in Agent |-> NoTerminal]
    /\ pending = {} /\ dropped = {} /\ ~waiting

\* The steps of the coordinator that serve the client.
Serve == Attach \/ (\E quit \in SUBSET agents : Poll(quit)) \/ Handle

LEMMA ServeType ==
  ASSUME TypeOK, Silent, Serve PROVE Handled /\ TypeOK'
PROOF
  <1>1. CASE Attach
    BY <1>1, AttachType DEF Silent, Attach
  <1>2. ASSUME NEW quit \in SUBSET agents, Poll(quit) PROVE Handled /\ TypeOK'
    BY <1>2, PollType
  <1>3. CASE Handle
    BY <1>3, HandleAckType, HandleResyncType, HandleViewportType, HandleResizeType,
       HandleSpawnType, HandleCloseType DEF Handle
  <1> QED
    BY <1>1, <1>2, <1>3 DEF Serve

\* The steps that end the connection.
Lose == ConnectionLost \/ PushFails \/ OwedAgentIsGone

LEMMA LoseProperties ==
  ASSUME Lose PROVE LoseConnection
PROOF
  BY DEF Lose, ConnectionLost, PushFails, OwedAgentIsGone

LEMMA ReceiveType ==
  ASSUME TypeOK, Receive PROVE Received /\ TypeOK'
PROOF
  BY ReceiveFullType, ReceiveDiffType, ReceiveViewportType, ReceiveOtherType DEF Receive

\* Every step of the protocol is of one of these kinds.
LEMMA StepKinds ==
  ASSUME Next
  PROVE  \/ \E a \in Agent : Output(a)
         \/ Serve \/ Lose
         \/ PushQueued \/ PushUnderPressure \/ SendOwed \/ Write
         \/ Receive \/ SpawnTimesOut \/ User
PROOF
  <1>1. CASE Poll({})
    <2>1. {} \in SUBSET agents
      OBVIOUS
    <2> QED
      BY <1>1, <2>1 DEF Serve
  <1>2. ASSUME NEW a \in agents, Quit(a) PROVE Serve
    <2>1. {a} \in SUBSET agents /\ Poll({a})
      BY <1>2 DEF Quit
    <2> QED
      BY <2>1 DEF Serve
  <1> QED
    BY <1>1, <1>2 DEF Next, Push, Serve, Lose

LEMMA OutputType ==
  ASSUME TypeOK, NEW a \in Agent, Output(a) PROVE TypeOK'
PROOF
  <1>1. screen' \in [Agent -> Nat \ {0}] /\ dirty' \subseteq Agent
    BY DEF Output, TypeOK
  <1>2. UNCHANGED <<agents, nextId, frames, basis, linkVars, clientVars, ops, attaches>>
    BY DEF Output
  <1> QED
    BY <1>1, <1>2 DEF TypeOK, linkVars, clientVars

\* A step keeps the types.
LEMMA StepType ==
  ASSUME TypeOK, Silent, [Next]_vars PROVE TypeOK'
PROOF
  <1>1. CASE UNCHANGED vars
    BY <1>1 DEF vars, serverVars, linkVars, clientVars, TypeOK
  <1>2. CASE SpawnTimesOut
    BY <1>2 DEF SpawnTimesOut, serverVars, linkVars, TypeOK
  <1>3. CASE Lose
    BY <1>3, LoseProperties, LoseConnectionType
  <1> QED
    BY <1>1, <1>2, <1>3, StepKinds, OutputType, ServeType, PushQueuedType, PushUnderPressureType,
       SendOwedType, WriteType, ReceiveType, UserType

\* A step leaves nothing behind without a client.
LEMMA StepSilent ==
  ASSUME TypeOK, Silent, [Next]_vars PROVE Silent'
PROOF
  <1> SUFFICES ASSUME ~connected'
               PROVE  /\ outbox' = <<>> /\ queue' = <<>> /\ wire' = <<>> /\ uplink' = <<>>
                      /\ cache' = [a \in Agent |-> NoTerminal]
                      /\ pending' = {} /\ dropped' = {} /\ ~waiting'
    BY DEF Silent
  <1>1. CASE Lose
    BY <1>1, LoseProperties DEF LoseConnection
  <1>2. CASE UNCHANGED <<connected, outbox, queue, wire, uplink, cache, pending, dropped, waiting>>
    BY <1>2 DEF Silent
  <1>3. CASE ~connected
    <2>1. /\ outbox = <<>> /\ queue = <<>> /\ wire = <<>> /\ uplink = <<>> /\ ~waiting
      BY <1>3 DEF Silent
    <2>2. ~PushQueued /\ ~PushUnderPressure /\ ~SendOwed
      BY <2>1 DEF PushQueued, PushUnderPressure, SendOwed, Sending
    <2>3. ~Write /\ ~SpawnTimesOut
      BY <2>1 DEF Write, SpawnTimesOut
    <2>4. ~Receive
      BY <2>1, ReceiveType DEF Received
    <2>5. ~Handle
      BY <2>1 DEF Handle, Handling, HandleAck, HandleResync, HandleViewport, HandleResize,
                  HandleSpawn, HandleClose
    <2>6. ~User
      BY <1>3 DEF User, UserOp, ShowLive, Close, Scroll, Resize, Spawn
    <2>7. ~Attach
      BY DEF Attach
    <2>8. ASSUME NEW quit \in SUBSET agents, Poll(quit)
          PROVE  UNCHANGED <<connected, outbox, queue, wire, uplink, cache, pending, dropped, waiting>>
      BY <1>3, <2>1, <2>8 DEF Poll, clientVars
    <2>9. ASSUME NEW a \in Agent, Output(a)
          PROVE  UNCHANGED <<connected, outbox, queue, wire, uplink, cache, pending, dropped, waiting>>
      BY <2>9 DEF Output, linkVars, clientVars
    <2>10. CASE UNCHANGED vars
      BY <1>2, <2>10 DEF vars, linkVars, clientVars
    <2> QED
      BY <1>1, <1>2, <2>2, <2>3, <2>4, <2>5, <2>6, <2>7, <2>8, <2>9, <2>10, StepKinds DEF Serve
  <1>4. CASE connected
    <2>1. ~PushQueued /\ ~PushUnderPressure /\ ~SendOwed
      BY <1>4 DEF PushQueued, PushUnderPressure, SendOwed
    <2>2. ~Write /\ ~SpawnTimesOut
      BY <1>4 DEF Write, SpawnTimesOut, linkVars
    <2>3. ~Receive
      BY <1>4, ReceiveType DEF Received
    <2>4. ~Handle
      BY <1>4 DEF Handle, Handling, HandleAck, HandleResync, HandleViewport, HandleResize,
                  HandleSpawn, HandleClose
    <2>5. ~User
      BY <1>4, UserType DEF Operated
    <2>6. ~Attach
      BY <1>4 DEF Attach
    <2>7. \A quit \in SUBSET agents : ~Poll(quit)
      BY <1>4 DEF Poll
    <2>8. \A a \in Agent : ~Output(a)
      BY <1>4 DEF Output, linkVars
    <2>9. ~UNCHANGED vars
      BY <1>4 DEF vars, linkVars
    <2> QED
      BY <1>1, <2>1, <2>2, <2>3, <2>4, <2>5, <2>6, <2>7, <2>8, <2>9, StepKinds DEF Serve
  <1> QED
    BY <1>3, <1>4

\* At the start nothing is shown, numbered or on its way.
LEMMA InitType == Init => TypeOK /\ Silent
PROOF
  <1> SUFFICES ASSUME Init PROVE TypeOK /\ Silent
    OBVIOUS
  <1>1. NoBasis \in Basis /\ NoTerminal \in Terminal
    BY DEF NoBasis, Basis, NoTerminal, Terminal
  <1>2. \A S : <<>> \in Seq(S) /\ Len(<<>>) = 0
    BY EmptySeq
  <1>3. agents \subseteq Agent /\ nextId \in Nat
    BY FrameSyncAssumption DEF Init, Agent
  <1>4. basis \in [Agent -> Basis] /\ cache \in [Agent -> Terminal]
    BY <1>1 DEF Init, NoBases
  <1>5. /\ screen \in [Agent -> Nat \ {0}] /\ frames \in [Agent -> Seq(Nat \ {0})]
        /\ dirty \subseteq Agent /\ pending \subseteq Agent /\ dropped \subseteq Agent
    BY <1>2 DEF Init
  <1>6. /\ outbox \in Seq(Message \cup Owed)
        /\ queue \in Seq(Message) /\ Len(queue) <= Capacity
        /\ wire \in Seq(Message) /\ Len(wire) <= WireCapacity
        /\ uplink \in Seq(Request) /\ Len(uplink) <= UplinkCapacity
    BY <1>2, FrameSyncAssumption DEF Init
  <1>7. connected \in BOOLEAN /\ waiting \in BOOLEAN /\ ops \in Nat /\ attaches \in Nat
    BY DEF Init
  <1>8. TypeOK
    BY <1>3, <1>4, <1>5, <1>6, <1>7 DEF TypeOK
  <1> QED
    BY <1>8 DEF Init, Silent

\* Every variable of the frames holds what its type allows, always: no queue outgrows
\* its capacity, and no step sends what is not a message.
THEOREM FramesTypeCorrect == Spec => []TypeOK
PROOF
  <1>1. TypeOK /\ Silent /\ [Next]_vars => (TypeOK /\ Silent)'
    BY StepType, StepSilent
  <1>2. Spec => [](TypeOK /\ Silent)
    BY <1>1, InitType, PTL DEF Spec
  <1> QED
    BY <1>2, PTL

-----------------------------------------------------------------------------
\* What the client shows is a frame the server numbered

\* A basis is the last frame that was numbered.
BasesAreFrames ==
  \A a \in Agent : basis[a] # NoBasis =>
    /\ basis[a].sequence = Len(frames[a]) /\ basis[a].sequence # 0
    /\ basis[a].snapshot = frames[a][basis[a].sequence]

\* A complete frame carries the screen its number stands for, a diff the screens of
\* its base and of its number.
Carries(m) ==
  /\ IsPicture(m) =>
       m.sequence \in DOMAIN frames[m.agent] /\ Target(m) = frames[m.agent][m.sequence]
  /\ m.type = "diff" =>
       m.base \in DOMAIN frames[m.agent] /\ m.from = frames[m.agent][m.base]

MessagesCarryFrames == \A m \in Downlink : Carries(m)
AcksAreOfFrames == \A r \in Requests : r.type = "ack" => r.sequence \in DOMAIN frames[r.agent]

ContentInv ==
  /\ TypeOK /\ Silent
  /\ BasesAreFrames /\ MessagesCarryFrames /\ AcksAreOfFrames /\ MirrorsAFrame

\* A step numbers at most one frame of an agent.
FramesGrow ==
  \A a \in Agent :
    \/ frames'[a] = frames[a]
    \/ \E s \in Screens : frames'[a] = Append(frames[a], s)

\* Frames that were numbered stay what they are.
LEMMA NumbersStay ==
  ASSUME TypeOK, FramesGrow, NEW a \in Agent, NEW n \in DOMAIN frames[a]
  PROVE  n \in DOMAIN frames'[a] /\ frames'[a][n] = frames[a][n]
PROOF
  <1>1. frames[a] \in Seq(Screens)
    BY DEF TypeOK, Screens
  <1>2. CASE frames'[a] = frames[a]
    BY <1>2
  <1>3. ASSUME NEW s \in Screens, frames'[a] = Append(frames[a], s)
        PROVE  n \in DOMAIN frames'[a] /\ frames'[a][n] = frames[a][n]
    <2>1. /\ Append(frames[a], s) \in Seq(Screens)
          /\ Len(Append(frames[a], s)) = Len(frames[a]) + 1
          /\ \A k \in 1 .. Len(frames[a]) : Append(frames[a], s)[k] = frames[a][k]
      BY <1>1, AppendProperties
    <2>2. /\ DOMAIN Append(frames[a], s) = 1 .. Len(Append(frames[a], s))
          /\ DOMAIN frames[a] = 1 .. Len(frames[a]) /\ Len(frames[a]) \in Nat
      BY <1>1, <2>1, LenProperties
    <2> QED
      BY <1>3, <2>1, <2>2
  <1> QED
    BY <1>2, <1>3 DEF FramesGrow

\* Numbering frames makes them the bases and leaves the others alone.
LEMMA IssuedBases ==
  ASSUME TypeOK, BasesAreFrames, NEW S, S \subseteq Agent, NEW old \in [Agent -> Basis],
         NEW shown \in [Agent -> Screens], Issue(S, old, shown),
         \A a \in Agent : old[a] = basis[a] \/ old[a] = NoBasis
  PROVE  BasesAreFrames' /\ FramesGrow
PROOF
  <1>1. \A a \in Agent : frames[a] \in Seq(Screens) /\ Len(frames[a]) \in Nat
    BY LenProperties DEF TypeOK, Screens
  <1>2. \A a \in Agent : frames'[a] = IF a \in S THEN Append(frames[a], shown[a]) ELSE frames[a]
    BY DEF Issue
  <1>3. ASSUME NEW a \in S
        PROVE  /\ Len(Append(frames[a], shown[a])) = Len(frames[a]) + 1
               /\ Append(frames[a], shown[a])[Len(frames[a]) + 1] = shown[a]
    BY <1>1, AppendProperties
  <1>4. FramesGrow
    BY <1>2 DEF FramesGrow
  <1>5. BasesAreFrames'
    <2> SUFFICES ASSUME NEW a \in Agent, basis'[a] # NoBasis
                 PROVE  /\ basis'[a].sequence = Len(frames'[a]) /\ basis'[a].sequence # 0
                        /\ basis'[a].snapshot = frames'[a][basis'[a].sequence]
      BY DEF BasesAreFrames
    <2>1. CASE a \in S
      <3>1. basis'[a].sequence = Len(frames[a]) + 1 /\ basis'[a].snapshot = shown[a]
        BY <2>1 DEF Issue, Sequence
      <3>2. frames'[a] = Append(frames[a], shown[a])
        BY <1>2, <2>1
      <3>3. Len(frames'[a]) = Len(frames[a]) + 1 /\ frames'[a][Len(frames[a]) + 1] = shown[a]
        BY <1>3, <2>1, <3>2
      <3>4. Len(frames[a]) \in Nat
        BY <1>1
      <3> QED
        BY <3>1, <3>3, <3>4
    <2>2. CASE a \notin S
      <3>1. basis'[a] = old[a]
        BY <2>2 DEF Issue
      <3> QED
        BY <1>2, <2>2, <3>1 DEF BasesAreFrames
    <2> QED
      BY <2>1, <2>2
  <1> QED
    BY <1>4, <1>5

\* Without new numbers nothing changes.
LEMMA FramesStay ==
  ASSUME TypeOK, BasesAreFrames, UNCHANGED frames,
         \A a \in Agent : basis'[a] \in {basis[a], NoBasis}
  PROVE  BasesAreFrames' /\ FramesGrow
PROOF
  BY DEF BasesAreFrames, FramesGrow

\* Serving the client makes the frames it numbers the bases.
LEMMA ServeBases ==
  ASSUME TypeOK, BasesAreFrames, Serve PROVE BasesAreFrames' /\ FramesGrow
PROOF
  <1>1. /\ basis \in [Agent -> Basis] /\ NoBases \in [Agent -> Basis]
        /\ agents \subseteq Agent /\ dirty \subseteq Agent
        /\ screen \in [Agent -> Screens]
        /\ \A shown \in Resized : shown \in [Agent -> Screens]
        /\ \A a \in Agent : NoBases[a] = NoBasis
    BY Cleared, ResizedScreens DEF TypeOK, Screens, NoBases
  <1>2. ASSUME Attach \/ HandleResize PROVE BasesAreFrames' /\ FramesGrow
    <2>1. PICK shown \in Resized : Issue(agents, NoBases, shown)
      BY <1>2 DEF Attach, HandleResize
    <2> QED
      BY <1>1, <2>1, IssuedBases
  <1>3. ASSUME NEW quit \in SUBSET agents, Poll(quit) PROVE BasesAreFrames' /\ FramesGrow
    <2> DEFINE S == IF connected THEN dirty \ quit ELSE {}
               old == [a \in Agent |-> IF a \in quit THEN NoBasis ELSE basis[a]]
    <2>1. Issue(S, old, screen)
      BY <1>3 DEF Poll
    <2>2. /\ S \subseteq Agent /\ old \in [Agent -> Basis]
          /\ \A a \in Agent : old[a] = basis[a] \/ old[a] = NoBasis
      BY <1>1, Cleared
    <2> HIDE DEF S, old
    <2> QED
      BY <1>1, <2>1, <2>2, IssuedBases
  <1>4. ASSUME HandleAck PROVE BasesAreFrames' /\ FramesGrow
    <2> DEFINE r == Head(uplink)
    <2>1. UNCHANGED frames
      BY <1>4 DEF HandleAck
    <2>2. r.agent \in Agent /\ r.sequence \in Nat
      BY <1>4, HandlingProperties, RequestKinds DEF HandleAck
    <2>3. \A a \in Agent : basis'[a] # NoBasis =>
            /\ basis[a] # NoBasis
            /\ basis'[a].sequence = basis[a].sequence /\ basis'[a].snapshot = basis[a].snapshot
      <3>1. CASE basis' = basis
        BY <3>1
      <3>2. CASE /\ basis[r.agent] # NoBasis
                 /\ basis' = [basis EXCEPT ![r.agent].acknowledged = r.sequence]
        BY <1>1, <2>2, <3>2 DEF Basis
      <3> QED
        BY <1>4, <3>1, <3>2 DEF HandleAck
    <2> QED
      BY <2>1, <2>3 DEF BasesAreFrames, FramesGrow
  <1>5. ASSUME HandleResync PROVE BasesAreFrames' /\ FramesGrow
    <2> DEFINE S == {Head(uplink).agent} \cap agents
    <2>1. S \subseteq Agent /\ Issue(S, basis, screen)
      BY <1>1, <1>5 DEF HandleResync
    <2> HIDE DEF S
    <2> QED
      BY <1>1, <2>1, IssuedBases
  <1>6. ASSUME HandleSpawn PROVE BasesAreFrames' /\ FramesGrow
    <2> DEFINE S == {nextId} \cap Agent
    <2>1. S \subseteq Agent /\ Issue(S, basis, screen)
      BY <1>6 DEF HandleSpawn
    <2> HIDE DEF S
    <2> QED
      BY <1>1, <2>1, IssuedBases
  <1>7. ASSUME HandleViewport PROVE BasesAreFrames' /\ FramesGrow
    BY <1>7, FramesStay DEF HandleViewport, serverVars
  <1>8. ASSUME HandleClose PROVE BasesAreFrames' /\ FramesGrow
    BY <1>1, <1>8, FramesStay DEF HandleClose
  <1> QED
    BY <1>2, <1>3, <1>4, <1>5, <1>6, <1>7, <1>8 DEF Serve, Handle

\* So does a frame that was owed; the other steps number nothing.
LEMMA StepBases ==
  ASSUME TypeOK, Silent, BasesAreFrames, [Next]_vars PROVE BasesAreFrames' /\ FramesGrow
PROOF
  <1>1. CASE SendOwed
    <2>1. PICK a \in agents : Issue({a}, basis, screen)
      BY <1>1 DEF SendOwed
    <2>2. {a} \subseteq Agent /\ basis \in [Agent -> Basis] /\ screen \in [Agent -> Screens]
      BY DEF TypeOK, Screens
    <2> QED
      BY <2>1, <2>2, IssuedBases
  <1>2. CASE Lose
    BY <1>2, LoseProperties, FramesStay DEF LoseConnection, NoBases
  <1>3. CASE UNCHANGED <<frames, basis>>
    BY <1>3, FramesStay
  <1>4. ASSUME NEW a \in Agent, Output(a) PROVE UNCHANGED <<frames, basis>>
    BY <1>4 DEF Output
  <1>5. CASE PushQueued \/ PushUnderPressure \/ Write \/ SpawnTimesOut
    BY <1>3, <1>5 DEF PushQueued, PushUnderPressure, Write, SpawnTimesOut, serverVars
  <1>6. CASE Receive
    BY <1>3, <1>6, ReceiveType DEF Received, serverVars
  <1>7. CASE User
    BY <1>3, <1>7, UserType DEF Operated, serverVars
  <1>8. CASE UNCHANGED vars
    BY <1>3, <1>8 DEF vars, serverVars
  <1> QED
    BY <1>1, <1>2, <1>3, <1>4, <1>5, <1>6, <1>7, <1>8, StepKinds, ServeBases

\* A picture still carries its screens when more frames have been numbered.
LEMMA StillCarries ==
  ASSUME TypeOK, FramesGrow, NEW m \in Item, Carries(m) PROVE Carries(m)'
PROOF
  <1>1. IsPicture(m) => m.agent \in Agent
    BY ItemKinds DEF IsPicture, Full, Diff
  <1> QED
    BY <1>1, NumbersStay DEF Carries, IsPicture

\* And so does one that has just been numbered.
LEMMA PublishedCarries ==
  ASSUME TypeOK, BasesAreFrames, FramesGrow, NEW m \in Message, IsPicture(m), Published(m)
  PROVE  Carries(m)'
PROOF
  <1>1. m.agent \in Agent /\ Target(m) \in Nat
    BY ItemKinds, Messages DEF IsPicture, Full, Diff, Target
  <1>2. frames[m.agent] \in Seq(Nat) /\ Len(frames[m.agent]) \in Nat
        /\ DOMAIN frames[m.agent] = 1 .. Len(frames[m.agent])
    BY <1>1, LenProperties DEF TypeOK
  <1>3. /\ Append(frames[m.agent], Target(m)) \in Seq(Nat)
        /\ Len(Append(frames[m.agent], Target(m))) = Len(frames[m.agent]) + 1
        /\ Append(frames[m.agent], Target(m))[Len(frames[m.agent]) + 1] = Target(m)
    BY <1>1, <1>2, AppendProperties
  <1>4. DOMAIN Append(frames[m.agent], Target(m)) = 1 .. Len(Append(frames[m.agent], Target(m)))
    BY <1>3, LenProperties
  <1>5. m.sequence \in DOMAIN frames'[m.agent] /\ Target(m) = frames'[m.agent][m.sequence]
    BY <1>2, <1>3, <1>4 DEF Published
  <1>6. ASSUME m.type = "diff"
        PROVE  m.base \in DOMAIN frames'[m.agent] /\ m.from = frames'[m.agent][m.base]
    <2>1. /\ m.base = Len(frames[m.agent]) /\ m.base # 0
          /\ m.from = frames[m.agent][m.base]
      BY <1>1, <1>6 DEF Published, BasesAreFrames
    <2>2. m.base \in DOMAIN frames[m.agent]
      BY <1>2, <2>1
    <2> QED
      BY <1>1, <2>1, <2>2, NumbersStay
  <1> QED
    BY <1>5, <1>6 DEF Carries, Target

\* What the coordinator has to push comes from a handler, was there before, or
\* takes the place of a frame that was given up.
LEMMA OutboxSteps ==
  ASSUME TypeOK, Silent, [Next]_vars, NEW i \in DOMAIN outbox'
  PROVE  \/ Serve
         \/ \E k \in DOMAIN outbox : outbox'[i] = outbox[k]
         \/ outbox'[i].type = "owed"
         \/ \E b \in agents : /\ outbox'[i] = FullFrame(b, screen) /\ Published(FullFrame(b, screen))
                              /\ frames'[b] = Append(frames[b], screen[b])
PROOF
  <1>1. CASE PushQueued
    <2>1. outbox # <<>>
      BY <1>1 DEF PushQueued, Sending
    <2> QED
      BY <1>1, <2>1, OutboxProperties DEF PushQueued
  <1>2. CASE PushUnderPressure
    <2>1. PICK h, a, kept : Pressed(h, a, kept)
      BY <1>2, Pressure
    <2>2. outbox # <<>> /\ [type |-> "owed", agent |-> a] \in Item
      BY <2>1 DEF Pressed, Item, Owed
    <2>3. CASE outbox' = <<[type |-> "owed", agent |-> a]>> \o Tail(outbox)
      BY <2>2, <2>3, InsteadOfTheHead, OutboxProperties
    <2>4. CASE outbox' = Tail(outbox)
      BY <2>2, <2>4, OutboxProperties
    <2> QED
      BY <2>1, <2>3, <2>4 DEF Pressed
  <1>3. CASE SendOwed
    <2>1. PICK a \in agents : /\ outbox # <<>>
                              /\ outbox' = <<FullFrame(a, screen)>> \o Tail(outbox)
                              /\ Issue({a}, basis, screen)
      BY <1>3 DEF SendOwed
    <2>2. a \in Agent /\ screen \in [Agent -> Screens]
      BY DEF TypeOK, Screens
    <2>3. FullFrame(a, screen) \in Item
      BY <2>2, FullIsMessage, Messages
    <2>4. outbox'[i] = FullFrame(a, screen) \/ \E k \in DOMAIN outbox : outbox'[i] = outbox[k]
      BY <2>1, <2>3, InsteadOfTheHead, OutboxProperties
    <2>5. frames'[a] = Append(frames[a], screen[a])
      BY <2>1, <2>2 DEF Issue
    <2>6. Published(FullFrame(a, screen))
      BY <2>5 DEF Published, FullFrame, Sequence, Target
    <2> QED
      BY <2>1, <2>4, <2>5, <2>6
  <1>4. CASE UNCHANGED outbox
    BY <1>4
  <1>5. CASE Lose
    <2>1. outbox' = <<>>
      BY <1>5, LoseProperties DEF LoseConnection
    <2> QED
      BY <2>1
  <1>6. CASE Receive
    BY <1>4, <1>6, ReceiveType DEF Received
  <1>7. CASE User
    BY <1>4, <1>7, UserType DEF Operated
  <1>8. CASE Write \/ SpawnTimesOut \/ UNCHANGED vars
    BY <1>4, <1>8 DEF Write, SpawnTimesOut, vars, linkVars
  <1>9. ASSUME NEW a \in Agent, Output(a) PROVE UNCHANGED outbox
    BY <1>9 DEF Output, linkVars
  <1> QED
    BY <1>1, <1>2, <1>3, <1>4, <1>5, <1>6, <1>7, <1>8, <1>9, StepKinds

\* Nothing is on its way that was not, but through the outbox.
LEMMA DownlinkSteps ==
  ASSUME TypeOK, Silent, [Next]_vars, NEW m \in Downlink'
  PROVE  m \in Downlink \/ \E i \in DOMAIN outbox' : outbox'[i] = m
PROOF
  <1>1. ASSUME /\ \A i \in DOMAIN queue' : queue'[i] \in Downlink
               /\ \A i \in DOMAIN wire' : wire'[i] \in Downlink
        PROVE  m \in Downlink \/ \E i \in DOMAIN outbox' : outbox'[i] = m
    BY <1>1 DEF Downlink
  <1>2. /\ \A i \in DOMAIN queue : queue[i] \in Downlink
        /\ \A i \in DOMAIN wire : wire[i] \in Downlink
        /\ \A i \in DOMAIN outbox : outbox[i] \in Downlink
    BY DEF Downlink
  <1>3. CASE UNCHANGED <<queue, wire>>
    BY <1>1, <1>2, <1>3
  <1>4. CASE Serve
    BY <1>3, <1>4, ServeType DEF Handled
  <1>5. CASE PushQueued
    <2>1. queue \in Seq(Message) /\ outbox # <<>> /\ Head(outbox) \in Message
      BY <1>5, OutboxProperties DEF PushQueued, Sending, TypeOK
    <2>2. \A i \in DOMAIN queue' : queue'[i] = Head(outbox) \/ \E k \in DOMAIN queue : queue'[i] = queue[k]
      BY <1>5, <2>1, AppendProperties, LenProperties DEF PushQueued
    <2>3. wire' = wire /\ Head(outbox) \in Downlink
      BY <1>2, <1>5, <2>1, OutboxProperties DEF PushQueued
    <2> QED
      BY <1>1, <1>2, <2>2, <2>3
  <1>6. CASE PushUnderPressure
    <2>1. PICK h, a, kept : Pressed(h, a, kept)
      BY <1>6, Pressure
    <2>2. h = Head(outbox) /\ h \in Message /\ outbox # <<>>
      BY <2>1 DEF Pressed
    <2>3. kept \in Seq(Message) /\ \A i \in DOMAIN kept : \E k \in DOMAIN queue : kept[i] = queue[k]
      BY <2>1, PurgedProperties DEF Pressed
    <2>4. \A i \in DOMAIN queue' : queue'[i] = h \/ \E k \in DOMAIN queue : queue'[i] = queue[k]
      <3>1. CASE queue' = kept
        BY <2>3, <3>1
      <3>2. CASE queue' = Append(kept, h)
        BY <2>2, <2>3, <3>2, AppendProperties, LenProperties
      <3> QED
        BY <2>1, <3>1, <3>2 DEF Pressed
    <2>5. wire' = wire /\ h \in Downlink
      BY <1>2, <1>6, <2>2, OutboxProperties DEF PushUnderPressure
    <2> QED
      BY <1>1, <1>2, <2>4, <2>5
  <1>7. CASE Write
    <2>1. queue \in Seq(Message) /\ queue # <<>> /\ wire \in Seq(Message)
      BY <1>7 DEF Write, TypeOK
    <2>2. Head(queue) = queue[1] /\ Head(queue) \in Message /\ 1 \in DOMAIN queue
      BY <2>1, HeadTailProperties, LenProperties
    <2>3. \A i \in DOMAIN wire' : wire'[i] = Head(queue) \/ \E k \in DOMAIN wire : wire'[i] = wire[k]
      BY <1>7, <2>1, <2>2, AppendProperties, LenProperties DEF Write
    <2>4. \A i \in DOMAIN queue' : \E k \in DOMAIN queue : queue'[i] = queue[k]
      <3>1. DOMAIN queue = 1 .. Len(queue) /\ Len(queue) \in Nat /\ Tail(queue) \in Seq(Message)
        BY <2>1, LenProperties, HeadTailProperties
      <3>2. /\ Len(Tail(queue)) = Len(queue) - 1 /\ Len(queue) \in Nat \ {0}
            /\ DOMAIN Tail(queue) = 1 .. Len(Tail(queue))
            /\ \A i \in 1 .. Len(queue) - 1 : Tail(queue)[i] = queue[i + 1]
        BY <2>1, <3>1, LenProperties, HeadTailProperties, EmptySeq
      <3> QED
        BY <1>7, <3>1, <3>2 DEF Write
    <2> QED
      BY <1>1, <1>2, <2>2, <2>3, <2>4
  <1>8. CASE Receive
    <2>1. Received
      BY <1>8, ReceiveType
    <2>2. \A i \in DOMAIN wire' : \E k \in DOMAIN wire : wire'[i] = wire[k]
      BY <2>1, WireProperties DEF Received
    <2> QED
      BY <1>1, <1>2, <2>1, <2>2 DEF Received
  <1>9. CASE Lose
    BY <1>9, LoseProperties DEF LoseConnection, Downlink
  <1>10. CASE SendOwed \/ SpawnTimesOut \/ UNCHANGED vars
    BY <1>3, <1>10 DEF SendOwed, SpawnTimesOut, vars, linkVars
  <1>11. CASE User
    BY <1>3, <1>11, UserType DEF Operated
  <1>12. ASSUME NEW a \in Agent, Output(a) PROVE UNCHANGED <<queue, wire>>
    BY <1>12 DEF Output, linkVars
  <1> QED
    BY <1>3, <1>4, <1>5, <1>6, <1>7, <1>8, <1>9, <1>10, <1>11, <1>12, StepKinds

\* Every picture on its way was on its way before, or has just been numbered.
LEMMA NewPictures ==
  ASSUME TypeOK, Silent, [Next]_vars, NEW m \in Downlink', IsPicture(m)
  PROVE  m \in Downlink \/ Published(m)
PROOF
  <1> SUFFICES ASSUME NEW i \in DOMAIN outbox', outbox'[i] = m PROVE m \in Downlink \/ Published(m)
    BY DownlinkSteps
  <1>1. CASE Serve
    BY <1>1, ServeType DEF Handled, Batch
  <1>2. ASSUME NEW k \in DOMAIN outbox, outbox'[i] = outbox[k] PROVE m \in Downlink
    BY <1>2 DEF Downlink
  <1> QED
    BY <1>1, <1>2, OutboxSteps DEF IsPicture

\* Every acknowledgement on its way was on its way before, or answers a picture.
LEMMA NewAcks ==
  ASSUME TypeOK, Silent, [Next]_vars, NEW r \in Requests', r.type = "ack"
  PROVE  \/ r \in Requests
         \/ \E m \in Downlink : IsPicture(m) /\ r = Ack(m)
PROOF
  <1>1. CASE uplink' = uplink \/ uplink' = <<>>
    BY <1>1 DEF Requests
  <1>2. ASSUME uplink # <<>>, uplink' = Tail(uplink) PROVE r \in Requests
    <2>1. uplink \in Seq(Request)
      BY DEF TypeOK
    <2>2. /\ Tail(uplink) \in Seq(Request) /\ Len(Tail(uplink)) = Len(uplink) - 1
          /\ \A i \in 1 .. Len(uplink) - 1 : Tail(uplink)[i] = uplink[i + 1]
          /\ DOMAIN uplink = 1 .. Len(uplink) /\ Len(uplink) \in Nat
      BY <1>2, <2>1, HeadTailProperties, LenProperties
    <2>3. DOMAIN Tail(uplink) = 1 .. Len(Tail(uplink))
      BY <2>2, LenProperties
    <2> QED
      BY <1>2, <2>2, <2>3 DEF Requests
  <1>3. ASSUME NEW q \in Request, Send(q), r \notin Requests PROVE r = q
    BY <1>3, SendProperties DEF Requests
  <1>4. CASE Handle
    BY <1>2, <1>4 DEF Handle, HandleAck, HandleResync, HandleViewport, HandleResize,
                      HandleSpawn, HandleClose, Handling
  <1>5. CASE ReceiveFull \/ ReceiveNextDiff \/ ReceiveDuplicateDiff
    <2>1. Send(Ack(Head(wire))) /\ wire # <<>> /\ Head(wire).type \in {"full", "diff"}
      BY <1>5 DEF ReceiveFull, ReceiveNextDiff, ReceiveDuplicateDiff, Receiving
    <2>2. Head(wire) \in Full \cup Diff /\ Head(wire) \in Downlink
      <3>1. Head(wire) \in Item /\ Head(wire) = wire[1] /\ 1 \in DOMAIN wire
        BY <2>1, WireProperties
      <3> QED
        BY <2>1, <3>1, ItemKinds DEF Downlink
    <2> QED
      BY <1>3, <2>1, <2>2, SentRequests DEF IsPicture
  <1>6. CASE ReceiveDiffWithGap
    <2>1. uplink' = uplink \/ Send([type |-> "resync", agent |-> Head(wire).agent])
      BY <1>6 DEF ReceiveDiffWithGap
    <2>2. Head(wire).agent \in Agent
      BY <1>6, WireProperties, ItemKinds DEF ReceiveDiffWithGap, Receiving, Diff
    <2> QED
      BY <1>1, <1>3, <2>1, <2>2, SentRequests
  <1>7. CASE ReceiveViewport
    <2>1. \/ uplink' = uplink
          \/ Send([type |-> "viewport", agent |-> Head(wire).agent,
                   scrollback |-> cache[Head(wire).agent].target])
      BY <1>7 DEF ReceiveViewport
    <2>2. Head(wire).agent \in Agent
      BY <1>7, WireProperties, ItemKinds DEF ReceiveViewport, Receiving, Viewport
    <2>3. cache[Head(wire).agent].target \in Nat
      BY <2>2 DEF TypeOK, Terminal
    <2> QED
      BY <1>1, <1>3, <2>1, <2>2, <2>3, SentRequests
  <1>8. CASE ReceiveRemoved \/ ReceiveControl \/ ReceiveWhileWaiting
    BY <1>1, <1>8 DEF ReceiveRemoved, ReceiveControl, ReceiveWhileWaiting
  <1>9. CASE User
    <2>1. ASSUME NEW a \in Agent, ShowLive(a) PROVE uplink' = uplink
      BY <2>1 DEF ShowLive
    <2>2. ASSUME NEW a \in Agent, Close(a) PROVE Send([type |-> "close", agent |-> a])
      BY <2>2 DEF Close
    <2>3. ASSUME NEW a \in Agent, NEW n \in 1 .. MaxScroll, Scroll(a, n)
          PROVE  uplink' = uplink \/ Send([type |-> "viewport", agent |-> a, scrollback |-> n])
      BY <2>3 DEF Scroll
    <2>4. ASSUME Resize PROVE Send([type |-> "resize"])
      BY <2>4 DEF Resize
    <2>5. ASSUME Spawn PROVE Send([type |-> "spawn"])
      BY <2>5 DEF Spawn
    <2>6. ASSUME NEW q \in Request, q.type # "ack", Send(q) PROVE r \in Requests
      BY <1>3, <2>6
    <2>7. ASSUME NEW a \in Agent, ShowLive(a) \/ Close(a) \/ \E n \in 1 .. MaxScroll : Scroll(a, n)
          PROVE  r \in Requests
      <3>1. CASE ShowLive(a)
        BY <2>1, <3>1 DEF Requests
      <3>2. CASE Close(a)
        BY <2>2, <2>6, <3>2, SentRequests
      <3>3. ASSUME NEW n \in 1 .. MaxScroll, Scroll(a, n) PROVE r \in Requests
        <4>1. n \in Nat
          BY FrameSyncAssumption
        <4>2. CASE uplink' = uplink
          BY <4>2 DEF Requests
        <4>3. CASE Send([type |-> "viewport", agent |-> a, scrollback |-> n])
          BY <2>6, <4>1, <4>3, SentRequests
        <4> QED
          BY <2>3, <3>3, <4>2, <4>3
      <3> QED
        BY <2>7, <3>1, <3>2, <3>3
    <2>8. CASE Resize
      BY <2>4, <2>6, <2>8, SentRequests
    <2>9. CASE Spawn
      BY <2>5, <2>6, <2>9, SentRequests
    <2> QED
      BY <1>9, <2>7, <2>8, <2>9 DEF User
  <1>10. CASE Lose
    BY <1>1, <1>10, LoseProperties DEF LoseConnection
  <1>11. CASE Attach \/ \E quit \in SUBSET agents : Poll(quit)
    BY <1>1, <1>11 DEF Attach, Poll
  <1>12. CASE PushQueued \/ PushUnderPressure \/ SendOwed \/ Write \/ SpawnTimesOut
    BY <1>1, <1>12 DEF PushQueued, PushUnderPressure, SendOwed, Write, SpawnTimesOut, linkVars
  <1>13. ASSUME NEW a \in Agent, Output(a) PROVE uplink' = uplink
    BY <1>13 DEF Output, linkVars
  <1>14. CASE UNCHANGED vars
    BY <1>1, <1>14 DEF vars, linkVars
  <1> QED
    BY <1>1, <1>4, <1>5, <1>6, <1>7, <1>8, <1>9, <1>10, <1>11, <1>12, <1>13, <1>14, StepKinds
       DEF Serve, Receive

\* The client that accepts a picture shows the screen its number stands for.
LEMMA Accepting ==
  ASSUME ContentInv, ReceiveFull \/ ReceiveNextDiff
  PROVE  \/ UNCHANGED <<frames, Shown>>
         \/ Mirror!Show
PROOF
  <1> DEFINE m == Head(wire)
             new == [sequence |-> m.sequence, snapshot |-> Target(m)]
  <1>1. /\ cache \in [Agent -> Terminal] /\ UNCHANGED frames
        /\ Received
    BY ReceiveFullType, ReceiveDiffType DEF ContentInv, TypeOK, Received, serverVars
  <1>2. /\ m \in Item /\ m \in Downlink /\ Carries(m)
    BY <1>1, WireProperties DEF ContentInv, Received, Downlink, MessagesCarryFrames
  <1>3. CASE UNCHANGED cache
    BY <1>1, <1>3 DEF Shown
  <1>4. ASSUME m.agent \in Agent, IsPicture(m), m.sequence > cache[m.agent].sequence,
               NEW c, cache' = [cache EXCEPT ![m.agent] = c],
               c.sequence = m.sequence, c.snapshot = Target(m)
        PROVE  Mirror!Show
    <2>1. Shown' = [Shown EXCEPT ![m.agent] = new]
      BY <1>1, <1>4 DEF Shown
    <2>2. m.sequence \in DOMAIN frames[m.agent] /\ Target(m) = frames[m.agent][m.sequence]
      BY <1>2, <1>4 DEF Carries
    <2>3. Shown[m.agent].sequence = cache[m.agent].sequence
      BY <1>4 DEF Shown
    <2> QED
      BY <1>1, <1>4, <2>1, <2>2, <2>3 DEF Mirror!Show
  <1>5. CASE ReceiveFull
    <2>1. m \in Full
      BY <1>2, <1>5, ItemKinds DEF ReceiveFull, Receiving
    <2>2. CASE Newer(m)
      <3>1. Renewed(m).sequence = m.sequence /\ Renewed(m).snapshot = Target(m)
        BY <2>1 DEF Renewed, NoTerminal, Target, Full
      <3>2. cache' = [cache EXCEPT ![m.agent] = Renewed(m)]
        BY <1>5, <2>2 DEF ReceiveFull
      <3> QED
        BY <1>4, <2>1, <2>2, <3>1, <3>2 DEF Newer, IsPicture, Full
    <2>3. CASE ~Newer(m)
      BY <1>3, <1>5, <2>3 DEF ReceiveFull
    <2> QED
      BY <2>2, <2>3
  <1>6. CASE ReceiveNextDiff
    <2>1. m \in Diff
      BY <1>2, <1>6, ItemKinds DEF ReceiveNextDiff, Receiving
    <2>2. /\ cache' = [cache EXCEPT ![m.agent] = Advanced(m)]
          /\ ~Duplicate(m) /\ ~Gap(m)
      BY <1>6 DEF ReceiveNextDiff
    <2>3. /\ cache[m.agent].sequence # 0 /\ m.sequence > cache[m.agent].sequence
          /\ m.base = cache[m.agent].sequence
      BY <2>2 DEF Duplicate, Gap, Newer
    <2>4. cache[m.agent].snapshot = m.from
      BY <1>2, <2>1, <2>3 DEF ContentInv, MirrorsAFrame, Carries, Diff
    <2>5. cache[m.agent] \in Terminal
      BY <1>1, <2>1 DEF Diff
    <2>6. Advanced(m).sequence = m.sequence /\ Advanced(m).snapshot = Target(m)
      BY <2>1, <2>4, <2>5 DEF Advanced, Patched, Target, Diff, Terminal
    <2> QED
      BY <1>4, <2>1, <2>2, <2>3, <2>6 DEF IsPicture, Diff
  <1> QED
    BY <1>5, <1>6

\* Numbering a frame publishes it.
LEMMA Publishing ==
  ASSUME TypeOK, FramesGrow, TypeOK' PROVE Mirror!Publish
PROOF
  <1>1. DOMAIN frames' = Agent
    BY DEF TypeOK
  <1>2. ASSUME NEW a \in Agent, frames'[a] # frames[a]
        PROVE  \E s \in {frames'[a][Len(frames[a]) + 1]} : frames'[a] = Append(frames[a], s)
    <2>1. PICK s \in Screens : frames'[a] = Append(frames[a], s)
      BY <1>2 DEF FramesGrow
    <2>2. frames[a] \in Seq(Screens)
      BY DEF TypeOK, Screens
    <2>3. Append(frames[a], s)[Len(frames[a]) + 1] = s
      BY <2>2, AppendProperties
    <2> QED
      BY <2>1, <2>3
  <1> QED
    BY <1>1, <1>2 DEF Mirror!Publish

\* A terminal whose scrollback changes shows the same screen.
LEMMA ScrollbackIsNotShown ==
  ASSUME TypeOK, NEW a \in Agent, NEW c,
         c.sequence = cache[a].sequence, c.snapshot = cache[a].snapshot,
         cache' = [cache EXCEPT ![a] = c]
  PROVE  UNCHANGED Shown
PROOF
  <1>1. cache \in [Agent -> Terminal]
    BY DEF TypeOK
  <1> QED
    BY <1>1 DEF Shown

\* The user changes no screen.
LEMMA UsersShowNothing ==
  ASSUME TypeOK, User PROVE UNCHANGED Shown
PROOF
  <1>1. cache \in [Agent -> Terminal]
    BY DEF TypeOK
  <1>2. ASSUME NEW a \in Agent, NEW n \in 1 .. MaxScroll, Scroll(a, n) PROVE UNCHANGED Shown
    <2> DEFINE c == [cache[a] EXCEPT !.target = n,
                                     !.request = IF cache[a].request = 0 THEN n ELSE cache[a].request]
    <2>1. cache' = [cache EXCEPT ![a] = c]
      BY <1>1, <1>2 DEF Scroll, Terminal
    <2>2. c.sequence = cache[a].sequence /\ c.snapshot = cache[a].snapshot
      BY <1>1 DEF Terminal
    <2> HIDE DEF c
    <2> QED
      BY <2>1, <2>2, ScrollbackIsNotShown
  <1>3. ASSUME NEW a \in Agent, ShowLive(a) PROVE UNCHANGED Shown
    <2> DEFINE c == [cache[a] EXCEPT !.target = 0, !.view = 0]
    <2>1. cache' = [cache EXCEPT ![a] = c]
      BY <1>1, <1>3 DEF ShowLive, Terminal
    <2>2. c.sequence = cache[a].sequence /\ c.snapshot = cache[a].snapshot
      BY <1>1 DEF Terminal
    <2> HIDE DEF c
    <2> QED
      BY <2>1, <2>2, ScrollbackIsNotShown
  <1>4. ASSUME Resize PROVE UNCHANGED Shown
    <2>1. cache' = [a \in Agent |-> [cache[a] EXCEPT !.request = 0, !.target = 0, !.view = 0]]
      BY <1>4 DEF Resize
    <2>2. \A a \in Agent : /\ cache'[a].sequence = cache[a].sequence
                          /\ cache'[a].snapshot = cache[a].snapshot
      BY <1>1, <2>1 DEF Terminal
    <2> QED
      BY <2>2 DEF Shown
  <1>5. CASE UNCHANGED cache
    BY <1>5 DEF Shown
  <1>6. ASSUME NEW a \in Agent, Close(a) PROVE UNCHANGED cache
    BY <1>6 DEF Close
  <1>7. CASE Spawn
    BY <1>5, <1>7 DEF Spawn
  <1> QED
    BY <1>2, <1>3, <1>4, <1>5, <1>6, <1>7 DEF User

\* Every step of the protocol is one of the mirror's, or changes nothing it shows.
LEMMA StepMirrors ==
  ASSUME ContentInv, [Next]_vars, FramesGrow, TypeOK'
  PROVE  [Mirror!Next]_<<frames, Shown>>
PROOF
  <1>1. TypeOK /\ Silent /\ cache \in [Agent -> Terminal]
    BY DEF ContentInv, TypeOK
  <1>2. CASE UNCHANGED Shown
    BY <1>1, <1>2, Publishing DEF Mirror!Next
  <1>3. CASE UNCHANGED cache
    BY <1>2, <1>3 DEF Shown
  <1>4. CASE Lose
    <2>1. frames' = frames /\ Shown' = [a \in Agent |-> Mirror!Nothing]
      BY <1>4, LoseProperties DEF LoseConnection, Shown, NoTerminal, Mirror!Nothing
    <2>2. Shown' = [a \in Agent |-> IF a \in Agent THEN Mirror!Nothing ELSE Shown[a]]
      BY <2>1
    <2> QED
      BY <2>1, <2>2 DEF Mirror!Next, Mirror!Forget
  <1>5. CASE ReceiveFull \/ ReceiveNextDiff
    BY <1>5, Accepting DEF Mirror!Next
  <1>6. CASE ReceiveDuplicateDiff \/ ReceiveDiffWithGap \/ ReceiveControl \/ ReceiveWhileWaiting
    BY <1>3, <1>6 DEF ReceiveDuplicateDiff, ReceiveDiffWithGap, ReceiveControl, ReceiveWhileWaiting
  <1>7. CASE ReceiveViewport
    <2> DEFINE m == Head(wire)
               t == cache[m.agent]
    <2>1. m.agent \in Agent
      BY <1>1, <1>7, WireProperties, ItemKinds DEF ReceiveViewport, Receiving, Viewport
    <2>2. PICK x, y, z : cache' = [cache EXCEPT ![m.agent] = [t EXCEPT !.request = x, !.view = y, !.target = z]]
      BY <1>1, <1>7, <2>1 DEF ReceiveViewport, Terminal
    <2> DEFINE c == [t EXCEPT !.request = x, !.view = y, !.target = z]
    <2>3. c.sequence = t.sequence /\ c.snapshot = t.snapshot
      BY <1>1, <2>1 DEF Terminal
    <2>4. cache' = [cache EXCEPT ![m.agent] = c]
      BY <2>2
    <2> HIDE DEF c, m
    <2> QED
      BY <1>1, <1>2, <2>1, <2>3, <2>4, ScrollbackIsNotShown
  <1>8. CASE ReceiveRemoved
    <2> DEFINE a == Head(wire).agent
    <2>1. a \in Agent
      BY <1>1, <1>8, WireProperties, ItemKinds DEF ReceiveRemoved, Receiving, Removed
    <2>2. cache' = [cache EXCEPT ![a] = NoTerminal] /\ frames' = frames
      BY <1>8 DEF ReceiveRemoved, Receiving, serverVars
    <2>3. Shown' = [x \in Agent |-> IF x \in {a} THEN Mirror!Nothing ELSE Shown[x]]
      BY <1>1, <2>1, <2>2 DEF Shown, NoTerminal, Mirror!Nothing
    <2>4. {a} \in SUBSET Agent
      BY <2>1
    <2> HIDE DEF a
    <2> QED
      BY <2>2, <2>3, <2>4 DEF Mirror!Next, Mirror!Forget
  <1>9. CASE User
    BY <1>1, <1>2, <1>9, UsersShowNothing
  <1>10. CASE Serve
    BY <1>1, <1>3, <1>10, ServeType DEF Handled, clientVars
  <1>11. CASE PushQueued \/ PushUnderPressure \/ SendOwed \/ Write
    BY <1>3, <1>11 DEF PushQueued, PushUnderPressure, SendOwed, Write, clientVars
  <1>12. CASE SpawnTimesOut
    BY <1>3, <1>12 DEF SpawnTimesOut
  <1>13. ASSUME NEW a \in Agent, Output(a) PROVE UNCHANGED cache
    BY <1>13 DEF Output, clientVars
  <1>14. CASE UNCHANGED vars
    BY <1>3, <1>14 DEF vars, clientVars
  <1> QED
    BY <1>3, <1>4, <1>5, <1>6, <1>7, <1>8, <1>9, <1>10, <1>11, <1>12, <1>13, <1>14, StepKinds
       DEF Receive

\* A step of the mirror leaves it with frames that were published.
LEMMA MirrorStep ==
  ASSUME ContentInv, FramesGrow, [Mirror!Next]_<<frames, Shown>> PROVE MirrorsAFrame'
PROOF
  <1>1. \A a \in Agent : /\ Shown[a].sequence = cache[a].sequence
                         /\ Shown[a].snapshot = cache[a].snapshot
                         /\ Shown'[a].sequence = cache'[a].sequence
                         /\ Shown'[a].snapshot = cache'[a].snapshot
    BY DEF Shown
  <1>2. \A a \in Agent : Shown[a].sequence # 0 =>
          /\ Shown[a].sequence \in DOMAIN frames'[a]
          /\ Shown[a].snapshot = frames'[a][Shown[a].sequence]
    BY <1>1, NumbersStay DEF ContentInv, MirrorsAFrame
  <1>3. \A a \in Agent : Shown'[a].sequence # 0 =>
          /\ Shown'[a].sequence \in DOMAIN frames'[a]
          /\ Shown'[a].snapshot = frames'[a][Shown'[a].sequence]
    <2>1. CASE UNCHANGED Shown
      BY <1>2, <2>1
    <2>2. CASE Mirror!Show
      <3>1. PICK a \in Agent : \E n \in DOMAIN frames[a] :
              /\ Shown' = [Shown EXCEPT ![a] = [sequence |-> n, snapshot |-> frames[a][n]]]
              /\ UNCHANGED frames
        BY <2>2 DEF Mirror!Show
      <3>2. DOMAIN Shown = Agent
        BY DEF Shown
      <3> QED
        BY <1>2, <3>1, <3>2
    <2>3. CASE Mirror!Forget
      BY <1>2, <2>3 DEF Mirror!Forget, Mirror!Nothing
    <2> QED
      BY <2>1, <2>2, <2>3 DEF Mirror!Next
  <1> QED
    BY <1>1, <1>3 DEF MirrorsAFrame

\* A step keeps numbers and screens together, on the server, on the way and shown.
LEMMA StepContent ==
  ASSUME ContentInv, [Next]_vars PROVE ContentInv'
PROOF
  <1>1. TypeOK /\ Silent /\ BasesAreFrames
    BY DEF ContentInv
  <1>2. TypeOK' /\ Silent' /\ BasesAreFrames' /\ FramesGrow
    BY <1>1, StepType, StepSilent, StepBases
  <1>3. MirrorsAFrame'
    BY <1>2, StepMirrors, MirrorStep
  <1>4. \A m \in Downlink' : m \in Item
    BY <1>2, LenProperties DEF TypeOK, Downlink, Item
  <1>5. MessagesCarryFrames'
    <2> SUFFICES ASSUME NEW m \in Downlink' PROVE Carries(m)'
      BY DEF MessagesCarryFrames
    <2>1. CASE ~IsPicture(m)
      BY <2>1 DEF Carries, IsPicture
    <2>2. CASE m \in Downlink
      BY <1>1, <1>2, <1>4, <2>2, StillCarries DEF ContentInv, MessagesCarryFrames
    <2>3. CASE IsPicture(m) /\ Published(m)
      <3>1. m \in Message
        BY <1>4, <2>3, ItemKinds DEF IsPicture
      <3> QED
        BY <1>1, <1>2, <2>3, <3>1, PublishedCarries
    <2> QED
      BY <1>1, <2>1, <2>2, <2>3, NewPictures
  <1>6. AcksAreOfFrames'
    <2> SUFFICES ASSUME NEW r \in Requests', r.type = "ack"
                 PROVE  r.sequence \in DOMAIN frames'[r.agent]
      BY DEF AcksAreOfFrames
    <2>1. r.agent \in Agent
      BY <1>2, RequestKinds, LenProperties DEF TypeOK, Requests
    <2>2. r.sequence \in DOMAIN frames[r.agent]
      <3>1. ASSUME NEW m \in Downlink, IsPicture(m), r = Ack(m)
            PROVE  r.sequence \in DOMAIN frames[r.agent]
        BY <3>1 DEF ContentInv, MessagesCarryFrames, Carries, Ack
      <3> QED
        BY <1>1, <3>1, NewAcks DEF ContentInv, AcksAreOfFrames
    <2> QED
      BY <1>1, <1>2, <2>1, <2>2, NumbersStay
  <1> QED
    BY <1>2, <1>3, <1>5, <1>6 DEF ContentInv

\* At the start nothing is numbered, shown or on its way.
LEMMA InitContent == Init => ContentInv
PROOF
  <1> SUFFICES ASSUME Init PROVE ContentInv
    OBVIOUS
  <1>1. TypeOK /\ Silent
    BY InitType
  <1>2. BasesAreFrames /\ MirrorsAFrame
    BY DEF Init, NoBases, NoTerminal, BasesAreFrames, MirrorsAFrame
  <1>3. MessagesCarryFrames /\ AcksAreOfFrames
    BY DEF Init, Downlink, Requests, MessagesCarryFrames, AcksAreOfFrames
  <1> QED
    BY <1>1, <1>2, <1>3 DEF ContentInv

LEMMA FramesContent == Spec => []ContentInv
PROOF
  <1>1. ContentInv /\ [Next]_vars => ContentInv'
    BY StepContent
  <1> QED
    BY <1>1, InitContent, PTL DEF Spec

\* What the client shows after it has accepted a frame is exactly the screen that the
\* server numbered so, whatever was thrown away, repeated or resynchronised on the way.
THEOREM ScreensAreMirrored == Spec => []MirrorsAFrame
PROOF
  <1>1. ContentInv => MirrorsAFrame
    BY DEF ContentInv
  <1> QED
    BY <1>1, FramesContent, PTL

\* No acknowledgement is ever ahead of the basis it is about.
THEOREM AcksFollow == Spec => []AcksFollowTheBasis
PROOF
  <1>1. ContentInv => AcksFollowTheBasis
    <2> SUFFICES ASSUME ContentInv, NEW r \in Requests, r.type = "ack", basis[r.agent] # NoBasis
                 PROVE  r.sequence <= basis[r.agent].sequence
      BY DEF AcksFollowTheBasis
    <2>1. r.agent \in Agent
      BY RequestKinds, LenProperties DEF ContentInv, TypeOK, Requests
    <2>2. r.sequence \in DOMAIN frames[r.agent] /\ basis[r.agent].sequence = Len(frames[r.agent])
      BY <2>1 DEF ContentInv, AcksAreOfFrames, BasesAreFrames
    <2>3. DOMAIN frames[r.agent] = 1 .. Len(frames[r.agent]) /\ Len(frames[r.agent]) \in Nat
      BY <2>1, LenProperties DEF ContentInv, TypeOK
    <2> QED
      BY <2>2, <2>3
  <1> QED
    BY <1>1, FramesContent, PTL

\* The frames and the client's terminals implement the mirror: the server publishes the
\* screens of an agent one after another, and the client shows one of them, never an
\* older one than before unless it forgets the agent.
THEOREM FramesImplementTheMirror == Spec => MirrorSpec
PROOF
  <1>1. Init => Mirror!Init
    BY DEF Init, Shown, NoTerminal, Mirror!Init, Mirror!Nothing
  <1>2. ContentInv /\ [Next]_vars => [Mirror!Next]_<<frames, Shown>>
    <2> SUFFICES ASSUME ContentInv, [Next]_vars PROVE [Mirror!Next]_<<frames, Shown>>
      OBVIOUS
    <2>1. FramesGrow /\ TypeOK'
      BY StepBases, StepType DEF ContentInv
    <2> QED
      BY <2>1, StepMirrors
  <1> QED
    BY <1>1, <1>2, FramesContent, PTL DEF Spec, MirrorSpec, Mirror!Spec

-----------------------------------------------------------------------------
\* The order of the envelopes on their way

\* The envelopes of the wire, the queue and the outbox, oldest first.
Joined(w, q, o) ==
  [i \in 1 .. Len(w) + Len(q) + Len(o) |->
     IF i <= Len(w) THEN w[i]
     ELSE IF i <= Len(w) + Len(q) THEN q[i - Len(w)]
     ELSE o[i - Len(w) - Len(q)]]

Pipe == Joined(wire, queue, outbox)

\* The places of an agent's frames, and of the promise of one.
Places(s, a) == {i \in DOMAIN s : About(s[i], a)}

\* A diff goes before later frames only; a complete frame that has been made up in a
\* hurry may overtake one frame, never two; and every frame but the first is newer than
\* what the client shows.
InOrder(s, a, shown) ==
  /\ \A i, j \in Places(s, a) :
       i < j /\ s[i].type = "diff" /\ IsPicture(s[j]) => s[i].sequence < s[j].sequence
  /\ \A i, k, j \in Places(s, a) :
       i < k /\ k < j /\ IsPicture(s[i]) /\ IsPicture(s[j]) => s[i].sequence < s[j].sequence
  /\ \A k, j \in Places(s, a) :
       k < j /\ IsPicture(s[j]) => shown < s[j].sequence

\* A handler's envelopes hold one frame of an agent; only the first may be made up.
OnePerAgent ==
  \A a \in Agent : \A i, j \in DOMAIN outbox :
    1 < i /\ i < j => ~(About(outbox[i], a) /\ About(outbox[j], a))

FramesInOrder == \A a \in Agent : InOrder(Pipe, a, cache[a].sequence)

OrderInv == ContentInv /\ OnePerAgent /\ FramesInOrder

\* t holds the envelopes of w, then those of q, then those of o.
Laid(w, q, o, t) ==
  /\ Len(w) \in Nat /\ Len(q) \in Nat /\ Len(o) \in Nat
  /\ DOMAIN w = 1 .. Len(w) /\ DOMAIN q = 1 .. Len(q) /\ DOMAIN o = 1 .. Len(o)
  /\ DOMAIN t = 1 .. Len(w) + Len(q) + Len(o)
  /\ \A i \in 1 .. Len(w) : t[i] = w[i]
  /\ \A i \in 1 .. Len(q) : t[Len(w) + i] = q[i]
  /\ \A i \in 1 .. Len(o) : t[Len(w) + Len(q) + i] = o[i]
  /\ \A i \in DOMAIN t :
       \/ i \in 1 .. Len(w)
       \/ \E x \in 1 .. Len(q) : i = Len(w) + x
       \/ \E x \in 1 .. Len(o) : i = Len(w) + Len(q) + x

LEMMA JoinedLaid ==
  ASSUME NEW S, NEW w \in Seq(S), NEW q \in Seq(S), NEW o \in Seq(S),
         NEW t, t = Joined(w, q, o)
  PROVE  Laid(w, q, o, t)
PROOF
  <1>1. /\ Len(w) \in Nat /\ Len(q) \in Nat /\ Len(o) \in Nat
        /\ DOMAIN w = 1 .. Len(w) /\ DOMAIN q = 1 .. Len(q) /\ DOMAIN o = 1 .. Len(o)
    BY LenProperties
  <1>2. DOMAIN t = 1 .. Len(w) + Len(q) + Len(o)
    BY DEF Joined
  <1>3. \A i \in 1 .. Len(w) : t[i] = w[i]
    BY <1>1 DEF Joined
  <1>4. ASSUME NEW i \in 1 .. Len(q) PROVE t[Len(w) + i] = q[i]
    <2>1. ~(Len(w) + i <= Len(w)) /\ Len(w) + i <= Len(w) + Len(q) /\ (Len(w) + i) - Len(w) = i
      BY <1>1
    <2> QED
      BY <1>1, <2>1 DEF Joined
  <1>5. ASSUME NEW i \in 1 .. Len(o) PROVE t[Len(w) + Len(q) + i] = o[i]
    <2>1. /\ ~(Len(w) + Len(q) + i <= Len(w)) /\ ~(Len(w) + Len(q) + i <= Len(w) + Len(q))
          /\ (Len(w) + Len(q) + i) - Len(w) - Len(q) = i
      BY <1>1
    <2> QED
      BY <1>1, <2>1 DEF Joined
  <1>6. ASSUME NEW i \in DOMAIN t
        PROVE  \/ i \in 1 .. Len(w)
               \/ \E x \in 1 .. Len(q) : i = Len(w) + x
               \/ \E x \in 1 .. Len(o) : i = Len(w) + Len(q) + x
    <2>1. i \in 1 .. Len(w) + Len(q) + Len(o)
      BY <1>2
    <2>2. CASE i <= Len(w)
      BY <1>1, <2>1, <2>2
    <2>3. CASE ~(i <= Len(w)) /\ i <= Len(w) + Len(q)
      <3>1. i - Len(w) \in 1 .. Len(q) /\ i = Len(w) + (i - Len(w))
        BY <1>1, <2>1, <2>3
      <3> QED
        BY <3>1
    <2>4. CASE ~(i <= Len(w) + Len(q))
      <3>1. i - Len(w) - Len(q) \in 1 .. Len(o) /\ i = Len(w) + Len(q) + (i - Len(w) - Len(q))
        BY <1>1, <2>1, <2>4
      <3> QED
        BY <3>1
    <2> QED
      BY <2>2, <2>3, <2>4
  <1> QED
    BY <1>1, <1>2, <1>3, <1>4, <1>5, <1>6 DEF Laid

\* The pipe holds what is on its way.
LEMMA PipeProperties ==
  ASSUME TypeOK
  PROVE  /\ wire \in Seq(Item) /\ queue \in Seq(Item) /\ outbox \in Seq(Item)
         /\ Laid(wire, queue, outbox, Pipe)
         /\ \A i \in DOMAIN Pipe : Pipe[i] \in Item /\ Pipe[i] \in Downlink
         /\ \A m \in Downlink : \E i \in DOMAIN Pipe : Pipe[i] = m
PROOF
  <1>1. wire \in Seq(Item) /\ queue \in Seq(Item) /\ outbox \in Seq(Item)
    BY Messages DEF TypeOK, Item
  <1>2. Laid(wire, queue, outbox, Pipe)
    BY <1>1, JoinedLaid DEF Pipe
  <1>3. ASSUME NEW m \in Downlink PROVE \E i \in DOMAIN Pipe : Pipe[i] = m
    <2>1. ASSUME NEW i \in 1 .. Len(wire) PROVE i \in DOMAIN Pipe
      BY <1>2 DEF Laid
    <2>2. ASSUME NEW i \in 1 .. Len(queue) PROVE Len(wire) + i \in DOMAIN Pipe
      BY <1>2 DEF Laid
    <2>3. ASSUME NEW i \in 1 .. Len(outbox) PROVE Len(wire) + Len(queue) + i \in DOMAIN Pipe
      BY <1>2 DEF Laid
    <2>4. CASE \E i \in 1 .. Len(wire) : m = wire[i]
      BY <1>2, <2>1, <2>4 DEF Laid
    <2>5. CASE \E i \in 1 .. Len(queue) : m = queue[i]
      BY <1>2, <2>2, <2>5 DEF Laid
    <2>6. CASE \E i \in 1 .. Len(outbox) : m = outbox[i]
      BY <1>2, <2>3, <2>6 DEF Laid
    <2> QED
      BY <1>2, <2>4, <2>5, <2>6 DEF Laid, Downlink
  <1>4. ASSUME NEW i \in DOMAIN Pipe PROVE Pipe[i] \in Downlink
    BY <1>2 DEF Laid, Downlink
  <1>5. \A m \in Downlink : m \in Item
    BY <1>1, LenProperties DEF Downlink
  <1> QED
    BY <1>1, <1>2, <1>3, <1>4, <1>5

\* The frames of t are frames of s, in the same order, or promises in place of some.
Within(t, s, a) ==
  \E g \in [Places(t, a) -> Places(s, a)] :
    /\ \A i \in Places(t, a) : t[i] = s[g[i]] \/ t[i].type = "owed"
    /\ \A i, j \in Places(t, a) : i < j => g[i] < g[j]

\* What is within an order is in order.
LEMMA WithinOrder ==
  ASSUME NEW t, NEW s, NEW a, NEW n, InOrder(s, a, n), Within(t, s, a)
  PROVE  InOrder(t, a, n)
PROOF
  <1>1. PICK g \in [Places(t, a) -> Places(s, a)] :
          /\ \A i \in Places(t, a) : t[i] = s[g[i]] \/ t[i].type = "owed"
          /\ \A i, j \in Places(t, a) : i < j => g[i] < g[j]
    BY DEF Within
  <1>2. \A i \in Places(t, a) : g[i] \in Places(s, a)
    BY <1>1
  <1>3. \A i \in Places(t, a) : IsPicture(t[i]) => t[i] = s[g[i]]
    BY <1>1 DEF IsPicture
  <1> HIDE DEF Places
  <1>4. ASSUME NEW i \in Places(t, a), NEW j \in Places(t, a), i < j, t[i].type = "diff",
               IsPicture(t[j])
        PROVE  t[i].sequence < t[j].sequence
    <2>1. g[i] \in Places(s, a) /\ g[j] \in Places(s, a) /\ g[i] < g[j]
      BY <1>1, <1>4
    <2>2. t[i] = s[g[i]] /\ t[j] = s[g[j]]
      BY <1>3, <1>4 DEF IsPicture
    <2> QED
      BY <1>4, <2>1, <2>2 DEF InOrder
  <1>5. ASSUME NEW i \in Places(t, a), NEW k \in Places(t, a), NEW j \in Places(t, a),
               i < k, k < j, IsPicture(t[i]), IsPicture(t[j])
        PROVE  t[i].sequence < t[j].sequence
    <2>1. /\ g[i] \in Places(s, a) /\ g[k] \in Places(s, a) /\ g[j] \in Places(s, a)
          /\ g[i] < g[k] /\ g[k] < g[j]
      BY <1>1, <1>5
    <2>2. t[i] = s[g[i]] /\ t[j] = s[g[j]]
      BY <1>3, <1>5
    <2> QED
      BY <1>5, <2>1, <2>2 DEF InOrder
  <1>6. ASSUME NEW k \in Places(t, a), NEW j \in Places(t, a), k < j, IsPicture(t[j])
        PROVE  n < t[j].sequence
    <2>1. g[k] \in Places(s, a) /\ g[j] \in Places(s, a) /\ g[k] < g[j]
      BY <1>1, <1>6
    <2>2. t[j] = s[g[j]]
      BY <1>3, <1>6
    <2> QED
      BY <1>6, <2>1, <2>2 DEF InOrder
  <1> QED
    BY <1>4, <1>5, <1>6 DEF InOrder

\* The same envelopes in the same places are within one another.
LEMMA SameIsWithin ==
  ASSUME NEW t, NEW s, NEW a, DOMAIN t = DOMAIN s, \A i \in DOMAIN s : t[i] = s[i]
  PROVE  Within(t, s, a)
PROOF
  <1> DEFINE g == [i \in Places(t, a) |-> i]
  <1>1. Places(t, a) = Places(s, a)
    BY DEF Places
  <1>2. g \in [Places(t, a) -> Places(s, a)]
    BY <1>1
  <1>3. /\ \A i \in Places(t, a) : t[i] = s[g[i]] \/ t[i].type = "owed"
        /\ \A i, j \in Places(t, a) : i < j => g[i] < g[j]
    BY <1>1 DEF Places
  <1> HIDE DEF g
  <1> QED
    BY <1>2, <1>3 DEF Within

\* The head and the tail of a sequence, place by place.
LEMMA HeadAndTail ==
  ASSUME NEW S, NEW s \in Seq(S), s # <<>>
  PROVE  /\ Tail(s) \in Seq(S) /\ Head(s) \in S /\ Head(s) = s[1]
         /\ Len(s) \in Nat \ {0} /\ Len(Tail(s)) = Len(s) - 1
         /\ \A i \in 1 .. Len(s) - 1 : Tail(s)[i] = s[i + 1]
PROOF
  <1>1. Len(s) \in Nat \ {0}
    BY EmptySeq
  <1> QED
    BY <1>1, HeadTailProperties

\* An envelope that moves on to the next queue keeps its place.
LEMMA MovedOn ==
  ASSUME NEW S, NEW w \in Seq(S), NEW q \in Seq(S), NEW o \in Seq(S),
         NEW s, s = Joined(w, q, o), o # <<>>,
         NEW t, t = Joined(w, Append(q, Head(o)), Tail(o))
  PROVE  DOMAIN t = DOMAIN s /\ \A i \in DOMAIN s : t[i] = s[i]
PROOF
  <1> DEFINE u == Append(q, Head(o))
             v == Tail(o)
  <1>1. Laid(w, q, o, s)
    BY JoinedLaid
  <1>2. /\ u \in Seq(S) /\ v \in Seq(S) /\ Len(u) = Len(q) + 1 /\ Len(v) = Len(o) - 1
        /\ \A i \in 1 .. Len(q) : u[i] = q[i]
        /\ u[Len(q) + 1] = o[1]
        /\ \A i \in 1 .. Len(o) - 1 : v[i] = o[i + 1]
        /\ Len(o) >= 1
    BY HeadAndTail, AppendProperties
  <1>3. t = Joined(w, u, v)
    OBVIOUS
  <1> HIDE DEF u, v
  <1>4. Laid(w, u, v, t)
    BY <1>2, <1>3, JoinedLaid
  <1>5. DOMAIN t = DOMAIN s
    BY <1>1, <1>2, <1>4 DEF Laid
  <1>6. \A i \in 1 .. Len(w) : t[i] = s[i]
    BY <1>1, <1>4 DEF Laid
  <1>7. ASSUME NEW x \in 1 .. Len(q) PROVE t[Len(w) + x] = s[Len(w) + x]
    BY <1>1, <1>2, <1>4 DEF Laid
  <1>8. ASSUME NEW x \in 1 .. Len(o) PROVE t[Len(w) + Len(q) + x] = s[Len(w) + Len(q) + x]
    <2>1. CASE x = 1
      <3>1. Len(w) + Len(q) + x = Len(w) + (Len(q) + 1) /\ Len(q) + 1 \in 1 .. Len(u)
        BY <1>1, <1>2, <2>1 DEF Laid
      <3>2. t[Len(w) + (Len(q) + 1)] = u[Len(q) + 1]
        BY <1>4, <3>1 DEF Laid
      <3> QED
        BY <1>1, <1>2, <2>1, <3>1, <3>2 DEF Laid
    <2>2. CASE x # 1
      <3>1. /\ Len(w) + Len(q) + x = Len(w) + Len(u) + (x - 1)
            /\ x - 1 \in 1 .. Len(v) /\ x - 1 \in 1 .. Len(o) - 1 /\ (x - 1) + 1 = x
        BY <1>1, <1>2, <2>2 DEF Laid
      <3>2. t[Len(w) + Len(u) + (x - 1)] = v[x - 1] /\ v[x - 1] = o[x]
        BY <1>2, <1>4, <3>1 DEF Laid
      <3> QED
        BY <1>1, <3>1, <3>2 DEF Laid
    <2> QED
      BY <2>1, <2>2
  <1> QED
    BY <1>1, <1>5, <1>6, <1>7, <1>8 DEF Laid

LEMMA WrittenOn ==
  ASSUME NEW S, NEW w \in Seq(S), NEW q \in Seq(S), NEW o \in Seq(S),
         NEW s, s = Joined(w, q, o), q # <<>>,
         NEW t, t = Joined(Append(w, Head(q)), Tail(q), o)
  PROVE  DOMAIN t = DOMAIN s /\ \A i \in DOMAIN s : t[i] = s[i]
PROOF
  <1> DEFINE u == Append(w, Head(q))
             v == Tail(q)
  <1>1. Laid(w, q, o, s)
    BY JoinedLaid
  <1>2. /\ u \in Seq(S) /\ v \in Seq(S) /\ Len(u) = Len(w) + 1 /\ Len(v) = Len(q) - 1
        /\ \A i \in 1 .. Len(w) : u[i] = w[i]
        /\ u[Len(w) + 1] = q[1]
        /\ \A i \in 1 .. Len(q) - 1 : v[i] = q[i + 1]
        /\ Len(q) >= 1
    BY HeadAndTail, AppendProperties
  <1>3. t = Joined(u, v, o)
    OBVIOUS
  <1> HIDE DEF u, v
  <1>4. Laid(u, v, o, t)
    BY <1>2, <1>3, JoinedLaid
  <1>5. DOMAIN t = DOMAIN s
    BY <1>1, <1>2, <1>4 DEF Laid
  <1>6. ASSUME NEW i \in 1 .. Len(w) PROVE t[i] = s[i]
    BY <1>1, <1>2, <1>4 DEF Laid
  <1>7. ASSUME NEW x \in 1 .. Len(q) PROVE t[Len(w) + x] = s[Len(w) + x]
    <2>1. CASE x = 1
      BY <1>1, <1>2, <1>4, <2>1 DEF Laid
    <2>2. CASE x # 1
      <3>1. /\ Len(w) + x = Len(u) + (x - 1)
            /\ x - 1 \in 1 .. Len(v) /\ x - 1 \in 1 .. Len(q) - 1 /\ (x - 1) + 1 = x
        BY <1>1, <1>2, <2>2 DEF Laid
      <3>2. t[Len(u) + (x - 1)] = v[x - 1] /\ v[x - 1] = q[x]
        BY <1>2, <1>4, <3>1 DEF Laid
      <3> QED
        BY <1>1, <3>1, <3>2 DEF Laid
    <2> QED
      BY <2>1, <2>2
  <1>8. ASSUME NEW x \in 1 .. Len(o) PROVE t[Len(w) + Len(q) + x] = s[Len(w) + Len(q) + x]
    <2>1. Len(w) + Len(q) + x = Len(u) + Len(v) + x
      BY <1>1, <1>2 DEF Laid
    <2> QED
      BY <1>1, <1>4, <2>1 DEF Laid
  <1> QED
    BY <1>1, <1>5, <1>6, <1>7, <1>8 DEF Laid

\* When the client has taken the oldest envelope the others move up.
LEMMA MovedUp ==
  ASSUME NEW S, NEW w \in Seq(S), NEW q \in Seq(S), NEW o \in Seq(S), w # <<>>,
         NEW s, s = Joined(w, q, o), NEW t, t = Joined(Tail(w), q, o)
  PROVE  /\ 1 \in DOMAIN s /\ s[1] = Head(w)
         /\ \A i \in DOMAIN t : i \in Nat /\ i > 0 /\ i + 1 \in DOMAIN s /\ t[i] = s[i + 1]
         /\ \A i \in DOMAIN s : i # 1 => i - 1 \in DOMAIN t /\ t[i - 1] = s[i]
PROOF
  <1> DEFINE v == Tail(w)
  <1>1. Laid(w, q, o, s)
    BY JoinedLaid
  <1>2. /\ v \in Seq(S) /\ Len(v) = Len(w) - 1 /\ Len(w) >= 1 /\ Head(w) = w[1]
        /\ \A i \in 1 .. Len(w) - 1 : v[i] = w[i + 1]
    BY HeadAndTail
  <1>3. t = Joined(v, q, o)
    OBVIOUS
  <1> HIDE DEF v
  <1>4. Laid(v, q, o, t)
    BY <1>2, <1>3, JoinedLaid
  <1>5. ASSUME NEW i \in DOMAIN t
        PROVE  i \in Nat /\ i > 0 /\ i + 1 \in DOMAIN s /\ t[i] = s[i + 1]
    <2>1. i \in Nat /\ i > 0 /\ i + 1 \in DOMAIN s
      BY <1>1, <1>2, <1>4 DEF Laid
    <2>2. CASE i \in 1 .. Len(v)
      <3>1. i \in 1 .. Len(w) - 1 /\ i + 1 \in 1 .. Len(w)
        BY <1>1, <1>2, <2>2 DEF Laid
      <3>2. t[i] = v[i] /\ s[i + 1] = w[i + 1]
        BY <1>1, <1>4, <2>2, <3>1 DEF Laid
      <3> QED
        BY <1>2, <2>1, <3>1, <3>2
    <2>3. ASSUME NEW x \in 1 .. Len(q), i = Len(v) + x PROVE t[i] = s[i + 1]
      <3>1. i + 1 = Len(w) + x
        BY <1>1, <1>2, <2>3 DEF Laid
      <3> QED
        BY <1>1, <1>4, <2>3, <3>1 DEF Laid
    <2>4. ASSUME NEW x \in 1 .. Len(o), i = Len(v) + Len(q) + x PROVE t[i] = s[i + 1]
      <3>1. i + 1 = Len(w) + Len(q) + x
        BY <1>1, <1>2, <2>4 DEF Laid
      <3> QED
        BY <1>1, <1>4, <2>4, <3>1 DEF Laid
    <2> QED
      BY <1>4, <2>1, <2>2, <2>3, <2>4 DEF Laid
  <1>6. ASSUME NEW i \in DOMAIN s, i # 1 PROVE i - 1 \in DOMAIN t /\ t[i - 1] = s[i]
    <2>1. i - 1 \in DOMAIN t /\ (i - 1) + 1 = i
      BY <1>1, <1>2, <1>4, <1>6 DEF Laid
    <2> QED
      BY <1>5, <2>1
  <1>7. 1 \in DOMAIN s /\ s[1] = Head(w)
    BY <1>1, <1>2 DEF Laid
  <1> QED
    BY <1>5, <1>6, <1>7

\* What a handler sends comes last.
LEMMA JoinedLast ==
  ASSUME NEW S, NEW w \in Seq(S), NEW q \in Seq(S), NEW o \in Seq(S),
         NEW s, s = Joined(w, q, <<>>), NEW t, t = Joined(w, q, o)
  PROVE  /\ DOMAIN s \subseteq DOMAIN t /\ \A i \in DOMAIN s : t[i] = s[i]
         /\ Len(w) + Len(q) \in Nat
         /\ \A i \in DOMAIN s : i \in Nat /\ i <= Len(w) + Len(q)
         /\ \A i \in DOMAIN t \ DOMAIN s :
              \E x \in DOMAIN o : i = Len(w) + Len(q) + x /\ t[i] = o[x] /\ x \in Nat \ {0}
PROOF
  <1>1. <<>> \in Seq(S) /\ Len(<<>>) = 0
    BY EmptySeq
  <1>2. Laid(w, q, o, t)
    BY JoinedLaid
  <1>3. Laid(w, q, <<>>, s)
    BY <1>1, JoinedLaid
  <1>4. DOMAIN s \subseteq DOMAIN t /\ \A i \in DOMAIN s : i \in Nat /\ i <= Len(w) + Len(q)
    BY <1>1, <1>2, <1>3 DEF Laid
  <1>5. Len(w) + Len(q) \in Nat
    BY <1>2 DEF Laid
  <1>6. ASSUME NEW i \in DOMAIN s PROVE t[i] = s[i]
    BY <1>1, <1>2, <1>3 DEF Laid
  <1>7. ASSUME NEW i \in DOMAIN t \ DOMAIN s
        PROVE  \E x \in DOMAIN o : i = Len(w) + Len(q) + x /\ t[i] = o[x] /\ x \in Nat \ {0}
    <2>1. ~(i \in 1 .. Len(w)) /\ ~\E x \in 1 .. Len(q) : i = Len(w) + x
      BY <1>1, <1>2, <1>3 DEF Laid
    <2>2. PICK x \in 1 .. Len(o) : i = Len(w) + Len(q) + x
      BY <1>2, <2>1 DEF Laid
    <2>3. t[i] = o[x] /\ x \in DOMAIN o /\ x \in Nat \ {0}
      BY <1>2, <2>2 DEF Laid
    <2> QED
      BY <2>2, <2>3
  <1> QED
    BY <1>4, <1>5, <1>6, <1>7

\* What the steps that only pass envelopes on leave in the pipe.
LEMMA PassingOn ==
  ASSUME TypeOK, PushQueued \/ Write \/ UNCHANGED <<wire, queue, outbox>>
  PROVE  DOMAIN Pipe' = DOMAIN Pipe /\ \A i \in DOMAIN Pipe : Pipe'[i] = Pipe[i]
PROOF
  <1>1. wire \in Seq(Item) /\ queue \in Seq(Item) /\ outbox \in Seq(Item)
    BY PipeProperties
  <1>2. CASE PushQueued
    <2>1. /\ outbox # <<>> /\ wire' = wire
          /\ queue' = Append(queue, Head(outbox)) /\ outbox' = Tail(outbox)
      BY <1>2 DEF PushQueued, Sending
    <2>2. Pipe' = Joined(wire, Append(queue, Head(outbox)), Tail(outbox))
      BY <2>1 DEF Pipe, Joined
    <2> QED
      BY <1>1, <2>1, <2>2, MovedOn DEF Pipe
  <1>3. CASE Write
    <2>1. /\ queue # <<>> /\ outbox' = outbox
          /\ wire' = Append(wire, Head(queue)) /\ queue' = Tail(queue)
      BY <1>3 DEF Write
    <2>2. Pipe' = Joined(Append(wire, Head(queue)), Tail(queue), outbox)
      BY <2>1 DEF Pipe, Joined
    <2> QED
      BY <1>1, <2>1, <2>2, WrittenOn DEF Pipe
  <1>4. CASE UNCHANGED <<wire, queue, outbox>>
    BY <1>4 DEF Pipe, Joined
  <1> QED
    BY <1>2, <1>3, <1>4

\* The places of agent b in t, a pipe in which the queue has been thinned out: f are those
\* that the kept envelopes had in the queue, e those in s of what follows them.
Thinned(t, s, b, lw, lq, lk, n, f, e) ==
  /\ lw \in Nat /\ lq \in Nat /\ lk \in Nat /\ n \in Nat
  /\ f \in [1 .. lk -> 1 .. lq] /\ e \in [1 .. n -> Nat]
  /\ \A i \in DOMAIN t : \/ i \in 1 .. lw
                         \/ \E x \in 1 .. lk : i = lw + x
                         \/ \E x \in 1 .. n : i = lw + lk + x
  /\ \A i \in Places(t, b) \cap 1 .. lw : i \in Places(s, b) /\ t[i] = s[i]
  /\ \A x \in 1 .. lk : lw + x \in Places(t, b) =>
       lw + f[x] \in Places(s, b) /\ t[lw + x] = s[lw + f[x]]
  /\ \A x \in 1 .. n : lw + lk + x \in Places(t, b) =>
       /\ e[x] \in Places(s, b) /\ e[x] > lw
       /\ t[lw + lk + x] = s[e[x]] \/ t[lw + lk + x].type = "owed"
  /\ \A x, y \in 1 .. lk : x < y => f[x] < f[y]
  /\ \A x, y \in 1 .. n :
       x < y /\ lw + lk + x \in Places(t, b) /\ lw + lk + y \in Places(t, b) => e[x] < e[y]
  /\ \A x \in 1 .. lk : \A y \in 1 .. n :
       lw + x \in Places(t, b) /\ lw + lk + y \in Places(t, b) => lw + f[x] < e[y]

LEMMA ThinnedOut ==
  ASSUME NEW t, NEW s, NEW b, NEW lw, NEW lq, NEW lk, NEW n, NEW f, NEW e,
         Thinned(t, s, b, lw, lq, lk, n, f, e)
  PROVE  Within(t, s, b)
PROOF
  <1>0. /\ lw \in Nat /\ lq \in Nat /\ lk \in Nat /\ n \in Nat
        /\ f \in [1 .. lk -> 1 .. lq] /\ e \in [1 .. n -> Nat]
        /\ \A i \in DOMAIN t : \/ i \in 1 .. lw
                               \/ \E x \in 1 .. lk : i = lw + x
                               \/ \E x \in 1 .. n : i = lw + lk + x
        /\ \A i \in Places(t, b) \cap 1 .. lw : i \in Places(s, b) /\ t[i] = s[i]
        /\ \A x \in 1 .. lk : lw + x \in Places(t, b) =>
             lw + f[x] \in Places(s, b) /\ t[lw + x] = s[lw + f[x]]
        /\ \A x \in 1 .. n : lw + lk + x \in Places(t, b) =>
             /\ e[x] \in Places(s, b) /\ e[x] > lw
             /\ t[lw + lk + x] = s[e[x]] \/ t[lw + lk + x].type = "owed"
        /\ \A x, y \in 1 .. lk : x < y => f[x] < f[y]
        /\ \A x, y \in 1 .. n :
             x < y /\ lw + lk + x \in Places(t, b) /\ lw + lk + y \in Places(t, b) => e[x] < e[y]
        /\ \A x \in 1 .. lk : \A y \in 1 .. n :
             lw + x \in Places(t, b) /\ lw + lk + y \in Places(t, b) => lw + f[x] < e[y]
    BY DEF Thinned
  <1> USE <1>0
  <1> DEFINE g == [i \in Places(t, b) |->
                     IF i <= lw THEN i ELSE IF i <= lw + lk THEN lw + f[i - lw] ELSE e[i - lw - lk]]
  <1>1. \A i \in Places(t, b) : \/ i \in 1 .. lw
                                \/ \E x \in 1 .. lk : i = lw + x
                                \/ \E x \in 1 .. n : i = lw + lk + x
    BY DEF Places
  <1> HIDE DEF Places
  <1>2. ASSUME NEW i \in Places(t, b), i \in 1 .. lw PROVE g[i] = i
    BY <1>2
  <1>3. ASSUME NEW x \in 1 .. lk, lw + x \in Places(t, b) PROVE g[lw + x] = lw + f[x]
    <2>1. ~(lw + x <= lw) /\ lw + x <= lw + lk /\ (lw + x) - lw = x
      OBVIOUS
    <2> QED
      BY <1>3, <2>1
  <1>4. ASSUME NEW x \in 1 .. n, lw + lk + x \in Places(t, b) PROVE g[lw + lk + x] = e[x]
    <2>1. ~(lw + lk + x <= lw) /\ ~(lw + lk + x <= lw + lk) /\ (lw + lk + x) - lw - lk = x
      OBVIOUS
    <2> QED
      BY <1>4, <2>1
  <1>5. DOMAIN g = Places(t, b) /\ g = [i \in Places(t, b) |-> g[i]]
    OBVIOUS
  <1> HIDE DEF g
  <1>6. ASSUME NEW i \in Places(t, b)
        PROVE  g[i] \in Places(s, b) /\ (t[i] = s[g[i]] \/ t[i].type = "owed")
    <2>1. CASE i \in 1 .. lw
      BY <1>2, <2>1
    <2>2. ASSUME NEW x \in 1 .. lk, i = lw + x
          PROVE  g[i] \in Places(s, b) /\ (t[i] = s[g[i]] \/ t[i].type = "owed")
      BY <1>3, <2>2
    <2>3. ASSUME NEW x \in 1 .. n, i = lw + lk + x
          PROVE  g[i] \in Places(s, b) /\ (t[i] = s[g[i]] \/ t[i].type = "owed")
      BY <1>4, <2>3
    <2> QED
      BY <1>1, <2>1, <2>2, <2>3
  <1>7. ASSUME NEW i \in Places(t, b), NEW j \in Places(t, b), i < j PROVE g[i] < g[j]
    <2>1. CASE i \in 1 .. lw
      <3>1. CASE j \in 1 .. lw
        BY <1>2, <1>7, <2>1, <3>1
      <3>2. ASSUME NEW y \in 1 .. lk, j = lw + y PROVE g[i] < g[j]
        <4>1. g[i] = i /\ g[j] = lw + f[y] /\ f[y] \in 1 .. lq
          BY <1>2, <1>3, <2>1, <3>2
        <4> QED
          BY <2>1, <4>1
      <3>3. ASSUME NEW y \in 1 .. n, j = lw + lk + y PROVE g[i] < g[j]
        <4>1. g[i] = i /\ g[j] = e[y] /\ e[y] > lw /\ e[y] \in Nat
          BY <1>2, <1>4, <2>1, <3>3
        <4> QED
          BY <2>1, <4>1
      <3> QED
        BY <1>1, <3>1, <3>2, <3>3
    <2>2. ASSUME NEW x \in 1 .. lk, i = lw + x PROVE g[i] < g[j]
      <3>1. CASE j \in 1 .. lw
        BY <1>7, <2>2, <3>1
      <3>2. ASSUME NEW y \in 1 .. lk, j = lw + y PROVE g[i] < g[j]
        <4>1. x < y
          BY <1>7, <2>2, <3>2
        <4>2. f[x] < f[y] /\ f[x] \in 1 .. lq /\ f[y] \in 1 .. lq
          BY <4>1
        <4>3. g[i] = lw + f[x] /\ g[j] = lw + f[y]
          BY <1>3, <2>2, <3>2
        <4> QED
          BY <4>2, <4>3
      <3>3. ASSUME NEW y \in 1 .. n, j = lw + lk + y PROVE g[i] < g[j]
        <4>1. g[i] = lw + f[x] /\ g[j] = e[y]
          BY <1>3, <1>4, <2>2, <3>3
        <4> QED
          BY <2>2, <3>3, <4>1
      <3> QED
        BY <1>1, <3>1, <3>2, <3>3
    <2>3. ASSUME NEW x \in 1 .. n, i = lw + lk + x PROVE g[i] < g[j]
      <3>1. CASE j \in 1 .. lw \/ \E y \in 1 .. lk : j = lw + y
        BY <1>7, <2>3, <3>1
      <3>2. ASSUME NEW y \in 1 .. n, j = lw + lk + y PROVE g[i] < g[j]
        <4>1. x < y
          BY <1>7, <2>3, <3>2
        <4>2. g[i] = e[x] /\ g[j] = e[y]
          BY <1>4, <2>3, <3>2
        <4> QED
          BY <2>3, <3>2, <4>1, <4>2
      <3> QED
        BY <1>1, <3>1, <3>2
    <2> QED
      BY <1>1, <2>1, <2>2, <2>3
  <1>8. g \in [Places(t, b) -> Places(s, b)]
    BY <1>5, <1>6
  <1> QED
    BY <1>6, <1>7, <1>8 DEF Within

\* A queue that makes room keeps the frames of the others in their order, and in place
\* of the frames of the agent that gives them up it keeps at most a promise.
LEMMA PressureWithin ==
  ASSUME TypeOK, PushUnderPressure, NEW b \in Agent PROVE Within(Pipe', Pipe, b)
PROOF
  <1>1. PICK m, a, kept : Pressed(m, a, kept)
    BY Pressure
  <1> DEFINE lw == Len(wire)
             lq == Len(queue)
             lo == Len(outbox)
             lk == Len(kept)
             owed == [type |-> "owed", agent |-> a]
             s == Pipe
             t == Pipe'
  <1>2. /\ wire \in Seq(Item) /\ queue \in Seq(Item) /\ outbox \in Seq(Item)
        /\ Laid(wire, queue, outbox, s)
    BY PipeProperties
  <1>3. /\ m = outbox[1] /\ m \in Item /\ m \in Message /\ outbox # <<>> /\ m = Head(outbox)
        /\ a \in Agent /\ a \in Victim(m) /\ lo \in Nat \ {0}
    BY <1>1, OutboxProperties, Messages DEF Pressed
  <1>4. /\ lk \in Nat /\ DOMAIN kept = 1 .. lk /\ kept \in Seq(Item)
        /\ \A i \in 1 .. lk : kept[i] \in Message
    BY <1>1, PurgedProperties, Messages DEF Pressed
  <1>5. PICK f \in [DOMAIN kept -> DOMAIN queue] :
          /\ \A i \in DOMAIN kept :
               kept[i] = queue[f[i]] /\ ~(IsFrame(kept[i]) /\ kept[i].agent = a)
          /\ \A i, j \in DOMAIN kept : i < j => f[i] < f[j]
    BY <1>1, PurgedProperties DEF Pressed
  <1>6. /\ lw \in Nat /\ lq \in Nat /\ lo >= 1 /\ DOMAIN queue = 1 .. lq
        /\ DOMAIN s = 1 .. lw + lq + lo
        /\ \A i \in 1 .. lw : s[i] = wire[i]
        /\ \A i \in 1 .. lq : s[lw + i] = queue[i]
        /\ \A i \in 1 .. lo : s[lw + lq + i] = outbox[i]
    BY <1>2, <1>3 DEF Laid
  <1>7. wire' = wire /\ owed \in Item /\ t = Joined(wire, queue', outbox')
    BY <1>3 DEF PushUnderPressure, Pipe, Joined, Item, Owed
  <1>8. /\ f \in [1 .. lk -> 1 .. lq] /\ \A x, y \in 1 .. lk : x < y => f[x] < f[y]
        /\ \A x \in 1 .. lk : lw + f[x] \in DOMAIN s /\ s[lw + f[x]] = kept[x]
        /\ \A x \in 1 .. lk : ~About(kept[x], a)
    <2>1. f \in [1 .. lk -> 1 .. lq] /\ \A x, y \in 1 .. lk : x < y => f[x] < f[y]
      BY <1>4, <1>5, <1>6
    <2>2. ASSUME NEW x \in 1 .. lk PROVE lw + f[x] \in DOMAIN s /\ s[lw + f[x]] = kept[x]
      <3>1. f[x] \in 1 .. lq
        BY <2>1
      <3> QED
        BY <1>3, <1>4, <1>5, <1>6, <3>1
    <2>3. ASSUME NEW x \in 1 .. lk PROVE ~About(kept[x], a)
      BY <1>4, <1>5, ItemKinds DEF About, Message, Full, Diff, Viewport, Removed, Control
    <2> QED
      BY <2>1, <2>2, <2>3
  <1> HIDE DEF lw, lq, lo, lk, owed, s, t
  \* What follows the kept envelopes is the outbox, but for a promise in place of a diff.
  <1>9. ASSUME NEW u \in Seq(Item), Len(u) = lo, Laid(wire, kept, u, t),
               \A x \in 1 .. lo : \/ u[x] = outbox[x]
                                  \/ x = 1 /\ u[x] = owed /\ About(m, a)
        PROVE  Within(t, s, b)
    <2> DEFINE e == [x \in 1 .. lo |-> lw + lq + x]
    <2>1. /\ \A i \in 1 .. lw : t[i] = wire[i]
          /\ \A i \in 1 .. lk : t[lw + i] = kept[i]
          /\ \A i \in 1 .. lo : t[lw + lk + i] = u[i]
          /\ \A i \in DOMAIN t : \/ i \in 1 .. lw
                                 \/ \E x \in 1 .. lk : i = lw + x
                                 \/ \E x \in 1 .. lo : i = lw + lk + x
      BY <1>9 DEF Laid, lw, lk
    <2>2. \A i \in Places(t, b) \cap 1 .. lw : i \in Places(s, b) /\ t[i] = s[i]
      BY <1>3, <1>6, <2>1 DEF Places
    <2>3. \A x \in 1 .. lk : lw + x \in Places(t, b) =>
            lw + f[x] \in Places(s, b) /\ t[lw + x] = s[lw + f[x]]
      BY <1>8, <2>1 DEF Places
    <2>4. \A x \in 1 .. lo : lw + lk + x \in Places(t, b) =>
            /\ e[x] \in Places(s, b) /\ e[x] > lw
            /\ t[lw + lk + x] = s[e[x]] \/ t[lw + lk + x].type = "owed"
      <3> SUFFICES ASSUME NEW x \in 1 .. lo, lw + lk + x \in Places(t, b)
                   PROVE  /\ e[x] \in Places(s, b) /\ e[x] > lw
                          /\ t[lw + lk + x] = s[e[x]] \/ t[lw + lk + x].type = "owed"
        OBVIOUS
      <3>1. e[x] = lw + lq + x /\ e[x] \in DOMAIN s /\ e[x] > lw
        BY <1>3, <1>6
      <3>2. s[e[x]] = outbox[x] /\ t[lw + lk + x] = u[x] /\ About(u[x], b)
        BY <1>6, <2>1, <3>1 DEF Places
      <3>3. CASE u[x] = outbox[x]
        BY <3>1, <3>2, <3>3 DEF Places
      <3>4. CASE x = 1 /\ u[x] = owed /\ About(m, a)
        <4>1. a = b /\ owed.type = "owed"
          BY <3>2, <3>4 DEF About, owed
        <4> QED
          BY <1>3, <3>1, <3>2, <3>4, <4>1 DEF Places
      <3> QED
        BY <1>9, <3>3, <3>4
    <2>5. e \in [1 .. lo -> Nat] /\ \A x, y \in 1 .. lo : x < y => e[x] < e[y]
      BY <1>3, <1>6
    <2>6. \A x \in 1 .. lk : \A y \in 1 .. lo : lw + f[x] < e[y]
      <3> SUFFICES ASSUME NEW x \in 1 .. lk, NEW y \in 1 .. lo PROVE lw + f[x] < e[y]
        OBVIOUS
      <3>1. f[x] \in 1 .. lq /\ e[y] = lw + lq + y
        BY <1>8
      <3> QED
        BY <1>3, <1>6, <3>1
    <2>7. lw \in Nat /\ lq \in Nat /\ lk \in Nat /\ lo \in Nat
      BY <1>3, <1>4, <1>6 DEF lk
    <2> HIDE DEF e
    <2>8. Thinned(t, s, b, lw, lq, lk, lo, f, e)
      BY <1>8, <2>1, <2>2, <2>3, <2>4, <2>5, <2>6, <2>7 DEF Thinned
    <2> QED
      BY <2>8, ThinnedOut
  <1>10. CASE m.type = "diff"
    <2>1. About(m, a)
      BY <1>3, <1>10 DEF Victim, IsFrame, About
    <2>2. queue' = kept /\ outbox' = <<owed>> \o Tail(outbox)
      BY <1>1, <1>10 DEF Pressed, Owes, owed
    <2>3. /\ outbox' \in Seq(Item) /\ Len(outbox') = lo
          /\ \A i \in 1 .. lo : outbox'[i] = IF i = 1 THEN owed ELSE outbox[i]
      BY <1>3, <1>7, <2>2, InsteadOfTheHead DEF lo
    <2>4. Laid(wire, kept, outbox', t)
      BY <1>2, <1>4, <1>7, <2>2, <2>3, JoinedLaid
    <2> QED
      BY <1>9, <2>1, <2>3, <2>4 DEF t, s
  <1>11. CASE m.type \in {"full", "viewport"}
    <2>1. queue' = Append(kept, Head(outbox)) /\ outbox' = Tail(outbox)
      BY <1>1, <1>3, <1>11 DEF Pressed, Owes
    <2> DEFINE p == Joined(wire, kept, outbox)
    <2>2. DOMAIN t = DOMAIN p /\ \A i \in DOMAIN p : t[i] = p[i]
      BY <1>2, <1>3, <1>4, <1>7, <2>1, MovedOn
    <2>3. Laid(wire, kept, outbox, p)
      BY <1>2, <1>4, JoinedLaid
    <2> HIDE DEF p
    <2>4. Laid(wire, kept, outbox, t)
      <3>1. \A i \in 1 .. Len(wire) : i \in DOMAIN p
        BY <2>3 DEF Laid
      <3>2. \A i \in 1 .. Len(kept) : Len(wire) + i \in DOMAIN p
        BY <2>3 DEF Laid
      <3>3. \A i \in 1 .. Len(outbox) : Len(wire) + Len(kept) + i \in DOMAIN p
        BY <2>3 DEF Laid
      <3> QED
        BY <2>2, <2>3, <3>1, <3>2, <3>3 DEF Laid
    <2> QED
      BY <1>2, <1>9, <2>4 DEF lo, t, s
  \* The envelope is pushed, and the promise takes the place of the oldest frame.
  <1>12. CASE m.type \notin {"full", "diff", "viewport"}
    <2>1. PICK k \in DOMAIN queue : IsFrame(queue[k]) /\ queue[k].agent = a
      BY <1>3, <1>12 DEF Victim, IsFrame
    <2>2. queue' = Append(kept, m) /\ outbox' = <<owed>> \o Tail(outbox)
      BY <1>1, <1>12 DEF Pressed, Owes, owed
    <2>3. /\ outbox' \in Seq(Item) /\ Len(outbox') = lo
          /\ \A i \in 1 .. lo : outbox'[i] = IF i = 1 THEN owed ELSE outbox[i]
      BY <1>3, <1>7, <2>2, InsteadOfTheHead DEF lo
    <2>4. /\ queue' \in Seq(Item) /\ Len(queue') = lk + 1
          /\ \A i \in 1 .. lk : queue'[i] = kept[i]
          /\ queue'[lk + 1] = m
      BY <1>3, <1>4, <2>2, AppendProperties DEF lk
    <2>5. Laid(wire, queue', outbox', t)
      BY <1>2, <1>7, <2>3, <2>4, JoinedLaid
    <2>6. ~About(m, b)
      BY <1>3, <1>12, ItemKinds DEF About, IsFrame, Message, Full, Diff, Viewport, Removed, Control
    <2> DEFINE n == lo + 1
               e == [x \in 1 .. n |-> IF x <= 2 THEN lw + k ELSE lw + lq + x - 1]
    <2>7. lw \in Nat /\ lq \in Nat /\ lk \in Nat /\ lo \in Nat /\ n \in Nat /\ k \in 1 .. lq
      BY <1>3, <1>4, <1>6
    <2>8. /\ \A i \in 1 .. lw : t[i] = wire[i]
          /\ \A i \in 1 .. lk + 1 : t[lw + i] = queue'[i]
          /\ \A i \in 1 .. lo : t[lw + (lk + 1) + i] = outbox'[i]
          /\ \A i \in DOMAIN t : \/ i \in 1 .. lw
                                 \/ \E x \in 1 .. lk + 1 : i = lw + x
                                 \/ \E x \in 1 .. lo : i = lw + (lk + 1) + x
      BY <2>3, <2>4, <2>5 DEF Laid, lw
    <2>9. \A i \in DOMAIN t : \/ i \in 1 .. lw
                              \/ \E x \in 1 .. lk : i = lw + x
                              \/ \E x \in 1 .. n : i = lw + lk + x
      <3> SUFFICES ASSUME NEW i \in DOMAIN t
                   PROVE  \/ i \in 1 .. lw
                          \/ \E x \in 1 .. lk : i = lw + x
                          \/ \E x \in 1 .. n : i = lw + lk + x
        OBVIOUS
      <3>1. ASSUME NEW x \in 1 .. lk + 1, i = lw + x
            PROVE  \/ \E y \in 1 .. lk : i = lw + y
                   \/ \E y \in 1 .. n : i = lw + lk + y
        <4>1. x \in 1 .. lk \/ (1 \in 1 .. n /\ i = lw + lk + 1)
          BY <2>7, <3>1
        <4> QED
          BY <3>1, <4>1
      <3>2. ASSUME NEW x \in 1 .. lo, i = lw + (lk + 1) + x
            PROVE  \E y \in 1 .. n : i = lw + lk + y
        <4>1. x + 1 \in 1 .. n /\ i = lw + lk + (x + 1)
          BY <2>7, <3>2
        <4> QED
          BY <4>1
      <3> QED
        BY <2>8, <3>1, <3>2
    <2>10. \A i \in Places(t, b) \cap 1 .. lw : i \in Places(s, b) /\ t[i] = s[i]
      BY <1>3, <1>6, <2>8 DEF Places
    <2>11. \A x \in 1 .. lk : t[lw + x] = kept[x]
      BY <2>4, <2>7, <2>8
    <2>12. \A x \in 1 .. lk : lw + x \in Places(t, b) =>
             lw + f[x] \in Places(s, b) /\ t[lw + x] = s[lw + f[x]]
      BY <1>8, <2>11 DEF Places
    <2>13. ASSUME NEW x \in 1 .. n, lw + lk + x \in Places(t, b)
           PROVE  \/ /\ x = 2 /\ b = a /\ t[lw + lk + x] = owed /\ e[x] = lw + k
                  \/ /\ x > 2 /\ e[x] = lw + lq + (x - 1) /\ x - 1 \in 1 .. lo
                     /\ t[lw + lk + x] = s[e[x]]
      <3>1. x # 1
        <4>1. t[lw + (lk + 1)] = m
          BY <2>4, <2>7, <2>8
        <4>2. lw + lk + 1 = lw + (lk + 1)
          BY <2>7
        <4> QED
          BY <2>6, <2>13, <4>1, <4>2 DEF Places
      <3>2. lw + lk + x = lw + (lk + 1) + (x - 1) /\ x - 1 \in 1 .. lo
        BY <2>7, <3>1
      <3>3. t[lw + lk + x] = outbox'[x - 1]
        BY <2>8, <3>2
      <3>4. CASE x = 2
        <4>1. t[lw + lk + x] = owed
          BY <2>3, <3>2, <3>3, <3>4
        <4> QED
          BY <2>7, <2>13, <3>4, <4>1 DEF Places, About, owed
      <3>5. CASE x > 2
        <4>1. e[x] = lw + lq + (x - 1)
          BY <2>7, <3>5
        <4>2. t[lw + lk + x] = outbox[x - 1]
          BY <2>3, <3>2, <3>3, <3>5
        <4> QED
          BY <1>6, <3>2, <3>5, <4>1, <4>2
      <3> QED
        BY <2>7, <3>1, <3>4, <3>5
    <2>14. \A x \in 1 .. n : lw + lk + x \in Places(t, b) =>
             /\ e[x] \in Places(s, b) /\ e[x] > lw
             /\ t[lw + lk + x] = s[e[x]] \/ t[lw + lk + x].type = "owed"
      <3> SUFFICES ASSUME NEW x \in 1 .. n, lw + lk + x \in Places(t, b)
                   PROVE  /\ e[x] \in Places(s, b) /\ e[x] > lw
                          /\ t[lw + lk + x] = s[e[x]] \/ t[lw + lk + x].type = "owed"
        OBVIOUS
      <3>1. CASE x = 2 /\ b = a /\ t[lw + lk + x] = owed /\ e[x] = lw + k
        <4>1. s[e[x]] = queue[k] /\ e[x] \in DOMAIN s /\ e[x] > lw
          BY <1>3, <1>6, <2>7, <3>1
        <4>2. owed.type = "owed"
          BY DEF owed
        <4> QED
          BY <2>1, <3>1, <4>1, <4>2 DEF Places, About
      <3>2. CASE /\ x > 2 /\ e[x] = lw + lq + (x - 1) /\ x - 1 \in 1 .. lo
                 /\ t[lw + lk + x] = s[e[x]]
        <4>1. e[x] \in DOMAIN s /\ e[x] > lw
          BY <1>3, <1>6, <2>7, <3>2
        <4> QED
          BY <3>2, <4>1 DEF Places
      <3> HIDE DEF e
      <3> QED
        BY <2>13, <3>1, <3>2
    <2>15. e \in [1 .. n -> Nat]
      BY <2>7
    <2> HIDE DEF e
    <2>16. ASSUME NEW x \in 1 .. n, NEW y \in 1 .. n, x < y, lw + lk + x \in Places(t, b),
                  lw + lk + y \in Places(t, b)
           PROVE  e[x] < e[y]
      BY <2>7, <2>13, <2>16
    <2>17. ASSUME NEW x \in 1 .. lk, NEW y \in 1 .. n, lw + x \in Places(t, b),
                  lw + lk + y \in Places(t, b)
           PROVE  lw + f[x] < e[y]
      <3>1. b # a
        BY <1>8, <2>11, <2>17 DEF Places
      <3>2. f[x] \in 1 .. lq
        BY <1>8
      <3>3. e[y] = lw + lq + (y - 1) /\ y > 2
        BY <2>13, <2>17, <3>1
      <3> QED
        BY <2>7, <3>2, <3>3
    <2> HIDE DEF n
    <2>18. Thinned(t, s, b, lw, lq, lk, n, f, e)
      BY <1>8, <2>7, <2>9, <2>10, <2>12, <2>14, <2>15, <2>16, <2>17 DEF Thinned
    <2> QED
      BY <2>18, ThinnedOut DEF t, s
  <1> QED
    BY <1>10, <1>11, <1>12

\* Pictures on their way are numbered, and the client shows none that is not.
LEMMA NumbersAreKnown ==
  ASSUME ContentInv
  PROVE  /\ \A a \in Agent : Len(frames[a]) \in Nat
         /\ \A a \in Agent : cache[a].sequence \in Nat /\ cache[a].sequence <= Len(frames[a])
         /\ \A m \in Downlink : IsPicture(m) =>
              /\ m.agent \in Agent /\ m.sequence \in Nat \ {0}
              /\ m.sequence <= Len(frames[m.agent])
PROOF
  <1>1. \A a \in Agent : Len(frames[a]) \in Nat /\ DOMAIN frames[a] = 1 .. Len(frames[a])
    BY LenProperties DEF ContentInv, TypeOK
  <1>2. \A a \in Agent : cache[a].sequence \in Nat
    BY DEF ContentInv, TypeOK, Terminal
  <1>3. \A a \in Agent : cache[a].sequence <= Len(frames[a])
    BY <1>1, <1>2 DEF ContentInv, MirrorsAFrame
  <1>4. ASSUME NEW m \in Downlink, IsPicture(m)
        PROVE  m.agent \in Agent /\ m.sequence \in Nat \ {0} /\ m.sequence <= Len(frames[m.agent])
    <2>1. m \in Item
      BY PipeProperties DEF ContentInv
    <2>2. m.agent \in Agent
      BY <1>4, <2>1, ItemKinds DEF IsPicture, Full, Diff
    <2>3. m.sequence \in DOMAIN frames[m.agent]
      BY <1>4 DEF ContentInv, MessagesCarryFrames, Carries
    <2> QED
      BY <1>1, <2>2, <2>3
  <1> QED
    BY <1>1, <1>2, <1>3, <1>4

\* The complete frame that was owed takes the place of the promise.
LEMMA OwedPlace ==
  ASSUME TypeOK, SendOwed
  PROVE  \E a \in agents : \E p \in DOMAIN Pipe :
           /\ p = Len(wire) + Len(queue) + 1 /\ p \in Nat /\ Pipe[p] = [type |-> "owed", agent |-> a]
           /\ DOMAIN Pipe' = DOMAIN Pipe /\ Pipe'[p] = FullFrame(a, screen)
           /\ \A i \in DOMAIN Pipe : i # p => Pipe'[i] = Pipe[i]
           /\ UNCHANGED clientVars
PROOF
  <1>1. PICK a \in agents : /\ outbox # <<>> /\ Head(outbox) = [type |-> "owed", agent |-> a]
                            /\ outbox' = <<FullFrame(a, screen)>> \o Tail(outbox)
                            /\ UNCHANGED <<queue, wire, clientVars>>
    BY DEF SendOwed
  <1>2. FullFrame(a, screen) \in Item
    <2>1. a \in Agent /\ screen \in [Agent -> Screens]
      BY DEF TypeOK, Screens
    <2> QED
      BY <2>1, FullIsMessage, Messages
  <1>3. /\ outbox' \in Seq(Item) /\ Len(outbox') = Len(outbox) /\ Len(outbox) \in Nat \ {0}
        /\ \A i \in 1 .. Len(outbox) :
             outbox'[i] = IF i = 1 THEN FullFrame(a, screen) ELSE outbox[i]
        /\ outbox[1] = [type |-> "owed", agent |-> a]
    BY <1>1, <1>2, InsteadOfTheHead, OutboxProperties
  <1>4. wire \in Seq(Item) /\ queue \in Seq(Item) /\ Laid(wire, queue, outbox, Pipe)
    BY PipeProperties
  <1>5. Laid(wire, queue, outbox', Pipe')
    <2>1. Pipe' = Joined(wire, queue, outbox')
      BY <1>1 DEF Pipe, Joined
    <2> QED
      BY <1>3, <1>4, <2>1, JoinedLaid
  <1> DEFINE p == Len(wire) + Len(queue) + 1
  <1>6. /\ p \in DOMAIN Pipe /\ Pipe[p] = outbox[1] /\ DOMAIN Pipe' = DOMAIN Pipe
        /\ Pipe'[p] = outbox'[1] /\ p \in Nat
    BY <1>3, <1>4, <1>5 DEF Laid
  <1>7. ASSUME NEW i \in DOMAIN Pipe, i # p PROVE Pipe'[i] = Pipe[i]
    <2>1. CASE i \in 1 .. Len(wire)
      BY <1>4, <1>5, <2>1 DEF Laid
    <2>2. ASSUME NEW x \in 1 .. Len(queue), i = Len(wire) + x PROVE Pipe'[i] = Pipe[i]
      BY <1>4, <1>5, <2>2 DEF Laid
    <2>3. ASSUME NEW x \in 1 .. Len(outbox), i = Len(wire) + Len(queue) + x
          PROVE  Pipe'[i] = Pipe[i]
      <3>1. x # 1
        BY <1>7, <2>3
      <3>2. outbox'[x] = outbox[x]
        BY <1>3, <3>1
      <3> QED
        BY <1>3, <1>4, <1>5, <2>3, <3>2 DEF Laid
    <2> QED
      BY <1>4, <2>1, <2>2, <2>3 DEF Laid
  <1> HIDE DEF p
  <1> QED
    BY <1>1, <1>3, <1>6, <1>7 DEF p

LEMMA SendOwedOrder ==
  ASSUME OrderInv, SendOwed PROVE FramesInOrder'
PROOF
  <1>1. TypeOK /\ ContentInv
    BY DEF OrderInv, ContentInv
  <1>2. PICK a \in agents : \E p \in DOMAIN Pipe :
           /\ p = Len(wire) + Len(queue) + 1 /\ p \in Nat /\ Pipe[p] = [type |-> "owed", agent |-> a]
           /\ DOMAIN Pipe' = DOMAIN Pipe /\ Pipe'[p] = FullFrame(a, screen)
           /\ \A i \in DOMAIN Pipe : i # p => Pipe'[i] = Pipe[i]
           /\ UNCHANGED clientVars
    BY <1>1, OwedPlace
  <1>3. PICK p \in DOMAIN Pipe :
           /\ p = Len(wire) + Len(queue) + 1 /\ p \in Nat /\ Pipe[p] = [type |-> "owed", agent |-> a]
           /\ DOMAIN Pipe' = DOMAIN Pipe /\ Pipe'[p] = FullFrame(a, screen)
           /\ \A i \in DOMAIN Pipe : i # p => Pipe'[i] = Pipe[i]
           /\ UNCHANGED clientVars
    BY <1>2
  <1> DEFINE s == Pipe
             t == Pipe'
  <1>4. a \in Agent
    BY <1>1 DEF TypeOK
  <1>5. /\ t[p].type = "full" /\ t[p].agent = a /\ t[p].sequence = Len(frames[a]) + 1
        /\ s[p].type = "owed" /\ s[p].agent = a
    BY <1>3 DEF FullFrame, Sequence
  <1>6. ASSUME NEW b \in Agent PROVE Places(t, b) = Places(s, b)
    BY <1>3, <1>5 DEF Places, About, IsFrame
  <1>7. \A i \in DOMAIN s : IsPicture(s[i]) =>
          s[i].agent \in Agent /\ s[i].sequence \in Nat /\ s[i].sequence <= Len(frames[s[i].agent])
    BY <1>1, PipeProperties, NumbersAreKnown
  <1>8. Len(frames[a]) \in Nat /\ cache[a].sequence \in Nat /\ cache[a].sequence <= Len(frames[a])
    BY <1>1, <1>4, NumbersAreKnown
  <1>9. \A b \in Agent : \A i \in Places(s, b) : i \in DOMAIN s /\ s[i].agent = b /\ i \in Nat
    BY <1>1, PipeProperties DEF Places, About, Laid
  <1>10. ASSUME NEW j \in Places(s, a), NEW i \in Places(s, a), p < i, i < j PROVE FALSE
    <2>1. /\ i \in DOMAIN Pipe /\ j \in DOMAIN Pipe
          /\ Pipe[i] = outbox[i - Len(wire) - Len(queue)] /\ Pipe[j] = outbox[j - Len(wire) - Len(queue)]
          /\ i - Len(wire) - Len(queue) \in DOMAIN outbox /\ j - Len(wire) - Len(queue) \in DOMAIN outbox
          /\ 1 < i - Len(wire) - Len(queue)
          /\ i - Len(wire) - Len(queue) < j - Len(wire) - Len(queue)
      <3>1. Len(wire) \in Nat /\ Len(queue) \in Nat /\ Len(outbox) \in Nat
            /\ DOMAIN outbox = 1 .. Len(outbox)
            /\ DOMAIN Pipe = 1 .. Len(wire) + Len(queue) + Len(outbox)
        BY <1>1, PipeProperties DEF Laid
      <3>2. /\ i \in 1 .. Len(wire) + Len(queue) + Len(outbox)
            /\ j \in 1 .. Len(wire) + Len(queue) + Len(outbox)
            /\ Len(wire) + Len(queue) + 1 < i /\ i < j
        BY <1>3, <1>4, <1>9, <1>10, <3>1
      <3>3. \A x \in 1 .. Len(wire) + Len(queue) + Len(outbox) : Len(wire) + Len(queue) < x =>
              /\ Pipe[x] = outbox[x - Len(wire) - Len(queue)]
              /\ x - Len(wire) - Len(queue) \in 1 .. Len(outbox)
        BY <3>1 DEF Pipe, Joined
      <3> QED
        BY <3>1, <3>2, <3>3
    <2>2. About(Pipe[i], a) /\ About(Pipe[j], a)
      BY <1>10 DEF Places
    <2> QED
      BY <1>4, <2>1, <2>2 DEF OrderInv, OnePerAgent
  <1> HIDE DEF s, t
  <1>11. ASSUME NEW b \in Agent PROVE InOrder(t, b, cache[b].sequence)
    <2>1. InOrder(s, b, cache[b].sequence)
      BY DEF OrderInv, FramesInOrder, s
    <2>2. \A i \in Places(t, b) : i # p => t[i] = s[i]
      BY <1>3, <1>6, <1>9 DEF s, t
    <2>3. p \in Places(t, b) => b = a
      BY <1>5 DEF Places, About
    <2>4. ASSUME NEW i \in Places(t, b), NEW j \in Places(t, b), i < j, t[i].type = "diff",
                 IsPicture(t[j])
          PROVE  t[i].sequence < t[j].sequence
      <3>1. i # p /\ t[i] = s[i] /\ i \in Places(s, b)
        BY <1>5, <1>6, <2>2, <2>4
      <3>2. CASE j = p
        <4>1. IsPicture(s[i]) /\ s[i].agent = a
          BY <1>9, <2>3, <2>4, <3>1, <3>2 DEF IsPicture
        <4> QED
          BY <1>5, <1>7, <1>8, <1>9, <3>1, <3>2, <4>1
      <3>3. CASE j # p
        BY <1>6, <2>1, <2>2, <2>4, <3>1, <3>3 DEF InOrder
      <3> QED
        BY <3>2, <3>3
    <2>5. ASSUME NEW i \in Places(t, b), NEW k \in Places(t, b), NEW j \in Places(t, b),
                 i < k, k < j, IsPicture(t[i]), IsPicture(t[j])
          PROVE  t[i].sequence < t[j].sequence
      <3>1. i # p
        BY <1>6, <1>10, <2>3, <2>5
      <3>2. t[i] = s[i] /\ i \in Places(s, b) /\ k \in Places(s, b) /\ j \in Places(s, b)
        BY <1>6, <2>2, <3>1
      <3>3. CASE j = p
        <4>1. IsPicture(s[i]) /\ s[i].agent = a
          BY <1>9, <2>3, <2>5, <3>2, <3>3
        <4> QED
          BY <1>5, <1>7, <1>8, <1>9, <3>2, <3>3, <4>1
      <3>4. CASE j # p
        BY <2>1, <2>2, <2>5, <3>2, <3>4 DEF InOrder
      <3> QED
        BY <3>3, <3>4
    <2>6. ASSUME NEW k \in Places(t, b), NEW j \in Places(t, b), k < j, IsPicture(t[j])
          PROVE  cache[b].sequence < t[j].sequence
      <3>1. CASE j = p
        BY <1>5, <1>8, <2>3, <3>1
      <3>2. CASE j # p
        BY <1>6, <2>1, <2>2, <2>6, <3>2 DEF InOrder
      <3> QED
        BY <3>1, <3>2
    <2> QED
      BY <2>4, <2>5, <2>6 DEF InOrder
  <1> QED
    BY <1>3, <1>11 DEF FramesInOrder, clientVars, t

\* What a handler sends is newer than everything before it.
LEMMA ServeOrder ==
  ASSUME OrderInv, Serve PROVE FramesInOrder'
PROOF
  <1>1. TypeOK /\ ContentInv /\ Silent
    BY DEF OrderInv, ContentInv
  <1>2. /\ outbox = <<>> /\ Batch(outbox') /\ UNCHANGED <<queue, wire, clientVars>>
    BY <1>1, ServeType DEF Handled
  <1> DEFINE s == Pipe
             t == Pipe'
             c == Len(wire) + Len(queue)
  <1>3. wire \in Seq(Item) /\ queue \in Seq(Item) /\ outbox' \in Seq(Item)
    <2>1. outbox' \in Seq(Message)
      BY <1>2 DEF Batch
    <2> QED
      BY <1>1, <2>1, PipeProperties, Messages
  <1>4. /\ s = Joined(wire, queue, <<>>) /\ t = Joined(wire, queue, outbox')
    BY <1>2 DEF Pipe, Joined
  <1>5. /\ DOMAIN s \subseteq DOMAIN t /\ \A i \in DOMAIN s : t[i] = s[i]
        /\ c \in Nat
        /\ \A i \in DOMAIN s : i \in Nat /\ i <= c
        /\ \A i \in DOMAIN t \ DOMAIN s :
             \E x \in DOMAIN outbox' : i = c + x /\ t[i] = outbox'[x] /\ x \in Nat \ {0}
    BY <1>3, <1>4, JoinedLast
  <1>6. \A i \in DOMAIN s : IsPicture(s[i]) =>
          s[i].agent \in Agent /\ s[i].sequence \in Nat /\ s[i].sequence <= Len(frames[s[i].agent])
    BY <1>1, PipeProperties, NumbersAreKnown
  <1>7. \A a \in Agent : Len(frames[a]) \in Nat /\ cache[a].sequence \in Nat
                      /\ cache[a].sequence <= Len(frames[a])
    BY <1>1, NumbersAreKnown
  <1> HIDE DEF s, t, c
  <1>8. ASSUME NEW b \in Agent PROVE InOrder(t, b, cache[b].sequence)
    <2>1. InOrder(s, b, cache[b].sequence)
      BY DEF OrderInv, FramesInOrder, s
    <2>2. \A i \in Places(t, b) : i \in DOMAIN s => i \in Places(s, b) /\ t[i] = s[i]
      BY <1>5 DEF Places
    <2>3. ASSUME NEW i \in Places(t, b), NEW j \in Places(t, b), i \notin DOMAIN s, i < j
          PROVE  FALSE
      <3>1. PICK x \in DOMAIN outbox' : i = c + x /\ t[i] = outbox'[x] /\ x \in Nat \ {0}
        BY <1>5, <2>3 DEF Places
      <3>2. j \notin DOMAIN s
        BY <1>5, <2>3, <3>1
      <3>3. PICK y \in DOMAIN outbox' : j = c + y /\ t[j] = outbox'[y] /\ y \in Nat \ {0}
        BY <1>5, <3>2 DEF Places
      <3>4. About(outbox'[x], b) /\ About(outbox'[y], b)
        BY <3>1, <3>3 DEF Places
      <3>5. x = y
        BY <1>2, <3>4 DEF Batch
      <3> QED
        BY <1>5, <2>3, <3>1, <3>3, <3>5
    <2>4. ASSUME NEW j \in Places(t, b), j \notin DOMAIN s, IsPicture(t[j])
          PROVE  t[j].sequence = Len(frames[b]) + 1
      <3>1. PICK y \in DOMAIN outbox' : j = c + y /\ t[j] = outbox'[y] /\ y \in Nat \ {0}
        BY <1>5, <2>4 DEF Places
      <3>2. t[j].agent = b
        BY DEF Places, About
      <3> QED
        BY <1>2, <2>4, <3>1, <3>2 DEF Batch, Published
    <2>5. ASSUME NEW i \in Places(t, b), i \in DOMAIN s, IsPicture(t[i])
          PROVE  t[i].sequence \in Nat /\ t[i].sequence <= Len(frames[b])
      <3>1. t[i] = s[i] /\ s[i].agent = b
        BY <2>2, <2>5 DEF Places, About
      <3> QED
        BY <1>6, <2>5, <3>1
    <2>6. ASSUME NEW i \in Places(t, b), NEW j \in Places(t, b), i < j, t[i].type = "diff",
                 IsPicture(t[j])
          PROVE  t[i].sequence < t[j].sequence
      <3>1. i \in DOMAIN s /\ IsPicture(t[i])
        BY <2>3, <2>6 DEF IsPicture
      <3>2. CASE j \notin DOMAIN s
        BY <1>7, <2>4, <2>5, <2>6, <3>1, <3>2
      <3>3. CASE j \in DOMAIN s
        BY <2>1, <2>2, <2>6, <3>1, <3>3 DEF InOrder
      <3> QED
        BY <3>2, <3>3
    <2>7. ASSUME NEW i \in Places(t, b), NEW k \in Places(t, b), NEW j \in Places(t, b),
                 i < k, k < j, IsPicture(t[i]), IsPicture(t[j])
          PROVE  t[i].sequence < t[j].sequence
      <3>1. i \in DOMAIN s /\ k \in DOMAIN s
        BY <2>3, <2>7
      <3>2. CASE j \notin DOMAIN s
        BY <1>7, <2>4, <2>5, <2>7, <3>1, <3>2
      <3>3. CASE j \in DOMAIN s
        BY <2>1, <2>2, <2>7, <3>1, <3>3 DEF InOrder
      <3> QED
        BY <3>2, <3>3
    <2>8. ASSUME NEW k \in Places(t, b), NEW j \in Places(t, b), k < j, IsPicture(t[j])
          PROVE  cache[b].sequence < t[j].sequence
      <3>1. k \in DOMAIN s
        BY <2>3, <2>8
      <3>2. CASE j \notin DOMAIN s
        BY <1>7, <2>4, <2>8, <3>2
      <3>3. CASE j \in DOMAIN s
        BY <2>1, <2>2, <2>8, <3>1, <3>3 DEF InOrder
      <3> QED
        BY <3>2, <3>3
    <2> QED
      BY <2>6, <2>7, <2>8 DEF InOrder
  <1> QED
    BY <1>2, <1>8 DEF FramesInOrder, clientVars, t

\* What the client shows changes with the picture it receives only, or is forgotten.
LEMMA Forward ==
  ASSUME TypeOK, Receive, NEW b \in Agent
  PROVE  \/ cache'[b].sequence = cache[b].sequence
         \/ ReceiveRemoved /\ Head(wire).agent = b /\ cache'[b].sequence = 0
         \/ /\ Picture(Head(wire), b) /\ cache'[b].sequence = Head(wire).sequence
            /\ Head(wire).sequence > cache[b].sequence
            /\ ReceiveFull \/ ReceiveNextDiff
PROOF
  <1> DEFINE m == Head(wire)
  <1>1. cache \in [Agent -> Terminal] /\ wire # <<>> /\ m \in Item
    BY ReceiveType, WireProperties DEF TypeOK, Received
  <1>2. CASE UNCHANGED cache
    BY <1>2
  <1>3. CASE ReceiveFull
    <2>1. m.type = "full" /\ m \in Full
      BY <1>1, <1>3, ItemKinds DEF ReceiveFull, Receiving
    <2>2. CASE Newer(m)
      <3>1. cache' = [cache EXCEPT ![m.agent] = Renewed(m)]
        BY <1>3, <2>2 DEF ReceiveFull
      <3>2. Renewed(m).sequence = m.sequence
        BY DEF Renewed, NoTerminal
      <3>3. CASE b = m.agent
        BY <1>1, <1>3, <2>1, <2>2, <3>1, <3>2, <3>3 DEF Newer, Picture, IsPicture
      <3>4. CASE b # m.agent
        BY <1>1, <3>1, <3>4
      <3> QED
        BY <3>3, <3>4
    <2>3. CASE ~Newer(m)
      BY <1>2, <1>3, <2>3 DEF ReceiveFull
    <2> QED
      BY <2>2, <2>3
  <1>4. CASE ReceiveNextDiff
    <2>1. m.type = "diff" /\ m \in Diff
      BY <1>1, <1>4, ItemKinds DEF ReceiveNextDiff, Receiving
    <2>2. cache' = [cache EXCEPT ![m.agent] = Advanced(m)] /\ Newer(m)
      BY <1>4 DEF ReceiveNextDiff, Duplicate, Gap
    <2>3. CASE b = m.agent
      <3>1. Advanced(m).sequence = m.sequence
        BY <1>1, <2>3 DEF Advanced, Terminal
      <3> QED
        BY <1>1, <1>4, <2>1, <2>2, <2>3, <3>1 DEF Newer, Picture, IsPicture
    <2>4. CASE b # m.agent
      BY <1>1, <2>2, <2>4
    <2> QED
      BY <2>3, <2>4
  <1>5. CASE ReceiveViewport
    <2>1. UNCHANGED cache[b].sequence
      <3>1. PICK x, y, z :
              cache' = [cache EXCEPT ![m.agent] =
                          [cache[m.agent] EXCEPT !.request = x, !.view = y, !.target = z]]
        BY <1>1, <1>5 DEF ReceiveViewport, Terminal
      <3>2. m.agent \in Agent
        BY <1>1, <1>5, ItemKinds DEF ReceiveViewport, Receiving, Viewport
      <3> QED
        BY <1>1, <3>1, <3>2 DEF Terminal
    <2> QED
      BY <2>1
  <1>6. CASE ReceiveRemoved
    <2>1. cache' = [cache EXCEPT ![m.agent] = NoTerminal]
      BY <1>6 DEF ReceiveRemoved
    <2>2. CASE b = m.agent
      BY <1>1, <1>6, <2>1, <2>2 DEF NoTerminal
    <2>3. CASE b # m.agent
      BY <1>1, <2>1, <2>3
    <2> QED
      BY <2>2, <2>3
  <1>7. CASE ReceiveDuplicateDiff \/ ReceiveDiffWithGap \/ ReceiveControl \/ ReceiveWhileWaiting
    BY <1>2, <1>7 DEF ReceiveDuplicateDiff, ReceiveDiffWithGap, ReceiveControl, ReceiveWhileWaiting
  <1> QED
    BY <1>3, <1>4, <1>5, <1>6, <1>7 DEF Receive

\* The oldest envelope leaves the pipe.
LEMMA ReceivedPipe ==
  ASSUME TypeOK, Received
  PROVE  /\ 1 \in DOMAIN Pipe /\ Pipe[1] = Head(wire)
         /\ \A i \in DOMAIN Pipe' : i \in Nat /\ i > 0 /\ i + 1 \in DOMAIN Pipe /\ Pipe'[i] = Pipe[i + 1]
         /\ \A i \in DOMAIN Pipe : i # 1 => i - 1 \in DOMAIN Pipe' /\ Pipe'[i - 1] = Pipe[i]
PROOF
  <1>1. wire \in Seq(Item) /\ queue \in Seq(Item) /\ outbox \in Seq(Item)
    BY PipeProperties
  <1>2. Pipe' = Joined(Tail(wire), queue, outbox) /\ wire # <<>>
    BY DEF Received, Pipe, Joined
  <1> QED
    BY <1>1, <1>2, MovedUp DEF Pipe

LEMMA ReceiveOrder ==
  ASSUME OrderInv, Receive PROVE FramesInOrder'
PROOF
  <1>1. TypeOK /\ ContentInv /\ Received
    BY ReceiveType DEF OrderInv, ContentInv
  <1> DEFINE s == Pipe
             t == Pipe'
  <1>2. /\ 1 \in DOMAIN s /\ s[1] = Head(wire)
        /\ \A i \in DOMAIN t : i \in Nat /\ i > 0 /\ i + 1 \in DOMAIN s /\ t[i] = s[i + 1]
    BY <1>1, ReceivedPipe
  <1>3. \A a \in Agent : cache[a].sequence \in Nat
    BY <1>1, NumbersAreKnown
  <1>4. \A i \in DOMAIN s : IsPicture(s[i]) => s[i].sequence \in Nat
    BY <1>1, PipeProperties, NumbersAreKnown
  <1> SUFFICES ASSUME NEW b \in Agent PROVE InOrder(t, b, cache'[b].sequence)
    BY DEF FramesInOrder
  <1>5. InOrder(s, b, cache[b].sequence)
    BY DEF OrderInv, FramesInOrder
  <1>6. cache'[b].sequence \in {cache[b].sequence, 0}
        \/ (Picture(Head(wire), b) /\ cache'[b].sequence = Head(wire).sequence)
    BY <1>1, Forward
  <1> HIDE DEF s, t
  <1>7. \A i \in Places(t, b) : i \in Nat /\ i > 0 /\ i + 1 \in Places(s, b) /\ t[i] = s[i + 1]
    BY <1>2 DEF Places
  <1>8. \A i \in Places(s, b) : i \in DOMAIN s
    BY DEF Places
  <1>9. ASSUME NEW i \in Places(t, b), NEW j \in Places(t, b), i < j, t[i].type = "diff",
               IsPicture(t[j])
        PROVE  t[i].sequence < t[j].sequence
    BY <1>5, <1>7, <1>9 DEF InOrder
  <1>10. ASSUME NEW i \in Places(t, b), NEW k \in Places(t, b), NEW j \in Places(t, b),
                i < k, k < j, IsPicture(t[i]), IsPicture(t[j])
         PROVE  t[i].sequence < t[j].sequence
    BY <1>5, <1>7, <1>10 DEF InOrder
  <1>11. ASSUME NEW k \in Places(t, b), NEW j \in Places(t, b), k < j, IsPicture(t[j])
         PROVE  cache'[b].sequence < t[j].sequence
    <2>1. /\ k + 1 \in Places(s, b) /\ j + 1 \in Places(s, b) /\ k + 1 < j + 1
          /\ t[j] = s[j + 1] /\ 1 < k + 1
      BY <1>7, <1>11
    <2>2. cache[b].sequence < t[j].sequence /\ t[j].sequence \in Nat
      BY <1>4, <1>5, <1>8, <1>11, <2>1 DEF InOrder
    <2>3. CASE cache'[b].sequence \in {cache[b].sequence, 0}
      BY <1>3, <2>2, <2>3
    <2>4. CASE Picture(Head(wire), b) /\ cache'[b].sequence = Head(wire).sequence
      <3>1. 1 \in Places(s, b) /\ IsPicture(s[1])
        BY <1>2, <2>4 DEF Places, Picture, About, IsPicture, IsFrame
      <3>2. s[1].sequence < s[j + 1].sequence
        BY <1>5, <1>11, <2>1, <3>1 DEF InOrder
      <3> QED
        BY <1>2, <2>1, <2>4, <3>2
    <2> QED
      BY <1>6, <2>3, <2>4
  <1> QED
    BY <1>9, <1>10, <1>11 DEF InOrder

\* A step keeps one frame of an agent among what a handler has still to send.
LEMMA StepOnePerAgent ==
  ASSUME TypeOK, Silent, OnePerAgent, [Next]_vars PROVE OnePerAgent'
PROOF
  <1>1. CASE UNCHANGED outbox \/ outbox' = <<>>
    BY <1>1 DEF OnePerAgent
  <1>2. CASE Serve
    <2>1. Batch(outbox') /\ DOMAIN outbox' \subseteq Nat
      <3>1. Batch(outbox')
        BY <1>2, ServeType DEF Handled
      <3> QED
        BY <3>1, LenProperties DEF Batch
    <2> QED
      BY <2>1 DEF Batch, OnePerAgent
  <1>3. ASSUME outbox # <<>>, outbox' = Tail(outbox) PROVE OnePerAgent'
    BY <1>3, OutboxProperties DEF OnePerAgent
  <1>4. ASSUME outbox # <<>>, NEW m \in Item, outbox' = <<m>> \o Tail(outbox) PROVE OnePerAgent'
    <2>1. /\ DOMAIN outbox' = DOMAIN outbox /\ DOMAIN outbox \subseteq Nat
          /\ \A i \in DOMAIN outbox : 1 < i => outbox'[i] = outbox[i]
      BY <1>4, InsteadOfTheHead, OutboxProperties
    <2> QED
      BY <2>1 DEF OnePerAgent
  <1>5. CASE PushQueued
    BY <1>3, <1>5 DEF PushQueued, Sending
  <1>6. CASE PushUnderPressure
    <2>1. PICK m, a, kept : Pressed(m, a, kept)
      BY <1>6, Pressure
    <2>2. [type |-> "owed", agent |-> a] \in Item /\ outbox # <<>>
      BY <2>1 DEF Pressed, Item, Owed
    <2> QED
      BY <1>3, <1>4, <2>1, <2>2 DEF Pressed
  <1>7. CASE SendOwed
    <2>1. PICK a \in agents : outbox # <<>> /\ outbox' = <<FullFrame(a, screen)>> \o Tail(outbox)
      BY <1>7 DEF SendOwed
    <2>2. FullFrame(a, screen) \in Item
      <3>1. a \in Agent /\ screen \in [Agent -> Screens]
        BY DEF TypeOK, Screens
      <3> QED
        BY <3>1, FullIsMessage, Messages
    <2> QED
      BY <1>4, <2>1, <2>2
  <1>8. CASE Write \/ SpawnTimesOut
    BY <1>1, <1>8 DEF Write, SpawnTimesOut, linkVars
  <1>9. CASE Receive
    BY <1>1, <1>9, ReceiveType DEF Received
  <1>10. CASE User
    BY <1>1, <1>10, UserType DEF Operated
  <1>11. CASE Lose
    BY <1>1, <1>11, LoseProperties DEF LoseConnection
  <1>12. ASSUME NEW a \in Agent, Output(a) PROVE UNCHANGED outbox
    BY <1>12 DEF Output, linkVars
  <1>13. CASE UNCHANGED vars
    BY <1>1, <1>13 DEF vars, linkVars
  <1> QED
    BY <1>1, <1>2, <1>5, <1>6, <1>7, <1>8, <1>9, <1>10, <1>11, <1>12, <1>13, StepKinds

\* Every step keeps the frames in order.
LEMMA StepOrder ==
  ASSUME OrderInv, [Next]_vars PROVE OrderInv'
PROOF
  <1>1. TypeOK /\ ContentInv /\ Silent /\ OnePerAgent /\ FramesInOrder
    BY DEF OrderInv, ContentInv
  <1>2. ContentInv' /\ OnePerAgent'
    BY <1>1, StepContent, StepOnePerAgent
  <1>3. ASSUME \A b \in Agent : Within(Pipe', Pipe, b),
               \A b \in Agent : cache'[b].sequence = cache[b].sequence
        PROVE  FramesInOrder'
    <2> SUFFICES ASSUME NEW b \in Agent PROVE InOrder(Pipe', b, cache'[b].sequence)
      BY DEF FramesInOrder
    <2>1. InOrder(Pipe, b, cache[b].sequence) /\ Within(Pipe', Pipe, b)
      BY <1>1, <1>3 DEF FramesInOrder
    <2>2. InOrder(Pipe', b, cache[b].sequence)
      BY <2>1, WithinOrder
    <2> QED
      BY <1>3, <2>2
  <1>4. ASSUME PushQueued \/ Write \/ UNCHANGED <<wire, queue, outbox>>,
               \A b \in Agent : cache'[b].sequence = cache[b].sequence
        PROVE  FramesInOrder'
    <2>1. DOMAIN Pipe' = DOMAIN Pipe /\ \A i \in DOMAIN Pipe : Pipe'[i] = Pipe[i]
      BY <1>1, <1>4, PassingOn
    <2>2. \A b \in Agent : Within(Pipe', Pipe, b)
      BY <2>1, SameIsWithin
    <2> QED
      BY <1>3, <1>4, <2>2
  <1>5. ASSUME PushQueued \/ Write PROVE FramesInOrder'
    BY <1>4, <1>5 DEF PushQueued, Write, clientVars
  <1>6. ASSUME PushUnderPressure PROVE FramesInOrder'
    <2>1. UNCHANGED cache
      BY <1>6 DEF PushUnderPressure, clientVars
    <2> QED
      BY <1>1, <1>3, <1>6, <2>1, PressureWithin
  <1>7. ASSUME SendOwed PROVE FramesInOrder'
    BY <1>7, SendOwedOrder
  <1>8. ASSUME Serve PROVE FramesInOrder'
    BY <1>8, ServeOrder
  <1>9. ASSUME Receive PROVE FramesInOrder'
    BY <1>9, ReceiveOrder
  <1>10. ASSUME Lose PROVE FramesInOrder'
    <2>1. outbox' = <<>> /\ queue' = <<>> /\ wire' = <<>>
      BY <1>10, LoseProperties DEF LoseConnection
    <2>2. Pipe' = Joined(<<>>, <<>>, <<>>)
      BY <2>1 DEF Pipe, Joined
    <2>3. Laid(<<>>, <<>>, <<>>, Pipe')
      BY <2>2, JoinedLaid, EmptySeq
    <2>4. DOMAIN Pipe' = {}
      BY <2>3, EmptySeq DEF Laid
    <2> QED
      BY <2>4 DEF FramesInOrder, InOrder, Places
  <1>11. ASSUME User PROVE FramesInOrder'
    <2>1. UNCHANGED <<wire, queue, outbox>>
      BY <1>1, <1>11, UserType DEF Operated
    <2>2. \A b \in Agent : Shown'[b].sequence = Shown[b].sequence
      BY <1>1, <1>11, UsersShowNothing
    <2>3. \A b \in Agent : cache'[b].sequence = cache[b].sequence
      BY <2>2 DEF Shown
    <2> QED
      BY <1>4, <2>1, <2>3
  <1>12. ASSUME SpawnTimesOut PROVE FramesInOrder'
    BY <1>4, <1>12 DEF SpawnTimesOut, linkVars
  <1>13. ASSUME NEW a \in Agent, Output(a) PROVE UNCHANGED <<wire, queue, outbox, cache>>
    BY <1>13 DEF Output, linkVars, clientVars
  <1>14. ASSUME UNCHANGED <<wire, queue, outbox, cache>> PROVE FramesInOrder'
    BY <1>4, <1>14
  <1>15. ASSUME UNCHANGED vars PROVE FramesInOrder'
    BY <1>14, <1>15 DEF vars, linkVars, clientVars
  <1>16. FramesInOrder'
    BY <1>5, <1>6, <1>7, <1>8, <1>9, <1>10, <1>11, <1>12, <1>13, <1>14, <1>15, StepKinds
  <1> QED
    BY <1>2, <1>16 DEF OrderInv

LEMMA InitOrder == Init => OrderInv
PROOF
  <1> SUFFICES ASSUME Init PROVE OrderInv
    OBVIOUS
  <1>1. ContentInv /\ TypeOK
    BY InitContent DEF ContentInv
  <1>2. outbox = <<>> /\ queue = <<>> /\ wire = <<>>
    BY DEF Init
  <1>3. OnePerAgent
    BY <1>2 DEF OnePerAgent
  <1>4. Laid(<<>>, <<>>, <<>>, Pipe)
    BY <1>2, JoinedLaid, EmptySeq DEF Pipe
  <1>5. DOMAIN Pipe = {}
    BY <1>4, EmptySeq DEF Laid
  <1>6. FramesInOrder
    BY <1>5 DEF FramesInOrder, InOrder, Places
  <1> QED
    BY <1>1, <1>3, <1>6 DEF OrderInv

LEMMA FramesOrder == Spec => []OrderInv
PROOF
  <1>1. OrderInv /\ [Next]_vars => OrderInv'
    BY StepOrder
  <1> QED
    BY <1>1, InitOrder, PTL DEF Spec

-----------------------------------------------------------------------------
\* What is on its way arrives, or leaves a repair behind

\* A frame that the client will accept is on its way to it, is owed or is asked for.
NewFullComing(a) ==
  \/ \E m \in Downlink : m.type = "full" /\ m.agent = a /\ m.sequence > cache[a].sequence
  \/ \E m \in Downlink : m.type = "owed" /\ m.agent = a
  \/ \E r \in Requests : r.type = "resync" /\ r.agent = a

\* Envelopes that move on are still on their way.
LEMMA PassedOn ==
  ASSUME TypeOK, PushQueued \/ Write PROVE Downlink \subseteq Downlink'
PROOF
  <1>1. CASE PushQueued
    <2>1. queue \in Seq(Message) /\ outbox # <<>> /\ Head(outbox) \in Message
      BY <1>1, OutboxProperties DEF PushQueued, Sending, TypeOK
    <2>2. /\ Len(queue) \in Nat /\ DOMAIN queue = 1 .. Len(queue)
          /\ queue' \in Seq(Message) /\ Len(queue') = Len(queue) + 1
          /\ \A k \in 1 .. Len(queue) : queue'[k] = queue[k]
          /\ queue'[Len(queue) + 1] = Head(outbox)
      BY <1>1, <2>1, AppendProperties, LenProperties DEF PushQueued
    <2>3. DOMAIN queue' = 1 .. Len(queue) + 1
      BY <2>2, LenProperties
    <2>4. \A k \in DOMAIN outbox : outbox[k] = Head(outbox) \/ \E i \in DOMAIN outbox' : outbox'[i] = outbox[k]
      <3> SUFFICES ASSUME NEW k \in DOMAIN outbox
                   PROVE  outbox[k] = Head(outbox) \/ \E i \in DOMAIN outbox' : outbox'[i] = outbox[k]
        OBVIOUS
      <3>1. k = 1 \/ (k - 1 \in 1 .. Len(outbox) - 1 /\ (k - 1) + 1 = k)
        BY <2>1, OutboxProperties
      <3>2. outbox' = Tail(outbox)
        BY <1>1 DEF PushQueued
      <3> QED
        BY <2>1, <3>1, <3>2, OutboxProperties
    <2>5. wire' = wire
      BY <1>1 DEF PushQueued
    <2>6. \A k \in DOMAIN queue : \E i \in DOMAIN queue' : queue'[i] = queue[k]
      BY <2>2, <2>3
    <2>7. \E i \in DOMAIN queue' : queue'[i] = Head(outbox)
      BY <2>2, <2>3
    <2> QED
      BY <2>4, <2>5, <2>6, <2>7 DEF Downlink
  <1>2. CASE Write
    <2>1. queue \in Seq(Message) /\ queue # <<>> /\ wire \in Seq(Message)
      BY <1>2 DEF Write, TypeOK
    <2>2. /\ Head(queue) \in Message /\ Head(queue) = queue[1] /\ Len(queue) \in Nat \ {0}
          /\ Tail(queue) \in Seq(Message) /\ Len(Tail(queue)) = Len(queue) - 1
          /\ \A i \in 1 .. Len(queue) - 1 : Tail(queue)[i] = queue[i + 1]
          /\ DOMAIN queue = 1 .. Len(queue)
      BY <2>1, HeadAndTail, LenProperties
    <2>3. DOMAIN Tail(queue) = 1 .. Len(queue) - 1
      BY <2>2, LenProperties
    <2>4. /\ Len(wire) \in Nat /\ DOMAIN wire = 1 .. Len(wire)
          /\ wire' \in Seq(Message) /\ Len(wire') = Len(wire) + 1
          /\ \A k \in 1 .. Len(wire) : wire'[k] = wire[k]
          /\ wire'[Len(wire) + 1] = Head(queue)
      BY <1>2, <2>1, <2>2, AppendProperties, LenProperties DEF Write
    <2>5. DOMAIN wire' = 1 .. Len(wire) + 1
      BY <2>4, LenProperties
    <2>6. \A k \in DOMAIN queue : queue[k] = Head(queue) \/ \E i \in DOMAIN queue' : queue'[i] = queue[k]
      <3> SUFFICES ASSUME NEW k \in DOMAIN queue
                   PROVE  queue[k] = Head(queue) \/ \E i \in DOMAIN queue' : queue'[i] = queue[k]
        OBVIOUS
      <3>1. k = 1 \/ (k - 1 \in 1 .. Len(queue) - 1 /\ (k - 1) + 1 = k)
        BY <2>2
      <3>2. queue' = Tail(queue)
        BY <1>2 DEF Write
      <3> QED
        BY <2>2, <2>3, <3>1, <3>2
    <2>7. outbox' = outbox
      BY <1>2 DEF Write
    <2>8. \A k \in DOMAIN wire : \E i \in DOMAIN wire' : wire'[i] = wire[k]
      BY <2>4, <2>5
    <2>9. \E i \in DOMAIN wire' : wire'[i] = Head(queue)
      BY <2>4, <2>5
    <2> QED
      BY <2>6, <2>7, <2>8, <2>9 DEF Downlink
  <1> QED
    BY <1>1, <1>2

\* The client takes the oldest envelope only.
LEMMA TakenOff ==
  ASSUME TypeOK, Received, NEW m \in Downlink PROVE m = Head(wire) \/ m \in Downlink'
PROOF
  <1>1. CASE m \in {wire[i] : i \in DOMAIN wire}
    <2>1. PICK k \in DOMAIN wire : m = wire[k]
      BY <1>1
    <2>2. k = 1 \/ (k - 1 \in DOMAIN wire' /\ wire'[k - 1] = wire[k])
      <3>1. k = 1 \/ (k - 1 \in 1 .. Len(wire) - 1 /\ (k - 1) + 1 = k)
        BY WireProperties DEF Received
      <3> QED
        BY <3>1, WireProperties DEF Received
    <2> QED
      BY <2>1, <2>2, WireProperties DEF Received, Downlink
  <1>2. CASE m \notin {wire[i] : i \in DOMAIN wire}
    BY <1>2 DEF Received, Downlink
  <1> QED
    BY <1>1, <1>2

\* A queue that makes room gives up frames of one agent, and a diff of it.
LEMMA GivenUp ==
  ASSUME TypeOK, PushUnderPressure, NEW h, NEW a, NEW kept, Pressed(h, a, kept)
  PROVE  /\ \A m \in Downlink :
              \/ m \in Downlink'
              \/ IsFrame(m) /\ m.agent = a /\ \E k \in DOMAIN queue : queue[k] = m
              \/ m = h /\ h.type = "diff" /\ h.agent = a
         /\ h.type # "diff" => h \in Downlink'
         /\ Owes(h) => [type |-> "owed", agent |-> a] \in Downlink'
PROOF
  <1>1. /\ h = Head(outbox) /\ h \in Message /\ outbox # <<>> /\ a \in Agent /\ a \in Victim(h)
        /\ queue' = IF h.type = "diff" THEN kept ELSE Append(kept, h)
        /\ outbox' = IF Owes(h) THEN <<[type |-> "owed", agent |-> a]>> \o Tail(outbox)
                                ELSE Tail(outbox)
    BY DEF Pressed
  <1>2. /\ kept \in Seq(Message) /\ Len(kept) \in Nat /\ DOMAIN kept = 1 .. Len(kept)
        /\ \A k \in DOMAIN queue :
             ~(IsFrame(queue[k]) /\ queue[k].agent = a) => \E i \in DOMAIN kept : kept[i] = queue[k]
    <2>1. kept \in Purged(a)
      BY DEF Pressed
    <2>2. kept \in Seq(Message) /\ Len(kept) \in Nat /\ DOMAIN kept = 1 .. Len(kept)
      BY <1>1, <2>1, PurgedProperties
    <2>3. PICK f \in [DOMAIN kept -> DOMAIN queue] :
               /\ \A i \in DOMAIN kept :
                    kept[i] = queue[f[i]] /\ ~(IsFrame(kept[i]) /\ kept[i].agent = a)
               /\ \A i, j \in DOMAIN kept : i < j => f[i] < f[j]
               /\ \A k \in DOMAIN queue :
                    ~(IsFrame(queue[k]) /\ queue[k].agent = a) => \E i \in DOMAIN kept : f[i] = k
      BY <1>1, <2>1, PurgedProperties
    <2> QED
      BY <2>2, <2>3
  <1>3. /\ \A i \in DOMAIN kept : \E k \in DOMAIN queue' : queue'[k] = kept[i]
        /\ h.type # "diff" => \E k \in DOMAIN queue' : queue'[k] = h
    <2>1. CASE h.type = "diff"
      BY <1>1, <2>1
    <2>2. CASE h.type # "diff"
      <3>1. /\ queue' \in Seq(Message) /\ Len(queue') = Len(kept) + 1
            /\ \A k \in 1 .. Len(kept) : queue'[k] = kept[k]
            /\ queue'[Len(kept) + 1] = h
        BY <1>1, <1>2, <2>2, AppendProperties
      <3>2. DOMAIN queue' = 1 .. Len(kept) + 1
        BY <3>1, LenProperties
      <3> QED
        BY <1>2, <3>1, <3>2
    <2> QED
      BY <2>1, <2>2
  <1>4. wire' = wire
    BY DEF PushUnderPressure
  <1>5. /\ \A k \in DOMAIN outbox : outbox[k] = h \/ \E i \in DOMAIN outbox' : outbox'[i] = outbox[k]
        /\ Owes(h) => \E i \in DOMAIN outbox' : outbox'[i] = [type |-> "owed", agent |-> a]
    <2>1. [type |-> "owed", agent |-> a] \in Item
      BY <1>1 DEF Item, Owed
    <2>2. /\ DOMAIN outbox = 1 .. Len(outbox) /\ Len(outbox) \in Nat \ {0} /\ h = outbox[1]
          /\ DOMAIN Tail(outbox) = 1 .. Len(outbox) - 1
          /\ \A i \in 1 .. Len(outbox) - 1 : Tail(outbox)[i] = outbox[i + 1]
      BY <1>1, OutboxProperties
    <2>3. CASE Owes(h)
      <3>1. /\ DOMAIN outbox' = 1 .. Len(outbox)
            /\ \A i \in 1 .. Len(outbox) :
                 outbox'[i] = IF i = 1 THEN [type |-> "owed", agent |-> a] ELSE outbox[i]
        BY <1>1, <2>1, <2>3, InsteadOfTheHead
      <3> QED
        BY <2>2, <3>1
    <2>4. CASE ~Owes(h)
      <3> SUFFICES ASSUME NEW k \in DOMAIN outbox, k # 1
                   PROVE  \E i \in DOMAIN outbox' : outbox'[i] = outbox[k]
        BY <2>2, <2>4
      <3>1. k - 1 \in 1 .. Len(outbox) - 1 /\ (k - 1) + 1 = k
        BY <2>2
      <3> QED
        BY <1>1, <2>2, <2>4, <3>1
    <2> QED
      BY <2>3, <2>4
  <1>6. h.type = "diff" => h.agent = a
    BY <1>1 DEF Victim, IsFrame
  <1> QED
    BY <1>2, <1>3, <1>4, <1>5, <1>6 DEF Downlink

\* What becomes of the requests.
LEMMA UplinkSteps ==
  ASSUME TypeOK, [Next]_vars
  PROVE  \/ Lose
         \/ Handle /\ uplink # <<>> /\ uplink' = Tail(uplink)
         \/ UNCHANGED uplink
         \/ \E q \in Request : Send(q)
PROOF
  <1>1. CASE Handle
    BY <1>1 DEF Handle, HandleAck, HandleResync, HandleViewport, HandleResize,
                HandleSpawn, HandleClose, Handling
  <1>2. CASE Receive
    <2>1. wire # <<>> /\ Head(wire) \in Item
      BY <1>2, ReceiveType, WireProperties DEF Received
    <2>2. CASE ReceiveFull \/ ReceiveNextDiff \/ ReceiveDuplicateDiff
      <3>1. Send(Ack(Head(wire))) /\ Head(wire).type \in {"full", "diff"}
        BY <2>2 DEF ReceiveFull, ReceiveNextDiff, ReceiveDuplicateDiff, Receiving
      <3> QED
        BY <2>1, <3>1, ItemKinds, SentRequests
    <2>3. CASE ReceiveDiffWithGap
      <3>1. UNCHANGED uplink \/ Send([type |-> "resync", agent |-> Head(wire).agent])
        BY <2>3 DEF ReceiveDiffWithGap
      <3>2. Head(wire).agent \in Agent
        BY <2>1, <2>3, ItemKinds DEF ReceiveDiffWithGap, Receiving, Diff
      <3> QED
        BY <3>1, <3>2, SentRequests
    <2>4. CASE ReceiveViewport
      <3>1. \/ UNCHANGED uplink
            \/ Send([type |-> "viewport", agent |-> Head(wire).agent,
                     scrollback |-> cache[Head(wire).agent].target])
        BY <2>4 DEF ReceiveViewport
      <3>2. Head(wire).agent \in Agent
        BY <2>1, <2>4, ItemKinds DEF ReceiveViewport, Receiving, Viewport
      <3>3. cache[Head(wire).agent].target \in Nat
        BY <3>2 DEF TypeOK, Terminal
      <3> QED
        BY <3>1, <3>2, <3>3, SentRequests
    <2>5. CASE ReceiveRemoved \/ ReceiveControl \/ ReceiveWhileWaiting
      BY <2>5 DEF ReceiveRemoved, ReceiveControl, ReceiveWhileWaiting
    <2> QED
      BY <1>2, <2>2, <2>3, <2>4, <2>5 DEF Receive
  <1>3. CASE User
    <2>1. ASSUME NEW a \in Agent, ShowLive(a) \/ Close(a) \/ \E n \in 1 .. MaxScroll : Scroll(a, n)
          PROVE  UNCHANGED uplink \/ \E q \in Request : Send(q)
      <3>1. CASE ShowLive(a)
        BY <3>1 DEF ShowLive
      <3>2. CASE Close(a)
        BY <3>2, SentRequests DEF Close
      <3>3. ASSUME NEW n \in 1 .. MaxScroll, Scroll(a, n)
            PROVE  UNCHANGED uplink \/ \E q \in Request : Send(q)
        <4>1. n \in Nat
          BY FrameSyncAssumption
        <4>2. UNCHANGED uplink \/ Send([type |-> "viewport", agent |-> a, scrollback |-> n])
          BY <3>3 DEF Scroll
        <4> QED
          BY <4>1, <4>2, SentRequests
      <3> QED
        BY <2>1, <3>1, <3>2, <3>3
    <2>2. ASSUME Resize PROVE \E q \in Request : Send(q)
      <3>1. Send([type |-> "resize"])
        BY <2>2 DEF Resize
      <3> QED
        BY <3>1, SentRequests
    <2>3. ASSUME Spawn PROVE \E q \in Request : Send(q)
      <3>1. Send([type |-> "spawn"])
        BY <2>3 DEF Spawn
      <3> QED
        BY <3>1, SentRequests
    <2> QED
      BY <1>3, <2>1, <2>2, <2>3 DEF User
  <1>4. CASE Attach \/ \E quit \in SUBSET agents : Poll(quit)
    BY <1>4 DEF Attach, Poll
  <1>5. CASE PushQueued \/ PushUnderPressure \/ SendOwed \/ Write \/ SpawnTimesOut
    BY <1>5 DEF PushQueued, PushUnderPressure, SendOwed, Write, SpawnTimesOut, linkVars
  <1>6. ASSUME NEW a \in Agent, Output(a) PROVE UNCHANGED uplink
    BY <1>6 DEF Output, linkVars
  <1>7. CASE UNCHANGED vars
    BY <1>7 DEF vars, linkVars
  <1> QED
    BY <1>1, <1>2, <1>3, <1>4, <1>5, <1>6, <1>7, StepKinds DEF Serve

\* The coordinator takes the oldest request only, and a lost connection all of them.
LEMMA RequestsStay ==
  ASSUME TypeOK, [Next]_vars, NEW r \in Requests
  PROVE  \/ r \in Requests'
         \/ Lose
         \/ Handle /\ r = Head(uplink)
PROOF
  <1>1. CASE UNCHANGED uplink
    BY <1>1 DEF Requests
  <1>2. ASSUME NEW q \in Request, Send(q) PROVE r \in Requests'
    <2>1. /\ DOMAIN uplink \subseteq DOMAIN uplink'
          /\ \A i \in DOMAIN uplink : uplink'[i] = uplink[i]
      BY <1>2, SendProperties
    <2> QED
      BY <2>1 DEF Requests
  <1>3. ASSUME Handle, uplink # <<>>, uplink' = Tail(uplink)
        PROVE  r \in Requests' \/ r = Head(uplink)
    <2>1. uplink \in Seq(Request)
      BY DEF TypeOK
    <2>2. /\ Tail(uplink) \in Seq(Request) /\ Head(uplink) = uplink[1]
          /\ Len(uplink) \in Nat \ {0} /\ Len(Tail(uplink)) = Len(uplink) - 1
          /\ \A i \in 1 .. Len(uplink) - 1 : Tail(uplink)[i] = uplink[i + 1]
          /\ DOMAIN uplink = 1 .. Len(uplink)
      BY <1>3, <2>1, HeadAndTail, LenProperties
    <2>3. DOMAIN Tail(uplink) = 1 .. Len(uplink) - 1
      BY <2>2, LenProperties
    <2>4. PICK k \in DOMAIN uplink : r = uplink[k]
      BY DEF Requests
    <2>5. k = 1 \/ (k - 1 \in 1 .. Len(uplink) - 1 /\ (k - 1) + 1 = k)
      BY <2>2
    <2> QED
      BY <1>3, <2>2, <2>3, <2>4, <2>5 DEF Requests
  <1> QED
    BY <1>1, <1>2, <1>3, UplinkSteps

\* The coordinator answers a resync of a living agent with a frame newer than any.
LEMMA ResyncIsServed ==
  ASSUME ContentInv, Handle, NEW a \in agents, Head(uplink) \in Request,
         Head(uplink).type = "resync", Head(uplink).agent = a
  PROVE  NewFullComing(a)'
PROOF
  <1>1. HandleResync
    BY DEF Handle, HandleAck, HandleViewport, HandleResize, HandleSpawn, HandleClose, Handling
  <1>2. outbox' = <<ControlMessage, FullFrame(a, screen)>> /\ UNCHANGED cache
    BY <1>1 DEF HandleResync, Handling, clientVars
  <1>3. FullFrame(a, screen) \in Downlink'
    <2>1. 2 \in DOMAIN outbox' /\ outbox'[2] = FullFrame(a, screen)
      BY <1>2
    <2> QED
      BY <2>1 DEF Downlink
  <1>4. a \in Agent
    BY DEF ContentInv, TypeOK
  <1>5. FullFrame(a, screen).sequence > cache'[a].sequence
    BY <1>2, <1>4, NumbersAreKnown DEF FullFrame, Sequence
  <1> QED
    BY <1>3, <1>5 DEF NewFullComing, FullFrame

\* Where the frames of the queue and the head of the outbox lie in the pipe.
LEMMA QueuedBeforeTheOutbox ==
  ASSUME OrderInv, outbox # <<>>, NEW k \in DOMAIN queue, NEW a \in Agent,
         About(queue[k], a), Picture(Head(outbox), a)
  PROVE  cache[a].sequence < Head(outbox).sequence
PROOF
  <1>1. TypeOK /\ InOrder(Pipe, a, cache[a].sequence)
    BY DEF OrderInv, ContentInv, FramesInOrder
  <1>2. Laid(wire, queue, outbox, Pipe) /\ outbox \in Seq(Item)
    BY <1>1, PipeProperties
  <1>3. Head(outbox) = outbox[1] /\ Len(outbox) \in Nat \ {0}
    BY <1>2, HeadAndTail
  <1> HIDE DEF Pipe
  <1>4. /\ Len(wire) \in Nat /\ Len(queue) \in Nat /\ DOMAIN queue = 1 .. Len(queue)
        /\ DOMAIN Pipe = 1 .. Len(wire) + Len(queue) + Len(outbox)
        /\ \A i \in 1 .. Len(queue) : Pipe[Len(wire) + i] = queue[i]
        /\ \A i \in 1 .. Len(outbox) : Pipe[Len(wire) + Len(queue) + i] = outbox[i]
    BY <1>2 DEF Laid
  <1>5. Len(wire) + k \in DOMAIN Pipe /\ Pipe[Len(wire) + k] = queue[k]
    BY <1>4
  <1>6. /\ Len(wire) + Len(queue) + 1 \in DOMAIN Pipe
        /\ Pipe[Len(wire) + Len(queue) + 1] = Head(outbox)
    BY <1>3, <1>4
  <1>7. Len(wire) + k < Len(wire) + Len(queue) + 1
    BY <1>4
  <1>8. About(Head(outbox), a) /\ IsPicture(Head(outbox))
    BY DEF About, Picture, IsPicture, IsFrame
  <1>9. Len(wire) + k \in Places(Pipe, a) /\ Len(wire) + Len(queue) + 1 \in Places(Pipe, a)
    BY <1>5, <1>6, <1>8 DEF Places
  <1> QED
    BY <1>1, <1>6, <1>7, <1>8, <1>9 DEF InOrder

\* Under pressure a frame that is given up leaves a promise, a newer complete frame,
\* or makes room for a viewport of the same agent.
LEMMA GivenUpIsOwed ==
  ASSUME OrderInv, PushUnderPressure, NEW m \in Downlink, NEW a \in Agent,
         m.type \in {"full", "viewport", "owed"}, m.agent = a, m \notin Downlink'
  PROVE  \/ NewFullComing(a)'
         \/ /\ outbox # <<>> /\ Head(outbox).type = "viewport" /\ Head(outbox).agent = a
            /\ Head(outbox) \in Downlink'
PROOF
  <1>1. TypeOK
    BY DEF OrderInv, ContentInv
  <1>2. PICK h, v, kept : Pressed(h, v, kept)
    BY <1>1, Pressure
  <1>3. /\ IsFrame(m) /\ m.agent = v /\ \E k \in DOMAIN queue : queue[k] = m
        /\ h.type # "diff" => h \in Downlink'
        /\ Owes(h) => [type |-> "owed", agent |-> v] \in Downlink'
    BY <1>1, <1>2, GivenUp
  <1>4. PICK k \in DOMAIN queue : queue[k] = m
    BY <1>3
  <1>5. h = Head(outbox) /\ outbox # <<>> /\ v \in Victim(h) /\ v = a
    BY <1>2, <1>3 DEF Pressed
  <1>6. CASE Owes(h)
    BY <1>3, <1>5, <1>6 DEF NewFullComing
  <1>7. CASE h.type = "viewport"
    BY <1>3, <1>5, <1>7 DEF Victim, IsFrame
  <1>8. CASE h.type = "full"
    <2>1. Picture(Head(outbox), a) /\ h.agent = a
      BY <1>5, <1>8 DEF Victim, IsFrame, Picture, IsPicture
    <2>2. About(queue[k], a)
      BY <1>3, <1>4 DEF About
    <2>3. cache[a].sequence < h.sequence
      BY <1>5, <2>1, <2>2, QueuedBeforeTheOutbox
    <2>4. h.sequence \in Nat /\ cache[a].sequence \in Nat
      <3>1. h \in Item
        BY <1>1, <1>5, OutboxProperties
      <3>2. h \in Full
        BY <1>8, <3>1, ItemKinds
      <3> QED
        BY <1>1, <3>2 DEF Full, TypeOK, Terminal
    <2>5. h \in Downlink' /\ UNCHANGED cache
      BY <1>3, <1>8 DEF PushUnderPressure, clientVars
    <2>6. h.sequence > cache'[a].sequence
      BY <2>3, <2>4, <2>5
    <2> QED
      BY <1>8, <2>1, <2>5, <2>6 DEF NewFullComing
  <1> QED
    BY <1>6, <1>7, <1>8 DEF Owes

\* A complete frame on its way, newer than what the client shows, is not lost but
\* with the connection, to a client that waits for a spawn, or to a viewport that
\* meets a full queue; it may be received.
LEMMA NewFullStays ==
  ASSUME OrderInv, [Next]_vars, NEW a \in agents, NewFullComing(a)
  PROVE  \/ NewFullComing(a)'
         \/ Lose
         \/ ReceiveFull /\ Picture(Head(wire), a) /\ Newer(Head(wire))
         \/ ReceiveWhileWaiting /\ IsFrame(Head(wire)) /\ Head(wire).agent = a
         \/ /\ PushUnderPressure /\ outbox # <<>>
            /\ Head(outbox).type = "viewport" /\ Head(outbox).agent = a
            /\ Head(outbox) \in Downlink'
PROOF
  <1>1. ContentInv /\ TypeOK /\ Silent /\ a \in Agent
    BY DEF OrderInv, ContentInv, TypeOK
  <1>2. \A b \in Agent : cache[b].sequence \in Nat
    BY <1>1, NumbersAreKnown
  <1>3. ASSUME NEW r \in Requests, r.type = "resync", r.agent = a
        PROVE  NewFullComing(a)' \/ Lose
    <2>1. CASE r \in Requests'
      BY <1>3, <2>1 DEF NewFullComing
    <2>2. CASE Handle /\ r = Head(uplink)
      <3>1. r \in Request
        <4>1. PICK i \in DOMAIN uplink : uplink[i] = r
          BY DEF Requests
        <4> QED
          BY <1>1, <4>1, ElementOfSeq, LenProperties DEF TypeOK
      <3> QED
        BY <1>1, <1>3, <2>2, <3>1, ResyncIsServed
    <2> QED
      BY <1>1, <2>1, <2>2, RequestsStay
  <1>4. ASSUME NEW m \in Downlink, m.agent = a,
               m.type = "owed" \/ (m.type = "full" /\ m.sequence > cache[a].sequence)
        PROVE  \/ NewFullComing(a)'
               \/ Lose
               \/ ReceiveFull /\ Picture(Head(wire), a) /\ Newer(Head(wire))
               \/ ReceiveWhileWaiting /\ IsFrame(Head(wire)) /\ Head(wire).agent = a
               \/ /\ PushUnderPressure /\ outbox # <<>>
                  /\ Head(outbox).type = "viewport" /\ Head(outbox).agent = a
                  /\ Head(outbox) \in Downlink'
    <2>1. ASSUME m \in Downlink', cache'[a].sequence = cache[a].sequence PROVE NewFullComing(a)'
      BY <1>4, <2>1 DEF NewFullComing
    <2>2. ASSUME UNCHANGED <<outbox, queue, wire>> PROVE m \in Downlink'
      BY <2>2 DEF Downlink
    <2>3. ASSUME NEW b \in Agent, Output(b) PROVE NewFullComing(a)'
      BY <2>1, <2>2, <2>3 DEF Output, linkVars, clientVars
    <2>4. CASE SpawnTimesOut
      BY <2>1, <2>2, <2>4 DEF SpawnTimesOut, linkVars
    <2>5. CASE UNCHANGED vars
      BY <2>1, <2>2, <2>5 DEF vars, linkVars, clientVars
    <2>6. CASE User
      <3>1. UNCHANGED Shown /\ Operated /\ TypeOK'
        BY <1>1, <2>6, UsersShowNothing, UserType
      <3>2. cache'[a].sequence = cache[a].sequence
        <4>1. Shown[a].sequence = Shown'[a].sequence
          BY <3>1
        <4> QED
          BY <1>1, <4>1 DEF Shown
      <3> QED
        BY <2>1, <2>2, <3>1, <3>2 DEF Operated
    <2>7. CASE Serve
      <3>1. Handled
        BY <1>1, <2>7, ServeType
      <3>2. m \in Downlink'
        BY <3>1 DEF Handled, Downlink
      <3> QED
        BY <2>1, <3>1, <3>2 DEF Handled, clientVars
    <2>8. CASE PushQueued \/ Write
      <3>1. m \in Downlink'
        BY <1>1, <2>8, PassedOn
      <3> QED
        BY <2>1, <2>8, <3>1 DEF PushQueued, Write, clientVars
    <2>9. CASE PushUnderPressure
      <3>1. CASE m \in Downlink'
        BY <2>1, <2>9, <3>1 DEF PushUnderPressure, clientVars
      <3>2. CASE m \notin Downlink'
        BY <1>1, <1>4, <2>9, <3>2, GivenUpIsOwed
      <3> QED
        BY <3>1, <3>2
    <2>10. CASE SendOwed
      <3>1. PICK b \in agents :
              /\ outbox # <<>> /\ Head(outbox) = [type |-> "owed", agent |-> b]
              /\ outbox' = <<FullFrame(b, screen)>> \o Tail(outbox)
              /\ UNCHANGED <<queue, wire, clientVars>>
        BY <2>10 DEF SendOwed
      <3>2. b \in Agent /\ FullFrame(b, screen) \in Item
        BY <1>1, <3>1, FullIsMessage, Messages DEF TypeOK, Screens
      <3>3. /\ DOMAIN outbox' = DOMAIN outbox /\ 1 \in DOMAIN outbox /\ outbox[1] = Head(outbox)
            /\ \A i \in DOMAIN outbox : outbox'[i] = IF i = 1 THEN FullFrame(b, screen) ELSE outbox[i]
        BY <1>1, <3>1, <3>2, InsteadOfTheHead, OutboxProperties
      <3>4. CASE m = Head(outbox)
        <4>1. b = a
          BY <1>4, <3>1, <3>4
        <4>2. FullFrame(a, screen) \in Downlink'
          BY <3>3, <4>1 DEF Downlink
        <4>3. FullFrame(a, screen).sequence > cache'[a].sequence
          BY <1>1, <3>1, NumbersAreKnown DEF FullFrame, Sequence, clientVars
        <4> QED
          BY <4>2, <4>3 DEF NewFullComing, FullFrame
      <3>5. CASE m # Head(outbox)
        <4>1. m \in Downlink'
          BY <3>1, <3>3, <3>5 DEF Downlink
        <4> QED
          BY <2>1, <3>1, <4>1 DEF clientVars
      <3> QED
        BY <3>4, <3>5
    <2>11. CASE Receive
      <3>1. Received /\ (m = Head(wire) \/ m \in Downlink')
        BY <1>1, <2>11, ReceiveType, TakenOff
      <3>2. ASSUME m = Head(wire)
            PROVE  \/ ReceiveFull /\ Picture(Head(wire), a) /\ Newer(Head(wire))
                   \/ ReceiveWhileWaiting /\ IsFrame(Head(wire)) /\ Head(wire).agent = a
        <4>1. Head(wire) \in Message
          BY <1>1, <3>1, WireProperties DEF Received
        <4>2. m.type = "full" /\ m.sequence > cache[a].sequence
          BY <1>4, <3>2, <4>1 DEF Message, Full, Diff, Viewport, Removed, Control
        <4>3. ReceiveFull \/ ReceiveWhileWaiting
          BY <2>11, <3>2, <4>2
             DEF Receive, ReceiveNextDiff, ReceiveDuplicateDiff, ReceiveDiffWithGap,
                 ReceiveViewport, ReceiveRemoved, ReceiveControl, Receiving
        <4> QED
          BY <1>4, <3>2, <4>2, <4>3 DEF Picture, IsPicture, IsFrame, Newer
      <3>3. ASSUME m \in Downlink'
            PROVE  \/ NewFullComing(a)'
                   \/ ReceiveFull /\ Picture(Head(wire), a) /\ Newer(Head(wire))
        <4>1. CASE cache'[a].sequence \in {cache[a].sequence, 0}
          <5>1. m.type = "full" => m.sequence \in Nat
            BY <1>1, NumbersAreKnown DEF IsPicture
          <5>2. m.type = "full" => m.sequence > cache'[a].sequence
            BY <1>1, <1>2, <1>4, <4>1, <5>1
          <5> QED
            BY <1>4, <3>3, <5>2 DEF NewFullComing
        <4>2. CASE /\ Picture(Head(wire), a) /\ cache'[a].sequence = Head(wire).sequence
                   /\ Head(wire).sequence > cache[a].sequence
                   /\ ReceiveFull \/ ReceiveNextDiff
          <5>1. CASE ReceiveFull
            BY <4>2, <5>1 DEF Newer, Picture
          <5>2. CASE ReceiveNextDiff
            <6>1. Head(wire).type = "diff"
              BY <5>2 DEF ReceiveNextDiff, Receiving
            <6>2. ASSUME m.type = "full" PROVE m.sequence > cache'[a].sequence
              <7>1. PICK k \in DOMAIN Pipe : Pipe[k] = m
                BY <1>1, PipeProperties
              <7>2. /\ 1 \in DOMAIN Pipe /\ Pipe[1] = Head(wire)
                    /\ DOMAIN Pipe = 1 .. Len(wire) + Len(queue) + Len(outbox)
                    /\ Len(wire) + Len(queue) + Len(outbox) \in Nat
                BY <1>1, <3>1, ReceivedPipe, PipeProperties DEF Laid
              <7> HIDE DEF Pipe
              <7>3. 1 \in Places(Pipe, a) /\ k \in Places(Pipe, a) /\ IsPicture(Pipe[k])
                BY <1>4, <4>2, <6>1, <6>2, <7>1, <7>2
                   DEF Places, About, IsFrame, Picture, IsPicture
              <7>4. Pipe[1].sequence < Pipe[k].sequence
                <8>1. InOrder(Pipe, a, cache[a].sequence)
                  BY <1>1 DEF OrderInv, FramesInOrder
                <8>2. k # 1
                  BY <6>1, <6>2, <7>1, <7>2
                <8>3. 1 < k
                  BY <7>2, <8>2
                <8> QED
                  BY <6>1, <7>2, <7>3, <8>1, <8>3 DEF InOrder
              <7> QED
                <8>1. m.sequence \in Nat
                  BY <1>1, <6>2, NumbersAreKnown DEF IsPicture
                <8>2. Head(wire).sequence \in Nat
                  <9>1. Head(wire) \in Downlink
                    BY <1>1, <7>2, PipeProperties
                  <9> QED
                    BY <1>1, <6>1, <9>1, NumbersAreKnown DEF IsPicture
                <8> QED
                  BY <4>2, <7>1, <7>2, <7>4, <8>1, <8>2
            <6> QED
              BY <1>4, <3>3, <6>2 DEF NewFullComing
          <5> QED
            BY <4>2, <5>1, <5>2
        <4> QED
          BY <1>1, <2>11, <4>1, <4>2, Forward
      <3> QED
        BY <3>1, <3>2, <3>3
    <2> QED
      BY <2>3, <2>4, <2>5, <2>6, <2>7, <2>8, <2>9, <2>10, <2>11, StepKinds
  <1> QED
    BY <1>3, <1>4 DEF NewFullComing

-----------------------------------------------------------------------------
\* Scrollback is answered

\* A request for scrollback of agent a, and the answer to one.
Asks(r, a) == r.type = "viewport" /\ r.agent = a
Answers(m, a) == m.type = "viewport" /\ m.agent = a
Asked(a) == \E i \in DOMAIN uplink : Asks(uplink[i], a)

\* The last request on its way is the one the client believes to be outstanding.
LastAsked ==
  \A a \in Agent : cache[a].request # 0 =>
    \A i \in DOMAIN uplink :
      Asks(uplink[i], a) /\ (\A j \in DOMAIN uplink : j > i => ~Asks(uplink[j], a)) =>
        uplink[i].scrollback = cache[a].request

\* Without a request on its way, what the coordinator has to push answers the
\* outstanding one.
LastAnswered ==
  \A a \in Agent : cache[a].request # 0 /\ ~Asked(a) =>
    \A i \in DOMAIN outbox : Answers(outbox[i], a) => outbox[i].requested = cache[a].request

\* Identifiers are handed out in order, and a new one has had no frames.
Born ==
  /\ dirty \subseteq agents
  /\ \A a \in agents : a < nextId
  /\ \A a \in Agent : a >= nextId => Len(frames[a]) = 0

\* The answer to the outstanding request is on its way, or what makes it needless.
ScrollComing(a) ==
  \/ Asked(a)
  \/ NewFullComing(a)
  \/ \E m \in Downlink : Answers(m, a) /\ m.requested = cache[a].request
AnswersCome == \A a \in agents \ dropped : cache[a].request # 0 => ScrollComing(a)

ScrollInv == OrderInv /\ Born /\ LastAsked /\ LastAnswered /\ AnswersCome

\* What a step does to an agent's outstanding request and to the requests on their
\* way: a new outstanding request is sent, and no other request for scrollback is.
RequestStep(a) ==
  \/ \E q \in Request : Send(q) /\ Asks(q, a) /\ q.scrollback = cache'[a].request
  \/ /\ cache'[a].request = cache[a].request \/ cache'[a].request = 0
     /\ \/ UNCHANGED uplink
        \/ Lose
        \/ Handle /\ uplink # <<>> /\ uplink' = Tail(uplink)
        \/ \E q \in Request : Send(q) /\ ~Asks(q, a)

LEMMA ReceiveRequestStep ==
  ASSUME TypeOK, Receive, NEW a \in Agent PROVE RequestStep(a)
PROOF
  <1> DEFINE m == Head(wire)
  <1>1. m \in Item /\ \A b \in Agent : cache[b] \in Terminal
    BY ReceiveType, WireProperties DEF Received, TypeOK
  <1> HIDE DEF m
  <1>2. CASE ReceiveFull \/ ReceiveNextDiff \/ ReceiveDuplicateDiff
    <2>1. Send(Ack(m)) /\ m \in Full \cup Diff
      BY <1>1, <1>2, ItemKinds DEF ReceiveFull, ReceiveNextDiff, ReceiveDuplicateDiff, Receiving, m
    <2>2. m.agent \in Agent
      BY <2>1 DEF Full, Diff
    <2>3. \/ UNCHANGED cache
          \/ cache' = [cache EXCEPT ![m.agent] = Renewed(m)]
          \/ cache' = [cache EXCEPT ![m.agent] = Advanced(m)]
      BY <1>2 DEF ReceiveFull, ReceiveNextDiff, ReceiveDuplicateDiff, m
    <2>4. Renewed(m).request = 0 /\ Advanced(m).request = cache[m.agent].request
      BY <1>1, <2>2 DEF Renewed, Advanced, NoTerminal, Terminal
    <2>5. cache'[a].request = cache[a].request \/ cache'[a].request = 0
      BY <2>2, <2>3, <2>4 DEF TypeOK
    <2>6. Ack(m) \in Request /\ ~Asks(Ack(m), a)
      BY <2>1, SentRequests DEF Ack, Asks
    <2> QED
      BY <2>1, <2>5, <2>6 DEF RequestStep
  <1>3. CASE ReceiveDiffWithGap
    <2>1. UNCHANGED cache /\ (UNCHANGED uplink \/ Send([type |-> "resync", agent |-> m.agent]))
      BY <1>3 DEF ReceiveDiffWithGap, m
    <2>2. [type |-> "resync", agent |-> m.agent] \in Request
      BY <1>1, <1>3, ItemKinds, SentRequests DEF ReceiveDiffWithGap, Receiving, Diff, m
    <2>3. ~Asks([type |-> "resync", agent |-> m.agent], a)
      BY DEF Asks
    <2> QED
      BY <2>1, <2>2, <2>3 DEF RequestStep
  <1>4. CASE ReceiveViewport
    <2> DEFINE t == cache[m.agent]
               answers == t.request # 0 /\ t.request = m.requested
               again == answers /\ t.target # 0 /\ t.target # m.requested
               shown == answers /\ t.target = m.requested
               new == [t EXCEPT !.request = IF again THEN t.target ELSE IF answers THEN 0 ELSE @,
                                !.view = IF shown THEN m.scrollback ELSE @,
                                !.target = IF shown THEN m.scrollback ELSE @]
    <2>1. /\ cache' = [cache EXCEPT ![m.agent] = new]
          /\ IF again THEN Send([type |-> "viewport", agent |-> m.agent, scrollback |-> t.target])
                      ELSE UNCHANGED uplink
      BY <1>4 DEF ReceiveViewport, m
    <2>2. m.agent \in Agent
      BY <1>1, <1>4, ItemKinds DEF ReceiveViewport, Receiving, Viewport, m
    <2>3. new.request = IF again THEN t.target ELSE IF answers THEN 0 ELSE t.request
      BY <1>1, <2>2 DEF Terminal
    <2>4. cache' = [cache EXCEPT ![m.agent] = new] /\ t = cache[m.agent] /\ cache \in [Agent -> Terminal]
      BY <2>1 DEF TypeOK
    <2> HIDE DEF new
    <2>5. \A b \in Agent : cache'[b] = IF b = m.agent THEN new ELSE cache[b]
      BY <2>2, <2>4
    <2>6. CASE again
      <3> DEFINE q == [type |-> "viewport", agent |-> m.agent, scrollback |-> t.target]
      <3>1. q \in Request /\ Send(q)
        BY <1>1, <2>1, <2>2, <2>6, SentRequests DEF Terminal
      <3>2. CASE a = m.agent
        <4>1. Asks(q, a) /\ q.scrollback = cache'[a].request
          BY <2>2, <2>3, <2>5, <2>6, <3>2 DEF Asks
        <4> QED
          BY <3>1, <4>1 DEF RequestStep
      <3>3. CASE a # m.agent
        <4>1. ~Asks(q, a) /\ cache'[a] = cache[a]
          BY <2>5, <3>3 DEF Asks
        <4> QED
          BY <3>1, <4>1 DEF RequestStep
      <3> QED
        BY <3>2, <3>3
    <2>7. CASE ~again
      <3>1. UNCHANGED uplink
        BY <2>1, <2>7
      <3>2. cache'[a].request = cache[a].request \/ cache'[a].request = 0
        BY <2>3, <2>5, <2>7
      <3> QED
        BY <3>1, <3>2 DEF RequestStep
    <2> QED
      BY <2>6, <2>7
  <1>5. CASE ReceiveRemoved
    <2>1. UNCHANGED uplink /\ cache' = [cache EXCEPT ![m.agent] = NoTerminal]
      BY <1>5 DEF ReceiveRemoved, m
    <2>2. cache'[a] = cache[a] \/ cache'[a] = NoTerminal
      BY <2>1 DEF TypeOK
    <2>3. cache'[a].request = cache[a].request \/ cache'[a].request = 0
      BY <2>2 DEF NoTerminal
    <2> QED
      BY <2>1, <2>3 DEF RequestStep
  <1>6. CASE ReceiveControl \/ ReceiveWhileWaiting
    BY <1>6 DEF ReceiveControl, ReceiveWhileWaiting, RequestStep
  <1> QED
    BY <1>2, <1>3, <1>4, <1>5, <1>6 DEF Receive

LEMMA UserRequestStep ==
  ASSUME TypeOK, User, NEW a \in Agent PROVE RequestStep(a)
PROOF
  <1>1. \A b \in Agent : cache[b] \in Terminal
    BY DEF TypeOK
  <1>2. ASSUME NEW b \in Agent, ShowLive(b) PROVE RequestStep(a)
    <2>1. cache' = [cache EXCEPT ![b].target = 0, ![b].view = 0] /\ UNCHANGED uplink
      BY <1>2 DEF ShowLive
    <2>2. cache'[a].request = cache[a].request
      BY <1>1, <2>1 DEF TypeOK, Terminal
    <2> QED
      BY <2>1, <2>2 DEF RequestStep
  <1>3. ASSUME NEW b \in Agent, Close(b) PROVE RequestStep(a)
    <2>1. Send([type |-> "close", agent |-> b]) /\ UNCHANGED cache
      BY <1>3 DEF Close
    <2>2. [type |-> "close", agent |-> b] \in Request /\ ~Asks([type |-> "close", agent |-> b], a)
      BY SentRequests DEF Asks
    <2> QED
      BY <2>1, <2>2 DEF RequestStep
  <1>4. ASSUME NEW b \in Agent, NEW n \in 1 .. MaxScroll, Scroll(b, n) PROVE RequestStep(a)
    <2> DEFINE t == cache[b]
               new == [t EXCEPT !.target = n, !.request = IF @ = 0 THEN n ELSE @]
               q == [type |-> "viewport", agent |-> b, scrollback |-> n]
    <2>1. /\ cache' = [cache EXCEPT ![b] = new]
          /\ IF t.request = 0 THEN Send(q) ELSE UNCHANGED uplink
      BY <1>4 DEF Scroll
    <2>2. new.request = IF t.request = 0 THEN n ELSE t.request
      BY <1>1 DEF Terminal
    <2>3. n \in Nat
      BY FrameSyncAssumption
    <2>4. q \in Request /\ q.scrollback = n /\ (Asks(q, a) <=> a = b)
      BY <2>3, SentRequests DEF Asks
    <2>5. cache'[a] = IF a = b THEN new ELSE cache[a]
      BY <2>1 DEF TypeOK
    <2> HIDE DEF q, new
    <2>6. CASE t.request = 0
      BY <2>1, <2>2, <2>4, <2>5, <2>6 DEF RequestStep
    <2>7. CASE t.request # 0
      BY <2>1, <2>2, <2>5, <2>7 DEF RequestStep
    <2> QED
      BY <2>6, <2>7
  <1>5. ASSUME Resize PROVE RequestStep(a)
    <2>1. /\ Send([type |-> "resize"])
          /\ cache' = [b \in Agent |-> [cache[b] EXCEPT !.request = 0, !.target = 0, !.view = 0]]
      BY <1>5 DEF Resize
    <2>2. cache'[a].request = 0
      BY <1>1, <2>1 DEF Terminal
    <2>3. [type |-> "resize"] \in Request /\ ~Asks([type |-> "resize"], a)
      BY SentRequests DEF Asks
    <2> QED
      BY <2>1, <2>2, <2>3 DEF RequestStep
  <1>6. ASSUME Spawn PROVE RequestStep(a)
    <2>1. Send([type |-> "spawn"]) /\ UNCHANGED cache
      BY <1>6 DEF Spawn
    <2>2. [type |-> "spawn"] \in Request /\ ~Asks([type |-> "spawn"], a)
      BY SentRequests DEF Asks
    <2> QED
      BY <2>1, <2>2 DEF RequestStep
  <1> QED
    BY <1>2, <1>3, <1>4, <1>5, <1>6 DEF User

\* So it is for every step of every party.
LEMMA StepRequests ==
  ASSUME TypeOK, Silent, [Next]_vars, NEW a \in Agent PROVE RequestStep(a)
PROOF
  <1>1. ASSUME UNCHANGED cache, UNCHANGED uplink PROVE RequestStep(a)
    BY <1>1 DEF RequestStep
  <1>2. ASSUME NEW b \in Agent, Output(b) PROVE RequestStep(a)
    BY <1>1, <1>2 DEF Output, clientVars, linkVars
  <1>3. CASE Serve
    <2>1. UNCHANGED cache
      <3>1. Handled
        BY <1>3, ServeType
      <3> QED
        BY <3>1 DEF Handled, clientVars
    <2>2. CASE Handle
      <3>1. uplink # <<>> /\ uplink' = Tail(uplink)
        BY <2>2 DEF Handle, HandleAck, HandleResync, HandleViewport, HandleResize,
                    HandleSpawn, HandleClose, Handling
      <3> QED
        BY <2>1, <2>2, <3>1 DEF RequestStep
    <2>3. CASE Attach \/ \E quit \in SUBSET agents : Poll(quit)
      <3>1. UNCHANGED uplink
        BY <2>3 DEF Attach, Poll
      <3> QED
        BY <1>1, <2>1, <3>1
    <2> QED
      BY <1>3, <2>2, <2>3 DEF Serve
  <1>4. CASE Lose
    <2>1. LoseConnection
      BY <1>4, LoseProperties
    <2>2. cache'[a].request = 0
      BY <2>1 DEF LoseConnection, NoTerminal
    <2> QED
      BY <1>4, <2>2 DEF RequestStep
  <1>5. CASE PushQueued \/ PushUnderPressure \/ SendOwed \/ Write \/ SpawnTimesOut
    BY <1>1, <1>5 DEF PushQueued, PushUnderPressure, SendOwed, Write, SpawnTimesOut,
                      linkVars, clientVars
  <1>6. CASE UNCHANGED vars
    BY <1>1, <1>6 DEF vars, clientVars, linkVars
  <1> QED
    BY <1>2, <1>3, <1>4, <1>5, <1>6, StepKinds, ReceiveRequestStep, UserRequestStep

\* The coordinator takes the oldest request.
LEMMA UplinkTail ==
  ASSUME TypeOK, uplink # <<>>, uplink' = Tail(uplink)
  PROVE  /\ Head(uplink) \in Request /\ Head(uplink) = uplink[1]
         /\ Len(uplink) \in Nat \ {0}
         /\ DOMAIN uplink = 1 .. Len(uplink) /\ DOMAIN uplink' = 1 .. Len(uplink) - 1
         /\ \A i \in DOMAIN uplink' : uplink'[i] = uplink[i + 1]
         /\ \A i \in DOMAIN uplink : i # 1 => i - 1 \in DOMAIN uplink' /\ uplink'[i - 1] = uplink[i]
PROOF
  <1>1. uplink \in Seq(Request)
    BY DEF TypeOK
  <1>2. /\ Tail(uplink) \in Seq(Request) /\ Head(uplink) \in Request /\ Head(uplink) = uplink[1]
        /\ Len(uplink) \in Nat \ {0} /\ Len(Tail(uplink)) = Len(uplink) - 1
        /\ \A i \in 1 .. Len(uplink) - 1 : Tail(uplink)[i] = uplink[i + 1]
        /\ DOMAIN uplink = 1 .. Len(uplink)
    BY <1>1, HeadAndTail, LenProperties
  <1>3. DOMAIN uplink' = 1 .. Len(uplink) - 1
    BY <1>2, LenProperties
  <1>4. ASSUME NEW i \in DOMAIN uplink, i # 1
        PROVE  i - 1 \in DOMAIN uplink' /\ uplink'[i - 1] = uplink[i]
    <2>1. i - 1 \in 1 .. Len(uplink) - 1 /\ (i - 1) + 1 = i
      BY <1>2, <1>4
    <2> QED
      BY <1>2, <1>3, <2>1
  <1> QED
    BY <1>2, <1>3, <1>4

LEMMA StepLastAsked ==
  ASSUME TypeOK, Silent, LastAsked, [Next]_vars PROVE LastAsked'
PROOF
  <1> SUFFICES ASSUME NEW a \in Agent, cache'[a].request # 0, NEW i \in DOMAIN uplink',
                      Asks(uplink'[i], a),
                      \A j \in DOMAIN uplink' : j > i => ~Asks(uplink'[j], a)
               PROVE  uplink'[i].scrollback = cache'[a].request
    BY DEF LastAsked
  <1>1. CASE \E q \in Request : Send(q) /\ Asks(q, a) /\ q.scrollback = cache'[a].request
    <2>1. PICK q \in Request : Send(q) /\ Asks(q, a) /\ q.scrollback = cache'[a].request
      BY <1>1
    <2>2. /\ Len(uplink) \in Nat /\ DOMAIN uplink' = 1 .. Len(uplink) + 1
          /\ uplink'[Len(uplink) + 1] = q
      BY <2>1, SendProperties
    <2>3. i = Len(uplink) + 1
      BY <2>1, <2>2
    <2> QED
      BY <2>1, <2>2, <2>3
  <1>2. CASE cache'[a].request = cache[a].request /\ UNCHANGED uplink
    BY <1>2 DEF LastAsked
  <1>3. CASE Lose
    BY <1>3, LoseProperties DEF LoseConnection, NoTerminal
  <1>4. CASE /\ cache'[a].request = cache[a].request
             /\ Handle /\ uplink # <<>> /\ uplink' = Tail(uplink)
    <2>1. /\ DOMAIN uplink = 1 .. Len(uplink) /\ Len(uplink) \in Nat \ {0}
          /\ DOMAIN uplink' = 1 .. Len(uplink) - 1
          /\ \A k \in DOMAIN uplink' : uplink'[k] = uplink[k + 1]
          /\ \A k \in DOMAIN uplink : k # 1 => k - 1 \in DOMAIN uplink' /\ uplink'[k - 1] = uplink[k]
      BY <1>4, UplinkTail
    <2>2. i + 1 \in DOMAIN uplink /\ uplink'[i] = uplink[i + 1] /\ i \in Nat
      BY <2>1
    <2>3. ASSUME NEW j \in DOMAIN uplink, j > i + 1 PROVE ~Asks(uplink[j], a)
      <3>1. j # 1 /\ j - 1 > i
        BY <2>1, <2>2, <2>3
      <3> QED
        BY <2>1, <3>1
    <2> QED
      BY <1>4, <2>2, <2>3 DEF LastAsked
  <1>5. CASE /\ cache'[a].request = cache[a].request
             /\ \E q \in Request : Send(q) /\ ~Asks(q, a)
    <2>1. PICK q \in Request : Send(q) /\ ~Asks(q, a)
      BY <1>5
    <2>2. /\ Len(uplink) \in Nat /\ DOMAIN uplink' = 1 .. Len(uplink) + 1
          /\ uplink'[Len(uplink) + 1] = q /\ DOMAIN uplink = 1 .. Len(uplink)
          /\ \A k \in DOMAIN uplink : uplink'[k] = uplink[k]
      BY <2>1, SendProperties
    <2>3. i \in DOMAIN uplink
      BY <2>1, <2>2
    <2>4. ASSUME NEW j \in DOMAIN uplink, j > i PROVE ~Asks(uplink[j], a)
      BY <2>2, <2>4
    <2> QED
      BY <1>5, <2>2, <2>3, <2>4 DEF LastAsked
  <1> QED
    BY <1>1, <1>2, <1>3, <1>4, <1>5, StepRequests DEF RequestStep

\* A resize and an attachment send complete frames and answers.
LEMMA RedrawNews ==
  ASSUME TypeOK, HandleResize \/ Attach PROVE outbox' \in Seq(Full \cup Control)
PROOF
  <1> DEFINE Frames(order, shown) == [k \in DOMAIN order |-> FullFrame(order[k], shown)]
             News == Full \cup Control
  <1>1. PICK shown \in Resized, order \in Enumerations(agents) :
           \/ outbox' = <<ControlMessage>> \o Frames(order, shown)
           \/ outbox' = <<ControlMessage, ControlMessage>> \o Frames(order, shown) \o <<ControlMessage>>
    <2>1. CASE Attach
      BY <2>1 DEF Attach
    <2>2. CASE HandleResize
      BY <2>2 DEF HandleResize
    <2> QED
      BY <2>1, <2>2
  <1>2. IsFiniteSet(agents) /\ agents \subseteq Nat /\ agents \subseteq Agent
    BY AgentsAreFinite DEF TypeOK
  <1>3. order \in Seq(agents) /\ \A k \in DOMAIN order : order[k] \in agents
    BY <1>2, EnumerationProperties
  <1>4. shown \in [Agent -> Screens]
    BY ResizedScreens
  <1>5. Frames(order, shown) \in Seq(News)
    <2>1. \A k \in DOMAIN order : FullFrame(order[k], shown) \in News
      BY <1>2, <1>3, <1>4, FullIsMessage
    <2> QED
      BY <1>3, <2>1
  <1>6. <<ControlMessage>> \in Seq(News) /\ <<ControlMessage, ControlMessage>> \in Seq(News)
    BY DEF ControlMessage, Control
  <1> HIDE DEF Frames, News
  <1>7. <<ControlMessage>> \o Frames(order, shown) \in Seq(News)
    BY <1>5, <1>6, ConcatProperties
  <1>8. <<ControlMessage, ControlMessage>> \o Frames(order, shown) \in Seq(News)
    BY <1>5, <1>6, ConcatProperties
  <1>9. <<ControlMessage, ControlMessage>> \o Frames(order, shown) \o <<ControlMessage>> \in Seq(News)
    BY <1>6, <1>8, ConcatProperties
  <1> QED
    BY <1>1, <1>7, <1>9 DEF News

\* A poll tells of the agents that were quit, and sends frames.
LEMMA PollNews ==
  ASSUME TypeOK, NEW quit \in SUBSET agents, Poll(quit)
  PROVE  outbox' \in Seq(Full \cup Diff \cup [type : {"removed"}, agent : quit] \cup Control)
PROOF
  <1>1. dirty \subseteq Agent /\ quit \subseteq Agent
    BY DEF TypeOK
  <1>2. PICK order \in Enumerations(dirty \ quit), gone \in Enumerations(quit) :
           outbox' = IF connected
                     THEN [k \in DOMAIN order |-> ControlMessage]
                            \o [k \in DOMAIN gone |-> [type |-> "removed", agent |-> gone[k]]]
                            \o [k \in DOMAIN order |-> TerminalEvent(order[k])]
                     ELSE <<>>
    BY DEF Poll
  <1>3. order \in Seq(Agent) /\ gone \in Seq(quit)
    <2>1. IsFiniteSet(dirty \ quit) /\ dirty \ quit \subseteq Nat /\ IsFiniteSet(quit) /\ quit \subseteq Nat
      BY <1>1, AgentsAreFinite
    <2>2. order \in Seq(dirty \ quit) /\ gone \in Seq(quit)
      BY <2>1, EnumerationProperties
    <2> QED
      BY <1>1, <2>2
  <1> DEFINE News == Full \cup Diff \cup [type : {"removed"}, agent : quit] \cup Control
  <1>4. [k \in DOMAIN order |-> ControlMessage] \in Seq(News)
    <2>1. ControlMessage \in News
      BY DEF ControlMessage, Control
    <2> QED
      BY <1>3, <2>1
  <1>5. [k \in DOMAIN gone |-> [type |-> "removed", agent |-> gone[k]]] \in Seq(News)
    <2>1. \A k \in DOMAIN gone : [type |-> "removed", agent |-> gone[k]] \in News
      BY <1>3
    <2> QED
      BY <1>3, <2>1
  <1>6. [k \in DOMAIN order |-> TerminalEvent(order[k])] \in Seq(News)
    <2>1. \A k \in DOMAIN order : TerminalEvent(order[k]) \in News
      BY <1>3, TerminalEventIsMessage
    <2> QED
      BY <1>3, <2>1
  <1> HIDE DEF News
  <1> DEFINE c == [k \in DOMAIN order |-> ControlMessage]
             g == [k \in DOMAIN gone |-> [type |-> "removed", agent |-> gone[k]]]
             f == [k \in DOMAIN order |-> TerminalEvent(order[k])]
  <1>7. c \in Seq(News) /\ g \in Seq(News) /\ f \in Seq(News)
    BY <1>4, <1>5, <1>6
  <1>8. outbox' = (c \o g) \o f \/ outbox' = <<>>
    BY <1>2
  <1> HIDE DEF c, g, f
  <1>9. c \o g \in Seq(News)
    BY <1>7, ConcatProperties
  <1>10. (c \o g) \o f \in Seq(News)
    BY <1>7, <1>9, ConcatProperties
  <1>11. <<>> \in Seq(News)
    OBVIOUS
  <1> QED
    BY <1>8, <1>10, <1>11 DEF News

\* Scrollback enters the outbox when the coordinator handles a request for it.
LEMMA NewAnswers ==
  ASSUME TypeOK, Silent, [Next]_vars, NEW a \in Agent, NEW i \in DOMAIN outbox',
         Answers(outbox'[i], a)
  PROVE  \/ ~Handle /\ \E k \in DOMAIN outbox : outbox[k] = outbox'[i]
         \/ /\ HandleViewport /\ uplink # <<>> /\ uplink' = Tail(uplink) /\ UNCHANGED cache
            /\ Asks(Head(uplink), a) /\ outbox'[i].requested = Head(uplink).scrollback
PROOF
  <1>0. outbox'[i].type = "viewport" /\ outbox'[i].agent = a
    BY DEF Answers
  <1>1. CASE HandleViewport
    <2> DEFINE r == Head(uplink)
    <2>1. uplink # <<>> /\ uplink' = Tail(uplink) /\ UNCHANGED cache /\ r.type = "viewport"
      BY <1>1 DEF HandleViewport, Handling, clientVars
    <2>2. CASE r.agent \in agents
      <3>1. PICK shown \in 0 .. r.scrollback :
              outbox' = <<ControlMessage,
                          [type |-> "viewport", agent |-> r.agent,
                           requested |-> r.scrollback, scrollback |-> shown]>>
        BY <1>1, <2>2 DEF HandleViewport
      <3>2. outbox'[i].agent = r.agent /\ outbox'[i].requested = r.scrollback
        BY <1>0, <3>1 DEF ControlMessage
      <3> QED
        BY <1>0, <1>1, <2>1, <3>2 DEF Asks
    <2>3. CASE r.agent \notin agents
      <3>1. outbox' = <<ControlMessage>>
        BY <1>1, <2>3 DEF HandleViewport
      <3> QED
        BY <1>0, <3>1 DEF ControlMessage
    <2> QED
      BY <2>2, <2>3
  <1>2. ASSUME HandleAck \/ HandleResync \/ HandleSpawn \/ HandleClose PROVE FALSE
    BY <1>0, <1>2 DEF HandleAck, HandleResync, HandleSpawn, HandleClose, ControlMessage, FullFrame
  <1>3. ASSUME HandleResize \/ Attach PROVE FALSE
    <2>1. outbox' \in Seq(Full \cup Control)
      BY <1>3, RedrawNews
    <2>2. outbox'[i] \in Full \cup Control
      BY <2>1, ElementOfSeq, LenProperties
    <2> QED
      BY <1>0, <2>2 DEF Full, Control
  <1>4. ASSUME NEW quit \in SUBSET agents, Poll(quit) PROVE FALSE
    <2>1. outbox' \in Seq(Full \cup Diff \cup [type : {"removed"}, agent : quit] \cup Control)
      BY <1>4, PollNews
    <2>2. outbox'[i] \in Full \cup Diff \cup [type : {"removed"}, agent : quit] \cup Control
      BY <2>1, ElementOfSeq, LenProperties
    <2> QED
      BY <1>0, <2>2 DEF Full, Diff, Control
  <1>5. CASE Handle
    BY <1>1, <1>2, <1>3, <1>5 DEF Handle
  <1>6. CASE ~Handle
    <2>1. ~Serve
      BY <1>3, <1>4, <1>6 DEF Serve
    <2>2. \A b : outbox'[i] # FullFrame(b, screen)
      BY <1>0 DEF FullFrame
    <2>3. \E k \in DOMAIN outbox : outbox'[i] = outbox[k]
      BY <1>0, <2>1, <2>2, OutboxSteps
    <2> QED
      BY <1>6, <2>3
  <1> QED
    BY <1>5, <1>6

\* Only the coordinator takes requests from a connection that lasts.
LEMMA AskedStays ==
  ASSUME TypeOK, [Next]_vars, NEW a \in Agent, Asked(a)
  PROVE  \/ Asked(a)'
         \/ Lose
         \/ Handle /\ uplink # <<>> /\ uplink' = Tail(uplink) /\ Asks(Head(uplink), a)
PROOF
  <1>1. PICK k \in DOMAIN uplink : Asks(uplink[k], a)
    BY DEF Asked
  <1>2. uplink[k] \in Requests
    BY DEF Requests
  <1>3. ASSUME uplink[k] \in Requests' PROVE Asked(a)'
    BY <1>1, <1>3 DEF Requests, Asked
  <1>4. ASSUME Handle PROVE uplink # <<>> /\ uplink' = Tail(uplink)
    BY <1>4 DEF Handle, HandleAck, HandleResync, HandleViewport, HandleResize,
                HandleSpawn, HandleClose, Handling
  <1> QED
    BY <1>1, <1>2, <1>3, <1>4, RequestsStay

\* A request that is taken last is the outstanding one.
LEMMA TakenLast ==
  ASSUME TypeOK, LastAsked, NEW a \in Agent, cache[a].request # 0,
         uplink # <<>>, uplink' = Tail(uplink), Asks(Head(uplink), a), ~Asked(a)'
  PROVE  Head(uplink).scrollback = cache[a].request
PROOF
  <1>1. /\ Head(uplink) = uplink[1] /\ Len(uplink) \in Nat \ {0}
        /\ DOMAIN uplink = 1 .. Len(uplink)
        /\ \A k \in DOMAIN uplink : k # 1 => k - 1 \in DOMAIN uplink' /\ uplink'[k - 1] = uplink[k]
    BY UplinkTail
  <1>2. ASSUME NEW j \in DOMAIN uplink, j > 1 PROVE ~Asks(uplink[j], a)
    <2>1. j # 1
      BY <1>1, <1>2
    <2> QED
      BY <1>1, <2>1 DEF Asked
  <1>3. 1 \in DOMAIN uplink
    BY <1>1
  <1> QED
    BY <1>1, <1>2, <1>3 DEF LastAsked

LEMMA StepLastAnswered ==
  ASSUME TypeOK, Silent, LastAsked, LastAnswered, [Next]_vars PROVE LastAnswered'
PROOF
  <1> SUFFICES ASSUME NEW a \in Agent, cache'[a].request # 0, ~Asked(a)',
                      NEW i \in DOMAIN outbox', Answers(outbox'[i], a)
               PROVE  outbox'[i].requested = cache'[a].request
    BY DEF LastAnswered
  <1>1. CASE /\ HandleViewport /\ uplink # <<>> /\ uplink' = Tail(uplink) /\ UNCHANGED cache
             /\ Asks(Head(uplink), a) /\ outbox'[i].requested = Head(uplink).scrollback
    BY <1>1, TakenLast
  <1>2. CASE ~Handle /\ \E k \in DOMAIN outbox : outbox[k] = outbox'[i]
    <2>1. ~Lose
      <3> SUFFICES ASSUME Lose PROVE FALSE
        OBVIOUS
      <3>1. cache'[a] = NoTerminal
        BY LoseProperties DEF LoseConnection
      <3> QED
        BY <3>1 DEF NoTerminal
    <2>2. ~Asked(a)
      BY <1>2, <2>1, AskedStays
    <2>3. cache'[a].request = cache[a].request
      <3>1. CASE \E q \in Request : Send(q) /\ Asks(q, a) /\ q.scrollback = cache'[a].request
        <4>1. PICK q \in Request : Send(q) /\ Asks(q, a)
          BY <3>1
        <4>2. Asked(a)'
          <5>1. Len(uplink) + 1 \in DOMAIN uplink' /\ uplink'[Len(uplink) + 1] = q
            BY <4>1, SendProperties
          <5> QED
            BY <4>1, <5>1 DEF Asked
        <4> QED
          BY <4>2
      <3> QED
        BY <3>1, StepRequests DEF RequestStep
    <2> QED
      BY <1>2, <2>2, <2>3 DEF LastAnswered
  <1> QED
    BY <1>1, <1>2, NewAnswers

LEMMA StepBorn ==
  ASSUME TypeOK, Silent, Born, [Next]_vars PROVE Born'
PROOF
  <1>1. nextId \in Nat /\ agents \subseteq Agent /\ dirty \subseteq agents
    BY DEF TypeOK, Born
  <1>2. ASSUME UNCHANGED <<agents, dirty, nextId, frames>> PROVE Born'
    BY <1>2 DEF Born
  <1>3. ASSUME NEW S, NEW old, NEW shown, Issue(S, old, shown), S \subseteq agents
        PROVE  \A a \in Agent : a >= nextId => Len(frames'[a]) = 0
    <2> SUFFICES ASSUME NEW a \in Agent, a >= nextId PROVE Len(frames'[a]) = 0
      OBVIOUS
    <2>1. a \notin agents
      BY <1>1 DEF Born, Agent
    <2>2. frames'[a] = frames[a]
      BY <1>3, <2>1 DEF Issue
    <2> QED
      BY <2>2 DEF Born
  <1>4. ASSUME NEW b \in Agent, Output(b) PROVE Born'
    BY <1>4 DEF Output, Born
  <1>5. CASE Attach
    <2>1. PICK shown : Issue(agents, NoBases, shown)
      BY <1>5 DEF Attach
    <2> QED
      BY <1>3, <1>5, <2>1 DEF Attach, Born
  <1>6. CASE HandleResize
    <2>1. PICK shown : Issue(agents, NoBases, shown)
      BY <1>6 DEF HandleResize
    <2> QED
      BY <1>3, <1>6, <2>1 DEF HandleResize, Born
  <1>7. ASSUME NEW quit \in SUBSET agents, Poll(quit) PROVE Born'
    <2>1. Issue(IF connected THEN dirty \ quit ELSE {},
                [a \in Agent |-> IF a \in quit THEN NoBasis ELSE basis[a]], screen)
      BY <1>7 DEF Poll
    <2>2. (IF connected THEN dirty \ quit ELSE {}) \subseteq agents
      BY <1>1
    <2>3. \A a \in Agent : a >= nextId => Len(frames'[a]) = 0
      BY <1>3, <2>1, <2>2
    <2>4. agents' = agents \ quit /\ dirty' = {} /\ nextId' = nextId
      BY <1>7 DEF Poll
    <2> QED
      BY <1>1, <2>3, <2>4 DEF Born
  <1>8. CASE HandleResync
    <2>1. Issue({Head(uplink).agent} \cap agents, basis, screen)
      BY <1>8 DEF HandleResync
    <2> QED
      BY <1>3, <1>8, <2>1 DEF HandleResync, Born
  <1>9. CASE HandleSpawn
    <2>1. /\ agents' = agents \cup ({nextId} \cap Agent) /\ dirty' = dirty
          /\ nextId' = IF nextId \in Agent THEN nextId + 1 ELSE nextId
          /\ frames' = [a \in Agent |-> IF a \in {nextId} \cap Agent
                                        THEN Append(frames[a], screen[a]) ELSE frames[a]]
      BY <1>9 DEF HandleSpawn, Issue
    <2>2. \A a \in agents' : a < nextId'
      BY <1>1, <2>1 DEF Born, Agent
    <2>3. \A a \in Agent : a >= nextId' => Len(frames'[a]) = 0
      BY <1>1, <2>1 DEF Born, Agent
    <2> QED
      BY <1>1, <2>1, <2>2, <2>3 DEF Born
  <1>10. CASE HandleClose
    BY <1>10 DEF HandleClose, Born
  <1>11. CASE HandleAck \/ HandleViewport
    BY <1>2, <1>11 DEF HandleAck, HandleViewport, serverVars
  <1>12. CASE SendOwed
    <2>1. PICK b \in agents : Issue({b}, basis, screen)
      BY <1>12 DEF SendOwed
    <2> QED
      BY <1>3, <1>12, <2>1 DEF SendOwed, Born
  <1>13. CASE Lose
    BY <1>2, <1>13, LoseProperties DEF LoseConnection
  <1>14. CASE PushQueued \/ PushUnderPressure \/ Write \/ SpawnTimesOut \/ UNCHANGED vars
    BY <1>2, <1>14 DEF PushQueued, PushUnderPressure, Write, SpawnTimesOut, vars, serverVars
  <1>15. CASE Receive
    BY <1>2, <1>15, ReceiveType DEF Received, serverVars
  <1>16. CASE User
    BY <1>2, <1>16, UserType DEF Operated, serverVars
  <1> QED
    BY <1>4, <1>5, <1>6, <1>7, <1>8, <1>9, <1>10, <1>11, <1>12, <1>13, <1>14, <1>15, <1>16,
       StepKinds DEF Serve, Handle

\* What send_and_wait has thrown away is remembered while the connection lasts.
LEMMA DroppedGrow ==
  ASSUME TypeOK, Silent, [Next]_vars, ~Lose PROVE dropped \subseteq dropped'
PROOF
  <1>1. ASSUME NEW b \in Agent, Output(b) PROVE UNCHANGED dropped
    BY <1>1 DEF Output, clientVars
  <1>2. CASE Serve
    BY <1>2, ServeType DEF Handled, clientVars
  <1>3. CASE PushQueued \/ PushUnderPressure \/ SendOwed \/ Write \/ SpawnTimesOut \/ UNCHANGED vars
    BY <1>3 DEF PushQueued, PushUnderPressure, SendOwed, Write, SpawnTimesOut, vars, clientVars
  <1>4. CASE Receive
    BY <1>4 DEF Receive, ReceiveFull, ReceiveNextDiff, ReceiveDuplicateDiff, ReceiveDiffWithGap,
                ReceiveViewport, ReceiveRemoved, ReceiveControl, ReceiveWhileWaiting, Receiving
  <1>5. CASE User
    BY <1>5, UserType DEF Operated
  <1> QED
    BY <1>1, <1>2, <1>3, <1>4, <1>5, StepKinds

\* A new agent is new to the client, and its first frame is on its way.
LEMMA NewAgentsAreShown ==
  ASSUME ContentInv, Born, [Next]_vars, NEW a \in agents' \ agents, a \in Agent
  PROVE  NewFullComing(a)'
PROOF
  <1>1. TypeOK /\ Silent
    BY DEF ContentInv
  <1>2. HandleSpawn
    <2>1. ASSUME agents' \subseteq agents PROVE FALSE
      BY <2>1
    <2>2. ASSUME NEW b \in Agent, Output(b) PROVE FALSE
      BY <2>1, <2>2 DEF Output
    <2>3. CASE Attach \/ HandleAck \/ HandleResync \/ HandleViewport \/ HandleResize \/ HandleClose
      BY <2>1, <2>3 DEF Attach, HandleAck, HandleResync, HandleViewport, HandleResize, HandleClose,
                        serverVars
    <2>4. ASSUME NEW quit \in SUBSET agents, Poll(quit) PROVE FALSE
      BY <2>1, <2>4 DEF Poll
    <2>5. CASE Lose
      BY <2>1, <2>5, LoseProperties DEF LoseConnection
    <2>6. CASE PushQueued \/ PushUnderPressure \/ SendOwed \/ Write \/ SpawnTimesOut \/ UNCHANGED vars
      BY <2>1, <2>6 DEF PushQueued, PushUnderPressure, SendOwed, Write, SpawnTimesOut, vars, serverVars
    <2>7. CASE Receive
      BY <1>1, <2>1, <2>7, ReceiveType DEF Received, serverVars
    <2>8. CASE User
      BY <1>1, <2>1, <2>8, UserType DEF Operated, serverVars
    <2> QED
      BY <2>2, <2>3, <2>4, <2>5, <2>6, <2>7, <2>8, StepKinds DEF Serve, Handle
  <1>3. /\ a = nextId
        /\ outbox' = <<[type |-> "spawned"], ControlMessage, FullFrame(a, screen)>>
        /\ UNCHANGED cache
    BY <1>2 DEF HandleSpawn, Handling, clientVars
  <1>4. FullFrame(a, screen) \in Downlink'
    <2>1. 3 \in DOMAIN outbox' /\ outbox'[3] = FullFrame(a, screen)
      BY <1>3
    <2> QED
      BY <2>1 DEF Downlink
  <1>5. FullFrame(a, screen).sequence > cache'[a].sequence
    BY <1>3, NumbersAreKnown DEF FullFrame, Sequence
  <1> QED
    BY <1>4, <1>5 DEF NewFullComing, FullFrame

\* An envelope on its way is only taken by the client, by pressure or with the
\* connection, and a promise when it is kept.
LEMMA EnvelopesStay ==
  ASSUME TypeOK, Silent, [Next]_vars, NEW m \in Downlink
  PROVE  \/ m \in Downlink'
         \/ Lose \/ PushUnderPressure \/ Receive
         \/ SendOwed /\ m = Head(outbox) /\ m.type = "owed"
PROOF
  <1>1. ASSUME UNCHANGED <<outbox, queue, wire>> PROVE m \in Downlink'
    BY <1>1 DEF Downlink
  <1>2. ASSUME NEW b \in Agent, Output(b) PROVE m \in Downlink'
    BY <1>1, <1>2 DEF Output, linkVars
  <1>3. CASE Serve
    <2>1. Handled
      BY <1>3, ServeType
    <2> QED
      BY <2>1 DEF Handled, Downlink
  <1>4. CASE PushQueued \/ Write
    BY <1>4, PassedOn
  <1>5. CASE SendOwed
    <2>1. PICK b \in agents :
            /\ outbox # <<>> /\ Head(outbox) = [type |-> "owed", agent |-> b]
            /\ outbox' = <<FullFrame(b, screen)>> \o Tail(outbox)
            /\ UNCHANGED <<queue, wire>>
      BY <1>5 DEF SendOwed
    <2>2. FullFrame(b, screen) \in Item
      BY <2>1, FullIsMessage, Messages DEF TypeOK, Screens
    <2>3. /\ DOMAIN outbox' = DOMAIN outbox /\ outbox[1] = Head(outbox)
          /\ \A i \in DOMAIN outbox : outbox'[i] = IF i = 1 THEN FullFrame(b, screen) ELSE outbox[i]
      BY <2>1, <2>2, InsteadOfTheHead, OutboxProperties
    <2>4. m = Head(outbox) => m.type = "owed"
      BY <2>1
    <2> QED
      BY <1>5, <2>1, <2>3, <2>4 DEF Downlink
  <1>6. CASE SpawnTimesOut \/ UNCHANGED vars
    BY <1>1, <1>6 DEF SpawnTimesOut, vars, linkVars
  <1>7. CASE User
    BY <1>1, <1>7, UserType DEF Operated
  <1> QED
    BY <1>2, <1>3, <1>4, <1>5, <1>6, <1>7, StepKinds

LEMMA StepAnswersCome ==
  ASSUME ScrollInv, [Next]_vars PROVE AnswersCome'
PROOF
  <1>1. OrderInv /\ ContentInv /\ TypeOK /\ Silent /\ LastAsked /\ LastAnswered /\ Born /\ AnswersCome
    BY DEF ScrollInv, OrderInv, ContentInv
  <1> SUFFICES ASSUME NEW a \in agents', a \notin dropped', cache'[a].request # 0
               PROVE  ScrollComing(a)'
    BY DEF AnswersCome
  <1>2. TypeOK' /\ a \in Agent
    <2>1. TypeOK'
      BY <1>1, StepType
    <2> QED
      BY <2>1 DEF TypeOK
  <1>3. ~Lose
    <2> SUFFICES ASSUME Lose PROVE FALSE
      OBVIOUS
    <2>1. cache'[a] = NoTerminal
      BY <1>2, LoseProperties DEF LoseConnection
    <2> QED
      BY <2>1 DEF NoTerminal
  <1>4. a \notin dropped
    BY <1>1, <1>2, <1>3, DroppedGrow
  <1>5. CASE a \notin agents
    BY <1>1, <1>2, <1>5, NewAgentsAreShown DEF ScrollComing
  <1>6. CASE Asked(a)'
    BY <1>6 DEF ScrollComing
  <1>7. CASE a \in agents /\ ~Asked(a)'
    <2>1. cache'[a].request = cache[a].request
      <3>1. ASSUME NEW q \in Request, Send(q), Asks(q, a) PROVE FALSE
        <4>1. Len(uplink) + 1 \in DOMAIN uplink' /\ uplink'[Len(uplink) + 1] = q
          BY <1>1, <3>1, SendProperties
        <4> QED
          BY <1>7, <3>1, <4>1 DEF Asked
      <3> QED
        BY <1>1, <1>2, <3>1, StepRequests DEF RequestStep
    <2>2. ScrollComing(a)
      BY <1>1, <1>4, <1>7, <2>1 DEF AnswersCome
    <2>3. CASE Asked(a)
      <3>1. Handle /\ uplink # <<>> /\ uplink' = Tail(uplink) /\ Asks(Head(uplink), a)
        BY <1>1, <1>2, <1>3, <1>7, <2>3, AskedStays
      <3>2. Head(uplink).scrollback = cache[a].request
        BY <1>1, <1>2, <1>7, <2>1, <3>1, TakenLast
      <3>3. HandleViewport
        BY <3>1 DEF Asks, Handle, HandleAck, HandleResync, HandleResize, HandleSpawn, HandleClose, Handling
      <3>4. PICK shown \in 0 .. Head(uplink).scrollback :
              outbox' = <<ControlMessage,
                          [type |-> "viewport", agent |-> a,
                           requested |-> Head(uplink).scrollback, scrollback |-> shown]>>
        BY <1>7, <3>1, <3>3 DEF HandleViewport, Asks
      <3>5. 2 \in DOMAIN outbox' /\ Answers(outbox'[2], a) /\ outbox'[2].requested = cache'[a].request
        BY <2>1, <3>2, <3>4 DEF Answers
      <3>6. outbox'[2] \in Downlink'
        BY <3>5 DEF Downlink
      <3> QED
        BY <3>5, <3>6 DEF ScrollComing
    <2>4. ASSUME ~Asked(a), PushUnderPressure, outbox # <<>>,
                 Answers(Head(outbox), a), Head(outbox) \in Downlink'
          PROVE  ScrollComing(a)'
      <3>1. Head(outbox) = outbox[1] /\ 1 \in DOMAIN outbox
        BY <1>1, <2>4, OutboxProperties
      <3>2. Head(outbox).requested = cache[a].request
        BY <1>1, <1>2, <1>7, <2>1, <2>4, <3>1 DEF LastAnswered
      <3> QED
        BY <2>1, <2>4, <3>2 DEF ScrollComing
    <2>5. CASE ~Asked(a) /\ NewFullComing(a)
      <3>1. CASE NewFullComing(a)'
        BY <3>1 DEF ScrollComing
      <3>2. CASE ReceiveFull /\ Picture(Head(wire), a) /\ Newer(Head(wire))
        <4>1. cache'[a] = Renewed(Head(wire))
          BY <1>1, <1>2, <3>2 DEF ReceiveFull, Picture, TypeOK
        <4> QED
          BY <4>1 DEF Renewed, NoTerminal
      <3>3. CASE ReceiveWhileWaiting /\ IsFrame(Head(wire)) /\ Head(wire).agent = a
        BY <1>2, <3>3 DEF ReceiveWhileWaiting
      <3>4. CASE /\ PushUnderPressure /\ outbox # <<>>
                 /\ Head(outbox).type = "viewport" /\ Head(outbox).agent = a
                 /\ Head(outbox) \in Downlink'
        BY <2>4, <2>5, <3>4 DEF Answers
      <3> QED
        BY <1>1, <1>3, <1>7, <2>5, <3>1, <3>2, <3>3, <3>4, NewFullStays
    <2>6. ASSUME ~Asked(a), NEW m \in Downlink, Answers(m, a), m.requested = cache[a].request
          PROVE  ScrollComing(a)'
      <3>1. CASE m \in Downlink'
        BY <2>1, <2>6, <3>1 DEF ScrollComing
      <3>2. ASSUME m \notin Downlink', PushUnderPressure PROVE ScrollComing(a)'
        <4>1. m.type = "viewport" /\ m.agent = a
          BY <2>6 DEF Answers
        <4>2. CASE NewFullComing(a)'
          BY <4>2 DEF ScrollComing
        <4>3. CASE /\ outbox # <<>> /\ Head(outbox).type = "viewport" /\ Head(outbox).agent = a
                   /\ Head(outbox) \in Downlink'
          BY <2>4, <2>6, <3>2, <4>3 DEF Answers
        <4> QED
          BY <1>1, <1>2, <3>2, <4>1, <4>2, <4>3, GivenUpIsOwed
      <3>3. ASSUME m \notin Downlink', Receive PROVE FALSE
        <4>1. m = Head(wire) /\ m.type = "viewport" /\ m.agent = a
          BY <1>1, <2>6, <3>3, ReceiveType, TakenOff DEF Answers
        <4>2. CASE ReceiveWhileWaiting
          BY <1>2, <4>1, <4>2 DEF ReceiveWhileWaiting, IsFrame
        <4>3. CASE ReceiveViewport
          <5> DEFINE t == cache[a]
                     again == t.target # 0 /\ t.target # m.requested
                     new == [t EXCEPT !.request = IF again THEN t.target ELSE 0,
                                      !.view = IF t.target = m.requested THEN m.scrollback ELSE @,
                                      !.target = IF t.target = m.requested THEN m.scrollback ELSE @]
          <5>1. t.request # 0 /\ t.request = m.requested
            BY <2>1, <2>6
          <5>2. cache' = [cache EXCEPT ![a] = new]
            BY <4>1, <4>3, <5>1 DEF ReceiveViewport
          <5>3. t \in Terminal /\ cache'[a] = new
            BY <1>1, <1>2, <5>2 DEF TypeOK
          <5>4. new.request = IF again THEN t.target ELSE 0
            BY <5>3 DEF Terminal
          <5> QED
            BY <2>1, <5>1, <5>3, <5>4
        <4> QED
          BY <3>3, <4>1, <4>2, <4>3
             DEF Receive, ReceiveFull, ReceiveNextDiff, ReceiveDuplicateDiff, ReceiveDiffWithGap,
                 ReceiveRemoved, ReceiveControl, Receiving
      <3>4. ASSUME m \notin Downlink' PROVE PushUnderPressure \/ Receive
        BY <1>1, <1>3, <2>6, <3>4, EnvelopesStay DEF Answers
      <3> QED
        BY <3>1, <3>2, <3>3, <3>4
    <2> QED
      BY <2>2, <2>3, <2>5, <2>6 DEF ScrollComing
  <1> QED
    BY <1>5, <1>6, <1>7

LEMMA StepScroll ==
  ASSUME ScrollInv, [Next]_vars PROVE ScrollInv'
PROOF
  <1>1. OrderInv /\ TypeOK /\ Silent /\ LastAsked /\ LastAnswered /\ Born
    BY DEF ScrollInv, OrderInv, ContentInv
  <1>2. OrderInv'
    BY <1>1, StepOrder
  <1>3. Born' /\ LastAsked' /\ LastAnswered'
    BY <1>1, StepBorn, StepLastAsked, StepLastAnswered
  <1>4. AnswersCome'
    BY StepAnswersCome
  <1> QED
    BY <1>2, <1>3, <1>4 DEF ScrollInv

LEMMA InitScroll == Init => ScrollInv
PROOF
  <1> SUFFICES ASSUME Init PROVE ScrollInv
    OBVIOUS
  <1>1. OrderInv
    BY InitOrder
  <1>2. Born
    BY FrameSyncAssumption DEF Init, Born, Agent
  <1>3. \A a \in Agent : cache[a].request = 0
    BY DEF Init, NoTerminal
  <1>4. agents \subseteq Agent
    BY <1>1 DEF OrderInv, ContentInv, TypeOK
  <1> QED
    BY <1>1, <1>2, <1>3, <1>4 DEF ScrollInv, LastAsked, LastAnswered, AnswersCome

LEMMA FramesScroll == Spec => []ScrollInv
PROOF
  <1>1. ScrollInv /\ [Next]_vars => ScrollInv'
    BY StepScroll
  <1> QED
    BY <1>1, InitScroll, PTL DEF Spec

\* A client that waits for scrollback is never left waiting: the request, the answer or
\* a complete frame is on its way, whatever the outgoing queue had to give up for it
\* (scroll, apply_viewport, push).
THEOREM ScrollbackIsAnswered == Spec => []ScrollIsAnswered
PROOF
  <1>1. ScrollInv => ScrollIsAnswered
    <2> SUFFICES ASSUME ScrollInv, NEW a \in agents \ dropped, cache[a].request # 0
                 PROVE  \/ FullComing(a)
                        \/ \E m \in Downlink : m.type = "viewport" /\ m.agent = a
                        \/ \E r \in Requests : r.type = "viewport" /\ r.agent = a
      BY DEF ScrollIsAnswered
    <2>1. ScrollComing(a)
      BY DEF ScrollInv, AnswersCome
    <2>2. NewFullComing(a) => FullComing(a)
      BY DEF NewFullComing, FullComing
    <2>3. Asked(a) => \E r \in Requests : r.type = "viewport" /\ r.agent = a
      BY DEF Asked, Asks, Requests
    <2> QED
      BY <2>1, <2>2, <2>3 DEF ScrollComing, Answers
  <1> QED
    BY <1>1, FramesScroll, PTL

-----------------------------------------------------------------------------
\* What is lost is repaired, as long as nobody scrolls or spawns

\* Frame n of agent a and all after it show what its terminal shows.
Current(a, n) ==
  n \in DOMAIN frames[a] /\ \A k \in n .. Len(frames[a]) : frames[a][k] = screen[a]

\* No scrollback is asked for or sent, and nobody waits for a spawn.
Undisturbed ==
  /\ ~waiting
  /\ \A m \in Downlink : m.type # "viewport"
  /\ \A r \in Requests : r.type \notin {"viewport", "spawn"}

\* Agents that are waited for exist or have existed, and so do those the client is
\* told to forget.
Known ==
  /\ \A a \in pending : a < nextId
  /\ \A m \in Downlink : m.type = "removed" => m.agent < nextId /\ m.agent \notin agents

\* A pending resynchronisation ends with a newer complete frame.
PendingEnds == \A a \in pending \cap agents : NewFullComing(a)

\* An agent without news has its screen as its last frame, and so have the frames
\* that are still to be pushed.
NewsIsSent ==
  /\ \A a \in agents \ dirty : connected =>
       Len(frames[a]) # 0 /\ frames[a][Len(frames[a])] = screen[a]
  /\ \A i \in DOMAIN outbox :
       IsPicture(outbox[i]) /\ outbox[i].agent \in agents \ dirty =>
         Current(outbox[i].agent, outbox[i].sequence)

\* The client shows the screen of agent a, or what leads to it is on its way.
Repairs(a) ==
  \/ Current(a, cache[a].sequence)
  \/ \E m \in Downlink : m.type = "owed" /\ m.agent = a
  \/ \E r \in Requests : r.type = "resync" /\ r.agent = a
  \/ \E m \in Downlink : m.type = "full" /\ m.agent = a /\ Current(a, m.sequence)
  \/ \E m \in Downlink : m.type = "diff" /\ m.agent = a /\ m.sequence = Len(frames[a])
Repaired == \A a \in agents \ dirty : connected => Repairs(a)

RepairInv ==
  OrderInv /\ Born /\ Undisturbed /\ Known /\ PendingEnds /\ NewsIsSent /\ Repaired

\* A frame of what agent a shows has just been numbered and is on its way.
Redrawn(a) ==
  /\ frames'[a] = Append(frames[a], screen'[a])
  /\ \E m \in Downlink' : Picture(m, a) /\ m.sequence = Len(frames[a]) + 1

\* Item m is somewhere in sequence s.
Occurs(m, s) == \E k \in DOMAIN s : s[k] = m

LEMMA InTheMiddle ==
  \A p, s, q \in Seq(Message) : \A i \in DOMAIN s :
    Occurs(s[i], (p \o s) \o q)
PROOF
  <1> DEFINE T == Message
  <1> SUFFICES ASSUME NEW p \in Seq(T), NEW s \in Seq(T), NEW q \in Seq(T), NEW i \in DOMAIN s
               PROVE  \E k \in DOMAIN ((p \o s) \o q) : ((p \o s) \o q)[k] = s[i]
    BY DEF Occurs
  <1> HIDE DEF T
  <1>1. /\ Len(p) \in Nat /\ Len(s) \in Nat /\ Len(q) \in Nat /\ i \in 1 .. Len(s)
        /\ p \o s \in Seq(T) /\ Len(p \o s) = Len(p) + Len(s)
        /\ (p \o s) \o q \in Seq(T) /\ Len((p \o s) \o q) = Len(p \o s) + Len(q)
    BY ConcatProperties, LenProperties
  <1>2. (p \o s)[Len(p) + i] = s[i]
    <2>1. /\ Len(p) + i \in 1 .. Len(p) + Len(s) /\ ~(Len(p) + i <= Len(p))
          /\ (Len(p) + i) - Len(p) = i
      BY <1>1
    <2> QED
      BY <2>1, ConcatProperties
  <1>3. ((p \o s) \o q)[Len(p) + i] = (p \o s)[Len(p) + i]
    <2>1. Len(p) + i \in 1 .. Len(p \o s) + Len(q) /\ Len(p) + i <= Len(p \o s)
      BY <1>1
    <2> QED
      BY <1>1, <2>1, ConcatProperties
  <1>4. Len(p) + i \in DOMAIN ((p \o s) \o q)
    BY <1>1, LenProperties
  <1> QED
    BY <1>2, <1>3, <1>4

\* Attachments and resizes redraw every agent.
LEMMA AllRedrawn ==
  ASSUME TypeOK, Silent, Attach \/ HandleResize, NEW a \in agents
  PROVE  Redrawn(a) /\ outbox = <<>> /\ UNCHANGED <<agents, dirty>>
PROOF
  <1>1. outbox = <<>> /\ UNCHANGED <<agents, dirty>>
    BY DEF Attach, HandleResize, Handling, Silent
  <1>2. PICK shown \in Resized, order \in Enumerations(agents) :
          /\ screen' = shown /\ Issue(agents, NoBases, shown)
          /\ \/ outbox' = (<<ControlMessage, ControlMessage>>
                             \o [i \in DOMAIN order |-> FullFrame(order[i], shown)])
                             \o <<ControlMessage>>
             \/ outbox' = <<ControlMessage>> \o [i \in DOMAIN order |-> FullFrame(order[i], shown)]
    <2>1. CASE Attach
      BY <2>1 DEF Attach
    <2>2. CASE HandleResize
      BY <2>2 DEF HandleResize
    <2> QED
      BY <2>1, <2>2
  <1> DEFINE s == [i \in DOMAIN order |-> FullFrame(order[i], shown)]
  <1>3. /\ shown \in [Agent -> Screens] /\ NoBases \in [Agent -> Basis]
        /\ agents \subseteq Agent /\ a \in Agent
    BY ResizedScreens, Cleared DEF TypeOK
  <1>4. Batch(s) /\ \E i \in DOMAIN s : s[i] = FullFrame(a, shown)
    BY <1>2, <1>3, FullBatch
  <1>5. frames'[a] = Append(frames[a], screen'[a])
    BY <1>2, <1>3 DEF Issue
  <1>6. \E k \in DOMAIN outbox' : outbox'[k] = FullFrame(a, shown)
    <2> DEFINE two == <<ControlMessage, ControlMessage>>
               one == <<ControlMessage>>
               none == <<>>
    <2>1. one \in Seq(Message) /\ two \in Seq(Message) /\ none \in Seq(Message)
      BY DEF ControlMessage, Message, Control
    <2>2. s \in Seq(Message)
      BY <1>4 DEF Batch
    <2>3. PICK i \in DOMAIN s : s[i] = FullFrame(a, shown)
      BY <1>4
    <2>4. outbox' = (two \o s) \o one \/ outbox' = one \o s
      BY <1>2
    <2> HIDE DEF s, two, one, none
    <2>5. (one \o s) \o none = one \o s
      <3>1. one \o s \in Seq(Message)
        BY <2>1, <2>2, ConcatProperties
      <3> QED
        BY <3>1, ConcatEmptySeq DEF none
    <2>6. outbox' = (two \o s) \o one \/ outbox' = (one \o s) \o none
      BY <2>4, <2>5
    <2>7. Occurs(s[i], (two \o s) \o one) /\ Occurs(s[i], (one \o s) \o none)
      BY <2>1, <2>2, InTheMiddle, Zenon
    <2>8. Occurs(FullFrame(a, shown), outbox')
      BY <2>3, <2>6, <2>7
    <2> QED
      BY <2>8 DEF Occurs
  <1>7. FullFrame(a, shown) \in Downlink'
    BY <1>6 DEF Downlink
  <1>8. Picture(FullFrame(a, shown), a) /\ FullFrame(a, shown).sequence = Len(frames[a]) + 1
    BY DEF Picture, IsPicture, FullFrame, Sequence
  <1> QED
    BY <1>1, <1>5, <1>7, <1>8 DEF Redrawn

\* A poll sends what has changed.
LEMMA PolledRedrawn ==
  ASSUME TypeOK, NEW quit \in SUBSET agents, Poll(quit), connected, NEW a \in dirty \ quit
  PROVE  Redrawn(a)
PROOF
  <1> DEFINE shown == dirty \ quit
             old == [b \in Agent |-> IF b \in quit THEN NoBasis ELSE basis[b]]
  <1>1. PICK order \in Enumerations(shown), gone \in Enumerations(quit) :
          outbox' = [i \in DOMAIN order |-> ControlMessage]
                      \o [i \in DOMAIN gone |-> [type |-> "removed", agent |-> gone[i]]]
                      \o [i \in DOMAIN order |-> TerminalEvent(order[i])]
    BY DEF Poll
  <1>2. Issue(shown, old, screen) /\ UNCHANGED screen
    BY DEF Poll
  <1>3. /\ shown \subseteq Agent /\ quit \subseteq Agent /\ a \in Agent /\ a \in shown
        /\ old \in [Agent -> Basis] /\ screen \in [Agent -> Screens]
    BY Cleared DEF TypeOK, Screens
  <1> DEFINE s == [i \in DOMAIN order |-> TerminalEvent(order[i])]
             c == [i \in DOMAIN order |-> ControlMessage]
             g == [i \in DOMAIN gone |-> [type |-> "removed", agent |-> gone[i]]]
             none == <<>>
  <1>4. Batch(s) /\ \E i \in DOMAIN s : s[i] = TerminalEvent(a)
    <2> HIDE DEF shown, old
    <2>1. s = [i \in DOMAIN order |-> TerminalEvent(order[i])] /\ order \in Enumerations(shown)
      OBVIOUS
    <2> HIDE DEF s
    <2> QED
      BY <1>2, <1>3, <2>1, PollBatch
  <1>5. Quiet(c) /\ Quiet(g)
    BY <1>3, QuietSequences
  <1>6. frames'[a] = Append(frames[a], screen'[a])
    BY <1>2, <1>3 DEF Issue
  <1>7. TerminalEvent(a) \in Downlink'
    <2>1. outbox' = (c \o g) \o s
      BY <1>1
    <2>2. s \in Seq(Message) /\ c \in Seq(Message) /\ g \in Seq(Message) /\ none \in Seq(Message)
      BY <1>4, <1>5 DEF Batch, Quiet
    <2>3. PICK i \in DOMAIN s : s[i] = TerminalEvent(a)
      BY <1>4
    <2> HIDE DEF s, c, g, none
    <2>4. c \o g \in Seq(Message) /\ (c \o g) \o s \in Seq(Message)
      BY <2>2, ConcatProperties
    <2>5. ((c \o g) \o s) \o none = (c \o g) \o s
      BY <2>4, ConcatEmptySeq DEF none
    <2>6. outbox' = ((c \o g) \o s) \o none
      BY <2>1, <2>5
    <2>7. \E k \in DOMAIN outbox' : outbox'[k] = TerminalEvent(a)
      <3>1. Occurs(s[i], ((c \o g) \o s) \o none)
        BY <2>2, <2>4, InTheMiddle, Zenon
      <3>2. Occurs(TerminalEvent(a), outbox')
        BY <2>3, <2>6, <3>1
      <3> QED
        BY <3>2 DEF Occurs
    <2> QED
      BY <2>7 DEF Downlink
  <1>8. Picture(TerminalEvent(a), a) /\ TerminalEvent(a).sequence = Len(frames[a]) + 1
    BY DEF Picture, IsPicture, TerminalEvent, FullFrame, DiffFrame, Sequence
  <1> QED
    BY <1>6, <1>7, <1>8 DEF Redrawn

\* So do a resynchronisation and a promise that is kept.
LEMMA ResyncRedrawn ==
  ASSUME TypeOK, HandleResync, NEW a \in agents, Head(uplink).agent = a PROVE Redrawn(a)
PROOF
  <1>1. /\ UNCHANGED screen /\ Issue({a}, basis, screen)
        /\ outbox' = <<ControlMessage, FullFrame(a, screen)>>
    <2>1. {a} \cap agents = {a}
      OBVIOUS
    <2> QED
      BY <2>1 DEF HandleResync
  <1>2. frames'[a] = Append(frames[a], screen'[a])
    BY <1>1 DEF Issue, TypeOK
  <1>3. 2 \in DOMAIN outbox' /\ outbox'[2] = FullFrame(a, screen)
    BY <1>1
  <1>4. FullFrame(a, screen) \in Downlink'
    BY <1>3 DEF Downlink
  <1> QED
    BY <1>2, <1>4 DEF Redrawn, FullFrame, Sequence, Picture, IsPicture

LEMMA OwedRedrawn ==
  ASSUME TypeOK, SendOwed, NEW a, Head(outbox) = [type |-> "owed", agent |-> a] PROVE Redrawn(a)
PROOF
  <1>1. /\ outbox # <<>> /\ outbox' = <<FullFrame(a, screen)>> \o Tail(outbox)
        /\ Issue({a}, basis, screen) /\ UNCHANGED screen /\ a \in agents
    <2>1. PICK b \in agents :
             /\ outbox # <<>> /\ Head(outbox) = [type |-> "owed", agent |-> b]
             /\ outbox' = <<FullFrame(b, screen)>> \o Tail(outbox)
             /\ Issue({b}, basis, screen) /\ UNCHANGED screen
      BY DEF SendOwed
    <2>2. b = a
      BY <2>1
    <2> QED
      BY <2>1, <2>2
  <1>2. frames'[a] = Append(frames[a], screen'[a])
    BY <1>1 DEF Issue, TypeOK
  <1>3. 1 \in DOMAIN outbox' /\ outbox'[1] = FullFrame(a, screen)
    <2>1. FullFrame(a, screen) \in Item
      BY <1>1, FullIsMessage, Messages DEF TypeOK, Screens
    <2> QED
      BY <1>1, <2>1, InsteadOfTheHead, OutboxProperties
  <1>4. FullFrame(a, screen) \in Downlink'
    BY <1>3 DEF Downlink
  <1> QED
    BY <1>2, <1>4 DEF Redrawn, FullFrame, Sequence, Picture, IsPicture

\* The screen and the frames of an agent without news are as they were, or have been
\* numbered anew in this step.
LEMMA ScreenSteps ==
  ASSUME TypeOK, Silent, Born, [Next]_vars, NEW a \in agents' \ dirty', a \in Agent, connected'
  PROVE  \/ Redrawn(a) /\ (outbox = <<>> \/ (screen'[a] = screen[a] /\ a \in agents \ dirty))
         \/ /\ frames'[a] = frames[a] /\ screen'[a] = screen[a]
            /\ a \in agents \ dirty /\ connected
PROOF
  <1>1. ASSUME UNCHANGED <<serverVars, connected>>
        PROVE  /\ frames'[a] = frames[a] /\ screen'[a] = screen[a]
               /\ a \in agents \ dirty /\ connected
    BY <1>1 DEF serverVars
  <1>2. ASSUME NEW b \in Agent, Output(b)
        PROVE  /\ frames'[a] = frames[a] /\ screen'[a] = screen[a]
               /\ a \in agents \ dirty /\ connected
    <2>1. /\ screen' = [screen EXCEPT ![b] = @ + 1] /\ dirty' = dirty \cup {b}
          /\ UNCHANGED <<agents, frames, connected>>
      BY <1>2 DEF Output, linkVars
    <2> QED
      BY <2>1 DEF TypeOK
  <1>3. CASE Attach \/ HandleResize
    <2>1. a \in agents
      BY <1>3 DEF Attach, HandleResize
    <2> QED
      BY <1>3, <2>1, AllRedrawn
  <1>4. ASSUME NEW quit \in SUBSET agents, Poll(quit)
        PROVE  \/ Redrawn(a) /\ outbox = <<>>
               \/ /\ frames'[a] = frames[a] /\ screen'[a] = screen[a]
                  /\ a \in agents \ dirty /\ connected
    <2>1. /\ outbox = <<>> /\ connected /\ a \in agents \ quit /\ UNCHANGED screen
          /\ Issue(dirty \ quit, [b \in Agent |-> IF b \in quit THEN NoBasis ELSE basis[b]], screen)
      BY <1>4 DEF Poll
    <2>2. CASE a \in dirty
      BY <1>4, <2>1, <2>2, PolledRedrawn
    <2>3. CASE a \notin dirty
      BY <2>1, <2>3 DEF Issue
    <2> QED
      BY <2>2, <2>3
  <1>5. CASE HandleAck \/ HandleViewport
    BY <1>1, <1>5 DEF HandleAck, HandleViewport, Handling, serverVars, TypeOK
  <1>6. CASE HandleResync
    <2> DEFINE b == Head(uplink).agent
    <2>1. /\ outbox = <<>> /\ UNCHANGED <<agents, screen, dirty, connected>>
          /\ Issue({b} \cap agents, basis, screen)
          /\ outbox' = IF b \in agents THEN <<ControlMessage, FullFrame(b, screen)>>
                                       ELSE <<ControlMessage>>
      BY <1>6 DEF HandleResync, Handling
    <2>2. CASE a = b
      BY <1>6, <2>1, <2>2, ResyncRedrawn
    <2>3. CASE a # b
      BY <2>1, <2>3 DEF Issue
    <2> QED
      BY <2>2, <2>3
  <1>7. CASE HandleSpawn
    <2>1. /\ outbox = <<>> /\ UNCHANGED <<screen, dirty, connected>>
          /\ agents' = agents \cup ({nextId} \cap Agent)
          /\ Issue({nextId} \cap Agent, basis, screen)
          /\ nextId \in Agent =>
               outbox' = <<[type |-> "spawned"], ControlMessage, FullFrame(nextId, screen)>>
      BY <1>7 DEF HandleSpawn, Handling
    <2>2. CASE a = nextId
      <3>1. frames'[a] = Append(frames[a], screen'[a])
        BY <2>1, <2>2 DEF Issue
      <3>2. 3 \in DOMAIN outbox' /\ outbox'[3] = FullFrame(a, screen)
        BY <2>1, <2>2
      <3>3. FullFrame(a, screen) \in Downlink'
        BY <3>2 DEF Downlink
      <3> QED
        BY <2>1, <3>1, <3>3 DEF Redrawn, FullFrame, Sequence, Picture, IsPicture
    <2>3. CASE a # nextId
      BY <2>1, <2>3 DEF Issue
    <2> QED
      BY <2>2, <2>3
  <1>8. CASE HandleClose
    BY <1>8 DEF HandleClose, Handling
  <1>9. CASE SendOwed
    <2>1. PICK b \in agents :
             /\ outbox # <<>> /\ Head(outbox) = [type |-> "owed", agent |-> b]
             /\ Issue({b}, basis, screen)
             /\ UNCHANGED <<agents, screen, dirty, connected>>
      BY <1>9 DEF SendOwed
    <2>2. CASE a = b
      <3>1. Redrawn(a)
        BY <1>9, <2>1, <2>2, OwedRedrawn
      <3> QED
        BY <2>1, <2>2, <3>1
    <2>3. CASE a # b
      BY <2>1, <2>3 DEF Issue
    <2> QED
      BY <2>2, <2>3
  <1>10. CASE Lose
    BY <1>10, LoseProperties DEF LoseConnection
  <1>11. CASE PushQueued \/ PushUnderPressure \/ Write \/ SpawnTimesOut \/ UNCHANGED vars
    BY <1>1, <1>11 DEF PushQueued, PushUnderPressure, Write, SpawnTimesOut, vars, linkVars
  <1>12. CASE Receive
    BY <1>1, <1>12, ReceiveType DEF Received
  <1>13. CASE User
    BY <1>1, <1>13, UserType DEF Operated
  <1> QED
    BY <1>2, <1>3, <1>4, <1>5, <1>6, <1>7, <1>8, <1>9, <1>10, <1>11, <1>12, <1>13,
       StepKinds DEF Serve, Handle

\* A frame numbered of what is shown is current, and what was current stays so.
LEMMA StaysCurrent ==
  ASSUME TypeOK, TypeOK', NEW a \in Agent, NEW n
  PROVE  /\ frames'[a] = Append(frames[a], screen'[a]) =>
              /\ Len(frames'[a]) = Len(frames[a]) + 1
              /\ Len(frames'[a]) # 0 /\ frames'[a][Len(frames'[a])] = screen'[a]
              /\ n = Len(frames[a]) + 1 => Current(a, n)'
              /\ screen'[a] = screen[a] /\ Current(a, n) => Current(a, n)'
         /\ frames'[a] = frames[a] /\ screen'[a] = screen[a] /\ Current(a, n) => Current(a, n)'
PROOF
  <1>1. frames[a] \in Seq(Screens) /\ screen'[a] \in Screens
    BY DEF TypeOK, Screens
  <1>2. Len(frames[a]) \in Nat /\ DOMAIN frames[a] = 1 .. Len(frames[a])
    BY <1>1, LenProperties
  <1>3. ASSUME frames'[a] = Append(frames[a], screen'[a])
        PROVE  /\ Len(frames'[a]) = Len(frames[a]) + 1 /\ DOMAIN frames'[a] = 1 .. Len(frames[a]) + 1
               /\ \A k \in 1 .. Len(frames[a]) : frames'[a][k] = frames[a][k]
               /\ frames'[a][Len(frames[a]) + 1] = screen'[a]
    <2>1. /\ frames'[a] \in Seq(Screens) /\ Len(frames'[a]) = Len(frames[a]) + 1
          /\ \A k \in 1 .. Len(frames[a]) : frames'[a][k] = frames[a][k]
          /\ frames'[a][Len(frames[a]) + 1] = screen'[a]
      BY <1>1, <1>3, AppendProperties
    <2> QED
      BY <2>1, LenProperties
  <1>4. ASSUME frames'[a] = Append(frames[a], screen'[a]), n = Len(frames[a]) + 1
        PROVE  Current(a, n)'
    BY <1>2, <1>3, <1>4 DEF Current
  <1>5. ASSUME frames'[a] = Append(frames[a], screen'[a]), screen'[a] = screen[a], Current(a, n)
        PROVE  Current(a, n)'
    <2>1. n \in 1 .. Len(frames[a]) /\ \A k \in n .. Len(frames[a]) : frames[a][k] = screen[a]
      BY <1>2, <1>5 DEF Current
    <2>2. \A k \in n .. Len(frames[a]) + 1 : frames'[a][k] = screen[a]
      <3> SUFFICES ASSUME NEW k \in n .. Len(frames[a]) + 1 PROVE frames'[a][k] = screen[a]
        OBVIOUS
      <3>1. (k \in n .. Len(frames[a]) /\ k \in 1 .. Len(frames[a])) \/ k = Len(frames[a]) + 1
        BY <1>2, <2>1
      <3> QED
        BY <1>3, <1>5, <2>1, <3>1
    <2>3. /\ n \in DOMAIN frames'[a] /\ Len(frames'[a]) = Len(frames[a]) + 1
      BY <1>2, <1>3, <1>5, <2>1
    <2> QED
      BY <1>5, <2>2, <2>3 DEF Current
  <1>6. ASSUME frames'[a] = frames[a], screen'[a] = screen[a], Current(a, n)
        PROVE  Current(a, n)'
    BY <1>6 DEF Current
  <1>7. ASSUME frames'[a] = Append(frames[a], screen'[a])
        PROVE  /\ Len(frames'[a]) = Len(frames[a]) + 1
               /\ Len(frames'[a]) # 0 /\ frames'[a][Len(frames'[a])] = screen'[a]
    BY <1>2, <1>3, <1>7
  <1> QED
    BY <1>4, <1>5, <1>6, <1>7

LEMMA StepNewsIsSent ==
  ASSUME OrderInv, Born, NewsIsSent, [Next]_vars PROVE NewsIsSent'
PROOF
  <1>1. TypeOK /\ Silent /\ TypeOK' /\ Silent'
    BY StepType, StepSilent DEF OrderInv, ContentInv
  <1>2. \A a \in agents \cup agents' : a \in Agent
    BY <1>1 DEF TypeOK
  <1>3. ASSUME NEW a \in agents' \ dirty', connected'
        PROVE  Len(frames'[a]) # 0 /\ frames'[a][Len(frames'[a])] = screen'[a]
    <2>1. CASE frames'[a] = Append(frames[a], screen'[a])
      BY <1>1, <1>2, <2>1, StaysCurrent
    <2>2. CASE /\ frames'[a] = frames[a] /\ screen'[a] = screen[a]
               /\ a \in agents \ dirty /\ connected
      BY <2>2 DEF NewsIsSent
    <2> QED
      BY <1>1, <1>2, <1>3, <2>1, <2>2, ScreenSteps DEF Redrawn
  <1>4. ASSUME NEW i \in DOMAIN outbox', NEW m, NEW a, NEW n,
               m = outbox'[i], a = m.agent, n = m.sequence,
               IsPicture(m), a \in agents' \ dirty'
        PROVE  Current(a, n)'
    <2>1. a \in Agent
      BY <1>2, <1>4
    <2>2. connected'
      <3> SUFFICES ASSUME ~connected' PROVE FALSE
        BY <1>1 DEF TypeOK
      <3>1. outbox' = <<>>
        BY <1>1 DEF Silent
      <3> QED
        BY <3>1
    <2>3. ASSUME Published(m) PROVE Current(a, n)'
      <3>1. n = Len(frames[a]) + 1 /\ frames'[a] = Append(frames[a], Target(m))
        BY <1>4, <2>3 DEF Published
      <3>2. frames'[a] # frames[a]
        <4>1. frames[a] \in Seq(Nat) /\ outbox' \in Seq(Item)
          BY <1>1, <2>1 DEF TypeOK, Item
        <4>2. m \in Item
          BY <1>4, <4>1, ElementOfSeq, LenProperties
        <4>3. Target(m) \in Nat
          BY <1>4, <4>2, ItemKinds, Messages DEF IsPicture, Full, Diff, Target
        <4>4. Len(frames'[a]) = Len(frames[a]) + 1 /\ Len(frames[a]) \in Nat
          BY <3>1, <4>1, <4>3, AppendProperties, LenProperties
        <4> QED
          BY <4>4
      <3>3. Redrawn(a)
        BY <1>1, <1>4, <2>1, <2>2, <3>2, ScreenSteps
      <3> QED
        BY <1>1, <2>1, <3>1, <3>3, StaysCurrent DEF Redrawn
    <2>4. CASE Serve
      <3>1. Published(m)
        BY <1>1, <1>4, <2>4, ServeType DEF Handled, Batch
      <3> QED
        BY <2>3, <3>1
    <2>5. ASSUME NEW k \in DOMAIN outbox, m = outbox[k] PROVE Current(a, n)'
      <3>1. outbox # <<>>
        BY <2>5
      <3>2. \/ Redrawn(a) /\ screen'[a] = screen[a] /\ a \in agents \ dirty
            \/ frames'[a] = frames[a] /\ screen'[a] = screen[a] /\ a \in agents \ dirty
        BY <1>1, <1>4, <2>1, <2>2, <3>1, ScreenSteps
      <3>3. Current(a, n)
        BY <1>4, <2>5, <3>2 DEF NewsIsSent
      <3> QED
        BY <1>1, <2>1, <3>2, <3>3, StaysCurrent DEF Redrawn
    <2>6. ASSUME NEW b \in agents, m = FullFrame(b, screen), Published(FullFrame(b, screen))
          PROVE  Current(a, n)'
      BY <2>3, <2>6
    <2>7. m.type # "owed"
      BY <1>4 DEF IsPicture
    <2>8. \/ Serve
          \/ \E k \in DOMAIN outbox : m = outbox[k]
          \/ \E b \in agents : m = FullFrame(b, screen) /\ Published(FullFrame(b, screen))
      BY <1>1, <1>4, <2>7, OutboxSteps
    <2> QED
      BY <2>4, <2>5, <2>6, <2>8
  <1> QED
    BY <1>3, <1>4 DEF NewsIsSent

\* Whatever is asked without scrolling or spawning is neither scrollback nor an agent.
LEMMA StepUndisturbed ==
  ASSUME TypeOK, Silent, Undisturbed, [Next]_vars, "scroll" \notin UserOps, "spawn" \notin UserOps
  PROVE  Undisturbed'
PROOF
  <1>1. ASSUME Receive
        PROVE  /\ Received /\ waiting' = waiting /\ Head(wire).type # "viewport"
               /\ \/ ReceiveFull \/ ReceiveNextDiff \/ ReceiveDuplicateDiff \/ ReceiveDiffWithGap
                  \/ ReceiveRemoved \/ ReceiveControl
    <2>1. Received /\ Head(wire) \in Downlink
      <3>1. Received
        BY <1>1, ReceiveType
      <3>2. wire # <<>>
        BY <3>1 DEF Received
      <3>3. 1 \in DOMAIN wire /\ Head(wire) = wire[1]
        BY <3>2, WireProperties
      <3> QED
        BY <3>1, <3>3 DEF Downlink
    <2>2. Head(wire).type # "viewport" /\ ~waiting
      BY <2>1 DEF Undisturbed
    <2>3. \/ ReceiveFull \/ ReceiveNextDiff \/ ReceiveDuplicateDiff \/ ReceiveDiffWithGap
          \/ ReceiveRemoved \/ ReceiveControl
      BY <1>1, <2>2 DEF Receive, ReceiveViewport, ReceiveWhileWaiting, Receiving
    <2>4. waiting' = waiting
      BY <2>3 DEF ReceiveFull, ReceiveNextDiff, ReceiveDuplicateDiff, ReceiveDiffWithGap,
                  ReceiveRemoved, ReceiveControl, Receiving
    <2> QED
      BY <2>1, <2>2, <2>3, <2>4
  <1>2. ASSUME User
        PROVE  /\ waiting' = waiting
               /\ \/ UNCHANGED uplink
                  \/ \E q \in Request : Send(q) /\ q.type \notin {"viewport", "spawn"}
    <2>1. ASSUME NEW a \in Agent, ShowLive(a) PROVE UNCHANGED <<waiting, uplink>>
      BY <2>1 DEF ShowLive
    <2>2. ASSUME NEW a \in Agent, Close(a)
          PROVE  /\ waiting' = waiting
                 /\ \E q \in Request : Send(q) /\ q.type \notin {"viewport", "spawn"}
      BY <2>2, SentRequests DEF Close
    <2>3. ASSUME Resize
          PROVE  /\ waiting' = waiting
                 /\ \E q \in Request : Send(q) /\ q.type \notin {"viewport", "spawn"}
      <3>1. Send([type |-> "resize"]) /\ waiting' = waiting
        BY <2>3 DEF Resize
      <3>2. [type |-> "resize"] \in Request /\ [type |-> "resize"].type \notin {"viewport", "spawn"}
        BY SentRequests
      <3> QED
        BY <3>1, <3>2
    <2>4. ~Spawn /\ \A a, n : ~Scroll(a, n)
      BY DEF Spawn, Scroll, UserOp
    <2> QED
      BY <1>2, <2>1, <2>2, <2>3, <2>4 DEF User
  <1>3. ~waiting'
    <2>1. ~waiting
      BY DEF Undisturbed
    <2>2. ASSUME NEW b \in Agent, Output(b) PROVE waiting' = waiting
      BY <2>2 DEF Output, clientVars
    <2>3. CASE Serve
      BY <2>1, <2>3, ServeType DEF Handled, clientVars
    <2>4. CASE Lose
      BY <2>4, LoseProperties DEF LoseConnection
    <2>5. CASE PushQueued \/ PushUnderPressure \/ SendOwed \/ Write \/ UNCHANGED vars
      BY <2>1, <2>5 DEF PushQueued, PushUnderPressure, SendOwed, Write, vars, clientVars
    <2>6. CASE SpawnTimesOut
      BY <2>6 DEF SpawnTimesOut
    <2> QED
      BY <1>1, <1>2, <2>1, <2>2, <2>3, <2>4, <2>5, <2>6, StepKinds
  <1>4. ASSUME NEW m \in Downlink', m.type = "viewport" PROVE FALSE
    <2>1. PICK i \in DOMAIN outbox' : outbox'[i] = m
      BY <1>4, DownlinkSteps DEF Undisturbed
    <2>2. m.agent \in Agent
      <3>1. outbox' \in Seq(Item)
        BY StepType DEF TypeOK, Item
      <3>2. m \in Item
        BY <2>1, <3>1, ElementOfSeq, LenProperties
      <3> QED
        BY <1>4, <3>2, ItemKinds DEF Viewport
    <2>3. Answers(outbox'[i], m.agent)
      BY <1>4, <2>1 DEF Answers
    <2>4. \A k \in DOMAIN outbox : outbox[k].type # "viewport"
      BY DEF Undisturbed, Downlink
    <2>5. uplink # <<>> /\ Asks(Head(uplink), m.agent)
      BY <1>4, <2>1, <2>2, <2>3, <2>4, NewAnswers
    <2>6. 1 \in DOMAIN uplink /\ Head(uplink) = uplink[1]
      <3>1. uplink \in Seq(Request)
        BY DEF TypeOK
      <3> QED
        BY <2>5, <3>1, HeadAndTail, LenProperties
    <2> QED
      BY <2>5, <2>6 DEF Undisturbed, Requests, Asks
  <1>5. ASSUME NEW r \in Requests' PROVE r.type \notin {"viewport", "spawn"}
    <2>1. CASE r \in Requests
      BY <2>1 DEF Undisturbed
    <2>2. ASSUME NEW q \in Request, Send(q), q.type \notin {"viewport", "spawn"}
          PROVE  r.type \notin {"viewport", "spawn"}
      <3>1. r = q \/ r \in Requests
        BY <1>5, <2>2, SendProperties DEF Requests
      <3> QED
        BY <2>1, <2>2, <3>1
    <2>3. CASE UNCHANGED uplink
      BY <1>5, <2>1, <2>3 DEF Requests
    <2>4. ASSUME NEW q \in Request, Send(q), ~Receive, ~User PROVE FALSE
      <3>1. CASE Handle
        <4>1. uplink # <<>> /\ uplink' = Tail(uplink)
          BY <3>1 DEF Handle, HandleAck, HandleResync, HandleViewport, HandleResize,
                      HandleSpawn, HandleClose, Handling
        <4>2. DOMAIN uplink' = 1 .. Len(uplink) - 1 /\ Len(uplink) \in Nat
          BY <4>1, UplinkTail
        <4>3. DOMAIN uplink' = 1 .. Len(uplink) + 1
          BY <2>4, SendProperties
        <4> QED
          BY <4>2, <4>3
      <3>2. CASE Lose
        <4>1. uplink' = <<>> /\ uplink' = Append(uplink, q) /\ uplink \in Seq(Request)
          BY <2>4, <3>2, LoseProperties DEF LoseConnection, Send, TypeOK
        <4> QED
          BY <4>1
      <3>3. UNCHANGED uplink => FALSE
        <4>1. Len(uplink') = Len(uplink) + 1 /\ Len(uplink) \in Nat
          BY <2>4, SendProperties
        <4> QED
          BY <4>1
      <3>4. CASE Attach \/ \E quit \in SUBSET agents : Poll(quit)
        BY <3>3, <3>4 DEF Attach, Poll
      <3>5. CASE PushQueued \/ PushUnderPressure \/ SendOwed \/ Write \/ SpawnTimesOut
        BY <3>3, <3>5 DEF PushQueued, PushUnderPressure, SendOwed, Write, SpawnTimesOut, linkVars
      <3>6. CASE UNCHANGED vars
        BY <3>3, <3>6 DEF vars, linkVars
      <3>7. ASSUME NEW a \in Agent, Output(a) PROVE FALSE
        BY <3>3, <3>7 DEF Output, linkVars
      <3> QED
        BY <2>4, <3>1, <3>2, <3>4, <3>5, <3>6, <3>7, StepKinds DEF Serve
    <2>5. CASE Receive
      <3>1. wire # <<>> /\ Head(wire) \in Item
        BY <1>1, <2>5, WireProperties DEF Received
      <3>2. CASE ReceiveFull \/ ReceiveNextDiff \/ ReceiveDuplicateDiff
        <4>1. Send(Ack(Head(wire))) /\ Head(wire).type \in {"full", "diff"}
          BY <3>2 DEF ReceiveFull, ReceiveNextDiff, ReceiveDuplicateDiff, Receiving
        <4>2. Ack(Head(wire)) \in Request /\ Ack(Head(wire)).type = "ack"
          BY <3>1, <4>1, ItemKinds, SentRequests DEF Ack
        <4> QED
          BY <2>2, <4>1, <4>2
      <3>3. CASE ReceiveDiffWithGap
        <4>1. UNCHANGED uplink \/ Send([type |-> "resync", agent |-> Head(wire).agent])
          BY <3>3 DEF ReceiveDiffWithGap
        <4>2. Head(wire).agent \in Agent
          BY <3>1, <3>3, ItemKinds DEF ReceiveDiffWithGap, Receiving, Diff
        <4>3. /\ [type |-> "resync", agent |-> Head(wire).agent] \in Request
              /\ [type |-> "resync", agent |-> Head(wire).agent].type = "resync"
          BY <4>2, SentRequests
        <4> QED
          BY <2>2, <2>3, <4>1, <4>3
      <3>4. CASE ReceiveRemoved \/ ReceiveControl
        BY <2>3, <3>4 DEF ReceiveRemoved, ReceiveControl
      <3> QED
        BY <1>1, <2>5, <3>2, <3>3, <3>4
    <2>6. CASE User
      BY <1>2, <2>2, <2>3, <2>6
    <2>7. ASSUME Handle, uplink # <<>>, uplink' = Tail(uplink) PROVE r \in Requests
      <3>1. /\ DOMAIN uplink' = 1 .. Len(uplink) - 1 /\ DOMAIN uplink = 1 .. Len(uplink)
            /\ Len(uplink) \in Nat /\ \A i \in DOMAIN uplink' : uplink'[i] = uplink[i + 1]
        BY <2>7, UplinkTail
      <3>2. PICK i \in DOMAIN uplink' : r = uplink'[i]
        BY <1>5 DEF Requests
      <3>3. i + 1 \in DOMAIN uplink /\ r = uplink[i + 1]
        BY <3>1, <3>2
      <3> QED
        BY <3>3 DEF Requests
    <2>8. ASSUME Lose PROVE FALSE
      <3>1. uplink' = <<>>
        BY <2>8, LoseProperties DEF LoseConnection
      <3> QED
        BY <1>5, <3>1 DEF Requests
    <2> QED
      BY <2>1, <2>3, <2>4, <2>5, <2>6, <2>7, <2>8, UplinkSteps
  <1> QED
    BY <1>3, <1>4, <1>5 DEF Undisturbed

\* Identifiers only grow, and only the next one is new.
LEMMA AgentSteps ==
  ASSUME TypeOK, Silent, [Next]_vars
  PROVE  /\ nextId' \in Nat /\ nextId' >= nextId
         /\ agents' \subseteq agents \cup {nextId}
PROOF
  <1>1. nextId \in Nat
    BY DEF TypeOK
  <1>2. ASSUME UNCHANGED nextId, agents' \subseteq agents
        PROVE  /\ nextId' \in Nat /\ nextId' >= nextId
               /\ agents' \subseteq agents \cup {nextId}
    BY <1>1, <1>2
  <1>3. ASSUME NEW b \in Agent, Output(b) PROVE UNCHANGED <<agents, nextId>>
    BY <1>3 DEF Output
  <1>4. CASE Attach \/ HandleAck \/ HandleResync \/ HandleViewport \/ HandleResize \/ HandleClose
    BY <1>2, <1>4 DEF Attach, HandleAck, HandleResync, HandleViewport, HandleResize, HandleClose,
                      serverVars
  <1>5. CASE HandleSpawn
    BY <1>1, <1>5 DEF HandleSpawn
  <1>6. ASSUME NEW quit \in SUBSET agents, Poll(quit) PROVE UNCHANGED nextId /\ agents' \subseteq agents
    BY <1>6 DEF Poll
  <1>7. CASE Lose
    BY <1>2, <1>7, LoseProperties DEF LoseConnection
  <1>8. CASE PushQueued \/ PushUnderPressure \/ SendOwed \/ Write \/ SpawnTimesOut \/ UNCHANGED vars
    BY <1>2, <1>8 DEF PushQueued, PushUnderPressure, SendOwed, Write, SpawnTimesOut, vars, serverVars
  <1>9. CASE Receive
    BY <1>2, <1>9, ReceiveType DEF Received, serverVars
  <1>10. CASE User
    BY <1>2, <1>10, UserType DEF Operated, serverVars
  <1> QED
    BY <1>2, <1>3, <1>4, <1>5, <1>6, <1>7, <1>8, <1>9, <1>10, StepKinds DEF Serve, Handle

\* Only a diff that does not fit makes the client wait for an agent, and it asks for it.
LEMMA PendingSteps ==
  ASSUME TypeOK, Silent, [Next]_vars, NEW a \in pending' \ pending
  PROVE  /\ Received /\ Head(wire).type = "diff" /\ Head(wire).agent = a
         /\ Send([type |-> "resync", agent |-> a])
PROOF
  <1>1. ASSUME pending' \subseteq pending PROVE FALSE
    BY <1>1
  <1>2. ASSUME NEW b \in Agent, Output(b) PROVE FALSE
    BY <1>1, <1>2 DEF Output, clientVars
  <1>3. CASE Serve
    BY <1>1, <1>3, ServeType DEF Handled, clientVars
  <1>4. CASE Lose
    BY <1>1, <1>4, LoseProperties DEF LoseConnection
  <1>5. CASE PushQueued \/ PushUnderPressure \/ SendOwed \/ Write \/ SpawnTimesOut \/ UNCHANGED vars
    BY <1>1, <1>5 DEF PushQueued, PushUnderPressure, SendOwed, Write, SpawnTimesOut, vars, clientVars
  <1>6. CASE User
    BY <1>1, <1>6, UserType DEF Operated
  <1>7. CASE Receive
    <2>1. ReceiveDiffWithGap
      BY <1>1, <1>7 DEF Receive, ReceiveFull, ReceiveNextDiff, ReceiveDuplicateDiff, ReceiveViewport,
                        ReceiveRemoved, ReceiveControl, ReceiveWhileWaiting
    <2>2. Head(wire).type = "diff" /\ pending' = pending \cup {Head(wire).agent}
      BY <2>1 DEF ReceiveDiffWithGap, Receiving
    <2>3. a = Head(wire).agent
      BY <2>2
    <2>4. Send([type |-> "resync", agent |-> a])
      BY <2>1, <2>3 DEF ReceiveDiffWithGap
    <2> QED
      BY <1>7, <2>2, <2>3, <2>4, ReceiveType
  <1> QED
    BY <1>2, <1>3, <1>4, <1>5, <1>6, <1>7, StepKinds

\* Only agents that go are told of.
LEMMA NewRemovals ==
  ASSUME TypeOK, Silent, [Next]_vars, NEW m \in Downlink', m.type = "removed"
  PROVE  m \in Downlink \/ (m.agent \in agents /\ m.agent \notin agents')
PROOF
  <1> SUFFICES ASSUME NEW i \in DOMAIN outbox', outbox'[i] = m
               PROVE  m \in Downlink \/ (m.agent \in agents /\ m.agent \notin agents')
    BY DownlinkSteps
  <1>1. CASE HandleAck \/ HandleResync \/ HandleSpawn \/ HandleViewport
    BY <1>1 DEF HandleAck, HandleResync, HandleSpawn, HandleViewport, ControlMessage, FullFrame
  <1>2. CASE HandleResize \/ Attach
    <2>1. outbox' \in Seq(Full \cup Control)
      BY <1>2, RedrawNews
    <2>2. m \in Full \cup Control
      BY <2>1, ElementOfSeq, LenProperties
    <2> QED
      BY <2>2 DEF Full, Control
  <1>3. CASE HandleClose
    <2>1. /\ Head(uplink).agent \in agents
          /\ outbox' = <<ControlMessage, [type |-> "removed", agent |-> Head(uplink).agent]>>
          /\ agents' = agents \ {Head(uplink).agent}
      BY <1>3 DEF HandleClose, ControlMessage
    <2> QED
      BY <2>1 DEF ControlMessage
  <1>4. ASSUME NEW quit \in SUBSET agents, Poll(quit)
        PROVE  m.agent \in agents /\ m.agent \notin agents'
    <2>1. outbox' \in Seq(Full \cup Diff \cup [type : {"removed"}, agent : quit] \cup Control)
      BY <1>4, PollNews
    <2>2. m \in Full \cup Diff \cup [type : {"removed"}, agent : quit] \cup Control
      BY <2>1, ElementOfSeq, LenProperties
    <2>3. m.agent \in quit
      BY <2>2 DEF Full, Diff, Control
    <2> QED
      BY <1>4, <2>3 DEF Poll
  <1>5. ASSUME NEW k \in DOMAIN outbox, outbox'[i] = outbox[k] PROVE m \in Downlink
    BY <1>5 DEF Downlink
  <1>6. \A b : outbox'[i] # FullFrame(b, screen)
    BY DEF FullFrame
  <1>7. CASE Serve
    BY <1>1, <1>2, <1>3, <1>4, <1>7 DEF Serve, Handle
  <1>8. CASE ~Serve
    BY <1>5, <1>6, <1>8, OutboxSteps
  <1> QED
    BY <1>7, <1>8

LEMMA StepKnown ==
  ASSUME OrderInv, Born, Known, [Next]_vars PROVE Known'
PROOF
  <1>1. ContentInv /\ TypeOK /\ Silent
    BY DEF OrderInv, ContentInv
  <1>2. nextId' \in Nat /\ nextId' >= nextId /\ agents' \subseteq agents \cup {nextId} /\ nextId \in Nat
    BY <1>1, AgentSteps DEF TypeOK
  <1>3. \A a \in Agent : a \in Nat
    BY DEF Agent
  <1>4. ASSUME NEW a \in pending' PROVE a < nextId'
    <2>1. a < nextId /\ a \in Nat
      <3>1. CASE a \in pending
        BY <1>1, <1>3, <3>1 DEF Known, TypeOK
      <3>2. CASE a \notin pending
        <4>1. Received /\ Head(wire).type = "diff" /\ Head(wire).agent = a
          BY <1>1, <1>4, <3>2, PendingSteps
        <4>2. Head(wire) \in Downlink
          <5>1. 1 \in DOMAIN wire /\ Head(wire) = wire[1]
            BY <1>1, <4>1, WireProperties DEF Received
          <5> QED
            BY <5>1 DEF Downlink
        <4>3. /\ a \in Agent /\ Head(wire).sequence \in Nat \ {0}
              /\ Head(wire).sequence <= Len(frames[a]) /\ Len(frames[a]) \in Nat
          BY <1>1, <4>1, <4>2, NumbersAreKnown DEF IsPicture
        <4>4. Len(frames[a]) # 0
          BY <4>3
        <4> QED
          BY <1>2, <1>3, <4>3, <4>4 DEF Born
      <3> QED
        BY <3>1, <3>2
    <2> QED
      BY <1>2, <2>1
  <1>5. ASSUME NEW m \in Downlink', m.type = "removed" PROVE m.agent < nextId' /\ m.agent \notin agents'
    <2>1. m.agent \in Nat
      <3>1. TypeOK'
        BY <1>1, StepType
      <3>2. m \in Item
        <4>1. outbox' \in Seq(Item) /\ queue' \in Seq(Item) /\ wire' \in Seq(Item)
          BY <3>1, Messages DEF TypeOK, Item
        <4>2. \A s \in Seq(Item) : \A i \in DOMAIN s : s[i] \in Item
          OBVIOUS
        <4> QED
          BY <1>5, <4>1, <4>2 DEF Downlink
      <3> QED
        BY <1>3, <1>5, <3>2, ItemKinds DEF Removed
    <2>2. CASE m \in Downlink
      BY <1>2, <1>5, <2>1, <2>2 DEF Known
    <2>3. CASE m.agent \in agents /\ m.agent \notin agents'
      BY <1>2, <2>1, <2>3 DEF Born
    <2> QED
      BY <1>1, <1>5, <2>2, <2>3, NewRemovals
  <1> QED
    BY <1>4, <1>5 DEF Known

LEMMA StepPendingEnds ==
  ASSUME OrderInv, Born, Undisturbed, PendingEnds, [Next]_vars PROVE PendingEnds'
PROOF
  <1>1. ContentInv /\ TypeOK /\ Silent
    BY DEF OrderInv, ContentInv
  <1> SUFFICES ASSUME NEW a \in pending', a \in agents' PROVE NewFullComing(a)'
    BY DEF PendingEnds
  <1>2. a \in Agent
    BY <1>1, StepType DEF TypeOK
  <1>3. CASE a \notin agents
    BY <1>1, <1>2, <1>3, NewAgentsAreShown
  <1>4. CASE a \in agents /\ a \notin pending
    <2>1. Send([type |-> "resync", agent |-> a]) /\ [type |-> "resync", agent |-> a] \in Request
      BY <1>1, <1>2, <1>4, PendingSteps, SentRequests
    <2>2. [type |-> "resync", agent |-> a] \in Requests'
      BY <1>1, <2>1, SendProperties DEF Requests
    <2> QED
      BY <2>2 DEF NewFullComing
  <1>5. CASE a \in agents /\ a \in pending
    <2>1. NewFullComing(a)
      BY <1>5 DEF PendingEnds
    <2>2. ~Lose
      BY LoseProperties DEF LoseConnection
    <2>3. ~(ReceiveFull /\ Picture(Head(wire), a) /\ Newer(Head(wire)))
      BY DEF ReceiveFull, Picture
    <2>4. ~ReceiveWhileWaiting
      BY DEF Undisturbed, ReceiveWhileWaiting
    <2>5. ~(outbox # <<>> /\ Head(outbox).type = "viewport")
      <3> SUFFICES ASSUME outbox # <<>>, Head(outbox).type = "viewport" PROVE FALSE
        OBVIOUS
      <3>1. 1 \in DOMAIN outbox /\ Head(outbox) = outbox[1]
        BY <1>1, OutboxProperties
      <3> QED
        BY <3>1 DEF Undisturbed, Downlink
    <2> QED
      BY <1>5, <2>1, <2>2, <2>3, <2>4, <2>5, NewFullStays
  <1> QED
    BY <1>3, <1>4, <1>5

\* The frames after a current one are current, and the newest frame of an agent
\* without news is.
LEMMA CurrentGrows ==
  ASSUME TypeOK, NEW a \in Agent, NEW n, NEW k, Current(a, n), k \in n .. Len(frames[a])
  PROVE  Current(a, k)
PROOF
  <1>1. Len(frames[a]) \in Nat /\ DOMAIN frames[a] = 1 .. Len(frames[a])
    BY LenProperties DEF TypeOK
  <1> QED
    BY <1>1 DEF Current

LEMMA NewestIsCurrent ==
  ASSUME TypeOK, NewsIsSent, connected, NEW a \in agents \ dirty, NEW n, n = Len(frames[a])
  PROVE  Current(a, n)
PROOF
  <1>1. a \in Agent
    BY DEF TypeOK
  <1>2. Len(frames[a]) \in Nat /\ DOMAIN frames[a] = 1 .. Len(frames[a])
    BY <1>1, LenProperties DEF TypeOK
  <1>3. Len(frames[a]) # 0 /\ frames[a][Len(frames[a])] = screen[a]
    BY DEF NewsIsSent
  <1>4. \A k \in n .. Len(frames[a]) : k = n
    BY <1>2
  <1> QED
    BY <1>2, <1>3, <1>4 DEF Current

\* What shows that an agent's screen is shown or on its way.
LEMMA RepairedBy ==
  ASSUME NEW a, NEW n, Current(a, n)',
         \/ n = cache'[a].sequence
         \/ \E m \in Downlink' : m.type = "full" /\ m.agent = a /\ m.sequence = n
  PROVE  Repairs(a)'
PROOF
  BY DEF Repairs, Current

LEMMA RedrawnRepairs ==
  ASSUME TypeOK, TypeOK', NEW a \in Agent, Redrawn(a) PROVE Repairs(a)'
PROOF
  <1>1. PICK m \in Downlink' : Picture(m, a) /\ m.sequence = Len(frames[a]) + 1
    BY DEF Redrawn
  <1>2. CASE m.type = "full"
    <2>1. PICK n : n = Len(frames[a]) + 1
      OBVIOUS
    <2>2. Current(a, n)'
      BY <2>1, StaysCurrent DEF Redrawn
    <2> QED
      BY <1>1, <1>2, <2>1, <2>2, RepairedBy DEF Picture
  <1>3. CASE m.type = "diff"
    <2>1. Len(frames'[a]) = Len(frames[a]) + 1
      BY StaysCurrent DEF Redrawn
    <2> QED
      BY <1>1, <1>3, <2>1 DEF Picture, Repairs
  <1> QED
    BY <1>1, <1>2, <1>3 DEF Picture, IsPicture

\* Frames of an agent that are given up leave the promise of one, or a complete one.
LEMMA GivenUpIsRepaired ==
  ASSUME OrderInv, Undisturbed, NewsIsSent, PushUnderPressure, NEW a \in agents \ dirty,
         UNCHANGED <<frames, screen>>,
         NEW m \in Downlink, Picture(m, a), m \notin Downlink'
  PROVE  Repairs(a)'
PROOF
  <1>1. TypeOK /\ a \in Agent
    BY DEF OrderInv, ContentInv, TypeOK
  <1>2. PICK h, v, kept : Pressed(h, v, kept)
    BY <1>1, Pressure
  <1>3. /\ (IsFrame(m) /\ m.agent = v) \/ (m = h /\ h.type = "diff" /\ h.agent = v)
        /\ h.type # "diff" => h \in Downlink'
        /\ Owes(h) => [type |-> "owed", agent |-> v] \in Downlink'
    BY <1>1, <1>2, GivenUp
  <1>4. v = a /\ h = Head(outbox) /\ outbox # <<>> /\ v \in Victim(h)
    BY <1>2, <1>3 DEF Pressed, Picture
  <1>5. 1 \in DOMAIN outbox /\ h = outbox[1]
    BY <1>1, <1>4, OutboxProperties
  <1>6. CASE Owes(h)
    BY <1>3, <1>4, <1>6 DEF Repairs
  <1>7. CASE h.type = "viewport"
    BY <1>5, <1>7 DEF Undisturbed, Downlink
  <1>8. CASE h.type = "full"
    <2>1. h.agent = a
      BY <1>4, <1>8 DEF Victim, IsFrame
    <2>2. PICK n : n = h.sequence
      OBVIOUS
    <2>3. Current(a, n)
      BY <1>5, <1>8, <2>1, <2>2 DEF NewsIsSent, IsPicture
    <2>4. Current(a, n)'
      BY <2>3 DEF Current
    <2> QED
      BY <1>3, <1>8, <2>1, <2>2, <2>4, RepairedBy
  <1> QED
    BY <1>6, <1>7, <1>8 DEF Owes

\* What the client accepts on its way to the screen shows the screen.
LEMMA ReceivedFullRepairs ==
  ASSUME OrderInv, Undisturbed, Receive, NEW a \in Agent, UNCHANGED <<frames, screen>>,
         wire # <<>>, Head(wire).type = "full", Head(wire).agent = a,
         NEW n, n = Head(wire).sequence, Current(a, n)
  PROVE  Repairs(a)'
PROOF
  <1>1. ContentInv /\ TypeOK
    BY DEF OrderInv, ContentInv
  <1>2. ReceiveFull
    BY DEF Receive, ReceiveNextDiff, ReceiveDuplicateDiff, ReceiveDiffWithGap,
           ReceiveViewport, ReceiveRemoved, ReceiveControl, ReceiveWhileWaiting, Receiving,
           Undisturbed
  <1>3. /\ cache[a].sequence \in Nat /\ cache[a].sequence <= Len(frames[a])
        /\ Len(frames[a]) \in Nat /\ n \in Nat
    <2>1. Head(wire) \in Full
      BY <1>1, WireProperties, ItemKinds
    <2> QED
      BY <1>1, <2>1, NumbersAreKnown DEF Full
  <1>4. CASE n > cache[a].sequence
    <2>1. cache'[a].sequence = n
      <3>1. cache'[a] = Renewed(Head(wire))
        BY <1>1, <1>2, <1>4 DEF ReceiveFull, Newer, TypeOK
      <3> QED
        BY <3>1 DEF Renewed, NoTerminal
    <2>2. Current(a, n)'
      BY DEF Current
    <2> QED
      BY <2>1, <2>2, RepairedBy
  <1>5. CASE ~(n > cache[a].sequence)
    <2>1. UNCHANGED cache
      BY <1>2, <1>5 DEF ReceiveFull, Newer
    <2>2. PICK k : k = cache[a].sequence
      OBVIOUS
    <2>3. k \in n .. Len(frames[a])
      BY <1>3, <1>5, <2>2
    <2>4. Current(a, k)
      BY <1>1, <2>3, CurrentGrows
    <2>5. Current(a, k)'
      BY <2>4 DEF Current
    <2> QED
      BY <2>1, <2>2, <2>5, RepairedBy
  <1> QED
    BY <1>4, <1>5

LEMMA ReceivedDiffRepairs ==
  ASSUME OrderInv, Undisturbed, PendingEnds, NewsIsSent, connected, Receive,
         NEW a \in agents \ dirty, UNCHANGED <<frames, screen>>,
         wire # <<>>, Head(wire).type = "diff", Head(wire).agent = a,
         Head(wire).sequence = Len(frames[a])
  PROVE  Repairs(a)'
PROOF
  <1> DEFINE m == Head(wire)
  <1>1. ContentInv /\ TypeOK /\ a \in Agent
    BY DEF OrderInv, ContentInv, TypeOK
  <1>2. PICK n : n = Len(frames[a])
    OBVIOUS
  <1>3. Current(a, n)'
    <2>1. Current(a, n)
      BY <1>1, <1>2, NewestIsCurrent
    <2> QED
      BY <2>1 DEF Current
  <1>4. /\ cache[a].sequence \in Nat /\ cache[a].sequence <= n /\ n \in Nat
    BY <1>1, <1>2, NumbersAreKnown
  <1>5. ReceiveNextDiff \/ ReceiveDuplicateDiff \/ ReceiveDiffWithGap
    BY DEF Receive, ReceiveFull, ReceiveViewport, ReceiveRemoved, ReceiveControl,
           ReceiveWhileWaiting, Receiving, Undisturbed
  <1>6. CASE ReceiveNextDiff
    <2>1. cache'[a].sequence = n
      <3>1. cache'[a] = Advanced(m) /\ cache[a] \in Terminal
        BY <1>1, <1>6 DEF ReceiveNextDiff, TypeOK
      <3> QED
        BY <1>2, <3>1 DEF Advanced, Terminal
    <2> QED
      BY <1>3, <2>1, RepairedBy
  <1>7. CASE ReceiveDuplicateDiff
    <2>1. UNCHANGED cache /\ ~(n > cache[a].sequence)
      BY <1>2, <1>7 DEF ReceiveDuplicateDiff, Duplicate, Newer
    <2>2. cache'[a].sequence = n
      BY <1>4, <2>1
    <2> QED
      BY <1>3, <2>2, RepairedBy
  <1>8. CASE ReceiveDiffWithGap
    <2>1. CASE a \notin pending
      <3>1. Send([type |-> "resync", agent |-> a]) /\ [type |-> "resync", agent |-> a] \in Request
        BY <1>1, <1>8, <2>1, SentRequests DEF ReceiveDiffWithGap
      <3>2. [type |-> "resync", agent |-> a] \in Requests'
        BY <1>1, <3>1, SendProperties DEF Requests
      <3> QED
        BY <3>2 DEF Repairs
    <2>2. CASE a \in pending
      <3>1. NewFullComing(a) /\ UNCHANGED uplink
        BY <1>8, <2>2 DEF PendingEnds, ReceiveDiffWithGap
      <3>2. ASSUME NEW r \in Requests, r.type = "resync", r.agent = a PROVE Repairs(a)'
        BY <3>1, <3>2 DEF Repairs, Requests
      <3>3. ASSUME NEW f \in Downlink, f.type = "owed", f.agent = a PROVE Repairs(a)'
        <4>1. f \in Downlink'
          BY <1>1, <3>3, ReceiveType, TakenOff
        <4> QED
          BY <3>3, <4>1 DEF Repairs
      <3>4. ASSUME NEW f \in Downlink, f.type = "full", f.agent = a PROVE FALSE
        <4>1. PICK k \in DOMAIN Pipe : Pipe[k] = f
          BY <1>1, PipeProperties
        <4>2. /\ 1 \in DOMAIN Pipe /\ Pipe[1] = m
              /\ DOMAIN Pipe = 1 .. Len(wire) + Len(queue) + Len(outbox)
              /\ Len(wire) + Len(queue) + Len(outbox) \in Nat
          BY <1>1, ReceiveType, ReceivedPipe, PipeProperties DEF Laid
        <4>3. InOrder(Pipe, a, cache[a].sequence)
          BY <1>1 DEF OrderInv, FramesInOrder
        <4> HIDE DEF Pipe
        <4>4. 1 \in Places(Pipe, a) /\ k \in Places(Pipe, a) /\ IsPicture(Pipe[k])
          BY <3>4, <4>1, <4>2 DEF Places, About, IsFrame, IsPicture
        <4>5. 1 < k
          BY <3>4, <4>1, <4>2
        <4>6. m.sequence < f.sequence
          BY <4>1, <4>2, <4>3, <4>4, <4>5 DEF InOrder
        <4>7. f.sequence \in Nat /\ f.sequence <= Len(frames[a])
          BY <1>1, <3>4, NumbersAreKnown DEF IsPicture
        <4> QED
          BY <1>2, <1>4, <4>6, <4>7
      <3> QED
        BY <3>1, <3>2, <3>3, <3>4 DEF NewFullComing
    <2> QED
      BY <2>1, <2>2
  <1> QED
    BY <1>5, <1>6, <1>7, <1>8

\* A screen the client shows is shown until the connection is lost or it changes.
LEMMA ShownStays ==
  ASSUME OrderInv, Known, [Next]_vars, ~Lose, NEW a \in agents, UNCHANGED <<frames[a], screen[a]>>,
         Current(a, cache[a].sequence)
  PROVE  Repairs(a)'
PROOF
  <1>1. ContentInv /\ TypeOK /\ Silent /\ a \in Agent
    BY DEF OrderInv, ContentInv, TypeOK
  <1>2. PICK n : n = cache[a].sequence
    OBVIOUS
  <1>3. Current(a, n)
    BY <1>2
  <1>4. ASSUME cache'[a].sequence = cache[a].sequence PROVE Repairs(a)'
    <2>1. Current(a, n)'
      BY <1>3 DEF Current
    <2> QED
      BY <1>2, <1>4, <2>1, RepairedBy
  <1>5. CASE Receive
    <2>1. wire # <<>> /\ Head(wire) \in Downlink
      <3>1. wire # <<>>
        BY <1>1, <1>5, ReceiveType DEF Received
      <3>2. 1 \in DOMAIN wire /\ Head(wire) = wire[1]
        BY <1>1, <3>1, WireProperties
      <3> QED
        BY <3>1, <3>2 DEF Downlink
    <2>2. ~(ReceiveRemoved /\ Head(wire).agent = a)
      BY <2>1 DEF ReceiveRemoved, Receiving, Known
    <2>3. ASSUME Picture(Head(wire), a), cache'[a].sequence = Head(wire).sequence,
                 Head(wire).sequence > cache[a].sequence
          PROVE  Repairs(a)'
      <3>1. PICK k : k = Head(wire).sequence
        OBVIOUS
      <3>2. k \in Nat /\ k <= Len(frames[a]) /\ n \in Nat /\ Len(frames[a]) \in Nat
        BY <1>1, <1>2, <2>1, <2>3, <3>1, NumbersAreKnown DEF Picture
      <3>3. k \in n .. Len(frames[a])
        BY <1>2, <2>3, <3>1, <3>2
      <3>4. Current(a, k)
        BY <1>1, <1>3, <3>3, CurrentGrows
      <3>5. Current(a, k)'
        BY <3>4 DEF Current
      <3> QED
        BY <2>3, <3>1, <3>5, RepairedBy
    <2> QED
      BY <1>1, <1>4, <1>5, <2>2, <2>3, Forward
  <1>6. CASE User
    <2>1. UNCHANGED Shown
      BY <1>1, <1>6, UsersShowNothing
    <2>2. Shown[a].sequence = Shown'[a].sequence
      BY <2>1
    <2> QED
      BY <1>1, <1>4, <2>2 DEF Shown
  <1>7. CASE UNCHANGED cache
    BY <1>4, <1>7
  <1>8. ASSUME NEW b \in Agent, Output(b) PROVE UNCHANGED cache
    BY <1>8 DEF Output, clientVars
  <1>9. CASE Serve
    BY <1>1, <1>7, <1>9, ServeType DEF Handled, clientVars
  <1>10. CASE PushQueued \/ PushUnderPressure \/ SendOwed \/ Write \/ SpawnTimesOut \/ UNCHANGED vars
    BY <1>7, <1>10 DEF PushQueued, PushUnderPressure, SendOwed, Write, SpawnTimesOut, vars, clientVars
  <1> QED
    BY <1>5, <1>6, <1>7, <1>8, <1>9, <1>10, StepKinds

LEMMA StepRepaired ==
  ASSUME RepairInv, [Next]_vars PROVE Repaired'
PROOF
  <1>1. /\ OrderInv /\ ContentInv /\ TypeOK /\ Silent /\ Born /\ Undisturbed /\ Known
        /\ PendingEnds /\ NewsIsSent /\ Repaired /\ TypeOK'
    BY StepType DEF RepairInv, OrderInv, ContentInv
  <1> SUFFICES ASSUME NEW a \in agents' \ dirty', connected' PROVE Repairs(a)'
    BY DEF Repaired
  <1>2. a \in Agent
    BY <1>1 DEF TypeOK
  <1>3. ~Lose
    BY LoseProperties DEF LoseConnection
  <1>4. CASE Redrawn(a)
    BY <1>1, <1>2, <1>4, RedrawnRepairs
  <1>5. CASE /\ ~Redrawn(a)
             /\ UNCHANGED <<frames[a], screen[a]>> /\ a \in agents \ dirty /\ connected
    <2>1. Repairs(a)
      BY <1>1, <1>5 DEF Repaired
    <2>2. ASSUME NEW n, Current(a, n) PROVE Current(a, n)'
      BY <1>5, <2>2 DEF Current
    <2>3. CASE Current(a, cache[a].sequence)
      BY <1>1, <1>3, <1>5, <2>3, ShownStays
    <2>4. ASSUME NEW m \in Downlink, m.type = "owed", m.agent = a PROVE Repairs(a)'
      <3>1. CASE m \in Downlink'
        BY <2>4, <3>1 DEF Repairs
      <3>2. CASE PushUnderPressure /\ m \notin Downlink'
        <4>1. PICK h, v, kept : Pressed(h, v, kept)
          BY <1>1, <3>2, Pressure
        <4>2. IsFrame(m) \/ (m = h /\ h.type = "diff")
          BY <1>1, <3>2, <4>1, GivenUp
        <4> QED
          BY <2>4, <4>2 DEF IsFrame
      <3>3. CASE Receive /\ m \notin Downlink'
        <4>1. m = Head(wire) /\ Received
          BY <1>1, <3>3, ReceiveType, TakenOff
        <4>2. m \in Message
          BY <1>1, <4>1, WireProperties DEF Received
        <4> QED
          BY <2>4, <4>2 DEF Message, Full, Diff, Viewport, Removed, Control
      <3>4. CASE SendOwed /\ m = Head(outbox)
        <4>1. Head(outbox) = [type |-> "owed", agent |-> a]
          <5>1. PICK b \in agents : Head(outbox) = [type |-> "owed", agent |-> b]
            BY <3>4 DEF SendOwed
          <5> QED
            BY <2>4, <3>4, <5>1
        <4> QED
          BY <1>1, <1>5, <3>4, <4>1, OwedRedrawn
      <3> QED
        BY <1>1, <1>3, <3>1, <3>2, <3>3, <3>4, EnvelopesStay
    <2>5. ASSUME NEW r \in Requests, r.type = "resync", r.agent = a PROVE Repairs(a)'
      <3>1. CASE r \in Requests'
        BY <2>5, <3>1 DEF Repairs
      <3>2. CASE Handle /\ r = Head(uplink)
        <4>1. HandleResync
          BY <2>5, <3>2 DEF Handle, HandleAck, HandleViewport, HandleResize, HandleSpawn,
                            HandleClose, Handling
        <4> QED
          BY <1>1, <1>5, <2>5, <3>2, <4>1, ResyncRedrawn
      <3> QED
        BY <1>1, <1>3, <3>1, <3>2, RequestsStay
    <2>6. ASSUME NEW m \in Downlink, Picture(m, a),
                 \/ m.type = "full" /\ Current(a, m.sequence)
                 \/ m.type = "diff" /\ m.sequence = Len(frames[a])
          PROVE  Repairs(a)'
      <3>1. PICK n : n = m.sequence
        OBVIOUS
      <3>2. CASE m \in Downlink'
        <4>1. CASE m.type = "full"
          BY <2>2, <2>6, <3>1, <3>2, <4>1, RepairedBy DEF Picture
        <4>2. CASE m.type = "diff"
          BY <1>5, <2>6, <3>2, <4>2 DEF Picture, Repairs
        <4> QED
          BY <2>6, <4>1, <4>2
      <3>3. CASE PushUnderPressure /\ m \notin Downlink'
        <4>1. UNCHANGED <<frames, screen>>
          BY <3>3 DEF PushUnderPressure, serverVars
        <4> QED
          BY <1>1, <1>5, <2>6, <3>3, <4>1, GivenUpIsRepaired
      <3>4. CASE Receive /\ m \notin Downlink'
        <4>1. /\ m = Head(wire) /\ wire # <<>> /\ UNCHANGED <<frames, screen>>
          BY <1>1, <3>4, ReceiveType, TakenOff DEF Received, serverVars
        <4>2. CASE m.type = "full"
          BY <1>1, <1>2, <2>6, <3>1, <3>4, <4>1, <4>2, ReceivedFullRepairs DEF Picture
        <4>3. CASE m.type = "diff"
          BY <1>1, <1>5, <2>6, <3>4, <4>1, <4>3, ReceivedDiffRepairs DEF Picture
        <4> QED
          BY <2>6, <4>2, <4>3
      <3>5. m.type # "owed"
        BY <2>6 DEF Picture, IsPicture
      <3> QED
        BY <1>1, <1>3, <3>2, <3>3, <3>4, <3>5, EnvelopesStay
    <2> QED
      BY <2>1, <2>3, <2>4, <2>5, <2>6 DEF Repairs, Picture, IsPicture
  <1> QED
    BY <1>1, <1>2, <1>4, <1>5, ScreenSteps

LEMMA StepRepair ==
  ASSUME RepairInv, [Next]_vars, "scroll" \notin UserOps, "spawn" \notin UserOps
  PROVE  RepairInv'
PROOF
  <1>1. /\ OrderInv /\ TypeOK /\ Silent /\ Born /\ Undisturbed /\ Known /\ PendingEnds /\ NewsIsSent
    BY DEF RepairInv, OrderInv, ContentInv
  <1>2. OrderInv' /\ Born' /\ Undisturbed'
    BY <1>1, StepOrder, StepBorn, StepUndisturbed
  <1>3. Known' /\ PendingEnds' /\ NewsIsSent'
    BY <1>1, StepKnown, StepPendingEnds, StepNewsIsSent
  <1>4. Repaired'
    BY StepRepaired
  <1> QED
    BY <1>2, <1>3, <1>4 DEF RepairInv

LEMMA InitRepair == Init => RepairInv
PROOF
  <1> SUFFICES ASSUME Init PROVE RepairInv
    OBVIOUS
  <1>1. OrderInv /\ Born
    BY InitScroll DEF ScrollInv
  <1>2. Downlink = {} /\ Requests = {} /\ ~waiting /\ pending = {} /\ ~connected /\ outbox = <<>>
    BY DEF Init, Downlink, Requests
  <1> QED
    BY <1>1, <1>2 DEF RepairInv, Undisturbed, Known, PendingEnds, NewsIsSent, Repaired

LEMMA FramesRepair ==
  ASSUME "scroll" \notin UserOps, "spawn" \notin UserOps PROVE Spec => []RepairInv
PROOF
  <1>1. RepairInv /\ [Next]_vars => RepairInv'
    BY StepRepair
  <1> QED
    BY <1>1, InitRepair, PTL DEF Spec

\* A client whose users do not scroll or spawn never waits in vain for an agent it has
\* asked to resynchronise: the request, the promise or the complete frame is on its way
\* (after_frame, push, resync).  With scrollback or spawning the code breaks this.
THEOREM ResynchronisationIsAnswered ==
  ASSUME "scroll" \notin UserOps, "spawn" \notin UserOps PROVE Spec => []ResyncIsAnswered
PROOF
  <1>1. RepairInv => ResyncIsAnswered
    BY DEF RepairInv, PendingEnds, ResyncIsAnswered, NewFullComing, FullComing
  <1> QED
    BY <1>1, FramesRepair, PTL

\* A client whose users do not scroll or spawn shows the screen of every living agent, or
\* what leads to it is on its way: whatever the bounded queue gives up, it leaves a repair
\* behind (push, send, apply_diff, poll_events).
THEOREM ScreensAreRepaired ==
  ASSUME "scroll" \notin UserOps, "spawn" \notin UserOps PROVE Spec => []StaleIsRepaired
PROOF
  <1>1. RepairInv => StaleIsRepaired
    <2> SUFFICES ASSUME RepairInv, NEW a \in agents, connected, cache[a].snapshot # screen[a],
                        a \notin dirty
                 PROVE  \/ FullComing(a)
                        \/ \E m \in Downlink : m.type = "diff" /\ m.agent = a /\ m.sequence = Sequence(a)
      BY DEF StaleIsRepaired
    <2>1. Repairs(a) /\ ContentInv /\ a \in Agent
      BY DEF RepairInv, Repaired, OrderInv, ContentInv, TypeOK
    <2>2. ~Current(a, cache[a].sequence)
      <3> SUFFICES ASSUME Current(a, cache[a].sequence) PROVE FALSE
        OBVIOUS
      <3>1. frames[a] \in Seq(Nat \ {0})
        BY <2>1 DEF ContentInv, TypeOK
      <3>2. Len(frames[a]) \in Nat /\ DOMAIN frames[a] = 1 .. Len(frames[a])
        BY <3>1, LenProperties
      <3>3. /\ cache[a].sequence \in 1 .. Len(frames[a])
            /\ frames[a][cache[a].sequence] = screen[a]
        BY <3>2 DEF Current
      <3>4. cache[a].snapshot = frames[a][cache[a].sequence]
        BY <2>1, <3>2, <3>3 DEF ContentInv, MirrorsAFrame
      <3> QED
        BY <3>3, <3>4
    <2> QED
      BY <2>1, <2>2 DEF Repairs, FullComing, Sequence
  <1> QED
    BY <1>1, FramesRepair, PTL
=============================================================================
