------------------------- MODULE OutputPath_proofs -------------------------
(***************************************************************************)
(* Proofs about the way of output to the frames, for every number of       *)
(* agents and every capacity of the channel of notes.                      *)
(***************************************************************************)
EXTENDS OutputPath, SequenceTheorems, TLAPS

-----------------------------------------------------------------------------
\* Type correctness

\* A note keeps the channel a channel of agents within its capacity.
LEMMA NoteType ==
  ASSUME TypeOK, NEW a \in Agent, Note(a)
  PROVE  notes' \in Seq(Agent) /\ Len(notes') <= NoteCapacity
PROOF
  <1>1. notes \in Seq(Agent) /\ Len(notes) \in Nat /\ Len(notes) <= NoteCapacity
    BY LenProperties DEF TypeOK
  <1>2. CASE RoomForNote
    <2>1. notes' = Append(notes, a)
      BY <1>2 DEF Note
    <2>2. notes' \in Seq(Agent) /\ Len(notes') = Len(notes) + 1
      BY <1>1, <2>1, AppendProperties
    <2> QED
      BY <1>1, <1>2, <2>2, OutputAssumption DEF RoomForNote
  <1>3. CASE ~RoomForNote
    BY <1>1, <1>3 DEF Note
  <1> QED
    BY <1>2, <1>3

\* A reader thread keeps the types.
LEMMA ReaderType ==
  ASSUME TypeOK, NEW a \in Agent, Read(a) \/ Count(a) \/ Hangup(a) \/ Note(a)
  PROVE  TypeOK'
PROOF
  <1>1. CASE Read(a)
    BY <1>1 DEF TypeOK, Read, Reads, Moves, pollVars, clientVars
  <1>2. CASE Count(a)
    BY <1>2 DEF TypeOK, Count, Moves, pollVars, clientVars
  <1>3. CASE Hangup(a)
    BY <1>3 DEF TypeOK, Hangup, Reads, Moves, pollVars, clientVars
  <1>4. CASE Note(a)
    <2>1. notes' \in Seq(Agent) /\ Len(notes') <= NoteCapacity
      BY <1>4, NoteType
    <2> QED
      BY <1>4, <2>1 DEF TypeOK, Note, Moves, pollVars, clientVars
  <1> QED
    BY <1>1, <1>2, <1>3, <1>4

\* Attaching, detaching and every step of a poll keep the types.
LEMMA CoordinatorType ==
  ASSUME TypeOK, Attach \/ Detach \/ Poll PROVE TypeOK'
PROOF
  <1>1. CASE Attach \/ Detach
    <2>1. screen \in [Agent -> Nat]
      BY DEF TypeOK
    <2>2. sent' \in [Agent -> Nat]
      BY <1>1, <2>1 DEF Attach, Detach
    <2>3. attached' \in BOOLEAN
      BY <1>1 DEF Attach, Detach
    <2>4. UNCHANGED <<readerVars, notes, pollVars>>
      BY <1>1 DEF Attach, Detach
    <2> QED
      BY <2>2, <2>3, <2>4 DEF TypeOK, readerVars, pollVars
  <1>2. CASE DrainNotes
    <2>1. <<>> \in Seq(Agent) /\ Len(<<>>) = 0
      BY EmptySeq
    <2>2. noted' \subseteq Agent
      BY <1>2, ElementOfSeq DEF TypeOK, DrainNotes
    <2> QED
      BY <1>2, <2>1, <2>2, OutputAssumption DEF TypeOK, DrainNotes, readerVars, clientVars
  <1>3. CASE EndPoll
    BY <1>3 DEF TypeOK, EndPoll, readerVars, clientVars
  <1>4. ASSUME NEW a \in Agent, ReadGeneration(a) PROVE TypeOK'
    BY <1>4 DEF TypeOK, ReadGeneration, Visit, Onwards, readerVars
  <1>5. ASSUME NEW a \in Agent, Capture(a) PROVE TypeOK'
    BY <1>5 DEF TypeOK, Capture, GenerationSeen, Visit, Onwards, readerVars
  <1>6. ASSUME NEW a \in Agent, SendFrame(a) PROVE TypeOK'
    BY <1>6 DEF TypeOK, SendFrame, Visit, readerVars
  <1> QED
    BY <1>1, <1>2, <1>3, <1>4, <1>5, <1>6 DEF Poll

-----------------------------------------------------------------------------
\* No output is forgotten

\* No generation a poll knows is ahead of the reader's.
KnownGenerations ==
  \A a \in Agent : seen[a] <= generation[a] /\ observed[a] <= generation[a]

\* What has happened to a terminal since the last poll observed its generation.
News(a) == reader[a] = "shown" \/ generation[a] # observed[a]

\* A poll took agent a's screen and has not finished.
Taken(a) == (phase = "capturing" /\ a \notin left) \/ phase = "sending"

\* A screen that was captured and is no longer the terminal's is followed by news.
CapturedIsFresh ==
  \A a \in Agent : Taken(a) /\ captured[a] \notin {0, screen[a]} => News(a)

OutputInv == TypeOK /\ KnownGenerations /\ CapturedIsFresh /\ NoOutputIsForgotten

\* Before any output nothing is captured and no generation is known.
LEMMA InitOutput == Init => OutputInv
PROOF
  <1> SUFFICES ASSUME Init PROVE OutputInv
    OBVIOUS
  <1>1. <<>> \in Seq(Agent) /\ Len(<<>>) = 0
    BY EmptySeq
  <1>2. TypeOK
    <2>1. attached \in BOOLEAN
      BY DEF Init
    <2>2. /\ reader \in [Agent -> {"reading", "shown", "counted", "ended"}]
          /\ phase \in {"inputs", "reading", "capturing", "sending"}
          /\ closed \subseteq Agent
          /\ left \subseteq Agent /\ noted \subseteq Agent /\ due \subseteq Agent
      BY DEF Init
    <2>3. /\ reads \in Nat
          /\ screen \in [Agent -> Nat \ {0}] /\ generation \in [Agent -> Nat]
          /\ seen \in [Agent -> Nat] /\ captured \in [Agent -> Nat]
          /\ observed \in [Agent -> Nat] /\ sent \in [Agent -> Nat]
      BY DEF Init
    <2>4. notes \in Seq(Agent) /\ Len(notes) <= NoteCapacity
      BY <1>1, OutputAssumption DEF Init
    <2> QED
      BY <2>1, <2>2, <2>3, <2>4 DEF TypeOK
  <1>3. KnownGenerations /\ CapturedIsFresh /\ NoOutputIsForgotten
    BY DEF Init, KnownGenerations, CapturedIsFresh, NoOutputIsForgotten, Taken
  <1> QED
    BY <1>2, <1>3 DEF OutputInv

\* A count leaves every known generation behind the reader's.
LEMMA GenerationsGrow ==
  ASSUME generation \in [Agent -> Nat], seen \in [Agent -> Nat], observed \in [Agent -> Nat],
         KnownGenerations, UNCHANGED <<seen, observed>>,
         NEW a \in Agent,
         \/ generation' = generation
         \/ generation' = [generation EXCEPT ![a] = @ + 1]
  PROVE  KnownGenerations'
PROOF
  <1>1. CASE generation' = generation
    BY <1>1 DEF KnownGenerations
  <1>2. CASE generation' = [generation EXCEPT ![a] = @ + 1]
    BY <1>2 DEF KnownGenerations
  <1> QED
    BY <1>1, <1>2

\* Reader threads: new output is news until a poll observes it.
LEMMA ReaderKeepsOutput ==
  ASSUME OutputInv, TypeOK', NEW a \in Agent, Read(a) \/ Count(a) \/ Hangup(a) \/ Note(a)
  PROVE  OutputInv'
PROOF
  <1> USE DEF OutputInv, TypeOK, pollVars, clientVars
  <1>1. UNCHANGED <<seen, observed, captured, phase, left, due, attached, sent>>
    BY DEF Read, Count, Hangup, Note
  <1>2. KnownGenerations'
    <2>1. generation \in [Agent -> Nat] /\ seen \in [Agent -> Nat] /\ observed \in [Agent -> Nat]
      OBVIOUS
    <2>2. \/ generation' = generation
          \/ generation' = [generation EXCEPT ![a] = @ + 1]
      BY DEF Read, Count, Hangup, Note
    <2>3. KnownGenerations
      OBVIOUS
    <2> QED
      BY <1>1, <2>1, <2>2, <2>3, GenerationsGrow
  <1>3. \A b \in Agent : screen'[b] = screen[b] \/ reader'[b] = "shown"
    BY DEF Read, Reads, Count, Hangup, Note, Moves
  <1>4. \A b \in Agent : News(b) => News(b)'
    <2>1. ASSUME NEW b \in Agent, News(b) PROVE News(b)'
      <3>1. CASE Read(a)
        BY <1>1, <2>1, <3>1 DEF News, Read, Reads, Moves
      <3>2. CASE Count(a)
        BY <1>1, <2>1, <3>2 DEF News, Count, Moves, KnownGenerations
      <3>3. CASE Hangup(a)
        BY <1>1, <2>1, <3>3 DEF News, Hangup, Reads, Moves
      <3>4. CASE Note(a)
        BY <1>1, <2>1, <3>4 DEF News, Note, Moves
      <3> QED
        BY <3>1, <3>2, <3>3, <3>4
    <2> QED
      BY <2>1
  <1>5. CapturedIsFresh'
    BY <1>1, <1>3, <1>4 DEF CapturedIsFresh, Taken, News
  <1>6. NoOutputIsForgotten'
    BY <1>1, <1>3, <1>4 DEF NoOutputIsForgotten, InThisPoll, News
  <1> QED
    BY <1>2, <1>5, <1>6

\* Polls: what is observed is captured first, and what was captured is sent.
LEMMA PollKeepsOutput ==
  ASSUME OutputInv, TypeOK', Poll PROVE OutputInv'
PROOF
  <1> USE DEF OutputInv, TypeOK
  <1>1. CASE DrainNotes
    BY <1>1 DEF DrainNotes, readerVars, clientVars, KnownGenerations, CapturedIsFresh,
                NoOutputIsForgotten, InThisPoll, Taken, News
  <1>2. CASE EndPoll
    BY <1>2 DEF EndPoll, readerVars, clientVars, KnownGenerations, CapturedIsFresh,
                NoOutputIsForgotten, InThisPoll, Taken, News
  <1>3. ASSUME NEW a \in Agent, ReadGeneration(a) PROVE OutputInv'
    BY <1>3 DEF ReadGeneration, Visit, Onwards, readerVars, KnownGenerations, CapturedIsFresh,
                NoOutputIsForgotten, InThisPoll, Taken, News
  <1>4. ASSUME NEW a \in Agent, Capture(a) PROVE OutputInv'
    <2>1. /\ phase = "capturing" /\ a \in left
          /\ UNCHANGED <<reader, screen, generation, seen, attached, sent>>
          /\ captured' = [captured EXCEPT ![a] = IF seen[a] # observed[a] THEN screen[a] ELSE 0]
          /\ observed' = [observed EXCEPT ![a] = seen[a]]
          /\ due' = IF attached /\ Changed(a) THEN due \cup {a} ELSE due
      BY <1>4 DEF Capture, GenerationSeen, Visit, readerVars
    <2>2. \/ phase' = "sending" /\ left = {a} /\ left' = due'
          \/ phase' = "capturing" /\ left' = left \ {a}
      BY <1>4 DEF Capture, Visit, Onwards
    <2>3. KnownGenerations'
      BY <2>1 DEF KnownGenerations
    <2>4. CapturedIsFresh'
      BY <2>1, <2>2 DEF CapturedIsFresh, Taken, News
    <2>5. ASSUME NEW b \in Agent, attached', sent'[b] # screen'[b]
          PROVE  reader'[b] = "shown" \/ generation'[b] # observed'[b] \/ InThisPoll(b)'
      <3>1. reader[b] = "shown" \/ generation[b] # observed[b] \/ InThisPoll(b)
        BY <2>1, <2>5 DEF NoOutputIsForgotten
      <3>2. CASE b = a
        <4>1. CASE seen[a] = observed[a]
          BY <2>1, <3>1, <3>2, <4>1 DEF InThisPoll
        <4>2. CASE seen[a] # observed[a]
          <5>1. a \in due' /\ captured'[a] = screen'[a]
            BY <2>1, <2>5, <4>2 DEF Changed
          <5> QED
            BY <2>2, <3>2, <5>1 DEF InThisPoll
        <4> QED
          BY <4>1, <4>2
      <3>3. CASE b # a
        <4>1. CASE InThisPoll(b)
          BY <2>1, <2>2, <3>3, <4>1 DEF InThisPoll
        <4>2. CASE ~InThisPoll(b)
          BY <2>1, <3>1, <3>3, <4>2
        <4> QED
          BY <4>1, <4>2
      <3> QED
        BY <3>2, <3>3
    <2> QED
      BY <2>3, <2>4, <2>5 DEF NoOutputIsForgotten
  <1>5. ASSUME NEW a \in Agent, SendFrame(a) PROVE OutputInv'
    <2>1. /\ phase = "sending" /\ phase' = phase /\ left' = left \ {a}
          /\ UNCHANGED <<reader, screen, generation, seen, observed, captured, attached>>
          /\ sent' = [sent EXCEPT ![a] = IF captured[a] # 0 THEN captured[a] ELSE screen[a]]
      BY <1>5 DEF SendFrame, Visit, readerVars
    <2>2. KnownGenerations' /\ CapturedIsFresh'
      BY <2>1 DEF KnownGenerations, CapturedIsFresh, Taken, News
    <2>3. ASSUME NEW b \in Agent, attached', sent'[b] # screen'[b]
          PROVE  reader'[b] = "shown" \/ generation'[b] # observed'[b] \/ InThisPoll(b)'
      <3>1. CASE b = a
        BY <2>1, <2>3, <3>1 DEF CapturedIsFresh, Taken, News
      <3>2. CASE b # a
        BY <2>1, <2>3, <3>2 DEF NoOutputIsForgotten, InThisPoll
      <3> QED
        BY <3>1, <3>2
    <2> QED
      BY <2>2, <2>3 DEF NoOutputIsForgotten
  <1> QED
    BY <1>1, <1>2, <1>3, <1>4, <1>5 DEF Poll

\* Every step of a reader, of the poll and of the client keeps the invariant.
LEMMA OutputInvInductive == OutputInv /\ [Next]_vars => OutputInv'
PROOF
  <1> SUFFICES ASSUME OutputInv, [Next]_vars PROVE OutputInv'
    OBVIOUS
  <1>1. TypeOK
    BY DEF OutputInv
  <1>2. CASE UNCHANGED vars
    BY <1>2 DEF vars, readerVars, pollVars, clientVars, OutputInv, TypeOK, KnownGenerations,
                CapturedIsFresh, NoOutputIsForgotten, InThisPoll, Taken, News
  <1>3. ASSUME NEW a \in Agent, Read(a) \/ Count(a) \/ Hangup(a) \/ Note(a) PROVE OutputInv'
    BY <1>1, <1>3, ReaderType, ReaderKeepsOutput
  <1>4. CASE Attach \/ Detach
    <2>1. TypeOK'
      BY <1>1, <1>4, CoordinatorType
    <2>2. KnownGenerations' /\ CapturedIsFresh'
      BY <1>4 DEF Attach, Detach, readerVars, pollVars, OutputInv, KnownGenerations,
                  CapturedIsFresh, Taken, News
    <2>3. NoOutputIsForgotten'
      BY <1>1, <1>4 DEF Attach, Detach, readerVars, pollVars, TypeOK, NoOutputIsForgotten
    <2> QED
      BY <2>1, <2>2, <2>3 DEF OutputInv
  <1>5. CASE Poll
    BY <1>1, <1>5, CoordinatorType, PollKeepsOutput
  <1> QED
    BY <1>2, <1>3, <1>4, <1>5 DEF Next

\* The invariant holds in every reachable state.
LEMMA OutputInvHolds == Spec => []OutputInv
  BY InitOutput, OutputInvInductive, PTL DEF Spec

\* Every reachable state is well typed: in particular the channel of notes never
\* outgrows its capacity.
THEOREM OutputTypeCorrect == Spec => []TypeOK
PROOF
  <1>1. OutputInv => TypeOK
    BY DEF OutputInv
  <1> QED
    BY <1>1, OutputInvHolds, PTL

\* With any number of agents and any capacity of the channel of notes, output that no
\* frame has shown yet will be found by a poll.
THEOREM OutputIsNeverForgotten == Spec => []NoOutputIsForgotten
PROOF
  <1>1. OutputInv => NoOutputIsForgotten
    BY DEF OutputInv
  <1> QED
    BY <1>1, OutputInvHolds, PTL

=============================================================================
