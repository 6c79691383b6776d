---------------------------- MODULE ScreenMirror ----------------------------
(***************************************************************************)
(* What the terminal frames promise, with no queues, diffs or resyncs: the *)
(* server publishes screens of an agent one after another, and the client  *)
(* shows one of them, never an older one than before unless it forgets the *)
(* agent (it disconnects, or the agent is removed).                        *)
(***************************************************************************)
EXTENDS Naturals, Sequences

CONSTANT Agent

VARIABLES
  frames,  \* the screens published of each agent
  shown    \* the position and the screen the client shows of each agent

Nothing == [sequence |-> 0, snapshot |-> 0]

Init ==
  /\ frames = [a \in Agent |-> <<>>]
  /\ shown = [a \in Agent |-> Nothing]

\* At most one new screen of each agent is published in a step.
Publish ==
  /\ \A a \in Agent :
       \/ frames'[a] = frames[a]
       \/ \E s \in {frames'[a][Len(frames[a]) + 1]} : frames'[a] = Append(frames[a], s)
  /\ DOMAIN frames' = Agent

\* The client moves on to a later screen of one agent.
Show ==
  \E a \in Agent : \E n \in DOMAIN frames[a] :
    /\ n > shown[a].sequence
    /\ shown' = [shown EXCEPT ![a] = [sequence |-> n, snapshot |-> frames[a][n]]]
    /\ UNCHANGED frames

Forget ==
  /\ \E S \in SUBSET Agent : shown' = [a \in Agent |-> IF a \in S THEN Nothing ELSE shown[a]]
  /\ UNCHANGED frames

Next == (Publish /\ UNCHANGED shown) \/ Show \/ Forget

Spec == Init /\ [][Next]_<<frames, shown>>

=============================================================================
