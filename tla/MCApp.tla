------------------------------- MODULE MCApp -------------------------------
(* App for TLC.  Conversations are interchangeable: only equality of them   *)
(* is used, and no run of App checks liveness.                              *)
EXTENDS App, TLC

Symmetry == Permutations(Conversations)

(* Bound: once an event was dropped, or the end of the connection, the client *)
(* and the session go separate ways, which is followed further only while     *)
(* both hold one conversation at most.                                        *)
InPlay == Range(session.archived) \cup Range(archived)
            \cup {a.conv : a \in Range(session.agents) \cup Range(agents)}
LossesOfOneConversation == lost \/ deaf => \A c, d \in InPlay \ {None} : c = d
=============================================================================
