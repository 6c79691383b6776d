----------------------------- MODULE MCServices -----------------------------
(***************************************************************************)
(* Services on a small instance: the constants that a .cfg cannot hold.     *)
(***************************************************************************)
EXTENDS Services

FilesAndHooks == <<{"files", "hook"}, {"files", "hook"}>>

WithUsage == <<"claude", "codex", "grok">>
OneOrTwo == {{"claude"}, {"codex", "grok"}}

\* Two launches at once, one against a server stop, and an attach against a stop.
PairsOfCommands ==
  {[a |-> "launch", b |-> "launch"], [a |-> "launch", b |-> "server stop"],
   [a |-> "attach", b |-> "stop"]}
=============================================================================
