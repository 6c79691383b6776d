-------------------------- MODULE MCConversations --------------------------
(***************************************************************************)
(* Conversations on a small instance: two agents whose harness writes      *)
(* session files and calls the hook.                                       *)
(***************************************************************************)
EXTENDS Conversations

FilesAndHooks == <<{"files", "hook"}, {"files", "hook"}>>
=============================================================================
