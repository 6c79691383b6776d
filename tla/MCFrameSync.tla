---------------------------- MODULE MCFrameSync ----------------------------
(***************************************************************************)
(* FrameSync on small instances: what the users of each run do.            *)
(***************************************************************************)
EXTENDS FrameSync

AllUserOps == {"scroll", "resize", "spawn", "close", "quit"}
LifecycleOps == {"resize", "close", "quit"}
ResizeOnly == {"resize"}
ScrollOnly == {"scroll"}
SpawnOnly == {"spawn"}
=============================================================================
