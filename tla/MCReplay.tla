------------------------------ MODULE MCReplay ------------------------------
(***************************************************************************)
(* Small instances of Replay: the feeds of MCEngine, for the original.     *)
(***************************************************************************)
EXTENDS MCEngine, Replay
=============================================================================
