-------------------------- MODULE MCEmulatorThreads --------------------------
(* The life of the emulator's threads over a few configuration switches. *)
EXTENDS EmulatorThreads
=============================================================================
