---------------------------- MODULE MC_MuxServer ----------------------------
(* Small instances of MuxServer for TLC. *)
EXTENDS MuxServer
=============================================================================
