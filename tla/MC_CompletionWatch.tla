------------------------- MODULE MC_CompletionWatch -------------------------
(* A small instance of CompletionWatch for TLC. *)
EXTENDS CompletionWatch

\* Those of run (WaitCommand, WaitCommandCorrelated) and of wait (CompletionWatcher).
AllWaits == {w \in Wait : w.prompt = w.deadline}

=============================================================================
