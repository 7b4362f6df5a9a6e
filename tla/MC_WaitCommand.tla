--------------------------- MODULE MC_WaitCommand ----------------------------
(* Small instances of WaitCommand for TLC. *)
EXTENDS WaitCommand

WWorld(f, prog, under, ncommands, nquestions, nnotes, words, echoes) ==
    [flags |-> f, program |-> prog, busy |-> under, commands |-> ncommands,
     questions |-> nquestions, notes |-> nnotes, worded |-> words, echo |-> echoes]

(***************************************************************************)
(* A handoff with one question whose answer is echoed, and with two whose     *)
(* answers are not; one of a program that asks in no known words; --done on   *)
(* a busy and on an idle shell; and the other conditions at once.            *)
(***************************************************************************)
WaitWorlds ==
    {WWorld({"human"}, FALSE, TRUE, 0, 1, 0, TRUE, TRUE),
     WWorld({"human"}, TRUE, FALSE, 0, 2, 0, TRUE, FALSE),
     WWorld({"human"}, TRUE, FALSE, 0, 1, 0, FALSE, TRUE),
     WWorld({"done"}, FALSE, TRUE, 0, 0, 0, TRUE, TRUE),
     WWorld({"done", "pattern"}, FALSE, FALSE, 1, 0, 0, TRUE, TRUE),
     WWorld({"idle", "note"}, FALSE, TRUE, 0, 1, 1, TRUE, TRUE)}

=============================================================================
