--------------------------- MODULE MC_RunProtocol ---------------------------
(* Small instances of RunProtocol for TLC. *)
EXTENDS RunProtocol, TLC

\* Run and send processes are interchangeable.
Symmetry == Permutations(Agents) \cup Permutations(Senders)

AWorld(shell, env, humans, nsends, nnotes) ==
    [shell |-> shell, env |-> env, humanLines |-> humans, sends |-> nsends, notes |-> nnotes]

(***************************************************************************)
(* Everything that can go wrong at once; then sends that complete; then a    *)
(* note, beside runs and a send that are killed, fail and time out; then a   *)
(* note beside runs whose appends fail, and beside runs and a send while     *)
(* raw.log cannot be read.                                                   *)
(***************************************************************************)
LogWorlds ==
    {AWorld("hooks", EnvKinds, 1, 0, 0),
     AWorld("hooks", {"timeout"}, 0, 2, 0),
     AWorld("hooks", {"crash", "fail", "timeout"}, 0, 1, 1),
     AWorld("hooks", {"io"}, 0, 0, 1),
     AWorld("hooks", {"unreadable"}, 0, 1, 1)}

(***************************************************************************)
(* Where a recorded end is the command's own: a human who types at an idle   *)
(* prompt only, beside a shell with hooks; no human at all where the shell   *)
(* marks no C; a human typing at any moment beside a shell in sentinel mode; *)
(* and runs that time out or fail, but are not killed.                       *)
(***************************************************************************)
OwnWorlds ==
    {AWorld("hooks", {"io"}, 2, 0, 0),
     AWorld("hooks-noC", {"crash", "fail", "io", "timeout"}, 0, 0, 0),
     AWorld("sentinel", {"crash", "io", "timeout", "mid"}, 2, 0, 0),
     AWorld("hooks", {"fail", "timeout"}, 0, 0, 0)}

\* A run that completes, and a note.
NoteWorld == {AWorld("hooks", {}, 0, 0, 1)}

=============================================================================
