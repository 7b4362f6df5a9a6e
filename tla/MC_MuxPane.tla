----------------------------- MODULE MC_MuxPane -----------------------------
(* Small instances of MuxPane for TLC. *)
EXTENDS MuxPane

CONSTANTS c1, c2

PWorld(noutputs, nresizes, ninputs, humans) ==
    [outputs |-> noutputs, resizes |-> nresizes, inputs |-> ninputs, watchers |-> humans]

(***************************************************************************)
(* One human who resizes their terminal and falls behind; two who share it;   *)
(* and input from agents and a human, with replies, to a program that need    *)
(* not read it.                                                              *)
(***************************************************************************)
PaneWorlds ==
    {PWorld(2, 1, 0, {c1}), PWorld(0, 0, 0, {c1, c2}), PWorld(1, 0, 2, {c1})}

\* The terminal is resized while its program exits.
ResizeWorld == {PWorld(1, 1, 0, {c1})}

=============================================================================
