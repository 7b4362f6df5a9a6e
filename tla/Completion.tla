----------------------------- MODULE Completion -----------------------------
(***************************************************************************)
(* How a command's completion is read out of raw.log (internal/detect).     *)
(* raw.log is a sequence of marks: the bytes between two marks never decide  *)
(* a completion, so an offset into raw.log is a position in that sequence    *)
(* and "at or after offset from" is "at an index greater than from".         *)
(* Mark kinds: "C" command output start, "D" command finished (OSC 133),     *)
(* "S" the sentinel of sentinel mode, "B" the boundary text that cmd.exe and *)
(* PowerShell print after it.                                               *)
(***************************************************************************)
EXTENDS Integers, Sequences

MarkKinds == {"C", "D", "S", "B"}

\* The smallest element of S, 0 when S is empty: "no such mark".
FirstOf(S) == IF S = {} THEN 0 ELSE CHOOSE i \in S : \A k \in S : i <= k

\* Indices of the marks of one kind after from.
At(marks, from, kind) == {i \in from + 1 .. Len(marks) : marks[i].kind = kind}

(***************************************************************************)
(* Hooks mode, correlated on C: the first D that has a C between from and    *)
(* itself.                                                                   *)
(***************************************************************************)
FirstD(marks, from) == FirstOf(At(marks, from, "D"))  \* Slip: no correlation.

CorrelatedD(marks, from) ==
    FirstOf({i \in At(marks, from, "D") : \E c \in At(marks, from, "C") : c < i})

(***************************************************************************)
(* The D held for the grace period: the first D after from, as long as no C  *)
(* has been seen there (a C clears it for good).                             *)
(***************************************************************************)
HeldD(marks, from) ==
    IF At(marks, from, "C") = {} THEN FirstOf(At(marks, from, "D")) ELSE 0

\* Sentinel mode without a boundary: the first sentinel after from.
FirstSentinel(marks, from) == FirstOf(At(marks, from, "S"))

\* Sentinel mode with a boundary: the first boundary after the first sentinel.
BoundedEnd(marks, from) ==
    LET s == FirstSentinel(marks, from)
    IN  IF s = 0 THEN 0 ELSE FirstOf(At(marks, s, "B"))

(***************************************************************************)
(* DeriveStatus asks only whether any completion mark follows the offset:    *)
(* scanForMark, with completionKind(mode), without correlation.              *)
(***************************************************************************)
CompletionKind(mode) == IF mode = "sentinel" THEN "S" ELSE "D"

ScanWholeLog(marks, from, mode) == At(marks, 0, CompletionKind(mode)) # {}  \* Slip.

ScanForMark(marks, from, mode) == At(marks, from, CompletionKind(mode)) # {}

=============================================================================
