----------------------------- MODULE LogFollower -----------------------------
(***************************************************************************)
(* raw.log and those who follow it (detect/wait.go, detect/await.go): a run, *)
(* each wait, whoever derives the status or settles a command.  Each has a   *)
(* scanner of its own, that starts at the offset a command was sent at, or   *)
(* at the beginning, in the middle of whatever is there, and reads on in its *)
(* own pieces while the pane's program writes.                              *)
(***************************************************************************)
EXTENDS Scanner

CONSTANTS Followers,
          Pieces,       \* what a program may write at once
          MaxPieces     \* bound: how often it writes

ASSUME FollowerAssumption == Pieces \subseteq Seq(STRING) /\ MaxPieces \in Nat

VARIABLES raw,          \* raw.log
          written,      \* how often something was appended
          from,         \* [Followers -> the offset it starts at]
          scanner       \* [Followers -> its Scanner, or NotBegun]

followVars == <<raw, written, from, scanner>>

NotBegun == [state |-> "none"]
Begun(f) == scanner[f] # NotBegun

FollowInit ==
    /\ raw = <<>> /\ written = 0
    /\ from = [f \in Followers |-> 0]
    /\ scanner = [f \in Followers |-> NotBegun]

\* journal.Write, of one piece.
Logged(p) ==
    /\ raw' = raw \o p
    /\ written' = written + 1
    /\ UNCHANGED <<from, scanner>>

WriteOutput == written < MaxPieces /\ \E p \in Pieces : Logged(p)

StartAt(f, base) ==
    /\ ~Begun(f)
    /\ from' = [from EXCEPT ![f] = base]
    /\ scanner' = [scanner EXCEPT ![f] = NewScanner(base)]
    /\ UNCHANGED <<raw, written>>

\* ReadRange, and the marks Feed finds in what it returned.
ReadOn(f, size) ==
    /\ Begun(f) /\ size <= Len(raw) - scanner[f].pos
    /\ scanner' = [scanner EXCEPT
           ![f] = Scan(@, SubSeq(raw, scanner[f].pos + 1, scanner[f].pos + size))]
    /\ UNCHANGED <<raw, written, from>>

FollowNext ==
    \/ WriteOutput
    \/ \E f \in Followers, base \in 0..Len(raw) : StartAt(f, base)
    \/ \E f \in Followers, size \in 1..Len(raw) : ReadOn(f, size)

FollowSpec == FollowInit /\ [][FollowNext]_followVars

-----------------------------------------------------------------------------
FollowTypeOK ==
    /\ raw \in Seq(STRING) /\ written \in 0..MaxPieces
    /\ from \in [Followers -> 0..Len(raw)] /\ DOMAIN scanner = Followers
    /\ \A f \in Followers : Begun(f) =>
           /\ scanner[f].pos \in from[f]..Len(raw)
           /\ scanner[f].state \in {"ground", "esc", "osc", "oscEsc"}

(***************************************************************************)
(* "A single Scanner must be fed the stream in order; sequences may straddle  *)
(* Feed boundaries" (scanner.go:69-71): however the reads cut it, a follower   *)
(* knows the marks of the stretch it read, at their own offsets, and no other. *)
(***************************************************************************)
EveryMarkIsFound ==
    \A f \in Followers : Begun(f) =>
        scanner[f].marks = MarksIn(SubSeq(raw, from[f] + 1, scanner[f].pos), from[f])

(***************************************************************************)
(* The run, the waits and those who derive the status agree on which commands  *)
(* have begun and ended, and with which codes, although each started in the     *)
(* middle of something else: a mark that one of them found and that lies in     *)
(* what another read, the other found too.  Not so boundaries: where one of     *)
(* two that overlap begins depends on where the scan did.                      *)
(***************************************************************************)
FollowersAgree ==
    \A f, g \in Followers : Begun(f) /\ Begun(g) =>
        \A m \in scanner[f].marks :
            (m.kind # "boundary" /\ from[g] <= m.start /\ m.end <= scanner[g].pos)
            => m \in scanner[g].marks

\* Both of the above: whoever follows the log (Scanner.Feed, from NewScanner on)
\* goes by the marks it holds.
MarksAreRight == EveryMarkIsFound /\ FollowersAgree

=============================================================================
