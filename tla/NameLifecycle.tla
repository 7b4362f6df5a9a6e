--------------------------- MODULE NameLifecycle ----------------------------
(***************************************************************************)
(* One terminal name in one state namespace (internal/cli, internal/state):    *)
(* processes that create it, one that kills it and one that prunes it, over    *)
(* the directory <name>, its archive <name>.prev and the multiplexer's panes.  *)
(*                                                                          *)
(* A terminal is known by the process that created it: its journal is at the   *)
(* path, in the archive or nowhere, whatever is at the path by then.          *)
(***************************************************************************)
EXTENDS FiniteSets, Naturals

CONSTANTS
    Creators,
    MayCrash,       \* whether a creator may be killed half-way
    Pruning,        \* whether a prune runs
    None

ASSUME LifecycleAssumption ==
    /\ None \notin Creators /\ {"old", "stray"} \cap (Creators \cup {None}) = {}
    /\ MayCrash \in BOOLEAN /\ Pruning \in BOOLEAN

VARIABLES
    lock,       \* who holds the name reservation, or None
    dir,        \* whose journal is at the path: a creator, "old", "stray" or None
    prev,       \* the same for the archive
    pane,       \* [Creators -> "none", "unnamed", "live" (it has its name), "dead"]
    pc,         \* [Creators -> where cmdNew is]
    killer,     \* [pc, target]
    pruner,     \* [pc, dir, prev, live]: what it is to remove and what it saw alive
    removed,    \* what a prune removed from the path or the archive
    overtaken   \* creators whose pane came to life after the prune that removed their
                \* journal had looked

fileVars == <<dir, prev, removed, overtaken>>
vars == <<lock, fileVars, pane, pc, killer, pruner>>

Owners == Creators \cup {"old", "stray"}

\* Either the name is new, or it was a terminal's that is gone.
Init ==
    /\ lock = None /\ dir \in {None, "old"} /\ prev = None
    /\ pane = [c \in Creators |-> "none"]
    /\ pc = [c \in Creators |-> "off"]
    /\ killer = [pc |-> "off", target |-> None]
    /\ pruner = [pc |-> "off", dir |-> FALSE, prev |-> FALSE, live |-> {}]
    /\ removed = {} /\ overtaken = {}

Live == {c \in Creators : pane[c] = "live"}
Running(c) == pane[c] \in {"unnamed", "live"}

Goto(c, l) == pc' = [pc EXCEPT ![c] = l]
SetPane(c, s) == pane' = [pane EXCEPT ![c] = s]
Step(c, from, to) == pc[c] = from /\ Goto(c, to)

-----------------------------------------------------------------------------
(* new *)

\* Slip: the reservation does not exclude anybody.
ReserveShared(c) ==
    /\ Step(c, "off", "reserved")
    /\ lock' = c
    /\ UNCHANGED <<fileVars, pane, killer, pruner>>

AcquireNameReservation(c) ==
    /\ Step(c, "off", "reserved") /\ lock = None
    /\ lock' = c
    /\ UNCHANGED <<fileVars, pane, killer, pruner>>

BeingCreated(c) ==
    /\ Step(c, "off", "failed") /\ lock # None
    /\ UNCHANGED <<lock, fileVars, pane, killer, pruner>>

FindPane(c) ==
    /\ pc[c] = "reserved"
    /\ Goto(c, IF Live # {} THEN "failing" ELSE IF dir # None THEN "reusing" ELSE "cleared")
    /\ UNCHANGED <<lock, fileVars, pane, killer, pruner>>

DropArchive(c) ==
    /\ Step(c, "reusing", "dropped")
    /\ prev' = None
    /\ UNCHANGED <<lock, dir, removed, overtaken, pane, killer, pruner>>

\* Slip: the archive is dropped after the rename.
ArchiveThenDrop(c) ==
    /\ pc[c] = "dropped" /\ dir # None
    /\ Goto(c, "cleared") /\ prev' = None /\ dir' = None
    /\ UNCHANGED <<lock, removed, overtaken, pane, killer, pruner>>

Archive(c) ==
    /\ pc[c] = "dropped"
    /\ IF dir = None
       THEN Goto(c, "failing") /\ UNCHANGED <<dir, prev>>
       ELSE Goto(c, "cleared") /\ prev' = dir /\ dir' = None
    /\ UNCHANGED <<lock, removed, overtaken, pane, killer, pruner>>

PrepareJournal(c) ==
    /\ Step(c, "cleared", "prepared")
    /\ dir' = c
    /\ UNCHANGED <<lock, prev, removed, overtaken, pane, killer, pruner>>

\* The server opens raw.log before it starts the program.
NewWindow(c) ==
    /\ Step(c, "prepared", "opened") /\ dir # None
    /\ SetPane(c, "unnamed")
    /\ UNCHANGED <<lock, fileVars, killer, pruner>>

SetPaneOption(c) ==
    /\ Step(c, "opened", "named") /\ Running(c)
    /\ SetPane(c, "live")
    /\ UNCHANGED <<lock, fileVars, killer, pruner>>

\* meta.json and the created event.
Record(c) ==
    /\ Step(c, "named", "recorded") /\ dir # None
    /\ UNCHANGED <<lock, fileVars, pane, killer, pruner>>

Ready(c) ==
    /\ Step(c, "recorded", "done")
    /\ lock' = None
    /\ UNCHANGED <<fileVars, pane, killer, pruner>>

\* Any of these calls may fail, and does when the directory or the pane is gone.
Fails(c) ==
    /\ pc[c] \in {"cleared", "prepared", "opened", "named", "recorded"}
    /\ Goto(c, "failing")
    /\ UNCHANGED <<lock, fileVars, pane, killer, pruner>>

\* Slip: a pane is given up only once it has its name.
KillNamedPane(c) ==
    /\ Step(c, "failing", "giveup")
    /\ IF pane[c] = "live" THEN SetPane(c, "dead") ELSE UNCHANGED pane
    /\ UNCHANGED <<lock, fileVars, killer, pruner>>

\* The deferred calls: kill the pane, then release the reservation.
KillOwnPane(c) ==
    /\ Step(c, "failing", "giveup")
    /\ IF Running(c) THEN SetPane(c, "dead") ELSE UNCHANGED pane
    /\ UNCHANGED <<lock, fileVars, killer, pruner>>

Release(c) ==
    /\ Step(c, "giveup", "failed")
    /\ lock' = None
    /\ UNCHANGED <<fileVars, pane, killer, pruner>>

Crash(c) ==
    /\ MayCrash /\ pc[c] \notin {"off", "done", "failed", "crashed"}
    /\ Goto(c, "crashed") /\ lock' = None
    /\ UNCHANGED <<fileVars, pane, killer, pruner>>

PaneExits(c) ==
    /\ Running(c)
    /\ SetPane(c, "dead")
    /\ UNCHANGED <<lock, fileVars, pc, killer, pruner>>

-----------------------------------------------------------------------------
(* kill *)

ResolveToKill ==
    /\ killer.pc = "off" /\ (dir # None \/ Live # {})
    /\ \E t \in IF Live = {} THEN {None} ELSE Live :
           killer' = [pc |-> "resolved", target |-> t]
    /\ UNCHANGED <<lock, fileVars, pane, pc, pruner>>

KillWindow ==
    /\ killer.pc = "resolved"
    /\ IF killer.target # None /\ Running(killer.target)
       THEN SetPane(killer.target, "dead") ELSE UNCHANGED pane
    /\ killer' = [killer EXCEPT !.pc = "killed"]
    /\ UNCHANGED <<lock, fileVars, pc, pruner>>

\* Opening the journal makes its directory if there is none.
NoteKilled ==
    /\ killer.pc = "killed"
    /\ dir' = IF dir = None THEN "stray" ELSE dir
    /\ killer' = [killer EXCEPT !.pc = "done"]
    /\ UNCHANGED <<lock, prev, removed, overtaken, pane, pc, pruner>>

-----------------------------------------------------------------------------
(* prune, by name *)

\* Either may be kept: its write lock is held, or it is too young.
Prune(journal, archive) ==
    /\ Pruning /\ pruner.pc = "off" /\ (dir # None \/ Live # {})
    /\ \E d \in {FALSE, journal}, p \in {FALSE, archive} :
           pruner' = [pc |-> "resolved", dir |-> d, prev |-> p, live |-> Live]
    /\ UNCHANGED <<lock, fileVars, pane, pc, killer>>

\* Slip: alive or not, the journal goes.
ResolveAnyway == Prune(dir # None, prev # None)

\* Of a live terminal only the archive.
ResolveToPrune == Prune(Live = {} /\ dir # None, prev # None)

RemoveDir ==
    /\ pruner.pc = "resolved"
    /\ IF pruner.dir
       THEN /\ dir' = None /\ removed' = removed \cup ({dir} \ {None})
            /\ overtaken' = overtaken \cup ((Creators \ pruner.live) \cap {dir})
       ELSE UNCHANGED <<dir, removed, overtaken>>
    /\ pruner' = [pruner EXCEPT !.pc = "archive"]
    /\ UNCHANGED <<lock, prev, pane, pc, killer>>

RemoveArchive ==
    /\ pruner.pc = "archive"
    /\ IF pruner.prev
       THEN prev' = None /\ removed' = removed \cup ({prev} \ {None})
       ELSE UNCHANGED <<prev, removed>>
    /\ pruner' = [pruner EXCEPT !.pc = "done"]
    /\ UNCHANGED <<lock, dir, overtaken, pane, pc, killer>>

-----------------------------------------------------------------------------
New(c) ==
    \/ AcquireNameReservation(c) \/ BeingCreated(c) \/ FindPane(c) \/ DropArchive(c)
    \/ Archive(c) \/ PrepareJournal(c) \/ NewWindow(c) \/ SetPaneOption(c) \/ Record(c)
    \/ Ready(c) \/ Fails(c) \/ KillOwnPane(c) \/ Release(c)

Next ==
    \/ \E c \in Creators : New(c) \/ Crash(c) \/ PaneExits(c)
    \/ ResolveToKill \/ KillWindow \/ NoteKilled
    \/ ResolveToPrune \/ RemoveDir \/ RemoveArchive

Spec == Init /\ [][Next]_vars

-----------------------------------------------------------------------------
AtWork == {"reserved", "reusing", "dropped", "cleared", "prepared", "opened", "named", "recorded",
           "failing", "giveup"}

TypeOK ==
    /\ lock \in Creators \cup {None}
    /\ dir \in Owners \cup {None} /\ prev \in Owners \cup {None}
    /\ pane \in [Creators -> {"none", "unnamed", "live", "dead"}]
    /\ pc \in [Creators -> AtWork \cup {"off", "done", "failed", "crashed"}]
    /\ killer.target \in Creators \cup {None}
    /\ removed \subseteq Owners /\ overtaken \subseteq Creators /\ pruner.live \subseteq Creators

(***************************************************************************)
(* The reservation "serializes terminal creation by name" (reservation.go      *)
(* :17-20): at most one process is past it, and at most one terminal answers   *)
(* to the name.                                                              *)
(***************************************************************************)
OneTerminal ==
    /\ \A c, d \in Creators : pc[c] \in AtWork /\ pc[d] \in AtWork => c = d
    /\ \A c, d \in Live : c = d

(***************************************************************************)
(* A live terminal's journal is at the path: no create archives or overwrites  *)
(* it and no kill or prune removes it (prune.go:22-23, "A live terminal's       *)
(* journal is never touched"), save a prune that looked before it came to life. *)
(***************************************************************************)
LiveJournalIsKept == \A c \in Live : dir = c \/ c \in overtaken

(***************************************************************************)
(* A create that fails leaves no program behind; only one that is killed may   *)
(* leave a pane that has no name, which no command lists.                      *)
(***************************************************************************)
FailedLeavesNoPane ==
    \A c \in Creators :
        /\ pc[c] = "failed" => ~Running(c)
        /\ pane[c] = "unnamed" => pc[c] \in {"opened", "failing", "crashed"}

(***************************************************************************)
(* The journal of a terminal outlives the creates of its name, whether they    *)
(* succeed, fail or die half-way: it is lost by a prune, or when the directory  *)
(* that took its place is to be archived in turn (commands.go:93-94).          *)
(***************************************************************************)
HistoryIsKept ==
    [][\A o \in Creators \cup {"old"} :
           o \in {dir, prev} /\ o \notin {dir', prev'} =>
               o \in removed' \/ removed # {} \/ (prev = o /\ dir # None)]_vars

=============================================================================
