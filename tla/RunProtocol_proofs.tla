------------------------- MODULE RunProtocol_proofs -------------------------
(***************************************************************************)
(* The event log stays a record one can rely on, whatever number of run,     *)
(* send and note processes share a terminal and whatever happens to them:    *)
(* types, unique command ids, and ends that match their starts.  Then, on     *)
(* top of that: sends do not mix their lines, no note is lost without a       *)
(* known reason, and the completion recorded for a command is its own.       *)
(***************************************************************************)
EXTENDS RunProtocol, TLAPS, FiniteSetTheorems, SequenceTheorems, WellFoundedInduction

-----------------------------------------------------------------------------
(* Least and greatest elements, which the model CHOOSEs. *)

(***************************************************************************)
(* The mark that is CHOSEn as the first of several exists.                   *)
(***************************************************************************)
LEMMA LeastExists ==
  ASSUME NEW S, S \subseteq Nat, S # {}
  PROVE  \E m \in S : \A k \in S : m <= k
  <1>1. PICK m \in S : \A k \in S : ~ (<<k, m>> \in OpToRel(<, Nat))
    BY NatLessThanWellFounded, WFMin
  <1>2. \A k \in S : ~ (k < m)
    BY <1>1 DEF OpToRel
  <1> QED
    BY <1>2

(***************************************************************************)
(* So does the highest command id, and the last command that is pending.     *)
(***************************************************************************)
LEMMA GreatestExists ==
  ASSUME NEW S, S \subseteq Nat, S # {}, NEW n \in Nat, \A k \in S : k <= n
  PROVE  \E m \in S : \A k \in S : k <= m
  <1> DEFINE T == {n - k : k \in S}
  <1>1. \A k \in S : n - k \in Nat
    OBVIOUS
  <1>2. T \subseteq Nat /\ T # {}
    BY <1>1
  <1>3. PICK t \in T : \A k \in T : t <= k
    BY <1>2, LeastExists
  <1>4. PICK m \in S : t = n - m
    BY <1>3
  <1>5. \A k \in S : n - m <= n - k
    BY <1>3, <1>4
  <1> QED
    BY <1>4, <1>5

(***************************************************************************)
(* FirstOf answers with an element or with 0.                                *)
(***************************************************************************)
LEMMA FirstOfType ==
  ASSUME NEW S, S \subseteq Nat
  PROVE  FirstOf(S) \in Nat
  BY LeastExists DEF FirstOf

(***************************************************************************)
(* A completion that is looked for in raw.log is an index or 0.              *)
(***************************************************************************)
LEMMA CompletionType ==
  ASSUME NEW offset \in Nat
  PROVE  Completed(offset) \in Nat /\ Held(offset) \in Nat
  <1>1. ASSUME NEW kind PROVE At(marks, offset, kind) \subseteq Nat
    BY DEF At
  <1> QED
    BY <1>1, FirstOfType DEF Completed, Held, HeldD, CorrelatedD, FirstSentinel

-----------------------------------------------------------------------------
(* The questions asked of a log. *)

(***************************************************************************)
(* HighestId is an upper bound, and the id of some event unless it is 0.     *)
(***************************************************************************)
LEMMA HighestIdIsMax ==
  ASSUME NEW l \in Seq(Events)
  PROVE  /\ HighestId(l) \in Nat
         /\ \A i \in 1 .. Len(l) : l[i].id <= HighestId(l)
         /\ HighestId(l) = 0 \/ \E i \in 1 .. Len(l) : l[i].id = HighestId(l)
  <1> DEFINE S == {0} \cup {l[i].id : i \in 1 .. Len(l)}
  <1>1. \A i \in 1 .. Len(l) : l[i].id \in 0 .. MaxCmds
    <2>1. \A i \in 1 .. Len(l) : l[i] \in Events
      BY ElementOfSeq
    <2> QED
      BY <2>1 DEF Events
  <1>2. S \subseteq Nat /\ S # {} /\ \A k \in S : k <= MaxCmds
    BY <1>1, RunAssumption DEF RunAssumption
  <1>3. \E m \in S : \A k \in S : k <= m
    BY <1>2, GreatestExists, RunAssumption DEF RunAssumption
  <1>4. \E m \in S : \A i \in 1 .. Len(l) : l[i].id <= m
    BY <1>3
  <1>5. HighestId(l) \in S /\ \A i \in 1 .. Len(l) : l[i].id <= HighestId(l)
    BY <1>4 DEF HighestId
  <1> QED
    BY <1>2, <1>5

(***************************************************************************)
(* PendingCmd is the last command whose end is not recorded, or 0.           *)
(***************************************************************************)
LEMMA PendingIsUnended ==
  ASSUME NEW S, NEW l \in Seq(S)
  PROVE  /\ PendingCmd(l) = 0 <=> Unended(l) = {}
         /\ Unended(l) # {} =>
                PendingCmd(l) \in Unended(l) /\ \A k \in Unended(l) : k <= PendingCmd(l)
  <1>1. Len(l) \in Nat /\ Unended(l) \subseteq Nat
    BY LenProperties DEF Unended
  <1>2. ASSUME Unended(l) # {}
        PROVE  PendingCmd(l) \in Unended(l) /\ \A k \in Unended(l) : k <= PendingCmd(l)
    <2>1. \A k \in Unended(l) : k <= Len(l)
      BY DEF Unended
    <2>2. \E i \in Unended(l) : \A k \in Unended(l) : k <= i
      BY <1>1, <1>2, <2>1, GreatestExists
    <2> QED
      BY <1>2, <2>2 DEF PendingCmd
  <1>3. 0 \notin Unended(l)
    BY DEF Unended
  <1> QED
    BY <1>2, <1>3 DEF PendingCmd

-----------------------------------------------------------------------------
(* Logs that are well formed, and what an append does to one. *)

IsStart(ev) == ev.type = "cmd_start"
IsEnd(ev) == ev.type = "cmd_end"

(***************************************************************************)
(* Commands have ids of their own, from 1, and other events none; an end      *)
(* follows its start and is the only one; notes are notes.                   *)
(***************************************************************************)
WellFormed(l) ==
    /\ \A i \in 1 .. Len(l) : ~IsStart(l[i]) /\ ~IsEnd(l[i]) => l[i].id = 0
    /\ \A i \in 1 .. Len(l) : l[i].type = "note" => l[i].note \in Notes
    /\ \A i \in 1 .. Len(l) : IsStart(l[i]) => l[i].id >= 1
    /\ \A i, k \in 1 .. Len(l) :
           IsStart(l[i]) /\ IsStart(l[k]) /\ l[i].id = l[k].id => i = k
    /\ \A k \in 1 .. Len(l) : IsEnd(l[k]) =>
           \E i \in 1 .. k - 1 : IsStart(l[i]) /\ l[i].id = l[k].id
    /\ \A i, k \in 1 .. Len(l) :
           IsEnd(l[i]) /\ IsEnd(l[k]) /\ l[i].id = l[k].id => i = k

(***************************************************************************)
(* Every event of index.jsonl has an id in the range of the command ids, 0    *)
(* for those that are not about a command.                                   *)
(***************************************************************************)
LEMMA EventIds ==
  ASSUME NEW l \in Seq(Events)
  PROVE  \A i \in 1 .. Len(l) : l[i].id \in 0 .. MaxCmds
  <1>1. \A i \in 1 .. Len(l) : l[i] \in Events
    BY ElementOfSeq
  <1> QED
    BY <1>1 DEF Events

(***************************************************************************)
(* Appending an event leaves the earlier ones where they were.               *)
(***************************************************************************)
LEMMA AppendElements ==
  ASSUME NEW l \in Seq(Events), NEW ev \in Events
  PROVE  /\ Append(l, ev) \in Seq(Events)
         /\ Len(l) \in Nat /\ Len(Append(l, ev)) = Len(l) + 1
         /\ \A i \in 1 .. Len(l) : Append(l, ev)[i] = l[i]
         /\ Append(l, ev)[Len(l) + 1] = ev
         /\ \A i \in 1 .. Len(l) : l[i] \in Events
  BY AppendProperties, LenProperties, ElementOfSeq

(***************************************************************************)
(* The greatest id NextCmdID starts from, after an event is appended.        *)
(***************************************************************************)
LEMMA AppendHighestId ==
  ASSUME NEW l \in Seq(Events), NEW ev \in Events
  PROVE  HighestId(Append(l, ev)) = IF ev.id > HighestId(l) THEN ev.id ELSE HighestId(l)
  <1> DEFINE m == Append(l, ev)
  <1>1. /\ m \in Seq(Events) /\ Len(l) \in Nat /\ Len(m) = Len(l) + 1
        /\ \A i \in 1 .. Len(l) : m[i] = l[i]
        /\ m[Len(l) + 1] = ev
    BY AppendElements
  <1>2. ev.id \in Nat
    BY RunAssumption DEF Events, RunAssumption
  <1>3. /\ HighestId(m) \in Nat
        /\ \A i \in 1 .. Len(m) : m[i].id <= HighestId(m)
        /\ HighestId(m) = 0 \/ \E i \in 1 .. Len(m) : m[i].id = HighestId(m)
    BY <1>1, HighestIdIsMax
  <1>4. /\ HighestId(l) \in Nat
        /\ \A i \in 1 .. Len(l) : l[i].id <= HighestId(l)
        /\ HighestId(l) = 0 \/ \E i \in 1 .. Len(l) : l[i].id = HighestId(l)
    BY HighestIdIsMax
  <1> HIDE DEF m
  <1>5. ev.id <= HighestId(m) /\ HighestId(l) <= HighestId(m)
    BY <1>1, <1>2, <1>3, <1>4
  <1>6. HighestId(m) = ev.id \/ HighestId(m) <= HighestId(l)
    <2>1. CASE HighestId(m) = 0
      BY <2>1, <1>4
    <2>2. ASSUME NEW i \in 1 .. Len(m), m[i].id = HighestId(m)
          PROVE  HighestId(m) = ev.id \/ HighestId(m) <= HighestId(l)
      BY <2>2, <1>1, <1>4
    <2> QED
      BY <2>1, <2>2, <1>3
  <1>7. HighestId(m) = IF ev.id > HighestId(l) THEN ev.id ELSE HighestId(l)
    BY <1>2, <1>3, <1>4, <1>5, <1>6
  <1> QED
    BY <1>7 DEF m

(***************************************************************************)
(* A note or a sent event, which every process may append at any time.       *)
(***************************************************************************)
LEMMA AppendOther ==
  ASSUME NEW l \in Seq(Events), WellFormed(l), NEW ev \in Events,
         ~IsStart(ev), ~IsEnd(ev), ev.id = 0, ev.type = "note" => ev.note \in Notes
  PROVE  /\ WellFormed(Append(l, ev))
         /\ Unended(Append(l, ev)) = Unended(l)
         /\ HighestId(Append(l, ev)) = HighestId(l)
  <1> DEFINE m == Append(l, ev)
  <1>1. /\ Len(l) \in Nat /\ Len(m) = Len(l) + 1
        /\ \A i \in 1 .. Len(l) : m[i] = l[i]
        /\ m[Len(l) + 1] = ev
    BY AppendElements
  <1>2. HighestId(m) = HighestId(l)
    BY AppendHighestId, HighestIdIsMax
  <1> HIDE DEF m
  <1>3. \A i \in 1 .. Len(m) : IsStart(m[i]) \/ IsEnd(m[i]) => i \in 1 .. Len(l) /\ m[i] = l[i]
    BY <1>1
  <1>4. WellFormed(m)
    BY <1>1, <1>3 DEF WellFormed
  <1>5. Unended(m) = Unended(l)
    BY <1>1, <1>3 DEF Unended, EndedAfter, IsStart, IsEnd
  <1> QED
    BY <1>2, <1>4, <1>5 DEF m

(***************************************************************************)
(* A command that starts takes the next id and is pending.                   *)
(***************************************************************************)
LEMMA AppendStart ==
  ASSUME NEW l \in Seq(Events), WellFormed(l), NEW ev \in Events,
         IsStart(ev), ev.id = NextCmdID(l)
  PROVE  /\ WellFormed(Append(l, ev))
         /\ Unended(Append(l, ev)) = Unended(l) \cup {Len(l) + 1}
         /\ Append(l, ev)[Len(l) + 1] = ev
  <1> DEFINE m == Append(l, ev)
  <1>1. /\ Len(l) \in Nat /\ Len(m) = Len(l) + 1
        /\ \A i \in 1 .. Len(l) : m[i] = l[i]
        /\ m[Len(l) + 1] = ev
    BY AppendElements
  <1>2. ev.id \in Nat /\ ev.id >= 1 /\ \A i \in 1 .. Len(l) : l[i].id < ev.id
    <2>1. \A i \in 1 .. Len(l) : l[i].id \in 0 .. MaxCmds
      BY EventIds
    <2> QED
      BY <2>1, HighestIdIsMax, RunAssumption DEF NextCmdID, RunAssumption
  <1> HIDE DEF m
  <1>3. \A i \in 1 .. Len(m) : (i = Len(l) + 1 /\ m[i] = ev) \/ (i \in 1 .. Len(l) /\ m[i] = l[i])
    BY <1>1
  <1>4. ~IsEnd(ev)
    BY DEF IsStart, IsEnd
  <1>5. WellFormed(m)
    <2>1. \A i \in 1 .. Len(m) : ~IsStart(m[i]) /\ ~IsEnd(m[i]) => m[i].id = 0
      BY <1>3 DEF WellFormed
    <2>2. \A i \in 1 .. Len(m) : m[i].type = "note" => m[i].note \in Notes
      BY <1>3 DEF WellFormed, IsStart
    <2>3. \A i \in 1 .. Len(m) : IsStart(m[i]) => m[i].id >= 1
      BY <1>2, <1>3 DEF WellFormed
    <2>4. \A i, k \in 1 .. Len(m) :
              IsStart(m[i]) /\ IsStart(m[k]) /\ m[i].id = m[k].id => i = k
      BY <1>2, <1>3 DEF WellFormed
    <2>5. \A k \in 1 .. Len(m) : IsEnd(m[k]) =>
              \E i \in 1 .. k - 1 : IsStart(m[i]) /\ m[i].id = m[k].id
      BY <1>1, <1>3, <1>4 DEF WellFormed
    <2>6. \A i, k \in 1 .. Len(m) : IsEnd(m[i]) /\ IsEnd(m[k]) /\ m[i].id = m[k].id => i = k
      BY <1>3, <1>4 DEF WellFormed
    <2> QED
      BY <2>1, <2>2, <2>3, <2>4, <2>5, <2>6 DEF WellFormed
  <1>6. Unended(m) = Unended(l) \cup {Len(l) + 1}
    BY <1>1, <1>3, <1>4 DEF Unended, EndedAfter, IsStart, IsEnd
  <1> QED
    BY <1>1, <1>5, <1>6 DEF m

(***************************************************************************)
(* The recorded end of a pending command; its id is nobody else's.           *)
(***************************************************************************)
LEMMA AppendEnd ==
  ASSUME NEW l \in Seq(Events), WellFormed(l), NEW ev \in Events,
         NEW p \in Unended(l), IsEnd(ev), ev.id = l[p].id
  PROVE  /\ WellFormed(Append(l, ev))
         /\ Unended(Append(l, ev)) = Unended(l) \ {p}
         /\ HighestId(Append(l, ev)) = HighestId(l)
  <1> DEFINE m == Append(l, ev)
  <1>1. /\ Len(l) \in Nat /\ Len(m) = Len(l) + 1
        /\ \A i \in 1 .. Len(l) : m[i] = l[i]
        /\ m[Len(l) + 1] = ev
    BY AppendElements
  <1>2. p \in 1 .. Len(l) /\ IsStart(l[p]) /\ ~EndedAfter(l, p)
    BY DEF Unended, IsStart
  <1>3. HighestId(m) = HighestId(l)
    <2>1. \A i \in 1 .. Len(l) : l[i].id \in 0 .. MaxCmds
      BY EventIds
    <2> QED
      BY <1>2, <2>1, AppendHighestId, HighestIdIsMax, RunAssumption DEF RunAssumption
  <1> HIDE DEF m
  <1>4. \A i \in 1 .. Len(m) : (i = Len(l) + 1 /\ m[i] = ev) \/ (i \in 1 .. Len(l) /\ m[i] = l[i])
    BY <1>1
  <1>5. ~IsStart(ev)
    BY DEF IsStart, IsEnd
  <1>6. \A k \in 1 .. Len(l) : IsEnd(l[k]) => l[k].id # ev.id
    <2>1. SUFFICES ASSUME NEW k \in 1 .. Len(l), IsEnd(l[k]), l[k].id = l[p].id PROVE FALSE
      OBVIOUS
    <2>2. PICK i \in 1 .. k - 1 : IsStart(l[i]) /\ l[i].id = l[k].id
      BY <2>1 DEF WellFormed
    <2>3. i = p
      BY <1>1, <1>2, <2>1, <2>2 DEF WellFormed
    <2>4. k \in p + 1 .. Len(l)
      BY <1>1, <2>2, <2>3
    <2> QED
      BY <1>2, <2>1, <2>4 DEF EndedAfter, IsEnd
  <1>7. WellFormed(m)
    <2>1. \A i \in 1 .. Len(m) : ~IsStart(m[i]) /\ ~IsEnd(m[i]) => m[i].id = 0
      BY <1>4 DEF WellFormed
    <2>2. \A i \in 1 .. Len(m) : m[i].type = "note" => m[i].note \in Notes
      BY <1>4 DEF WellFormed, IsEnd
    <2>3. \A i \in 1 .. Len(m) : IsStart(m[i]) => m[i].id >= 1
      BY <1>4, <1>5 DEF WellFormed
    <2>4. \A i, k \in 1 .. Len(m) :
              IsStart(m[i]) /\ IsStart(m[k]) /\ m[i].id = m[k].id => i = k
      BY <1>4, <1>5 DEF WellFormed
    <2>5. \A k \in 1 .. Len(m) : IsEnd(m[k]) =>
              \E i \in 1 .. k - 1 : IsStart(m[i]) /\ m[i].id = m[k].id
      <3>1. SUFFICES ASSUME NEW k \in 1 .. Len(m), IsEnd(m[k])
                     PROVE  \E i \in 1 .. k - 1 : IsStart(m[i]) /\ m[i].id = m[k].id
        OBVIOUS
      <3>2. CASE k = Len(l) + 1
        BY <3>2, <1>1, <1>2
      <3>3. CASE k \in 1 .. Len(l)
        BY <3>1, <3>3, <1>1 DEF WellFormed
      <3> QED
        BY <3>2, <3>3, <1>1
    <2>6. \A i, k \in 1 .. Len(m) : IsEnd(m[i]) /\ IsEnd(m[k]) /\ m[i].id = m[k].id => i = k
      BY <1>4, <1>6 DEF WellFormed
    <2> QED
      BY <2>1, <2>2, <2>3, <2>4, <2>5, <2>6 DEF WellFormed
  <1>8. Unended(m) = Unended(l) \ {p}
    <2>1. \A i \in 1 .. Len(l) : IsStart(l[i]) =>
              (EndedAfter(m, i) <=> EndedAfter(l, i) \/ l[i].id = ev.id)
      BY <1>1, <1>4 DEF EndedAfter, IsEnd
    <2>2. \A i \in 1 .. Len(l) : IsStart(l[i]) /\ l[i].id = ev.id <=> i = p
      BY <1>2 DEF WellFormed
    <2>3. \A i : i \in Unended(m) <=> i \in 1 .. Len(l) /\ IsStart(l[i]) /\ ~EndedAfter(m, i)
      BY <1>1, <1>4, <1>5 DEF Unended, IsStart
    <2>4. \A i : i \in Unended(l) <=> i \in 1 .. Len(l) /\ IsStart(l[i]) /\ ~EndedAfter(l, i)
      BY DEF Unended, IsStart
    <2> QED
      BY <2>1, <2>2, <2>3, <2>4
  <1> QED
    BY <1>3, <1>7, <1>8 DEF m

-----------------------------------------------------------------------------
(* The inductive invariant. *)

\* A run has started its command and has not recorded its end.
Started == {"literal", "enter", "wait", "end"}

(***************************************************************************)
(* What the holder of the write lock knows of the log, because nobody else    *)
(* starts or ends a command meanwhile: the id it computed is still the next   *)
(* one, its own command is pending, and none is pending before it starts.     *)
(***************************************************************************)
RunOK(a) ==
    /\ pc[a] # "idle" => writeLock = a
    /\ pc[a] \in {"baseline", "settle", "start", "record"} => NextCmdID(log) <= MaxCmds
    /\ pc[a] = "record" => run[a].id = NextCmdID(log)
    /\ pc[a] \in Started => \E i \in Unended(log) : log[i].id = run[a].id
    /\ "io" \notin Env /\ pc[a] \in {"start", "record"} => Unended(log) = {}

OnePending == "io" \notin Env => \A i, k \in Unended(log) : i = k

RunInv == TypeOK /\ WellFormed(log) /\ OnePending /\ \A a \in Agents : RunOK(a)

(***************************************************************************)
(* Notes are read out of the log, and are notes.                             *)
(***************************************************************************)
LEMMA NotesType ==
  ASSUME RunInv
  PROVE  /\ UnseenNotes(log) \subseteq Notes
         /\ \A a \in Agents : HeldNotes(a) \subseteq Notes
  <1>1. \A i \in 1 .. Len(log) : log[i].type = "note" => log[i].note \in Notes
    BY DEF RunInv, WellFormed
  <1>2. UnseenNotes(log) \subseteq Notes
    BY <1>1 DEF UnseenNotes
  <1>3. \A a \in Agents : run[a].notes \subseteq Notes /\ run[a].base \in Nat
    BY DEF RunInv, TypeOK, RunState
  <1>4. ASSUME NEW base \in Nat PROVE NotesArrivedSince(log, base) \subseteq Notes
    BY <1>1 DEF NotesArrivedSince
  <1> QED
    BY <1>2, <1>3, <1>4 DEF HeldNotes

(***************************************************************************)
(* The events that are appended are events.                                  *)
(***************************************************************************)
LEMMA EventType ==
  ASSUME RunInv
  PROVE  /\ \A id \in 0 .. MaxCmds, offset, ts \in Nat : CmdStart(id, offset, ts) \in Events
         /\ \A id \in 0 .. MaxCmds, offset, ts \in Nat, exit \in Nat \cup {Aborted} :
                CmdEnd(id, offset, exit, ts) \in Events
         /\ \A n \in Notes, ts \in Nat : NoteEvent(n, ts) \in Events
         /\ \A ts \in Nat : SentEvent(ts) \in Events
         /\ Now \in Nat
  BY RunAssumption DEF RunAssumption, RunInv, TypeOK, Events, EventTypes, CmdStart, CmdEnd, NoteEvent,
     SentEvent, Now

(***************************************************************************)
(* The pending command of the log and the offset it was recorded with.       *)
(***************************************************************************)
LEMMA UnendedType ==
  ASSUME RunInv, NEW i \in Unended(log)
  PROVE  /\ i \in 1 .. Len(log) /\ log[i] \in Events
         /\ log[i].id \in 1 .. MaxCmds /\ log[i].offset \in Nat
  <1>1. i \in 1 .. Len(log) /\ IsStart(log[i])
    BY DEF Unended, IsStart
  <1>2. log[i] \in Events
    BY <1>1, AppendElements, EventType, ElementOfSeq DEF RunInv, TypeOK
  <1>3. log[i].id >= 1
    BY <1>1 DEF RunInv, WellFormed
  <1>4. log[i].id \in 0 .. MaxCmds /\ log[i].offset \in Nat
    BY <1>2 DEF Events
  <1> QED
    BY <1>1, <1>2, <1>3, <1>4, RunAssumption DEF RunAssumption

(***************************************************************************)
(* A new terminal has an empty log and nobody drives it.                     *)
(***************************************************************************)
LEMMA InitRunInv == Init => RunInv
  <1> SUFFICES ASSUME Init PROVE RunInv
    OBVIOUS
  <1>1. /\ Len(log) = 0 /\ log \in Seq(Events) /\ marks \in Seq([kind : MarkKinds, by : Lines])
        /\ line \in Lines /\ queue \in Seq(Lines) /\ fg \in Lines
    BY EmptySeq DEF Init, Lines
  <1>2. world.sends \in Nat /\ world.humanLines \in Nat
    BY RunAssumption DEF Init, RunAssumption, World
  <1>3. NoRun \in RunState
    BY RunAssumption DEF NoRun, RunState, RunAssumption
  <1>4. TypeOK
    BY <1>1, <1>2, <1>3 DEF Init, TypeOK, RunLabels
  <1>5. WellFormed(log) /\ Unended(log) = {}
    BY <1>1 DEF WellFormed, Unended
  <1>6. \A a \in Agents : RunOK(a)
    BY DEF Init, RunOK, Started
  <1> QED
    BY <1>4, <1>5, <1>6 DEF RunInv, OnePending

-----------------------------------------------------------------------------
(* Types are preserved. *)

(***************************************************************************)
(* What is typed, entered and marked in the pane stays lines and marks.      *)
(***************************************************************************)
LEMMA PaneType ==
  ASSUME RunInv
  PROVE  /\ \A a \in Agents : pc[a] \in Started =>
                run[a].id \in 1 .. MaxCmds /\ Append(line, RunPiece(run[a].id)) \in Lines
         /\ \A s \in Senders : Append(line, SendPiece(s)) \in Lines
         /\ Append(queue, line) \in Seq(Lines)
         /\ <<>> \in Lines /\ <<HumanPiece>> \in Lines
         /\ \A l \in Lines : Append(queue, line \o l) \in Seq(Lines)
         /\ queue # <<>> => Head(queue) \in Lines /\ Tail(queue) \in Seq(Lines)
         /\ \A kind \in MarkKinds, l \in Lines :
                Append(marks, Mark(kind, l)) \in Seq([kind : MarkKinds, by : Lines])
  <1> DEFINE P == {RunPiece(id) : id \in 1 .. MaxCmds} \cup {SendPiece(s) : s \in Senders}
                  \cup {HumanPiece}
  <1>1. /\ Lines = Seq(P) /\ line \in Seq(P) /\ queue \in Seq(Lines)
        /\ marks \in Seq([kind : MarkKinds, by : Lines])
    BY DEF RunInv, TypeOK, Lines
  <1>2. /\ \A id \in 1 .. MaxCmds : RunPiece(id) \in P
        /\ \A s \in Senders : SendPiece(s) \in P
        /\ HumanPiece \in P
    OBVIOUS
  <1>3. \A a \in Agents : pc[a] \in Started => run[a].id \in 1 .. MaxCmds
    BY UnendedType DEF RunInv, RunOK
  <1> HIDE DEF P
  <1>4. \A a \in Agents : pc[a] \in Started => Append(line, RunPiece(run[a].id)) \in Lines
    BY <1>1, <1>2, <1>3, AppendProperties
  <1>5. \A s \in Senders : Append(line, SendPiece(s)) \in Lines
    BY <1>1, <1>2, AppendProperties
  <1>6. Append(queue, line) \in Seq(Lines)
    BY <1>1, AppendProperties
  <1>7. <<>> \in Lines /\ <<HumanPiece>> \in Lines
    BY <1>1, <1>2, EmptySeq
  <1>8. \A l \in Lines : line \o l \in Lines /\ Append(queue, line \o l) \in Seq(Lines)
    BY <1>1, ConcatProperties, AppendProperties
  <1>9. queue # <<>> => Head(queue) \in Lines /\ Tail(queue) \in Seq(Lines)
    BY <1>1, HeadTailProperties
  <1>10. \A kind \in MarkKinds, l \in Lines :
            Append(marks, Mark(kind, l)) \in Seq([kind : MarkKinds, by : Lines])
    BY <1>1, AppendProperties DEF Mark
  <1> QED
    BY <1>3, <1>4, <1>5, <1>6, <1>7, <1>8, <1>9, <1>10

(***************************************************************************)
(* Appending an event keeps the log a sequence of events, and moves the       *)
(* clock.                                                                    *)
(***************************************************************************)
LEMMA AppendType ==
  ASSUME RunInv, NEW ev \in Events, AppendEvent(ev)
  PROVE  log' \in Seq(Events) /\ clock' \in Nat
  BY AppendElements, EventType DEF AppendEvent, RunInv, TypeOK

(***************************************************************************)
(* Leaving a run, on whatever path, and surfacing notes.                     *)
(***************************************************************************)
LEMMA LeaveType ==
  ASSUME RunInv, NEW a \in Agents
  PROVE  /\ Leave(a) => /\ writeLock' \in Agents \cup {None}
                        /\ pc' \in [Agents -> RunLabels] /\ run' \in [Agents -> RunState]
         /\ \A l \in RunLabels : Goto(a, l) => pc' \in [Agents -> RunLabels]
         /\ \A ns, how : how \in {"shown", "done"} /\ Surface(ns, how) =>
                delivered' \in [Notes -> {"none", "shown", "done"}]
  <1>1. NoRun \in RunState
    BY RunAssumption DEF NoRun, RunState, RunAssumption
  <1>2. \A l \in RunLabels : Goto(a, l) => pc' \in [Agents -> RunLabels]
    BY DEF Goto, RunInv, TypeOK
  <1>3. Leave(a) => /\ writeLock' \in Agents \cup {None}
                    /\ pc' \in [Agents -> RunLabels] /\ run' \in [Agents -> RunState]
    <2>1. "idle" \in RunLabels
      BY DEF RunLabels
    <2> QED
      BY <1>1, <1>2, <2>1 DEF Leave, RunInv, TypeOK
  <1>4. \A ns, how : how \in {"shown", "done"} /\ Surface(ns, how) =>
            delivered' \in [Notes -> {"none", "shown", "done"}]
    BY DEF Surface, RunInv, TypeOK
  <1> QED
    BY <1>2, <1>3, <1>4

(***************************************************************************)
(* A settlement records the end of the pending command at some mark, or at 0 *)
(* when it could not look for one.                                           *)
(***************************************************************************)
LEMMA SettledBy ==
  ASSUME RunInv, NEW a \in Agents, Settle(a) \/ SettleUnread(a)
  PROVE  \E m \in Nat : PendingCmd(log) \in Unended(log) /\ pc[a] = "settle" /\ SettleAs(a, m)
  <1> DEFINE p == PendingCmd(log)
  <1>1. p \in Unended(log) /\ pc[a] = "settle"
    BY PendingIsUnended DEF Settle, SettleUnread, RunInv, TypeOK
  <1>2. log[p].offset \in Nat
    BY <1>1, UnendedType
  <1>3. CASE Settle(a)
    <2>1. PICK m : /\ m = Completed(log[p].offset) \/ m = Held(log[p].offset)
                   /\ SettleAs(a, m)
      BY <1>3 DEF Settle
    <2>2. m \in Nat
      BY <1>2, <2>1, CompletionType DEF RunInv, TypeOK
    <2> QED
      BY <1>1, <2>1, <2>2
  <1>4. CASE SettleUnread(a)
    BY <1>1, <1>4 DEF SettleUnread
  <1> QED
    BY <1>3, <1>4

(***************************************************************************)
(* The steps of a run.                                                       *)
(***************************************************************************)
LEMMA RunTypes ==
  ASSUME RunInv, NEW a \in Agents, RunStep(a) \/ CrashRun(a), UNCHANGED world
  PROVE  TypeOK'
  <1> USE DEF logVars, runVars, sendVars, paneVars, noteVars
  <1>1. /\ run[a] \in RunState /\ run[a].id \in 0 .. MaxCmds /\ run[a].offset \in Nat
        /\ run[a].notes \subseteq Notes /\ run[a].mark \in Nat
        /\ HeldNotes(a) \subseteq Notes /\ UnseenNotes(log) \subseteq Notes
        /\ Len(log) \in Nat /\ Len(marks) \in Nat
    BY NotesType, LenProperties DEF RunInv, TypeOK, RunState
  <1>2. Now \in Nat
    BY EventType
  <1>3. TypeOK
    BY DEF RunInv
  <1>4. CASE AcquireWriteLock(a) \/ NothingPending(a)
    BY <1>3, <1>4, LeaveType DEF AcquireWriteLock, NothingPending, TypeOK, RunLabels
  <1>5. CASE NotesBaseline(a)
    <2>1. run' \in [Agents -> RunState]
      BY <1>1, <1>3, <1>5 DEF NotesBaseline, TypeOK, RunState
    <2> QED
      BY <2>1, <1>3, <1>5, LeaveType DEF NotesBaseline, TypeOK, RunLabels
  <1>6. CASE Settle(a) \/ SettleUnread(a)
    <2> DEFINE p == PendingCmd(log)
    <2>1. PICK m \in Nat : p \in Unended(log) /\ SettleAs(a, m)
      BY <1>6, SettledBy
    <2>2. CmdEnd(log[p].id, m, m, Now) \in Events
      BY <1>2, <2>1, UnendedType, EventType
    <2>3. log' \in Seq(Events) /\ clock' \in Nat
      BY <1>3, <2>1, <2>2, AppendType DEF SettleAs, TypeOK
    <2> QED
      BY <2>1, <2>3, <1>3, LeaveType DEF SettleAs, TypeOK, RunLabels
  <1>7. CASE StillRunning(a)
    BY <1>3, <1>7, LeaveType DEF StillRunning, TypeOK
  <1>8. CASE NumberCommand(a)
    <2>1. NextCmdID(log) \in 0 .. MaxCmds
      BY <1>3, <1>8, HighestIdIsMax, RunAssumption
      DEF NumberCommand, RunInv, RunOK, NextCmdID, TypeOK, RunAssumption
    <2>2. run' \in [Agents -> RunState]
      BY <1>1, <1>3, <1>8, <2>1 DEF NumberCommand, TypeOK, RunState
    <2> QED
      BY <2>2, <1>3, <1>8, LeaveType DEF NumberCommand, TypeOK, RunLabels
  <1>9. CASE StartFails(a) \/ WaitFails(a) \/ CrashRun(a)
    BY <1>1, <1>3, <1>9, LeaveType DEF StartFails, WaitFails, CrashRun, TypeOK
  <1>10. CASE RecordStart(a)
    <2>1. log' \in Seq(Events) /\ clock' \in Nat
      BY <1>1, <1>2, <1>10, EventType, AppendType DEF RecordStart
    <2> QED
      BY <2>1, <1>3, <1>10, LeaveType DEF RecordStart, TypeOK, RunLabels
  <1>11. CASE SendLiteral(a)
    <2>1. line' \in Lines
      BY <1>11, PaneType DEF SendLiteral, Started
    <2> QED
      BY <2>1, <1>3, <1>11, LeaveType DEF SendLiteral, TypeOK, RunLabels
  <1>12. CASE SendEnter(a)
    BY <1>3, <1>12, PaneType, LeaveType DEF SendEnter, TypeOK, RunLabels
  <1>13. CASE Abort(a)
    <2>1. CmdEnd(run[a].id, Len(marks), Aborted, Now) \in Events
      BY <1>1, <1>2, EventType
    <2>2. log' \in Seq(Events) /\ clock' \in Nat
      BY <1>3, <1>13, <2>1, AppendType DEF Abort, TypeOK
    <2> QED
      BY <2>2, <1>1, <1>3, <1>13, LeaveType DEF Abort, TypeOK
  <1>14. CASE WaitDone(a) \/ GraceOver(a) \/ DeadlineTakesHeld(a)
    <2>1. PICK m \in Nat : Finish(a, m)
      BY <1>1, <1>14, CompletionType DEF WaitDone, GraceOver, DeadlineTakesHeld
    <2>2. run' \in [Agents -> RunState]
      BY <1>1, <1>3, <2>1 DEF Finish, TypeOK, RunState
    <2> QED
      BY <2>1, <2>2, <1>3, LeaveType DEF Finish, TypeOK, RunLabels
  <1>15. CASE GiveUp(a)
    BY <1>3, <1>15, LeaveType DEF GiveUp, TypeOK
  <1>16. CASE RecordEnd(a)
    <2>1. CmdEnd(run[a].id, run[a].mark, run[a].mark, Now) \in Events
      BY <1>1, <1>2, EventType
    <2>2. log' \in Seq(Events) /\ clock' \in Nat
      BY <1>3, <1>16, <2>1, AppendType DEF RecordEnd, TypeOK
    <2> QED
      BY <2>2, <1>3, <1>16, LeaveType DEF RecordEnd, TypeOK, RunLabels
  <1>17. CASE Emit(a)
    BY <1>3, <1>17, LeaveType DEF Emit, TypeOK
  <1> QED
    BY <1>4, <1>5, <1>6, <1>7, <1>8, <1>9, <1>10, <1>11, <1>12, <1>13, <1>14, <1>15, <1>16, <1>17
    DEF RunStep

(***************************************************************************)
(* The steps of sends, notes, peeks, the shell and the human.                *)
(***************************************************************************)
LEMMA OtherTypes ==
  ASSUME RunInv, UNCHANGED world,
         \/ \E s \in Senders : SendStep(s) \/ SendFails(s)
         \/ \E n \in Notes : StampNote(n) \/ AppendNote(n)
         \/ Peek \/ ShellReads \/ CommandEnds \/ CommandReads
         \/ HumanEnters(<<HumanPiece>>) \/ HumanEnters(<<>>)
  PROVE  TypeOK'
  <1> USE DEF logVars, runVars, sendVars, paneVars, noteVars
  <1>1. TypeOK
    BY DEF RunInv
  <1>2. /\ UnseenNotes(log) \subseteq Notes /\ Now \in Nat
        /\ world.sends \in Nat /\ world.humanLines \in Nat
    BY <1>1, NotesType, EventType, RunAssumption DEF RunAssumption, TypeOK, World
  <1>3. ASSUME NEW s \in Senders, SendStep(s) \/ SendFails(s) PROVE TypeOK'
    <2>1. \A l \in {"idle", "text", "enter", "sent"} :
              SGoto(s, l) => spc' \in [Senders -> {"idle", "text", "enter", "sent"}]
      BY <1>1 DEF SGoto, TypeOK
    <2>2. CASE AcquireSendLock(s)
      BY <2>1, <2>2, <1>1, <1>2 DEF AcquireSendLock, TypeOK
    <2>3. CASE SendText(s)
      BY <2>1, <2>3, <1>1, PaneType DEF SendText, TypeOK
    <2>4. CASE SendKeys(s)
      BY <2>1, <2>4, <1>1, PaneType DEF SendKeys, TypeOK
    <2>5. CASE RecordSent(s)
      <3>1. log' \in Seq(Events) /\ clock' \in Nat
        BY <1>2, <2>5, EventType, AppendType DEF RecordSent
      <3> QED
        BY <3>1, <2>1, <2>5, <1>1, <1>2 DEF RecordSent, SendLeave, TypeOK
    <2>6. CASE SendFails(s)
      BY <2>1, <2>6, <1>1 DEF SendFails, SendLeave, TypeOK
    <2> QED
      BY <1>3, <2>2, <2>3, <2>4, <2>5, <2>6 DEF SendStep
  <1>4. ASSUME NEW n \in Notes, StampNote(n) \/ AppendNote(n) PROVE TypeOK'
    <2>1. CASE StampNote(n)
      BY <2>1, <1>1, <1>2 DEF StampNote, TypeOK
    <2>2. CASE AppendNote(n)
      <3>1. NoteEvent(n, stamp[n]) \in Events
        BY <1>1, EventType DEF TypeOK
      <3>2. log' \in Seq(Events)
        BY <3>1, <2>2, <1>1, AppendElements DEF AppendNote, TypeOK
      <3> QED
        BY <3>2, <2>2, <1>1 DEF AppendNote, TypeOK
    <2> QED
      BY <1>4, <2>1, <2>2
  <1>5. CASE Peek
    <2>1. delivered' \in [Notes -> {"none", "shown", "done"}]
      BY <1>1, <1>5 DEF Peek, Surface, TypeOK
    <2> QED
      BY <2>1, <1>1, <1>5 DEF Peek, TypeOK
  <1>6. \A l \in Lines : Execute(l) =>
            marks' \in Seq([kind : MarkKinds, by : Lines]) /\ fg' \in Lines
    BY <1>1, PaneType DEF Execute, TypeOK, MarkKinds
  <1>7. CASE ShellReads
    BY <1>1, <1>6, <1>7, PaneType DEF ShellReads, TypeOK
  <1>8. CASE CommandEnds
    <2>1. marks' \in Seq([kind : MarkKinds, by : Lines]) /\ fg' \in Lines
      BY <1>1, <1>8, PaneType DEF CommandEnds, TypeOK, MarkKinds
    <2> QED
      BY <2>1, <1>1, <1>8 DEF CommandEnds, TypeOK
  <1>9. CASE CommandReads
    BY <1>1, <1>9, PaneType DEF CommandReads, TypeOK
  <1>10. ASSUME NEW text \in Lines, HumanEnters(text) PROVE TypeOK'
    <2>1. humanLines' \in 0 .. world.humanLines
      BY <1>1, <1>2, <1>10 DEF HumanEnters, TypeOK
    <2>2. /\ marks' \in Seq([kind : MarkKinds, by : Lines]) /\ fg' \in Lines
          /\ line' \in Lines /\ queue' \in Seq(Lines)
      BY <1>1, <1>6, <1>10, PaneType DEF HumanEnters, TypeOK
    <2> QED
      BY <2>1, <2>2, <1>1, <1>10 DEF HumanEnters, TypeOK
  <1> QED
    BY <1>3, <1>4, <1>5, <1>7, <1>8, <1>9, <1>10, PaneType

-----------------------------------------------------------------------------
(* The invariant is preserved. *)

\* What RunInv says beyond the types.
LogInv == WellFormed(log) /\ OnePending /\ \A a \in Agents : RunOK(a)

(***************************************************************************)
(* Sends, notes, peeks, the shell and the human leave the runs alone, and     *)
(* the most they do to the log is to append a note or a sent event.          *)
(***************************************************************************)
LEMMA QuietStep ==
  ASSUME RunInv, UNCHANGED <<world, runVars>>,
         \/ log' = log
         \/ \E ev \in Events : /\ log' = Append(log, ev)
                               /\ ~IsStart(ev) /\ ~IsEnd(ev) /\ ev.id = 0
                               /\ ev.type = "note" => ev.note \in Notes
  PROVE  LogInv'
  <1>1. /\ WellFormed(log)' /\ Unended(log)' = Unended(log)
        /\ HighestId(log)' = HighestId(log)
        /\ \A i \in Unended(log) : log'[i] = log[i]
    <2>1. CASE log' = log
      BY <2>1 DEF RunInv
    <2>2. ASSUME NEW ev \in Events, log' = Append(log, ev), ~IsStart(ev), ~IsEnd(ev),
                 ev.id = 0, ev.type = "note" => ev.note \in Notes
          PROVE  /\ WellFormed(log)' /\ Unended(log)' = Unended(log)
                 /\ HighestId(log)' = HighestId(log)
                 /\ \A i \in Unended(log) : log'[i] = log[i]
      <3>1. log \in Seq(Events) /\ WellFormed(log)
        BY DEF RunInv, TypeOK
      <3>2. \A i \in Unended(log) : log'[i] = log[i]
        BY <2>2, <3>1, AppendElements DEF Unended
      <3> QED
        BY <2>2, <3>1, <3>2, AppendOther
    <2> QED
      BY <2>1, <2>2
  <1>2. OnePending'
    BY <1>1 DEF RunInv, OnePending, Env
  <1>3. ASSUME NEW a \in Agents PROVE RunOK(a)'
    BY <1>1 DEF RunInv, RunOK, NextCmdID, Env, runVars
  <1> QED
    BY <1>1, <1>2, <1>3 DEF LogInv

(***************************************************************************)
(* A run moves alone: every other one is outside the lock.                   *)
(***************************************************************************)
LEMMA OthersIdle ==
  ASSUME RunInv, NEW a \in Agents, NEW l, Goto(a, l), writeLock \in {None, a}
  PROVE  /\ pc'[a] = l
         /\ \A b \in Agents \ {a} : RunOK(b)'
  <1>1. None \notin Agents /\ pc \in [Agents -> RunLabels]
    BY RunAssumption DEF RunAssumption, RunInv, TypeOK
  <1>2. \A b \in Agents \ {a} : pc[b] = "idle"
    BY <1>1 DEF RunInv, RunOK
  <1>3. \A b \in Agents \ {a} : pc'[b] = "idle"
    BY <1>1, <1>2 DEF Goto
  <1>4. \A b \in Agents \ {a} : RunOK(b)'
    BY <1>3 DEF RunOK, Started
  <1> QED
    BY <1>1, <1>4 DEF Goto

(***************************************************************************)
(* A run that leaves is bound by nothing; so it does, for whatever reason,   *)
(* as long as the log is in order.                                           *)
(***************************************************************************)
LEMMA LeaveInv ==
  ASSUME RunInv, NEW a \in Agents, Leave(a), pc[a] # "idle",
         WellFormed(log)', OnePending'
  PROVE  LogInv'
  <1>1. writeLock = a
    BY DEF RunInv, RunOK
  <1>2. pc'[a] = "idle" /\ \A b \in Agents \ {a} : RunOK(b)'
    BY <1>1, OthersIdle DEF Leave
  <1>3. RunOK(a)'
    BY <1>2 DEF RunOK, Started
  <1> QED
    BY <1>2, <1>3 DEF LogInv

(***************************************************************************)
(* A run that goes on with the log as it is.                                 *)
(***************************************************************************)
LEMMA GoOnInv ==
  ASSUME RunInv, NEW a \in Agents, NEW l, Goto(a, l), writeLock \in {None, a},
         UNCHANGED <<world, logVars>>, RunOK(a)'
  PROVE  LogInv'
  <1>1. \A b \in Agents \ {a} : RunOK(b)'
    BY OthersIdle
  <1>2. WellFormed(log)' /\ OnePending'
    BY DEF RunInv, OnePending, Env, logVars
  <1> QED
    BY <1>1, <1>2 DEF LogInv

(***************************************************************************)
(* The end of a pending command, whoever records it: settlement, the abort    *)
(* or the run itself.  In a terminal whose appends do not fail that was the   *)
(* one pending command.                                                      *)
(***************************************************************************)
LEMMA RecordedEnd ==
  ASSUME RunInv, UNCHANGED world, NEW p \in Unended(log),
         NEW offset, NEW exit, CmdEnd(log[p].id, offset, exit, Now) \in Events,
         AppendEvent(CmdEnd(log[p].id, offset, exit, Now))
  PROVE  /\ WellFormed(log)' /\ OnePending'
         /\ HighestId(log)' = HighestId(log)
         /\ "io" \notin Env => Unended(log)' = {}
  <1> DEFINE ev == CmdEnd(log[p].id, offset, exit, Now)
  <1>1. IsEnd(ev) /\ ev.id = log[p].id
    BY DEF IsEnd, CmdEnd
  <1>2. log \in Seq(Events) /\ WellFormed(log) /\ OnePending
    BY DEF RunInv, TypeOK
  <1>3. /\ WellFormed(log)' /\ Unended(log)' = Unended(log) \ {p}
        /\ HighestId(log)' = HighestId(log)
    <2>1. log' = Append(log, ev) /\ ev \in Events
      BY DEF AppendEvent
    <2> HIDE DEF ev
    <2> QED
      BY <2>1, <1>1, <1>2, AppendEnd
  <1> QED
    BY <1>2, <1>3 DEF OnePending, Env

(***************************************************************************)
(* The steps of a run.                                                       *)
(***************************************************************************)
LEMMA RunLog ==
  ASSUME RunInv, NEW a \in Agents, RunStep(a) \/ CrashRun(a), UNCHANGED world
  PROVE  LogInv'
  <1>1. /\ log \in Seq(Events) /\ WellFormed(log) /\ OnePending /\ RunOK(a)
        /\ run \in [Agents -> RunState] /\ pc \in [Agents -> RunLabels]
    BY DEF RunInv, TypeOK
  <1>2. pc[a] # "idle" => writeLock = a
    BY <1>1 DEF RunOK
  <1>3. \A l : Goto(a, l) => pc'[a] = l
    BY <1>1 DEF Goto
  <1>4. Env' = Env
    BY DEF Env
  <1>5. UNCHANGED logVars => WellFormed(log)' /\ OnePending'
    BY <1>1, <1>4 DEF OnePending, logVars
  <1>6. CASE AcquireWriteLock(a)
    <2>1. RunOK(a)'
      BY <1>3, <1>6 DEF AcquireWriteLock, RunOK, Started, logVars
    <2> QED
      BY <2>1, <1>6, GoOnInv DEF AcquireWriteLock
  <1>7. CASE NotesBaseline(a)
    <2>1. RunOK(a)'
      BY <1>1, <1>3, <1>7 DEF NotesBaseline, RunOK, Started, logVars
    <2> QED
      BY <2>1, <1>2, <1>7, GoOnInv DEF NotesBaseline
  <1>8. CASE NothingPending(a)
    <2>1. Unended(log) = {}
      BY <1>1, <1>8, PendingIsUnended DEF NothingPending
    <2>2. RunOK(a)'
      BY <2>1, <1>1, <1>3, <1>8 DEF NothingPending, RunOK, Started, logVars
    <2> QED
      BY <2>2, <1>2, <1>8, GoOnInv DEF NothingPending
  <1>9. CASE Settle(a) \/ SettleUnread(a)
    <2> DEFINE p == PendingCmd(log)
    <2>1. PICK m \in Nat : p \in Unended(log) /\ pc[a] = "settle" /\ SettleAs(a, m)
      BY <1>9, SettledBy
    <2>2. pc'[a] = "start" /\ writeLock' = writeLock /\ \A b \in Agents \ {a} : RunOK(b)'
      BY <1>2, <1>3, <2>1, OthersIdle DEF SettleAs
    <2>3. CASE AppendEvent(CmdEnd(log[p].id, m, m, Now))
      <3>1. CmdEnd(log[p].id, m, m, Now) \in Events
        BY <2>1, UnendedType, EventType
      <3>2. /\ WellFormed(log)' /\ OnePending' /\ HighestId(log)' = HighestId(log)
            /\ "io" \notin Env => Unended(log)' = {}
        <4> HIDE DEF p
        <4> QED
          BY <2>1, <2>3, <3>1, RecordedEnd
      <3>3. RunOK(a)'
        BY <1>1, <1>4, <2>1, <2>2, <3>2 DEF RunOK, Started, NextCmdID
      <3> QED
        BY <2>2, <3>2, <3>3 DEF LogInv
    <2>4. CASE "io" \in Env /\ UNCHANGED logVars
      <3>1. RunOK(a)'
        BY <1>1, <1>4, <2>1, <2>2, <2>4 DEF RunOK, Started, logVars
      <3> QED
        BY <1>5, <2>2, <2>4, <3>1 DEF LogInv
    <2> QED
      BY <2>1, <2>3, <2>4 DEF SettleAs
  <1>10. CASE StillRunning(a) \/ StartFails(a) \/ GiveUp(a) \/ Emit(a) \/ WaitFails(a)
             \/ CrashRun(a)
    <2>1. Leave(a) /\ pc[a] # "idle" /\ UNCHANGED logVars
      BY <1>10 DEF StillRunning, StartFails, GiveUp, Emit, WaitFails, CrashRun
    <2> QED
      BY <1>5, <2>1, LeaveInv
  <1>11. CASE NumberCommand(a)
    <2>1. run'[a].id = NextCmdID(log) /\ pc[a] = "start" /\ pc'[a] = "record"
          /\ UNCHANGED <<log, writeLock>>
      BY <1>1, <1>3, <1>11 DEF NumberCommand, RunState, logVars
    <2>2. RunOK(a)'
      BY <1>1, <1>4, <2>1 DEF RunOK, Started
    <2> QED
      BY <2>2, <1>2, <1>11, GoOnInv DEF NumberCommand
  <1>12. CASE RecordStart(a)
    <2> DEFINE ev == CmdStart(run[a].id, run[a].offset, Now)
    <2>1. pc[a] = "record" /\ pc'[a] = "literal" /\ UNCHANGED <<writeLock, run>>
          /\ log' = Append(log, ev)
      BY <1>3, <1>12 DEF RecordStart, AppendEvent
    <2>2. IsStart(ev) /\ ev.id = run[a].id /\ ev.id = NextCmdID(log)
      BY <1>1, <2>1 DEF CmdStart, IsStart, RunOK
    <2>3. ev \in Events
      BY <1>1, EventType DEF RunState
    <2> HIDE DEF ev
    <2>4. /\ WellFormed(log)' /\ Unended(log)' = Unended(log) \cup {Len(log) + 1}
          /\ log'[Len(log) + 1] = ev
      BY <1>1, <2>1, <2>2, <2>3, AppendStart
    <2>5. OnePending'
      BY <1>1, <1>4, <2>1, <2>4 DEF OnePending, RunOK
    <2>6. RunOK(a)'
      BY <1>1, <2>1, <2>2, <2>4 DEF RunOK, Started
    <2>7. \A b \in Agents \ {a} : RunOK(b)'
      BY <1>2, <1>12, <2>1, OthersIdle DEF RecordStart
    <2> QED
      BY <2>4, <2>5, <2>6, <2>7 DEF LogInv
  <1>13. CASE SendLiteral(a) \/ SendEnter(a)
    <2>1. PICK l \in Started : Goto(a, l) /\ pc[a] \in Started
                              /\ UNCHANGED <<logVars, writeLock, run>>
      BY <1>13 DEF SendLiteral, SendEnter, Started
    <2>2. RunOK(a)'
      BY <1>1, <1>3, <1>4, <2>1 DEF RunOK, Started, logVars
    <2> QED
      BY <2>1, <2>2, <1>2, GoOnInv DEF Started
  <1>14. CASE Abort(a)
    <2>1. Leave(a) /\ pc[a] \in Started
      BY <1>14 DEF Abort, Started
    <2>2. PICK p \in Unended(log) : log[p].id = run[a].id
      BY <1>1, <2>1 DEF RunOK
    <2>3. WellFormed(log)' /\ OnePending'
      <3>1. CASE AppendEvent(CmdEnd(run[a].id, Len(marks), Aborted, Now))
        <4>1. CmdEnd(log[p].id, Len(marks), Aborted, Now) \in Events
          BY <1>1, <2>2, EventType, LenProperties DEF RunState, RunInv, TypeOK
        <4> QED
          BY <2>2, <3>1, <4>1, RecordedEnd
      <3>2. CASE UNCHANGED logVars
        BY <1>5, <3>2
      <3> QED
        BY <1>14, <3>1, <3>2 DEF Abort
    <2> QED
      BY <2>1, <2>3, LeaveInv DEF Started
  <1>15. CASE WaitDone(a) \/ GraceOver(a) \/ DeadlineTakesHeld(a)
    <2>1. PICK m : Finish(a, m)
      BY <1>15 DEF WaitDone, GraceOver, DeadlineTakesHeld
    <2>2. run'[a].id = run[a].id
      BY <1>1, <2>1 DEF Finish, RunState
    <2>3. RunOK(a)'
      BY <1>1, <1>3, <1>4, <2>1, <2>2 DEF Finish, RunOK, Started, logVars
    <2> QED
      BY <2>1, <2>3, <1>2, GoOnInv DEF Finish
  <1>16. CASE RecordEnd(a)
    <2>1. pc[a] = "end" /\ pc'[a] = "emit" /\ UNCHANGED writeLock
          /\ \A b \in Agents \ {a} : RunOK(b)'
      BY <1>2, <1>3, <1>16, OthersIdle DEF RecordEnd
    <2>2. PICK p \in Unended(log) : log[p].id = run[a].id
      BY <1>1, <2>1 DEF RunOK, Started
    <2>3. WellFormed(log)' /\ OnePending'
      <3>1. CASE AppendEvent(CmdEnd(run[a].id, run[a].mark, run[a].mark, Now))
        <4>1. CmdEnd(log[p].id, run[a].mark, run[a].mark, Now) \in Events
          BY <1>1, <2>2, EventType DEF RunState
        <4> QED
          BY <2>2, <3>1, <4>1, RecordedEnd
      <3>2. CASE UNCHANGED logVars
        BY <1>5, <3>2
      <3> QED
        BY <1>16, <3>1, <3>2 DEF RecordEnd
    <2>4. RunOK(a)'
      BY <1>1, <2>1 DEF RunOK, Started
    <2> QED
      BY <2>1, <2>3, <2>4 DEF LogInv
  <1> QED
    BY <1>6, <1>7, <1>8, <1>9, <1>10, <1>11, <1>12, <1>13, <1>14, <1>15, <1>16 DEF RunStep

(***************************************************************************)
(* The steps of everybody else.                                              *)
(***************************************************************************)
LEMMA OtherLog ==
  ASSUME RunInv, UNCHANGED world,
         \/ \E s \in Senders : SendStep(s) \/ SendFails(s)
         \/ \E n \in Notes : StampNote(n) \/ AppendNote(n)
         \/ Peek \/ ShellReads \/ CommandEnds \/ CommandReads
         \/ HumanEnters(<<HumanPiece>>) \/ HumanEnters(<<>>)
  PROVE  LogInv'
  <1> USE DEF logVars
  <1>1. ASSUME NEW s \in Senders, SendStep(s) \/ SendFails(s) PROVE LogInv'
    <2>1. CASE RecordSent(s)
      <3> DEFINE ev == SentEvent(Now)
      <3>1. ev \in Events /\ ~IsStart(ev) /\ ~IsEnd(ev) /\ ev.id = 0 /\ ev.type # "note"
        BY EventType DEF SentEvent, IsStart, IsEnd
      <3>2. log' = Append(log, ev) /\ UNCHANGED runVars
        BY <2>1 DEF RecordSent, AppendEvent
      <3> HIDE DEF ev
      <3> QED
        BY <3>1, <3>2, QuietStep
    <2>2. CASE AcquireSendLock(s) \/ SendText(s) \/ SendKeys(s) \/ SendFails(s)
      BY <2>2, QuietStep DEF AcquireSendLock, SendText, SendKeys, SendFails
    <2> QED
      BY <1>1, <2>1, <2>2 DEF SendStep
  <1>2. ASSUME NEW n \in Notes, StampNote(n) \/ AppendNote(n) PROVE LogInv'
    <2>1. CASE StampNote(n)
      BY <2>1, QuietStep DEF StampNote
    <2>2. CASE AppendNote(n)
      <3> DEFINE ev == NoteEvent(n, stamp[n])
      <3>1. ev \in Events /\ ~IsStart(ev) /\ ~IsEnd(ev) /\ ev.id = 0 /\ ev.note \in Notes
        BY EventType DEF NoteEvent, IsStart, IsEnd, RunInv, TypeOK
      <3>2. log' = Append(log, ev) /\ UNCHANGED runVars
        BY <2>2 DEF AppendNote
      <3> HIDE DEF ev
      <3> QED
        BY <3>1, <3>2, QuietStep
    <2> QED
      BY <1>2, <2>1, <2>2
  <1>3. CASE Peek \/ ShellReads \/ CommandEnds \/ CommandReads
    BY <1>3, QuietStep DEF Peek, ShellReads, CommandEnds, CommandReads
  <1>4. ASSUME NEW text, HumanEnters(text) PROVE LogInv'
    BY <1>4, QuietStep DEF HumanEnters
  <1> QED
    BY <1>1, <1>2, <1>3, <1>4

(***************************************************************************)
(* Every step of every process, and every stutter, preserves RunInv.         *)
(***************************************************************************)
LEMMA StepRunInv == RunInv /\ [Next]_vars => RunInv'
  <1> SUFFICES ASSUME RunInv, [Next]_vars PROVE RunInv'
    OBVIOUS
  <1>1. CASE UNCHANGED vars
    <2>1. UNCHANGED <<world, runVars, log>>
      BY <1>1 DEF vars, logVars
    <2>2. LogInv'
      BY <2>1, QuietStep
    <2>3. TypeOK'
      BY <1>1 DEF vars, logVars, runVars, sendVars, paneVars, noteVars, RunInv, TypeOK
    <2> QED
      BY <2>2, <2>3 DEF RunInv, LogInv
  <1>2. ASSUME NEW a \in Agents, RunStep(a) \/ CrashRun(a), UNCHANGED world PROVE RunInv'
    BY <1>2, RunTypes, RunLog DEF RunInv, LogInv
  <1>3. ASSUME UNCHANGED world,
               \/ \E s \in Senders : SendStep(s) \/ SendFails(s)
               \/ \E n \in Notes : StampNote(n) \/ AppendNote(n)
               \/ Peek \/ ShellReads \/ CommandEnds \/ CommandReads
               \/ HumanEnters(<<HumanPiece>>) \/ HumanEnters(<<>>)
        PROVE  RunInv'
    BY <1>3, OtherTypes, OtherLog DEF RunInv, LogInv
  <1> QED
    BY <1>1, <1>2, <1>3 DEF Next, Step

-----------------------------------------------------------------------------
(***************************************************************************)
(* The log of a terminal is well formed at every moment, and the holder of   *)
(* its write lock knows what is in it: what commands.go relies on when it     *)
(* reads the log, numbers its command and appends, in separate steps.        *)
(***************************************************************************)
THEOREM LogWellFormed == Spec => []RunInv
  <1>1. Init => RunInv
    BY InitRunInv
  <1>2. RunInv /\ [Next]_vars => RunInv'
    BY StepRunInv
  <1> QED
    BY <1>1, <1>2, PTL DEF Spec

(***************************************************************************)
(* Every variable keeps its type: the ids of the log and of the runs stay     *)
(* within the commands there are, and every note an envelope carries exists.  *)
(***************************************************************************)
THEOREM TypeCorrect == Spec => []TypeOK
  <1>1. RunInv => TypeOK
    BY DEF RunInv
  <1> QED
    BY <1>1, LogWellFormed, PTL

(***************************************************************************)
(* `log --cmd N` names one command, for any number of runs and worlds.       *)
(***************************************************************************)
THEOREM IdsUnique == Spec => []CmdIdsUnique
  <1>1. RunInv => CmdIdsUnique
    BY DEF RunInv, WellFormed, CmdIdsUnique, IsStart
  <1> QED
    BY <1>1, LogWellFormed, PTL

(***************************************************************************)
(* Three code paths record ends - a run, its abort, a later run's settlement  *)
(* - and yet no command ends twice or before it starts; and where appends do  *)
(* not fail at most one command is pending.                                  *)
(***************************************************************************)
THEOREM EndsMatch == Spec => []EndsMatchStarts
  <1>1. RunInv => EndsMatchStarts
    <2> SUFFICES ASSUME RunInv PROVE EndsMatchStarts
      OBVIOUS
    <2>1. \A k \in 1 .. Len(log) : log[k].type = "cmd_end" =>
              /\ \E i \in 1 .. k - 1 : log[i].type = "cmd_start" /\ log[i].id = log[k].id
              /\ \A m \in 1 .. Len(log) : log[m].type = "cmd_end" /\ log[m].id = log[k].id => m = k
      BY DEF RunInv, WellFormed, IsStart, IsEnd
    <2>2. ASSUME "io" \notin Env PROVE Cardinality(Unended(log)) <= 1
      <3>1. CASE Unended(log) = {}
        BY <3>1, FS_EmptySet
      <3>2. ASSUME NEW i \in Unended(log) PROVE Cardinality(Unended(log)) <= 1
        <4>1. Unended(log) = {i}
          BY <2>2, <3>2 DEF RunInv, OnePending
        <4>2. Cardinality({i}) = 1
          BY FS_Singleton
        <4> QED
          BY <4>1, <4>2
      <3> QED
        BY <3>1, <3>2
    <2> QED
      BY <2>1, <2>2 DEF EndsMatchStarts
  <1> QED
    BY <1>1, LogWellFormed, PTL

(***************************************************************************)
(* Both together: the log names every command, and says how it ended.        *)
(***************************************************************************)
THEOREM LogRecord == Spec => []LogIsARecord
  BY IdsUnique, EndsMatch, PTL DEF LogIsARecord

-----------------------------------------------------------------------------
(* The lines that sends make. *)

\* At most one send typed in line l.
SendPure(l) == \A p, q \in Pieces(l) : p.who = "send" /\ q.who = "send" => p = q

\* The lines that were entered in the pane and are still somewhere to be seen.
Entered ==
    {fg} \cup {queue[i] : i \in 1 .. Len(queue)} \cup {marks[i].by : i \in 1 .. Len(marks)}

(***************************************************************************)
(* A send holds its lock from its text to its Enter, and what it typed is     *)
(* in the input line only in between.                                        *)
(***************************************************************************)
PureInv ==
    /\ \A s \in Senders : spc[s] # "idle" => sendLock = s
    /\ \A p \in Pieces(line) : p.who = "send" =>
           \E s \in Senders : p = SendPiece(s) /\ spc[s] = "enter"
    /\ \A l \in Entered : SendPure(l)

NoSendDies == Env \cap {"crash", "fail"} = {}

(***************************************************************************)
(* The elements of a sequence that grows at its end.                         *)
(***************************************************************************)
LEMMA AppendRange ==
  ASSUME NEW S, NEW t \in Seq(S), NEW x \in S
  PROVE  \A i \in 1 .. Len(Append(t, x)) :
             Append(t, x)[i] = x \/ \E j \in 1 .. Len(t) : Append(t, x)[i] = t[j]
  <1>1. /\ Len(t) \in Nat /\ Len(Append(t, x)) = Len(t) + 1
        /\ \A i \in 1 .. Len(t) : Append(t, x)[i] = t[i]
        /\ Append(t, x)[Len(t) + 1] = x
    BY AppendProperties, LenProperties
  <1> QED
    BY <1>1

(***************************************************************************)
(* Text that is typed, by a run or a send, adds its piece to the line.       *)
(***************************************************************************)
LEMMA TypedPieces ==
  ASSUME NEW l \in Lines, NEW p, Append(l, p) \in Lines
  PROVE  Pieces(Append(l, p)) \subseteq Pieces(l) \cup {p}
  <1>1. PICK S : l \in Seq(S) /\ p \in S
    <2> DEFINE P == {RunPiece(id) : id \in 1 .. MaxCmds} \cup {SendPiece(s) : s \in Senders}
                    \cup {HumanPiece}
    <2>1. l \in Seq(P \cup {p})
      <3>1. l \in Seq(P)
        BY DEF Lines
      <3> HIDE DEF P
      <3>2. Len(l) \in Nat /\ l \in [1 .. Len(l) -> P]
        BY <3>1, LenProperties
      <3>3. l \in [1 .. Len(l) -> P \cup {p}]
        BY <3>2
      <3> QED
        BY <3>2, <3>3, SeqDef
    <2> QED
      BY <2>1
  <1>2. \A i \in 1 .. Len(Append(l, p)) :
            Append(l, p)[i] = p \/ \E j \in 1 .. Len(l) : Append(l, p)[i] = l[j]
    BY <1>1, AppendRange
  <1> QED
    BY <1>2 DEF Pieces

(***************************************************************************)
(* A human's text adds nothing a send typed.                                 *)
(***************************************************************************)
LEMMA HumanText ==
  ASSUME NEW l \in Lines, NEW text \in {<<HumanPiece>>, <<>>}
  PROVE  \A p \in Pieces(l \o text) \cup Pieces(text) : p.who = "send" => p \in Pieces(l)
  <1>1. \A p \in Pieces(text) : p = HumanPiece
    <2>1. Len(text) \in {0, 1} /\ (Len(text) = 1 => text[1] = HumanPiece)
      BY EmptySeq
    <2> QED
      BY <2>1 DEF Pieces
  <1>2. HumanPiece.who # "send"
    BY DEF HumanPiece
  <1>3. \A i \in 1 .. Len(l \o text) : (l \o text)[i] \in Pieces(l) \cup Pieces(text)
    <2> DEFINE P == {RunPiece(id) : id \in 1 .. MaxCmds} \cup {SendPiece(s) : s \in Senders}
                    \cup {HumanPiece}
    <2>1. l \in Seq(P) /\ text \in Seq(P)
      <3>1. <<HumanPiece>> \in Seq({HumanPiece}) /\ HumanPiece \in P
        OBVIOUS
      <3>2. <<>> \in Seq(P)
        BY EmptySeq
      <3>3. l \in Seq(P)
        BY DEF Lines
      <3> HIDE DEF P
      <3>4. <<HumanPiece>> \in Seq(P)
        BY <3>1
      <3> QED
        BY <3>2, <3>3, <3>4
    <2> HIDE DEF P
    <2>2. Len(l \o text) = Len(l) + Len(text) /\ Len(l) \in Nat /\ Len(text) \in Nat
      BY <2>1, ConcatProperties, LenProperties
    <2>3. \A i \in 1 .. Len(l) + Len(text) :
              (l \o text)[i] = IF i <= Len(l) THEN l[i] ELSE text[i - Len(l)]
      BY <2>1, ConcatProperties, Zenon
    <2> QED
      BY <2>2, <2>3 DEF Pieces
  <1>4. \A p \in Pieces(l \o text) : p \in Pieces(l) \cup Pieces(text)
    BY <1>3 DEF Pieces
  <1> QED
    BY <1>1, <1>2, <1>4

(***************************************************************************)
(* The line being typed holds one send's text at most: two would both hold    *)
(* the send lock.                                                            *)
(***************************************************************************)
LEMMA LineIsPure ==
  ASSUME RunInv, PureInv
  PROVE  /\ SendPure(line)
         /\ \A text \in {<<HumanPiece>>, <<>>} : SendPure(line \o text) /\ SendPure(text)
  <1>1. \A p, q \in Pieces(line) : p.who = "send" /\ q.who = "send" => p = q
    BY DEF PureInv
  <1>2. line \in Lines
    BY DEF RunInv, TypeOK
  <1>3. ASSUME NEW text \in {<<HumanPiece>>, <<>>}
        PROVE  SendPure(line \o text) /\ SendPure(text)
    BY <1>1, <1>2, HumanText DEF SendPure
  <1> QED
    BY <1>1, <1>3 DEF SendPure

(***************************************************************************)
(* Whatever a step makes of the pane, the lines in it are old ones or the     *)
(* one that was just entered.                                                *)
(***************************************************************************)
LEMMA EnteredStep ==
  ASSUME RunInv, NEW l \in Lines
  PROVE  /\ queue' = Append(queue, l) /\ UNCHANGED <<marks, fg>> => Entered' \subseteq Entered \cup {l}
         /\ queue # <<>> /\ queue' = Tail(queue) /\ UNCHANGED <<marks, fg>> =>
                Entered' \subseteq Entered
         /\ queue # <<>> /\ queue' = Tail(queue) /\ Execute(Head(queue)) => Entered' \subseteq Entered
         /\ UNCHANGED queue /\ Execute(l) => Entered' \subseteq Entered \cup {l}
         /\ CommandEnds => Entered' \subseteq Entered \cup {<<>>}
  <1> DEFINE M == [kind : MarkKinds, by : Lines]
  <1>1. queue \in Seq(Lines) /\ marks \in Seq(M) /\ fg \in Lines
    BY DEF RunInv, TypeOK
  <1>2. \A i \in 1 .. Len(Append(queue, l)) :
            Append(queue, l)[i] = l \/ \E j \in 1 .. Len(queue) : Append(queue, l)[i] = queue[j]
    BY <1>1, AppendRange
  <1>3. queue # <<>> =>
            /\ \E j \in 1 .. Len(queue) : Head(queue) = queue[j]
            /\ \A i \in 1 .. Len(Tail(queue)) : \E j \in 1 .. Len(queue) : Tail(queue)[i] = queue[j]
            /\ Head(queue) \in Lines
    <2>1. SUFFICES ASSUME queue # <<>>
                   PROVE  /\ \E j \in 1 .. Len(queue) : Head(queue) = queue[j]
                          /\ \A i \in 1 .. Len(Tail(queue)) :
                                 \E j \in 1 .. Len(queue) : Tail(queue)[i] = queue[j]
                          /\ Head(queue) \in Lines
      OBVIOUS
    <2>2. /\ Len(queue) \in Nat /\ Len(queue) # 0 /\ Len(Tail(queue)) = Len(queue) - 1
          /\ Head(queue) = queue[1] /\ Head(queue) \in Lines
          /\ \A i \in 1 .. Len(Tail(queue)) : Tail(queue)[i] = queue[i + 1]
      BY <1>1, <2>1, HeadTailProperties, EmptySeq, LenProperties
    <2> QED
      BY <2>2
  <1>4. ASSUME NEW kind \in MarkKinds, NEW k \in Lines
        PROVE  \A i \in 1 .. Len(Append(marks, Mark(kind, k))) :
                   \/ Append(marks, Mark(kind, k))[i].by = k
                   \/ \E j \in 1 .. Len(marks) : Append(marks, Mark(kind, k))[i] = marks[j]
    <2>1. Mark(kind, k) \in M /\ Mark(kind, k).by = k
      BY DEF Mark
    <2> HIDE DEF M
    <2> QED
      BY <1>1, <2>1, AppendRange
  <1>5. ASSUME NEW k \in Lines, Execute(k)
        PROVE  /\ fg' \in {fg, k}
               /\ \A i \in 1 .. Len(marks') :
                      marks'[i].by = k \/ \E j \in 1 .. Len(marks) : marks'[i] = marks[j]
    <2>1. marks' = marks \/ \E kind \in MarkKinds : marks' = Append(marks, Mark(kind, k))
      BY <1>5 DEF Execute, MarkKinds
    <2> QED
      BY <1>4, <1>5, <2>1 DEF Execute
  <1>6. CommandEnds => /\ fg' = <<>> /\ UNCHANGED queue
                       /\ \A i \in 1 .. Len(marks') :
                              marks'[i].by = fg \/ \E j \in 1 .. Len(marks) : marks'[i] = marks[j]
    <2>1. SUFFICES ASSUME CommandEnds
                   PROVE  \A i \in 1 .. Len(marks') :
                              marks'[i].by = fg \/ \E j \in 1 .. Len(marks) : marks'[i] = marks[j]
      BY DEF CommandEnds
    <2>2. marks' = marks \/ \E kind \in MarkKinds : marks' = Append(marks, Mark(kind, fg))
      BY <2>1 DEF CommandEnds, MarkKinds
    <2> QED
      BY <1>1, <1>4, <2>2
  <1>7. queue' = Append(queue, l) /\ UNCHANGED <<marks, fg>> => Entered' \subseteq Entered \cup {l}
    BY <1>2 DEF Entered
  <1>8. queue # <<>> /\ queue' = Tail(queue) /\ UNCHANGED <<marks, fg>> => Entered' \subseteq Entered
    BY <1>3 DEF Entered
  <1>9. queue # <<>> /\ queue' = Tail(queue) /\ Execute(Head(queue)) => Entered' \subseteq Entered
    BY <1>3, <1>5 DEF Entered
  <1>10. UNCHANGED queue /\ Execute(l) => Entered' \subseteq Entered \cup {l}
    BY <1>5 DEF Entered
  <1>11. CommandEnds => Entered' \subseteq Entered \cup {<<>>}
    BY <1>6 DEF Entered
  <1> QED
    BY <1>7, <1>8, <1>9, <1>10, <1>11


(***************************************************************************)
(* A step that only takes entered lines up, or enters pure ones, beside the   *)
(* typing of a piece that no send typed.                                     *)
(***************************************************************************)
LEMMA StaysPure ==
  ASSUME RunInv, PureInv, UNCHANGED sendVars,
         NEW l, SendPure(l), Entered' \subseteq Entered \cup {l},
         \A p \in Pieces(line)' : p.who = "send" => p \in Pieces(line)
  PROVE  PureInv'
  BY DEF PureInv, sendVars, SendPure, Pieces

(***************************************************************************)
(* The text and the Enter of a send that is not killed and does not fail are  *)
(* both under the send lock.                                                 *)
(***************************************************************************)
LEMMA SendPureStep ==
  ASSUME RunInv, PureInv, NoSendDies, NEW s \in Senders, SendStep(s) \/ SendFails(s)
  PROVE  PureInv'
  <1>1. /\ spc \in [Senders -> {"idle", "text", "enter", "sent"}] /\ line \in Lines
        /\ None \notin Senders
    BY RunAssumption DEF RunAssumption, RunInv, TypeOK
  <1>2. /\ \A r \in Senders : spc[r] # "idle" => sendLock = r
        /\ \A p \in Pieces(line) : p.who = "send" =>
               \E r \in Senders : p = SendPiece(r) /\ spc[r] = "enter"
        /\ \A l \in Entered : SendPure(l)
    BY DEF PureInv
  <1>3. ~SendFails(s)
    BY DEF SendFails, NoSendDies
  <1>4. \A r \in Senders : \A l : SGoto(s, l) => spc'[r] = IF r = s THEN l ELSE spc[r]
    BY <1>1 DEF SGoto
  <1>5. UNCHANGED <<marks, queue, fg>> => Entered' = Entered
    BY DEF Entered
  <1>6. CASE AcquireSendLock(s)
    BY <1>1, <1>2, <1>4, <1>5, <1>6 DEF AcquireSendLock, PureInv, paneVars, Pieces
  <1>7. CASE SendText(s)
    <2>1. /\ spc[s] = "text" /\ line' = Append(line, SendPiece(s)) /\ SGoto(s, "enter")
          /\ UNCHANGED <<sendLock, marks, queue, fg>>
      BY <1>7 DEF SendText
    <2>2. Append(line, SendPiece(s)) \in Lines
      BY PaneType
    <2>3. Pieces(line)' \subseteq Pieces(line) \cup {SendPiece(s)}
      BY <1>1, <2>1, <2>2, TypedPieces
    <2>4. \A p \in Pieces(line)' : p.who = "send" =>
              \E r \in Senders : p = SendPiece(r) /\ spc'[r] = "enter"
      BY <1>2, <1>4, <2>1, <2>3
    <2>5. \A r \in Senders : spc'[r] # "idle" => sendLock' = r
      BY <1>2, <1>4, <2>1
    <2> QED
      BY <1>2, <1>5, <2>1, <2>4, <2>5 DEF PureInv
  <1>8. CASE SendKeys(s)
    <2>1. /\ spc[s] = "enter" /\ queue' = Append(queue, line) /\ line' = <<>> /\ SGoto(s, "sent")
          /\ UNCHANGED <<sendLock, marks, fg>>
      BY <1>8 DEF SendKeys
    <2>2. Entered' \subseteq Entered \cup {line} /\ SendPure(line)
      BY <1>1, <2>1, EnteredStep, LineIsPure
    <2>3. Pieces(line)' = {}
      BY <2>1, EmptySeq DEF Pieces
    <2>4. \A r \in Senders : spc'[r] # "idle" => sendLock' = r
      BY <1>2, <1>4, <2>1
    <2>5. \A l \in Entered' : SendPure(l)
      BY <1>2, <2>2
    <2> QED
      BY <2>3, <2>4, <2>5 DEF PureInv
  <1>9. CASE RecordSent(s)
    <2>1. spc[s] = "sent" /\ SGoto(s, "idle") /\ sendLock' = None /\ UNCHANGED <<line, marks, queue, fg>>
      BY <1>9 DEF RecordSent, SendLeave, paneVars
    <2>2. \A r \in Senders : spc'[r] = "idle"
      BY <1>2, <1>4, <2>1
    <2>3. \A p \in Pieces(line) : p.who # "send"
      BY <1>2, <2>1
    <2> QED
      BY <1>2, <1>5, <2>1, <2>2, <2>3 DEF PureInv, Pieces
  <1> QED
    BY <1>3, <1>6, <1>7, <1>8, <1>9 DEF SendStep

(***************************************************************************)
(* Nobody else types a send's text: runs, the shell and a human move lines    *)
(* or add pieces of their own.                                               *)
(***************************************************************************)
LEMMA StepPure ==
  ASSUME RunInv, PureInv, NoSendDies, [Next]_vars
  PROVE  PureInv'
  <1>1. line \in Lines /\ SendPure(line)
    BY LineIsPure DEF RunInv, TypeOK
  <1>2. SendPure(<<>>) /\ <<>> \in Lines /\ Pieces(<<>>) = {}
    BY EmptySeq, PaneType DEF SendPure, Pieces
  <1>3. ASSUME UNCHANGED <<sendVars, paneVars>> PROVE PureInv'
    BY <1>3 DEF PureInv, sendVars, paneVars, SendPure, Entered, Pieces
  <1>4. ASSUME NEW a \in Agents, SendLiteral(a) PROVE PureInv'
    <2>1. /\ pc[a] \in Started /\ line' = Append(line, RunPiece(run[a].id))
          /\ UNCHANGED sendVars /\ UNCHANGED <<marks, queue, fg>>
      BY <1>4 DEF SendLiteral, Started
    <2>2. Pieces(line)' \subseteq Pieces(line) \cup {RunPiece(run[a].id)}
      BY <1>1, <2>1, PaneType, TypedPieces
    <2>3. \A p \in Pieces(line)' : p.who = "send" => p \in Pieces(line)
      BY <2>2 DEF RunPiece
    <2>4. Entered' \subseteq Entered \cup {line}
      BY <2>1 DEF Entered
    <2> QED
      BY <1>1, <2>1, <2>3, <2>4, StaysPure
  <1>5. ASSUME NEW a \in Agents, SendEnter(a) PROVE PureInv'
    <2>1. /\ queue' = Append(queue, line) /\ line' = <<>>
          /\ UNCHANGED sendVars /\ UNCHANGED <<marks, fg>>
      BY <1>5 DEF SendEnter
    <2>2. Entered' \subseteq Entered \cup {line}
      BY <1>1, <2>1, EnteredStep
    <2>3. Pieces(line)' = {}
      BY <1>2, <2>1 DEF Pieces
    <2> QED
      BY <1>1, <2>1, <2>2, <2>3, StaysPure
  <1>6. ASSUME ShellReads \/ CommandReads \/ CommandEnds PROVE PureInv'
    <2>1. UNCHANGED sendVars /\ UNCHANGED line
      BY <1>6 DEF ShellReads, CommandReads, CommandEnds
    <2>2. Entered' \subseteq Entered \cup {<<>>}
      BY <1>2, <1>6, EnteredStep DEF ShellReads, CommandReads
    <2>3. \A p \in Pieces(line)' : p.who = "send" => p \in Pieces(line)
      BY <2>1 DEF Pieces
    <2> QED
      BY <1>2, <2>1, <2>2, <2>3, StaysPure
  <1>7. ASSUME NEW text \in {<<HumanPiece>>, <<>>}, HumanEnters(text) PROVE PureInv'
    <2>1. /\ SendPure(text) /\ SendPure(line \o text) /\ text \in Lines /\ line \o text \in Lines
      <3>1. line \o text \in Lines
        <4> DEFINE P == {RunPiece(id) : id \in 1 .. MaxCmds} \cup {SendPiece(s) : s \in Senders}
                        \cup {HumanPiece}
        <4>1. line \in Seq(P) /\ text \in Seq(P) /\ Lines = Seq(P)
          BY <1>1, <1>7, PaneType DEF Lines
        <4> HIDE DEF P
        <4> QED
          BY <4>1, ConcatProperties
      <3> QED
        BY <1>7, <3>1, LineIsPure, PaneType
    <2>2. UNCHANGED sendVars
      BY <1>7 DEF HumanEnters
    <2>3. CASE Execute(text) /\ UNCHANGED <<line, queue>>
      <3>1. Entered' \subseteq Entered \cup {text}
        BY <2>1, <2>3, EnteredStep
      <3>2. \A p \in Pieces(line)' : p.who = "send" => p \in Pieces(line)
        BY <2>3 DEF Pieces
      <3> QED
        BY <2>1, <2>2, <3>1, <3>2, StaysPure
    <2>4. CASE queue' = Append(queue, line \o text) /\ line' = <<>> /\ UNCHANGED <<marks, fg>>
      <3>1. Entered' \subseteq Entered \cup {line \o text}
        BY <2>1, <2>4, EnteredStep
      <3>2. Pieces(line)' = {}
        BY <1>2, <2>4 DEF Pieces
      <3> QED
        BY <2>1, <2>2, <3>1, <3>2, StaysPure
    <2> QED
      BY <1>7, <2>3, <2>4 DEF HumanEnters
  <1>8. ASSUME NEW a \in Agents, RunStep(a) \/ CrashRun(a), ~SendLiteral(a), ~SendEnter(a)
        PROVE  UNCHANGED <<sendVars, paneVars>>
    <2> USE DEF sendVars, paneVars
    <2>1. CASE AcquireWriteLock(a) \/ NotesBaseline(a) \/ NothingPending(a) \/ Settle(a)
               \/ SettleUnread(a) \/ StillRunning(a) \/ NumberCommand(a) \/ StartFails(a)
               \/ RecordStart(a) \/ Abort(a) \/ RecordEnd(a) \/ Emit(a) \/ GiveUp(a)
               \/ WaitFails(a) \/ CrashRun(a)
      BY <2>1 DEF AcquireWriteLock, NotesBaseline, NothingPending, Settle, SettleUnread, SettleAs,
         StillRunning, NumberCommand, StartFails, RecordStart, Abort, RecordEnd, Emit, GiveUp,
         WaitFails, CrashRun
    <2>2. CASE WaitDone(a) \/ GraceOver(a) \/ DeadlineTakesHeld(a)
      BY <2>2 DEF WaitDone, GraceOver, DeadlineTakesHeld, Finish
    <2> QED
      BY <1>8, <2>1, <2>2 DEF RunStep
  <1>9. ASSUME NEW n \in Notes, StampNote(n) \/ AppendNote(n) PROVE UNCHANGED <<sendVars, paneVars>>
    BY <1>9 DEF StampNote, AppendNote
  <1>10. Peek \/ UNCHANGED vars => UNCHANGED <<sendVars, paneVars>>
    BY DEF Peek, vars
  <1> QED
    BY <1>3, <1>4, <1>5, <1>6, <1>7, <1>8, <1>9, <1>10, SendPureStep DEF Next, Step

(***************************************************************************)
(* Two sends never make a line that is neither's: from its text to its Enter *)
(* a send holds the lock that the other one would need.                      *)
(***************************************************************************)
THEOREM SendsKeepTheirLines == Spec => []SendLinesPure
  <1>1. Init => (NoSendDies => PureInv)
    <2> SUFFICES ASSUME Init PROVE PureInv
      OBVIOUS
    <2>1. /\ \A s \in Senders : spc[s] = "idle"
          /\ Pieces(line) = {} /\ Len(queue) = 0 /\ Len(marks) = 0 /\ fg = <<>>
          /\ Pieces(fg) = {}
      BY EmptySeq DEF Init, Pieces
    <2> QED
      BY <2>1 DEF PureInv, Entered, SendPure
  <1>2. RunInv /\ (NoSendDies => PureInv) /\ [Next]_vars => (NoSendDies => PureInv)'
    <2> SUFFICES ASSUME RunInv, NoSendDies => PureInv, [Next]_vars, NoSendDies' PROVE PureInv'
      OBVIOUS
    <2>1. NoSendDies
      BY DEF NoSendDies, Env, Next, vars
    <2> QED
      BY <2>1, StepPure
  <1>3. (NoSendDies => PureInv) => SendLinesPure
    <2> SUFFICES ASSUME NoSendDies => PureInv, NoSendDies, NEW l \in Entered
                 PROVE  Cardinality({p \in Pieces(l) : p.who = "send"}) <= 1
      BY DEF SendLinesPure, NoSendDies, Entered
    <2> DEFINE S == {p \in Pieces(l) : p.who = "send"}
    <2>1. \A p, q \in S : p = q
      BY DEF PureInv, SendPure
    <2> HIDE DEF S
    <2>2. CASE S = {}
      BY <2>2, FS_EmptySet DEF S
    <2>3. ASSUME NEW p \in S PROVE Cardinality(S) <= 1
      <3>1. S = {p}
        BY <2>1, <2>3
      <3>2. Cardinality({p}) = 1
        BY FS_Singleton
      <3> QED
        BY <3>1, <3>2
    <2>4. Cardinality(S) <= 1
      BY <2>2, <2>3, FS_EmptySet
    <2> QED
      BY <2>4 DEF S
  <1> QED
    BY <1>1, <1>2, <1>3, LogWellFormed, PTL DEF Spec


-----------------------------------------------------------------------------
(* The notes of a log, and what an append does to them. *)

\* A run is past its baseline and has not put its envelope together.
Open == {"settle", "start", "record", "literal", "enter", "wait"}

(***************************************************************************)
(* Stamps are taken from the clock, which gives none twice, and a note in     *)
(* the log carries its own.                                                  *)
(***************************************************************************)
Stamps ==
    /\ \A i \in 1 .. Len(log) : log[i].ts <= clock
    /\ \A n \in Notes : stamp[n] <= clock
    /\ \A i \in 1 .. Len(log) : log[i].type = "note" =>
           log[i].ts = stamp[log[i].note] /\ stamp[log[i].note] # 0
    /\ \A i \in 1 .. Len(log), n \in Notes : ActsOn(log[i]) => log[i].ts # stamp[n]

(***************************************************************************)
(* What a run knows of the notes.  Past its baseline every unseen note is in  *)
(* its hands, and while it settles nothing it holds is unaccounted for; once  *)
(* its envelope is put together, the unseen ones it misses have an excuse;   *)
(* when the end is recorded none of its notes is unseen.                     *)
(***************************************************************************)
RunNotes(a) ==
    /\ run[a].notes \subseteq NotesIn(log)
    /\ pc[a] \in Open => run[a].base <= Len(log) /\ UnseenNotes(log) \subseteq HeldNotes(a)
    /\ pc[a] = "end" => UnseenNotes(log) \subseteq run[a].notes \cup excused
    /\ pc[a] = "settle" =>
           \A n \in HeldNotes(a) : n \in UnseenNotes(log) \cup excused \/ delivered[n] # "none"
    /\ pc[a] = "emit" /\ "io" \notin Env => run[a].notes \cap UnseenNotes(log) = {}

SurfacedOnce ==
    /\ \A n \in Notes : delivered[n] # "none" => n \in NotesIn(log)
    /\ "io" \notin Env => \A n \in UnseenNotes(log) : delivered[n] # "done"

NoteInv == Stamps /\ (\A a \in Agents : RunNotes(a)) /\ Lost \subseteq excused /\ SurfacedOnce

(***************************************************************************)
(* The log and its stamps, before and after an append.                       *)
(***************************************************************************)
LEMMA LogTypes ==
  ASSUME RunInv
  PROVE  /\ log \in Seq(Events) /\ Len(log) \in Nat /\ clock \in Nat
         /\ \A n \in Notes : stamp[n] \in Nat
         /\ \A i \in 1 .. Len(log) : log[i].ts \in Nat
         /\ NotesIn(log) \subseteq Notes
  <1>1. log \in Seq(Events) /\ clock \in Nat /\ stamp \in [Notes -> Nat]
    BY DEF RunInv, TypeOK
  <1>2. Len(log) \in Nat /\ \A i \in 1 .. Len(log) : log[i] \in Events
    BY <1>1, LenProperties, ElementOfSeq
  <1>3. \A i \in 1 .. Len(log) : log[i].ts \in Nat
    BY <1>2 DEF Events
  <1>4. NotesIn(log) \subseteq Notes
    BY DEF NotesIn, NotesArrivedSince, RunInv, WellFormed
  <1> QED
    BY <1>1, <1>2, <1>3, <1>4

(***************************************************************************)
(* Every event stays where it is, and the new one comes last.                *)
(***************************************************************************)
LEMMA LogGrows ==
  ASSUME RunInv, NEW ev \in Events, log' = Append(log, ev)
  PROVE  /\ Len(log') = Len(log) + 1
         /\ \A i \in 1 .. Len(log) : i \in 1 .. Len(log') /\ log'[i] = log[i]
         /\ log'[Len(log) + 1] = ev
         /\ \A i \in 1 .. Len(log') : i \in 1 .. Len(log) \/ (i = Len(log) + 1 /\ log'[i] = ev)
  <1>1. /\ Len(log) \in Nat /\ Len(log') = Len(log) + 1
        /\ \A i \in 1 .. Len(log) : log'[i] = log[i]
        /\ log'[Len(log) + 1] = ev
    BY AppendElements DEF RunInv, TypeOK
  <1> QED
    BY <1>1

(***************************************************************************)
(* A note is unseen when it is in the log, younger than every event that     *)
(* closes notes.                                                             *)
(***************************************************************************)
LEMMA UnseenIs ==
  ASSUME Stamps, NEW n
  PROVE  n \in UnseenNotes(log) <=>
             /\ n \in NotesIn(log)
             /\ \A k \in 1 .. Len(log) : ActsOn(log[k]) => stamp[n] > log[k].ts
  BY DEF UnseenNotes, NotesIn, NotesArrivedSince, Stamps

(***************************************************************************)
(* The notes that arrived since a baseline, after one more event.            *)
(***************************************************************************)
LEMMA ArrivedAppend ==
  ASSUME RunInv, NEW ev \in Events, log' = Append(log, ev), NEW b \in Nat, b <= Len(log)
  PROVE  /\ ev.type # "note" => NotesArrivedSince(log', b) = NotesArrivedSince(log, b)
         /\ ev.type = "note" =>
                NotesArrivedSince(log', b) = NotesArrivedSince(log, b) \cup {ev.note}
  <1>1. /\ Len(log) \in Nat /\ Len(log') = Len(log) + 1
        /\ \A i \in 1 .. Len(log) : log'[i] = log[i]
        /\ log'[Len(log) + 1] = ev
    BY AppendElements DEF RunInv, TypeOK
  <1>2. \A i \in b + 1 .. Len(log') :
            \/ i \in b + 1 .. Len(log) /\ log'[i] = log[i]
            \/ i = Len(log) + 1 /\ log'[i] = ev
    BY <1>1
  <1>3. Len(log) + 1 \in b + 1 .. Len(log') /\ b + 1 .. Len(log) \subseteq b + 1 .. Len(log')
    BY <1>1
  <1>4. \A i \in b + 1 .. Len(log) : log'[i] = log[i]
    BY <1>1
  <1>5. ev.type # "note" => NotesArrivedSince(log', b) = NotesArrivedSince(log, b)
    BY <1>1, <1>2, <1>3, <1>4 DEF NotesArrivedSince
  <1>6. ev.type = "note" => NotesArrivedSince(log', b) = NotesArrivedSince(log, b) \cup {ev.note}
    BY <1>1, <1>2, <1>3, <1>4 DEF NotesArrivedSince
  <1> QED
    BY <1>5, <1>6

(***************************************************************************)
(* Notes that arrived since any baseline are in the log.                     *)
(***************************************************************************)
LEMMA ArrivedIsIn ==
  ASSUME NEW b \in Nat
  PROVE  NotesArrivedSince(log, b) \subseteq NotesIn(log)
  BY DEF NotesArrivedSince, NotesIn

(***************************************************************************)
(* What the steps do to the notes.  Nothing appended, or the start of a      *)
(* command: nothing changes.  The end of one, or a send: none is unseen.  A   *)
(* note: it is in the log.                                                   *)
(***************************************************************************)
SameNotes ==
    /\ UnseenNotes(log)' = UnseenNotes(log) /\ NotesIn(log)' = NotesIn(log)
    /\ Len(log) <= Len(log')
    /\ \A b \in Nat : b <= Len(log) => NotesArrivedSince(log', b) = NotesArrivedSince(log, b)

NotesClosed ==
    /\ UnseenNotes(log)' = {} /\ NotesIn(log)' = NotesIn(log)
    /\ Len(log) <= Len(log')
    /\ \A b \in Nat : b <= Len(log) => NotesArrivedSince(log', b) = NotesArrivedSince(log, b)

(***************************************************************************)
(* A step that appends nothing changes nothing about the notes.              *)
(***************************************************************************)
LEMMA NothingAppended ==
  ASSUME RunInv, NoteInv, UNCHANGED <<logVars, stamp>>
  PROVE  SameNotes /\ Stamps'
  <1>1. Len(log) \in Nat
    BY LenProperties DEF RunInv, TypeOK
  <1> QED
    BY <1>1 DEF SameNotes, Stamps, NoteInv, logVars

(***************************************************************************)
(* Nor does the start of a command.                                          *)
(***************************************************************************)
LEMMA StartAppended ==
  ASSUME RunInv, NoteInv, NEW ev \in Events, AppendEvent(ev), UNCHANGED stamp,
         ev.type = "cmd_start", ev.ts = Now
  PROVE  SameNotes /\ Stamps'
  <1>1. log' = Append(log, ev) /\ clock' = clock + 1 /\ ev.ts = clock + 1
    BY DEF AppendEvent, Now
  <1>2. /\ Len(log') = Len(log) + 1 /\ Len(log) \in Nat /\ clock \in Nat
        /\ \A n \in Notes : stamp[n] \in Nat
        /\ \A i \in 1 .. Len(log) : log[i].ts \in Nat
        /\ \A i \in 1 .. Len(log) : i \in 1 .. Len(log') /\ log'[i] = log[i]
        /\ \A i \in 1 .. Len(log') : i \in 1 .. Len(log) \/ (i = Len(log) + 1 /\ log'[i] = ev)
    BY <1>1, LogTypes, LogGrows
  <1>3. Stamps'
    <2>1. ev.type # "note" /\ ~ActsOn(ev)
      BY DEF ActsOn
    <2> QED
      BY <1>1, <1>2, <2>1 DEF Stamps, NoteInv
  <1>4. \A b \in Nat : b <= Len(log) => NotesArrivedSince(log', b) = NotesArrivedSince(log, b)
    BY <1>1, ArrivedAppend DEF ActsOn
  <1>5. NotesIn(log)' = NotesIn(log)
    BY <1>2, <1>4 DEF NotesIn
  <1>6. \A k \in 1 .. Len(log') : ActsOn(log'[k]) => k \in 1 .. Len(log) /\ log'[k] = log[k]
    BY <1>1, <1>2 DEF ActsOn
  <1>7. \A n : n \in UnseenNotes(log)' <=> n \in UnseenNotes(log)
    <2> SUFFICES ASSUME NEW n PROVE n \in UnseenNotes(log)' <=> n \in UnseenNotes(log)
      OBVIOUS
    <2>1. n \in UnseenNotes(log) <=>
             /\ n \in NotesIn(log)
             /\ \A k \in 1 .. Len(log) : ActsOn(log[k]) => stamp[n] > log[k].ts
      BY UnseenIs DEF NoteInv
    <2>2. n \in UnseenNotes(log)' <=>
             /\ n \in NotesIn(log)'
             /\ \A k \in 1 .. Len(log') : ActsOn(log'[k]) => stamp'[n] > log'[k].ts
      BY <1>3 DEF UnseenNotes, NotesIn, NotesArrivedSince, Stamps
    <2> QED
      BY <1>2, <1>5, <1>6, <2>1, <2>2
  <1>8. UnseenNotes(log)' = UnseenNotes(log)
    BY <1>7
  <1>9. Len(log) <= Len(log')
    BY <1>2
  <1> QED
    BY <1>3, <1>4, <1>5, <1>8, <1>9 DEF SameNotes

(***************************************************************************)
(* The end of a command, or a send, closes every note stamped before it.     *)
(***************************************************************************)
LEMMA ClosingAppended ==
  ASSUME RunInv, NoteInv, NEW ev \in Events, AppendEvent(ev), UNCHANGED stamp,
         ActsOn(ev), ev.ts = Now
  PROVE  NotesClosed /\ Stamps'
  <1>1. log' = Append(log, ev) /\ clock' = clock + 1 /\ ev.ts = clock + 1 /\ ev.type # "note"
    BY DEF AppendEvent, Now, ActsOn
  <1>2. /\ Len(log') = Len(log) + 1 /\ Len(log) \in Nat /\ clock \in Nat
        /\ \A n \in Notes : stamp[n] \in Nat
        /\ \A i \in 1 .. Len(log) : log[i].ts \in Nat
        /\ Len(log) + 1 \in 1 .. Len(log') /\ log'[Len(log) + 1] = ev
        /\ \A i \in 1 .. Len(log') : i \in 1 .. Len(log) \/ (i = Len(log) + 1 /\ log'[i] = ev)
        /\ \A i \in 1 .. Len(log) : log'[i] = log[i]
    BY <1>1, LogTypes, LogGrows
  <1>3. Stamps'
    BY <1>1, <1>2 DEF Stamps, NoteInv
  <1>4. \A b \in Nat : b <= Len(log) => NotesArrivedSince(log', b) = NotesArrivedSince(log, b)
    BY <1>1, ArrivedAppend DEF ActsOn
  <1>5. NotesIn(log)' = NotesIn(log)
    BY <1>2, <1>4 DEF NotesIn
  <1>6. UnseenNotes(log)' = {}
    <2> SUFFICES ASSUME NEW n, n \in UnseenNotes(log)' PROVE FALSE
      OBVIOUS
    <2>1. /\ n \in NotesIn(log)'
          /\ \A k \in 1 .. Len(log') : ActsOn(log'[k]) => stamp'[n] > log'[k].ts
      BY <1>3 DEF UnseenNotes, NotesIn, NotesArrivedSince, Stamps
    <2>2. n \in Notes
      BY <1>5, <2>1, LogTypes
    <2>3. stamp[n] <= clock /\ stamp[n] > clock + 1
      BY <1>1, <1>2, <2>1, <2>2 DEF Stamps, NoteInv
    <2> QED
      BY <1>2, <2>2, <2>3
  <1>7. Len(log) <= Len(log')
    BY <1>2
  <1> QED
    BY <1>3, <1>4, <1>5, <1>6, <1>7 DEF NotesClosed

(***************************************************************************)
(* A note that is appended is in the log, and unseen unless an event that     *)
(* closes notes overtook it between its stamp and its append.                *)
(***************************************************************************)
LEMMA NoteAppended ==
  ASSUME RunInv, NoteInv, NEW n \in Notes, AppendNote(n)
  PROVE  /\ Stamps' /\ Len(log') = Len(log) + 1 /\ n \notin NotesIn(log)
         /\ NotesIn(log)' = NotesIn(log) \cup {n}
         /\ UnseenNotes(log) \subseteq UnseenNotes(log)'
         /\ UnseenNotes(log)' \subseteq UnseenNotes(log) \cup {n}
         /\ n \notin excused' => n \in UnseenNotes(log)'
         /\ \A b \in Nat : b <= Len(log) =>
                NotesArrivedSince(log', b) = NotesArrivedSince(log, b) \cup {n}
  <1> DEFINE ev == NoteEvent(n, stamp[n])
  <1>1. ev \in Events /\ ev.type = "note" /\ ~ActsOn(ev) /\ ev.note = n /\ ev.ts = stamp[n]
    BY EventType DEF NoteEvent, RunInv, TypeOK, ActsOn
  <1>2. /\ log' = Append(log, ev) /\ stamp[n] # 0 /\ n \notin NotesIn(log)
        /\ UNCHANGED <<clock, stamp>>
    BY DEF AppendNote
  <1> HIDE DEF ev
  <1>3. /\ Len(log) \in Nat /\ Len(log') = Len(log) + 1
        /\ \A i \in 1 .. Len(log) : log'[i] = log[i]
        /\ log'[Len(log) + 1] = ev
    BY <1>1, <1>2, AppendElements DEF RunInv, TypeOK
  <1>4. \A i \in 1 .. Len(log') : i \in 1 .. Len(log) \/ (i = Len(log) + 1 /\ log'[i] = ev)
    BY <1>3
  <1>5. Stamps'
    BY <1>1, <1>2, <1>3, <1>4 DEF Stamps, NoteInv
  <1>6. \A b \in Nat : b <= Len(log) =>
            NotesArrivedSince(log', b) = NotesArrivedSince(log, b) \cup {n}
    BY <1>1, <1>2, <1>3, ArrivedAppend
  <1>7. NotesIn(log)' = NotesIn(log) \cup {n}
    BY <1>3, <1>6 DEF NotesIn
  <1>8. /\ \A k \in 1 .. Len(log') : ActsOn(log'[k]) => k \in 1 .. Len(log) /\ log'[k] = log[k]
        /\ \A k \in 1 .. Len(log) : k \in 1 .. Len(log') /\ log'[k] = log[k]
    BY <1>1, <1>3, <1>4 DEF ActsOn
  <1>9. \A m : /\ m \in UnseenNotes(log) <=>
                    /\ m \in NotesIn(log)
                    /\ \A k \in 1 .. Len(log) : ActsOn(log[k]) => stamp[m] > log[k].ts
               /\ m \in UnseenNotes(log)' <=>
                    /\ m \in NotesIn(log)'
                    /\ \A k \in 1 .. Len(log') : ActsOn(log'[k]) => stamp'[m] > log'[k].ts
    <2>1. \A m : m \in UnseenNotes(log) <=>
                    /\ m \in NotesIn(log)
                    /\ \A k \in 1 .. Len(log) : ActsOn(log[k]) => stamp[m] > log[k].ts
      BY UnseenIs DEF NoteInv
    <2>2. \A m : m \in UnseenNotes(log)' <=>
                    /\ m \in NotesIn(log)'
                    /\ \A k \in 1 .. Len(log') : ActsOn(log'[k]) => stamp'[m] > log'[k].ts
      BY <1>5 DEF UnseenNotes, NotesIn, NotesArrivedSince, Stamps
    <2> QED
      BY <2>1, <2>2
  <1>10. \A m : m \in UnseenNotes(log)' <=>
                    /\ m \in NotesIn(log)'
                    /\ \A k \in 1 .. Len(log) : ActsOn(log[k]) => stamp[m] > log[k].ts
    BY <1>2, <1>8, <1>9
  <1>11. n \notin excused' => n \in UnseenNotes(log)'
    <2> SUFFICES ASSUME n \notin excused' PROVE n \in UnseenNotes(log)'
      OBVIOUS
    <2>1. ~TooLate(n)
      BY DEF AppendNote
    <2>2. ASSUME NEW k \in 1 .. Len(log), ActsOn(log[k]) PROVE stamp[n] > log[k].ts
      <3>1. ~(log[k].ts > stamp[n])
        BY <2>1, <2>2 DEF TooLate
      <3>2. log[k].ts # stamp[n]
        BY <2>2 DEF Stamps, NoteInv
      <3> QED
        BY <3>1, <3>2, LogTypes
    <2> QED
      BY <1>7, <1>10, <2>2
  <1>12. UnseenNotes(log) \subseteq UnseenNotes(log)'
    BY <1>7, <1>9, <1>10
  <1>13. UnseenNotes(log)' \subseteq UnseenNotes(log) \cup {n}
    BY <1>7, <1>9, <1>10
  <1> QED
    BY <1>2, <1>3, <1>5, <1>6, <1>7, <1>11, <1>12, <1>13


-----------------------------------------------------------------------------
(* No note is lost without an excuse. *)

(***************************************************************************)
(* The notes in a run's hands, by where it is.                               *)
(***************************************************************************)
LEMMA HeldIs ==
  ASSUME NEW a \in Agents
  PROVE  /\ pc[a] \in Open => HeldNotes(a) = run[a].notes \cup NotesArrivedSince(log, run[a].base)
         /\ pc[a] \in {"end", "emit"} => HeldNotes(a) = run[a].notes
         /\ pc[a] \in {"idle", "baseline"} => HeldNotes(a) = {}
         /\ pc'[a] \in Open =>
                HeldNotes(a)' = run'[a].notes \cup NotesArrivedSince(log', run'[a].base)
         /\ pc'[a] \in {"end", "emit"} => HeldNotes(a)' = run'[a].notes
         /\ pc'[a] \in {"idle", "baseline"} => HeldNotes(a)' = {}
  <1>1. /\ pc[a] \in Open => HeldNotes(a) = run[a].notes \cup NotesArrivedSince(log, run[a].base)
        /\ pc[a] \in {"end", "emit"} => HeldNotes(a) = run[a].notes
        /\ pc[a] \in {"idle", "baseline"} => HeldNotes(a) = {}
    BY DEF HeldNotes, Open
  <1>2. /\ pc'[a] \in Open =>
               HeldNotes(a)' = run'[a].notes \cup NotesArrivedSince(log', run'[a].base)
        /\ pc'[a] \in {"end", "emit"} => HeldNotes(a)' = run'[a].notes
        /\ pc'[a] \in {"idle", "baseline"} => HeldNotes(a)' = {}
    BY DEF HeldNotes, Open
  <1> QED
    BY <1>1, <1>2

(***************************************************************************)
(* Whatever a run holds is in the log.                                       *)
(***************************************************************************)
LEMMA HeldIsIn ==
  ASSUME RunInv, NoteInv, NEW a \in Agents
  PROVE  /\ HeldNotes(a) \subseteq NotesIn(log) /\ UnseenNotes(log) \subseteq NotesIn(log)
         /\ pc[a] \in RunLabels /\ run[a].base \in Nat /\ run[a].notes \subseteq NotesIn(log)
         /\ HeldNotes(a) \subseteq Notes /\ UnseenNotes(log) \subseteq Notes
  <1>1. pc[a] \in RunLabels /\ run[a] \in RunState
    BY DEF RunInv, TypeOK
  <1>2. run[a].base \in Nat
    BY <1>1 DEF RunState
  <1>3. run[a].notes \subseteq NotesIn(log)
    BY DEF NoteInv, RunNotes
  <1>4. UnseenNotes(log) \subseteq NotesIn(log)
    BY UnseenIs DEF NoteInv
  <1>5. HeldNotes(a) \subseteq NotesIn(log)
    BY <1>1, <1>2, <1>3, ArrivedIsIn, HeldIs DEF RunLabels, Open
  <1> QED
    BY <1>1, <1>2, <1>3, <1>4, <1>5, NotesType

\* The log grows by nothing a note's place depends on, or by an event that closes notes.
Kept == SameNotes \/ NotesClosed

(***************************************************************************)
(* What both have in common: no note becomes unseen, none arrives.           *)
(***************************************************************************)
LEMMA KeptNotes ==
  ASSUME Kept
  PROVE  /\ UnseenNotes(log)' \subseteq UnseenNotes(log)
         /\ NotesIn(log)' = NotesIn(log) /\ Len(log) <= Len(log')
         /\ \A b \in Nat : b <= Len(log) => NotesArrivedSince(log', b) = NotesArrivedSince(log, b)
  BY DEF Kept, SameNotes, NotesClosed

(***************************************************************************)
(* A run moves alone; the other runs hold nothing.                           *)
(***************************************************************************)
LEMMA OthersNotes ==
  ASSUME RunInv, NoteInv, NEW a \in Agents, NEW l, Goto(a, l), writeLock \in {None, a}, Kept,
         NEW b \in Agents, b # a, run'[b] = run[b]
  PROVE  RunNotes(b)' /\ HeldNotes(b) = {} /\ HeldNotes(b)' = {}
  <1>1. None \notin Agents /\ pc \in [Agents -> RunLabels]
    BY RunAssumption DEF RunAssumption, RunInv, TypeOK
  <1>2. pc[b] = "idle"
    BY <1>1 DEF RunInv, RunOK
  <1>3. pc'[b] = "idle"
    BY <1>1, <1>2 DEF Goto
  <1>4. run'[b].notes \subseteq NotesIn(log)'
    BY HeldIsIn, KeptNotes
  <1> QED
    BY <1>2, <1>3, <1>4, HeldIs DEF RunNotes, Open

(***************************************************************************)
(* What one has to show of a step of a run: the notes that were unseen, or    *)
(* in its hands, still are, have been surfaced, or have an excuse.           *)
(***************************************************************************)
LEMMA RunStepNotes ==
  ASSUME RunInv, NoteInv, NEW a \in Agents, NEW l, Goto(a, l), writeLock \in {None, a}, Kept,
         \A b \in Agents \ {a} : run'[b] = run[b],
         Stamps', RunNotes(a)', SurfacedOnce', excused \subseteq excused',
         \A n \in Notes : delivered[n] # "none" => delivered'[n] # "none",
         \A n \in UnseenNotes(log) \cup HeldNotes(a) :
             \/ n \in UnseenNotes(log)' \/ n \in HeldNotes(a)' \/ n \in excused'
             \/ delivered'[n] # "none"
  PROVE  NoteInv'
  <1>1. \A b \in Agents \ {a} : RunNotes(b)' /\ HeldNotes(b) = {} /\ HeldNotes(b)' = {}
    BY OthersNotes
  <1>2. Lost' \subseteq excused'
    <2> SUFFICES ASSUME NEW n, n \in Lost', n \notin excused' PROVE FALSE
      OBVIOUS
    <2>1. /\ n \in NotesIn(log)' /\ delivered'[n] = "none" /\ n \notin UnseenNotes(log)'
          /\ n \notin HeldNotes(a)'
      BY DEF Lost
    <2>2. n \in NotesIn(log) /\ n \in Notes
      BY <2>1, KeptNotes, LogTypes
    <2>3. delivered[n] = "none"
      BY <2>1, <2>2
    <2>4. n \notin UnseenNotes(log) /\ n \notin HeldNotes(a)
      BY <2>1
    <2>5. n \in Lost
      BY <1>1, <2>2, <2>3, <2>4 DEF Lost
    <2> QED
      BY <2>5 DEF NoteInv
  <1> QED
    BY <1>1, <1>2 DEF NoteInv

(***************************************************************************)
(* A step that surfaces nothing, as long as no note becomes unseen.          *)
(***************************************************************************)
LEMMA NothingSurfaced ==
  ASSUME NoteInv, UNCHANGED <<world, delivered>>, Kept
  PROVE  SurfacedOnce'
  <1>1. SurfacedOnce
    BY DEF NoteInv
  <1> QED
    BY <1>1, KeptNotes DEF SurfacedOnce, Env

(***************************************************************************)
(* A run that goes on from one place to another with the notes it has.       *)
(***************************************************************************)
LEMMA HoldingOn ==
  ASSUME RunInv, NoteInv, UNCHANGED <<world, delivered, excused>>, Kept, Stamps',
         NEW a \in Agents, NEW l \in Open, l # "settle", Goto(a, l), pc[a] \in Open,
         \A b \in Agents \ {a} : run'[b] = run[b],
         run'[a].notes = run[a].notes, run'[a].base = run[a].base
  PROVE  NoteInv'
  <1>1. pc'[a] = l /\ writeLock = a
    BY DEF Goto, RunInv, TypeOK, RunOK, Open
  <1>2. run[a].base \in Nat /\ run[a].base <= Len(log) /\ UnseenNotes(log) \subseteq HeldNotes(a)
    BY HeldIsIn DEF NoteInv, RunNotes
  <1>3. HeldNotes(a)' = HeldNotes(a)
    BY <1>1, <1>2, KeptNotes, HeldIs
  <1>4. run'[a].base <= Len(log')
    BY <1>2, KeptNotes
  <1>5. run'[a].notes \subseteq NotesIn(log)'
    BY HeldIsIn, KeptNotes
  <1>6. UnseenNotes(log)' \subseteq HeldNotes(a)'
    BY <1>2, <1>3, KeptNotes
  <1>7. RunNotes(a)'
    BY <1>1, <1>4, <1>5, <1>6 DEF RunNotes, Open
  <1>8. SurfacedOnce'
    BY NothingSurfaced
  <1> QED
    BY <1>1, <1>2, <1>3, <1>7, <1>8, RunStepNotes

(***************************************************************************)
(* A run that leaves, having put its notes in an envelope or lost them with   *)
(* an excuse.                                                                *)
(***************************************************************************)
LEMMA Leaving ==
  ASSUME RunInv, NoteInv, Kept, Stamps', NEW a \in Agents, Leave(a), pc[a] # "idle",
         SurfacedOnce', excused \subseteq excused',
         \A n \in Notes : delivered[n] # "none" => delivered'[n] # "none",
         \A n \in UnseenNotes(log) \cup HeldNotes(a) :
             n \in UnseenNotes(log)' \/ n \in excused' \/ delivered'[n] # "none"
  PROVE  NoteInv'
  <1>1. /\ pc'[a] = "idle" /\ writeLock = a /\ run'[a] = NoRun /\ Goto(a, "idle")
        /\ \A b \in Agents \ {a} : run'[b] = run[b]
    BY DEF Leave, Goto, RunInv, TypeOK, RunOK
  <1>2. RunNotes(a)'
    BY <1>1 DEF RunNotes, NoRun, Open
  <1> QED
    BY <1>1, <1>2, RunStepNotes


(***************************************************************************)
(* The ends that runs and settlement record close notes, or are not appended *)
(* at all.                                                                   *)
(***************************************************************************)
LEMMA EndOrNothing ==
  ASSUME RunInv, NoteInv, UNCHANGED <<world, stamp>>, NEW id \in 0 .. MaxCmds,
         NEW offset \in Nat, NEW exit \in Nat \cup {Aborted},
         AppendEvent(CmdEnd(id, offset, exit, Now)) \/ ("io" \in Env /\ UNCHANGED logVars)
  PROVE  /\ Kept /\ Stamps'
         /\ "io" \in Env \/ UnseenNotes(log)' = {}
  <1> DEFINE ev == CmdEnd(id, offset, exit, Now)
  <1>1. ev \in Events /\ ActsOn(ev) /\ ev.ts = Now
    BY EventType DEF CmdEnd, ActsOn
  <1> HIDE DEF ev
  <1>2. ASSUME AppendEvent(ev) PROVE NotesClosed /\ Stamps'
    BY <1>1, <1>2, ClosingAppended
  <1>3. ASSUME UNCHANGED logVars PROVE SameNotes /\ Stamps'
    BY <1>3, NothingAppended
  <1>4. AppendEvent(ev) \/ ("io" \in Env /\ UNCHANGED logVars)
    BY DEF ev
  <1> QED
    BY <1>2, <1>3, <1>4 DEF Kept, NotesClosed

(***************************************************************************)
(* The steps of a run, from its baseline to its envelope.                    *)
(***************************************************************************)
LEMMA RunKeepsNotes ==
  ASSUME RunInv, NoteInv, NEW a \in Agents, RunStep(a) \/ CrashRun(a), UNCHANGED world
  PROVE  NoteInv'
  <1>1. /\ RunOK(a) /\ RunNotes(a) /\ SurfacedOnce
        /\ run \in [Agents -> RunState] /\ pc \in [Agents -> RunLabels]
        /\ delivered \in [Notes -> {"none", "shown", "done"}]
        /\ Len(marks) \in Nat /\ run[a].id \in 0 .. MaxCmds /\ run[a].mark \in Nat
        /\ HeldNotes(a) \subseteq Notes /\ UnseenNotes(log) \subseteq Notes
        /\ HeldNotes(a) \subseteq NotesIn(log) /\ UnseenNotes(log) \subseteq NotesIn(log)
    BY HeldIsIn, LenProperties DEF RunInv, TypeOK, NoteInv, RunState
  <1>2. pc[a] # "idle" => writeLock = a
    BY <1>1 DEF RunOK
  <1>3. \A l : Goto(a, l) => pc'[a] = l
    BY <1>1 DEF Goto
  <1>4. Env' = Env
    BY DEF Env
  <1>5. ASSUME UNCHANGED <<logVars, stamp>> PROVE SameNotes /\ Kept /\ Stamps'
    BY <1>5, NothingAppended DEF Kept
  <1>6. CASE AcquireWriteLock(a)
    <2>1. /\ pc[a] = "idle" /\ pc'[a] = "baseline" /\ writeLock = None /\ Goto(a, "baseline")
          /\ UNCHANGED <<logVars, run, stamp, delivered, excused>>
      BY <1>3, <1>6 DEF AcquireWriteLock, noteVars
    <2>2. SameNotes /\ Kept /\ Stamps' /\ SurfacedOnce'
      BY <1>5, <2>1, NothingSurfaced
    <2>3. RunNotes(a)'
      BY <1>1, <2>1, <2>2 DEF RunNotes, Open, SameNotes
    <2>4. HeldNotes(a) = {} /\ UnseenNotes(log)' = UnseenNotes(log)
      BY <2>1, <2>2, HeldIs DEF SameNotes
    <2> QED
      BY <2>1, <2>2, <2>3, <2>4, RunStepNotes
  <1>7. CASE NotesBaseline(a)
    <2>1. /\ pc[a] = "baseline" /\ pc'[a] = "settle" /\ Goto(a, "settle") /\ writeLock = a
          /\ run' = [run EXCEPT ![a].base = Len(log), ![a].notes = UnseenNotes(log)]
          /\ UNCHANGED <<logVars, stamp, delivered, excused>>
      BY <1>2, <1>3, <1>7 DEF NotesBaseline, noteVars
    <2>2. /\ run'[a].base = Len(log) /\ run'[a].notes = UnseenNotes(log)
          /\ \A b \in Agents \ {a} : run'[b] = run[b]
      BY <1>1, <2>1 DEF RunState
    <2>3. SameNotes /\ Kept /\ Stamps' /\ SurfacedOnce' /\ log' = log /\ Len(log) \in Nat
      BY <1>5, <2>1, NothingSurfaced, LogTypes DEF logVars
    <2>4. HeldNotes(a)' = UnseenNotes(log)
      <3>1. NotesArrivedSince(log', Len(log)) = {}
        BY <2>3 DEF NotesArrivedSince
      <3> QED
        BY <2>1, <2>2, <3>1, HeldIs DEF Open
    <2>5. RunNotes(a)'
      BY <1>1, <2>1, <2>2, <2>3, <2>4 DEF RunNotes, SameNotes
    <2>6. HeldNotes(a) = {}
      BY <2>1, HeldIs
    <2> QED
      BY <2>1, <2>2, <2>3, <2>4, <2>5, <2>6, RunStepNotes
  <1>8. CASE NothingPending(a) \/ NumberCommand(a) \/ SendLiteral(a) \/ SendEnter(a)
    <2>1. PICK l \in Open \ {"settle"} :
              /\ Goto(a, l) /\ pc[a] \in Open
              /\ UNCHANGED <<logVars, stamp, delivered, excused>>
              /\ run' = run \/ run' = [run EXCEPT ![a].id = NextCmdID(log), ![a].offset = Len(marks)]
      BY <1>8 DEF NothingPending, NumberCommand, SendLiteral, SendEnter, Open, noteVars
    <2>2. /\ \A b \in Agents \ {a} : run'[b] = run[b]
          /\ run'[a].notes = run[a].notes /\ run'[a].base = run[a].base
      BY <1>1, <2>1 DEF RunState
    <2> QED
      BY <1>5, <2>1, <2>2, HoldingOn
  <1>9. CASE RecordStart(a)
    <2> DEFINE ev == CmdStart(run[a].id, run[a].offset, Now)
    <2>1. /\ Goto(a, "literal") /\ pc[a] = "record" /\ AppendEvent(ev)
          /\ UNCHANGED <<run, stamp, delivered, excused>>
      BY <1>9 DEF RecordStart, noteVars
    <2>2. ev \in Events /\ ev.type = "cmd_start" /\ ev.ts = Now
      BY <1>1, EventType DEF CmdStart, RunState
    <2> HIDE DEF ev
    <2>3. Kept /\ Stamps'
      BY <2>1, <2>2, StartAppended DEF Kept
    <2> QED
      BY <2>1, <2>3, HoldingOn DEF Open
  <1>10. CASE Settle(a) \/ SettleUnread(a)
    <2> DEFINE p == PendingCmd(log)
    <2>1. PICK m \in Nat : p \in Unended(log) /\ pc[a] = "settle" /\ SettleAs(a, m)
      BY <1>10, SettledBy
    <2>2. /\ Goto(a, "start")
          /\ AppendEvent(CmdEnd(log[p].id, m, m, Now)) \/ ("io" \in Env /\ UNCHANGED logVars)
          /\ UNCHANGED <<run, stamp, delivered, excused>>
      BY <2>1 DEF SettleAs, noteVars
    <2>3. log[p].id \in 0 .. MaxCmds
      BY <2>1, UnendedType
    <2> HIDE DEF p
    <2>4. Kept /\ Stamps'
      BY <2>2, <2>3, EndOrNothing
    <2> QED
      BY <2>1, <2>2, <2>4, HoldingOn DEF Open
  <1>11. CASE StillRunning(a)
    <2>1. /\ Leave(a) /\ pc[a] = "settle" /\ UNCHANGED <<logVars, stamp, delivered, excused>>
      BY <1>11 DEF StillRunning, noteVars
    <2>2. SameNotes /\ Kept /\ Stamps' /\ SurfacedOnce'
      BY <1>5, <2>1, NothingSurfaced
    <2>3. \A n \in UnseenNotes(log) \cup HeldNotes(a) :
              n \in UnseenNotes(log)' \/ n \in excused' \/ delivered'[n] # "none"
      BY <1>1, <2>1, <2>2 DEF RunNotes, SameNotes
    <2> QED
      BY <2>1, <2>2, <2>3, Leaving
  <1>12. CASE StartFails(a) \/ WaitFails(a) \/ CrashRun(a)
    <2>1. /\ Leave(a) /\ pc[a] # "idle" /\ UNCHANGED <<logVars, stamp, delivered>>
          /\ excused' = excused \cup (HeldNotes(a) \ UnseenNotes(log))
      BY <1>12 DEF StartFails, WaitFails, CrashRun
    <2>2. SameNotes /\ Kept /\ Stamps' /\ SurfacedOnce'
      BY <1>5, <2>1, NothingSurfaced
    <2>3. \A n \in UnseenNotes(log) \cup HeldNotes(a) :
              n \in UnseenNotes(log)' \/ n \in excused' \/ delivered'[n] # "none"
      BY <2>1, <2>2 DEF SameNotes
    <2> QED
      BY <2>1, <2>2, <2>3, Leaving
  <1>13. CASE Abort(a)
    <2>1. /\ Leave(a) /\ pc[a] \in {"literal", "enter"} /\ UNCHANGED <<stamp, delivered>>
          /\ excused' = excused \cup HeldNotes(a)
          /\ AppendEvent(CmdEnd(run[a].id, Len(marks), Aborted, Now))
             \/ ("io" \in Env /\ UNCHANGED logVars)
      BY <1>13 DEF Abort
    <2>2. Kept /\ Stamps'
      BY <1>1, <2>1, EndOrNothing
    <2>3. SurfacedOnce'
      BY <2>1, <2>2, NothingSurfaced
    <2>4. UnseenNotes(log) \subseteq HeldNotes(a)
      BY <1>1, <2>1 DEF RunNotes, Open
    <2> QED
      BY <2>1, <2>2, <2>3, <2>4, Leaving
  <1>14. CASE WaitDone(a) \/ GraceOver(a) \/ DeadlineTakesHeld(a)
    <2>1. PICK m : Finish(a, m)
      BY <1>14 DEF WaitDone, GraceOver, DeadlineTakesHeld
    <2>2. /\ pc[a] = "wait" /\ pc'[a] = "end" /\ Goto(a, "end") /\ writeLock = a
          /\ UNCHANGED <<logVars, stamp, delivered, excused>>
          /\ run' = [run EXCEPT ![a].mark = m, ![a].notes = HeldNotes(a)]
      BY <1>2, <1>3, <2>1 DEF Finish, noteVars
    <2>3. run'[a].notes = HeldNotes(a) /\ \A b \in Agents \ {a} : run'[b] = run[b]
      BY <1>1, <2>2 DEF RunState
    <2>4. SameNotes /\ Kept /\ Stamps' /\ SurfacedOnce'
      BY <1>5, <2>2, NothingSurfaced
    <2>5. UnseenNotes(log) \subseteq HeldNotes(a) /\ HeldNotes(a)' = HeldNotes(a)
      BY <1>1, <2>2, <2>3, HeldIs DEF RunNotes, Open
    <2>6. RunNotes(a)'
      BY <1>1, <2>2, <2>3, <2>4, <2>5 DEF RunNotes, SameNotes, Open
    <2> QED
      BY <2>2, <2>3, <2>4, <2>5, <2>6, RunStepNotes
  <1>15. CASE GiveUp(a)
    <2>1. /\ Leave(a) /\ pc[a] = "wait" /\ UNCHANGED <<logVars, stamp, excused>>
          /\ Surface(HeldNotes(a), "shown")
      BY <1>15 DEF GiveUp
    <2>2. /\ \A n \in Notes : delivered[n] # "none" => delivered'[n] # "none"
          /\ \A n \in HeldNotes(a) : delivered'[n] # "none"
          /\ \A n \in Notes : delivered'[n] # "none" => delivered[n] # "none" \/ n \in HeldNotes(a)
          /\ \A n \in Notes : delivered'[n] = "done" => delivered[n] = "done"
      BY <1>1, <2>1 DEF Surface
    <2>3. SameNotes /\ Kept /\ Stamps'
      BY <1>5, <2>1
    <2>4. SurfacedOnce'
      BY <1>1, <1>4, <2>2, <2>3 DEF SurfacedOnce, SameNotes
    <2>5. UnseenNotes(log) \subseteq HeldNotes(a)
      BY <1>1, <2>1 DEF RunNotes, Open
    <2> QED
      BY <2>1, <2>2, <2>3, <2>4, <2>5, Leaving
  <1>16. CASE RecordEnd(a)
    <2>1. /\ pc[a] = "end" /\ pc'[a] = "emit" /\ Goto(a, "emit") /\ writeLock = a
          /\ UNCHANGED <<run, stamp, delivered, excused>>
          /\ AppendEvent(CmdEnd(run[a].id, run[a].mark, run[a].mark, Now))
             \/ ("io" \in Env /\ UNCHANGED logVars)
      BY <1>2, <1>3, <1>16 DEF RecordEnd, noteVars
    <2>2. Kept /\ Stamps' /\ ("io" \in Env \/ UnseenNotes(log)' = {})
      BY <1>1, <2>1, EndOrNothing
    <2>3. SurfacedOnce'
      BY <2>1, <2>2, NothingSurfaced
    <2>4. /\ HeldNotes(a)' = run[a].notes /\ HeldNotes(a) = run[a].notes
          /\ UnseenNotes(log) \subseteq run[a].notes \cup excused
      BY <1>1, <2>1, HeldIs DEF RunNotes
    <2>5. run[a].notes \subseteq NotesIn(log)'
      BY <1>1, <2>2, KeptNotes DEF RunNotes
    <2>6. RunNotes(a)'
      BY <1>4, <2>1, <2>2, <2>5 DEF RunNotes, Open
    <2> QED
      BY <2>1, <2>2, <2>3, <2>4, <2>6, RunStepNotes
  <1>17. CASE Emit(a)
    <2>1. /\ Leave(a) /\ pc[a] = "emit" /\ UNCHANGED <<logVars, stamp, excused>>
          /\ Surface(run[a].notes, "done")
      BY <1>17 DEF Emit
    <2>2. HeldNotes(a) = run[a].notes
      BY <2>1, HeldIs
    <2>3. /\ \A n \in Notes : delivered[n] # "none" => delivered'[n] # "none"
          /\ \A n \in HeldNotes(a) : delivered'[n] # "none"
          /\ \A n \in Notes : delivered'[n] # "none" => delivered[n] # "none" \/ n \in HeldNotes(a)
          /\ \A n \in Notes : delivered'[n] = "done" => delivered[n] = "done" \/ n \in run[a].notes
      BY <1>1, <2>1, <2>2 DEF Surface
    <2>4. SameNotes /\ Kept /\ Stamps'
      BY <1>5, <2>1
    <2>5. "io" \notin Env => run[a].notes \cap UnseenNotes(log) = {}
      BY <1>1, <2>1 DEF RunNotes
    <2>6. SurfacedOnce'
      BY <1>1, <1>4, <2>3, <2>4, <2>5 DEF SurfacedOnce, SameNotes
    <2>7. \A n \in UnseenNotes(log) : n \in UnseenNotes(log)'
      BY <2>4 DEF SameNotes
    <2> QED
      BY <2>1, <2>3, <2>4, <2>6, <2>7, Leaving
  <1> QED
    BY <1>6, <1>7, <1>8, <1>9, <1>10, <1>11, <1>12, <1>13, <1>14, <1>15, <1>16, <1>17 DEF RunStep


(***************************************************************************)
(* What one has to show of a step that is no run's: every run keeps the notes *)
(* it has, and an unseen note stays so, is surfaced, or has an excuse.       *)
(***************************************************************************)
LEMMA OtherStepNotes ==
  ASSUME RunInv, NoteInv, UNCHANGED <<world, runVars>>, Kept, Stamps', SurfacedOnce',
         excused \subseteq excused',
         \A n \in Notes : delivered[n] # "none" => delivered'[n] # "none",
         \A n \in UnseenNotes(log) :
             n \in UnseenNotes(log)' \/ n \in excused' \/ delivered'[n] # "none"
  PROVE  NoteInv'
  <1>1. pc' = pc /\ run' = run /\ Env' = Env
    BY DEF runVars, Env
  <1>2. ASSUME NEW a \in Agents PROVE HeldNotes(a)' = HeldNotes(a) /\ RunNotes(a)'
    <2>1. RunNotes(a) /\ run[a].base \in Nat /\ pc[a] \in RunLabels /\ HeldNotes(a) \subseteq Notes
      BY HeldIsIn DEF NoteInv
    <2>2. HeldNotes(a)' = HeldNotes(a)
      BY <1>1, <2>1, HeldIs, KeptNotes DEF RunNotes, RunLabels, Open
    <2>3. pc[a] \in Open => run[a].base <= Len(log')
      BY <2>1, KeptNotes, LogTypes DEF RunNotes, SameNotes, NotesClosed, Kept
    <2> QED
      BY <1>1, <2>1, <2>2, <2>3, KeptNotes DEF RunNotes
  <1>3. Lost' \subseteq excused'
    <2> SUFFICES ASSUME NEW n, n \in Lost', n \notin excused' PROVE FALSE
      OBVIOUS
    <2>1. /\ n \in NotesIn(log)' /\ delivered'[n] = "none" /\ n \notin UnseenNotes(log)'
          /\ \A a \in Agents : n \notin HeldNotes(a)'
      BY DEF Lost
    <2>2. n \in NotesIn(log) /\ n \in Notes
      BY <2>1, KeptNotes, LogTypes
    <2>3. n \in Lost
      BY <1>2, <2>1, <2>2 DEF Lost
    <2> QED
      BY <2>3 DEF NoteInv
  <1> QED
    BY <1>2, <1>3 DEF NoteInv

(***************************************************************************)
(* The steps of sends, notes, peeks, the shell and the human.                *)
(***************************************************************************)
LEMMA OthersKeepNotes ==
  ASSUME RunInv, NoteInv, UNCHANGED world,
         \/ \E s \in Senders : SendStep(s) \/ SendFails(s)
         \/ \E n \in Notes : StampNote(n) \/ AppendNote(n)
         \/ Peek \/ ShellReads \/ CommandEnds \/ CommandReads
         \/ HumanEnters(<<HumanPiece>>) \/ HumanEnters(<<>>)
  PROVE  NoteInv'
  <1>1. ASSUME UNCHANGED <<logVars, runVars, noteVars>> PROVE NoteInv'
    <2>1. UNCHANGED <<stamp, delivered, excused>>
      BY <1>1 DEF noteVars
    <2>2. SameNotes /\ Kept /\ Stamps'
      BY <1>1, <2>1, NothingAppended DEF Kept
    <2>3. SurfacedOnce'
      BY <2>1, <2>2, NothingSurfaced
    <2> QED
      BY <1>1, <2>1, <2>2, <2>3, OtherStepNotes DEF SameNotes
  <1>2. ASSUME NEW s \in Senders, RecordSent(s) PROVE NoteInv'
    <2> DEFINE ev == SentEvent(Now)
    <2>1. /\ AppendEvent(ev) /\ excused' = excused \cup UnseenNotes(log)
          /\ UNCHANGED <<runVars, stamp, delivered>>
      BY <1>2 DEF RecordSent
    <2>2. ev \in Events /\ ActsOn(ev) /\ ev.ts = Now
      BY EventType DEF SentEvent, ActsOn
    <2> HIDE DEF ev
    <2>3. Kept /\ Stamps'
      BY <2>1, <2>2, ClosingAppended DEF Kept
    <2>4. SurfacedOnce'
      BY <2>1, <2>3, NothingSurfaced
    <2> QED
      BY <2>1, <2>3, <2>4, OtherStepNotes
  <1>3. ASSUME NEW s \in Senders, SendStep(s) \/ SendFails(s), ~RecordSent(s)
        PROVE  UNCHANGED <<logVars, runVars, noteVars>>
    BY <1>3 DEF SendStep, SendFails, AcquireSendLock, SendText, SendKeys
  <1>4. ASSUME NEW n \in Notes, StampNote(n) PROVE NoteInv'
    <2>1. /\ stamp[n] = 0 /\ clock' = clock + 1 /\ stamp' = [stamp EXCEPT ![n] = clock + 1]
          /\ UNCHANGED <<log, runVars, delivered, excused>>
      BY <1>4 DEF StampNote, Now
    <2>2. /\ clock \in Nat /\ Len(log) \in Nat /\ \A m \in Notes : stamp[m] \in Nat
          /\ \A i \in 1 .. Len(log) : log[i].ts \in Nat
          /\ \A m \in Notes : stamp'[m] = IF m = n THEN clock + 1 ELSE stamp[m]
      BY <2>1, LogTypes DEF RunInv, TypeOK
    <2>3. Stamps
      BY DEF NoteInv
    <2>4. \A i \in 1 .. Len(log) : log[i].type = "note" => log[i].note \in Notes
      BY DEF RunInv, WellFormed
    <2>5. Stamps'
      <3>1. \A i \in 1 .. Len(log') : log'[i].ts <= clock'
        BY <2>1, <2>2, <2>3 DEF Stamps
      <3>2. \A m \in Notes : stamp'[m] <= clock'
        BY <2>1, <2>2, <2>3 DEF Stamps
      <3>3. \A i \in 1 .. Len(log') : log'[i].type = "note" =>
                log'[i].ts = stamp'[log'[i].note] /\ stamp'[log'[i].note] # 0
        BY <2>1, <2>2, <2>3, <2>4 DEF Stamps
      <3>4. \A i \in 1 .. Len(log'), m \in Notes : ActsOn(log'[i]) => log'[i].ts # stamp'[m]
        BY <2>1, <2>2, <2>3 DEF Stamps
      <3> QED
        BY <3>1, <3>2, <3>3, <3>4 DEF Stamps
    <2>6. SameNotes /\ Kept
      BY <2>1, <2>2 DEF SameNotes, Kept
    <2>7. SurfacedOnce'
      BY <2>1, <2>6, NothingSurfaced
    <2> QED
      BY <2>1, <2>5, <2>6, <2>7, OtherStepNotes DEF SameNotes
  <1>5. ASSUME NEW n \in Notes, AppendNote(n) PROVE NoteInv'
    <2>1. /\ Stamps' /\ Len(log') = Len(log) + 1 /\ n \notin NotesIn(log)
          /\ NotesIn(log)' = NotesIn(log) \cup {n}
          /\ UnseenNotes(log) \subseteq UnseenNotes(log)'
          /\ UnseenNotes(log)' \subseteq UnseenNotes(log) \cup {n}
          /\ n \notin excused' => n \in UnseenNotes(log)'
          /\ \A b \in Nat : b <= Len(log) =>
                 NotesArrivedSince(log', b) = NotesArrivedSince(log, b) \cup {n}
      BY <1>5, NoteAppended
    <2>2. /\ UNCHANGED <<runVars, delivered>> /\ excused \subseteq excused'
          /\ (\E a \in Agents : pc[a] = "end") => n \in excused'
          /\ pc' = pc /\ run' = run /\ Env' = Env
      BY <1>5 DEF AppendNote, TooLate, runVars, Env
    <2>3. delivered[n] = "none"
      BY <2>1 DEF NoteInv, SurfacedOnce
    <2>4. SurfacedOnce'
      BY <2>1, <2>2, <2>3 DEF SurfacedOnce, NoteInv
    <2>5. ASSUME NEW a \in Agents
          PROVE  /\ RunNotes(a)' /\ HeldNotes(a) \subseteq HeldNotes(a)'
      <3>1. /\ RunNotes(a) /\ run[a].base \in Nat /\ pc[a] \in RunLabels
            /\ run[a].notes \subseteq NotesIn(log)
        BY HeldIsIn DEF NoteInv
      <3>2. pc[a] \in Open => HeldNotes(a)' = HeldNotes(a) \cup {n}
        BY <2>1, <2>2, <3>1, HeldIs DEF RunNotes
      <3>3. pc[a] \notin Open => HeldNotes(a)' = HeldNotes(a)
        BY <2>2, <3>1, HeldIs DEF RunLabels, Open
      <3>4. pc[a] \in Open => run[a].base <= Len(log')
        BY <2>1, <3>1, LogTypes DEF RunNotes
      <3>5. pc[a] \in Open => UnseenNotes(log)' \subseteq HeldNotes(a)'
        BY <2>1, <3>1, <3>2 DEF RunNotes
      <3>6. pc[a] = "end" => UnseenNotes(log)' \subseteq run[a].notes \cup excused'
        BY <2>1, <2>2, <3>1 DEF RunNotes
      <3>7. pc[a] = "settle" => \A m \in HeldNotes(a)' :
                m \in UnseenNotes(log)' \cup excused' \/ delivered[m] # "none"
        BY <2>1, <2>2, <3>1, <3>2 DEF RunNotes, Open
      <3>8. pc[a] = "emit" /\ "io" \notin Env => run[a].notes \cap UnseenNotes(log)' = {}
        BY <2>1, <3>1 DEF RunNotes
      <3>9. RunNotes(a)'
        BY <2>1, <2>2, <3>1, <3>4, <3>5, <3>6, <3>7, <3>8 DEF RunNotes
      <3> QED
        BY <3>2, <3>3, <3>9
    <2>6. Lost' \subseteq excused'
      <3> SUFFICES ASSUME NEW m, m \in Lost', m \notin excused' PROVE FALSE
        OBVIOUS
      <3>1. /\ m \in NotesIn(log)' /\ delivered[m] = "none" /\ m \notin UnseenNotes(log)'
            /\ \A a \in Agents : m \notin HeldNotes(a)'
        BY <2>2 DEF Lost
      <3>2. m # n /\ m \notin UnseenNotes(log) /\ \A a \in Agents : m \notin HeldNotes(a)
        BY <2>1, <2>5, <3>1
      <3>3. m \in Lost
        BY <2>1, <3>1, <3>2 DEF Lost
      <3> QED
        BY <2>2, <3>3 DEF NoteInv
    <2> QED
      BY <2>1, <2>4, <2>5, <2>6 DEF NoteInv
  <1>6. CASE Peek
    <2>1. /\ UNCHANGED <<logVars, runVars, stamp, excused>>
          /\ Surface(UnseenNotes(log), "shown")
      BY <1>6 DEF Peek
    <2>2. /\ SurfacedOnce /\ UnseenNotes(log) \subseteq NotesIn(log) /\ Env' = Env
          /\ UnseenNotes(log) \subseteq Notes
          /\ delivered \in [Notes -> {"none", "shown", "done"}]
      BY UnseenIs, NotesType DEF NoteInv, Env, RunInv, TypeOK
    <2>3. /\ \A n \in Notes : delivered[n] # "none" => delivered'[n] # "none"
          /\ \A n \in UnseenNotes(log) : delivered'[n] # "none"
          /\ \A n \in Notes : delivered'[n] # "none" => delivered[n] # "none" \/ n \in UnseenNotes(log)
          /\ \A n \in Notes : delivered'[n] = "done" => delivered[n] = "done"
      BY <2>1, <2>2 DEF Surface
    <2>4. SameNotes /\ Kept /\ Stamps'
      BY <2>1, NothingAppended DEF Kept
    <2>5. SurfacedOnce'
      BY <2>2, <2>3, <2>4 DEF SurfacedOnce, SameNotes
    <2> QED
      BY <2>1, <2>3, <2>4, <2>5, OtherStepNotes
  <1>7. CASE ShellReads \/ CommandEnds \/ CommandReads
    BY <1>1, <1>7 DEF ShellReads, CommandEnds, CommandReads
  <1>8. ASSUME NEW text, HumanEnters(text) PROVE NoteInv'
    BY <1>1, <1>8 DEF HumanEnters
  <1> QED
    BY <1>1, <1>2, <1>3, <1>4, <1>5, <1>6, <1>7, <1>8

(***************************************************************************)
(* A note that a human leaves is unseen, surfaced, in the hands of a run, or  *)
(* lost for one of the known reasons; and where appends do not fail the one   *)
(* finished run that surfaced it is the only one.                            *)
(***************************************************************************)
THEOREM NotesAreAccountedFor == Spec => []NoteLossExplained
  <1>1. Init => NoteInv
    <2> SUFFICES ASSUME Init PROVE NoteInv
      OBVIOUS
    <2>1. Len(log) = 0 /\ log = <<>> /\ clock = 0 /\ excused = {}
      BY EmptySeq DEF Init
    <2>2. NotesIn(log) = {} /\ UnseenNotes(log) = {}
      BY <2>1 DEF NotesIn, NotesArrivedSince, UnseenNotes
    <2>3. \A a \in Agents : pc[a] = "idle" /\ run[a].notes = {}
      BY DEF Init, NoRun
    <2>4. \A a \in Agents : RunNotes(a)
      BY <2>2, <2>3 DEF RunNotes, Open
    <2>5. Stamps /\ Lost = {} /\ SurfacedOnce
      BY <2>1, <2>2 DEF Init, Stamps, Lost, SurfacedOnce
    <2> QED
      BY <2>4, <2>5 DEF NoteInv
  <1>2. RunInv /\ NoteInv /\ [Next]_vars => NoteInv'
    <2> SUFFICES ASSUME RunInv, NoteInv, [Next]_vars PROVE NoteInv'
      OBVIOUS
    <2>1. CASE UNCHANGED vars
      <3>1. UNCHANGED <<logVars, stamp, delivered, excused, world, runVars>>
        BY <2>1 DEF vars, noteVars
      <3>2. SameNotes /\ Kept /\ Stamps'
        BY <3>1, NothingAppended DEF Kept
      <3>3. SurfacedOnce'
        BY <3>1, <3>2, NothingSurfaced
      <3> QED
        BY <3>1, <3>2, <3>3, OtherStepNotes DEF SameNotes
    <2>2. ASSUME NEW a \in Agents, RunStep(a) \/ CrashRun(a), UNCHANGED world PROVE NoteInv'
      BY <2>2, RunKeepsNotes
    <2>3. ASSUME UNCHANGED world,
                 \/ \E s \in Senders : SendStep(s) \/ SendFails(s)
                 \/ \E n \in Notes : StampNote(n) \/ AppendNote(n)
                 \/ Peek \/ ShellReads \/ CommandEnds \/ CommandReads
                 \/ HumanEnters(<<HumanPiece>>) \/ HumanEnters(<<>>)
          PROVE  NoteInv'
      BY <2>3, OthersKeepNotes
    <2> QED
      BY <2>1, <2>2, <2>3 DEF Next, Step
  <1>3. NoteInv => NoteLossExplained
    BY DEF NoteInv, SurfacedOnce, NoteLossExplained
  <1> QED
    BY <1>1, <1>2, <1>3, LogWellFormed, PTL DEF Spec

-----------------------------------------------------------------------------
(* Whose completion is recorded: the marks of raw.log. *)

\* The marks after from that say, in a shell of kind sh, that a command is over.
EndMarks(sh, m, from) ==
    {i \in At(m, from, IF sh = "sentinel" THEN "S" ELSE "D") :
        sh = "hooks" => \E c \in At(m, from, "C") : c < i}

EndMark(sh, m, from) == FirstOf(EndMarks(sh, m, from))

\* Mark x, next in m, is one of them.
Closes(sh, m, x, from) ==
    /\ x.kind = IF sh = "sentinel" THEN "S" ELSE "D"
    /\ sh = "hooks" => At(m, from, "C") # {}

(***************************************************************************)
(* The first of several indices of marks after an offset, or 0.              *)
(***************************************************************************)
LEMMA FirstOfIndices ==
  ASSUME NEW A, A \subseteq Nat, 0 \notin A
  PROVE  /\ FirstOf(A) \in Nat
         /\ FirstOf(A) = 0 <=> A = {}
         /\ FirstOf(A) # 0 => FirstOf(A) \in A /\ \A k \in A : FirstOf(A) <= k
  <1>1. A # {} => FirstOf(A) \in A /\ \A k \in A : FirstOf(A) <= k
    <2> SUFFICES ASSUME A # {} PROVE FirstOf(A) \in A /\ \A k \in A : FirstOf(A) <= k
      OBVIOUS
    <2>1. \E i \in A : \A k \in A : i <= k
      BY LeastExists
    <2> QED
      BY <2>1 DEF FirstOf
  <1>2. CASE A = {}
    <2>1. FirstOf(A) = 0
      BY <1>2 DEF FirstOf
    <2> QED
      BY <1>2, <2>1
  <1>3. CASE A # {}
    <2>1. FirstOf(A) \in A /\ \A k \in A : FirstOf(A) <= k
      BY <1>1, <1>3
    <2>2. FirstOf(A) \in Nat /\ FirstOf(A) # 0
      BY <2>1, Zenon
    <2> QED
      BY <1>3, <2>1, <2>2
  <1> QED
    BY <1>2, <1>3

(***************************************************************************)
(* The mark that ends a command is a mark of raw.log after its offset.       *)
(***************************************************************************)
LEMMA EndMarkFound ==
  ASSUME NEW sh, NEW S, NEW m \in Seq(S), NEW from \in Nat
  PROVE  /\ EndMark(sh, m, from) \in Nat
         /\ EndMark(sh, m, from) = 0 <=> EndMarks(sh, m, from) = {}
         /\ EndMark(sh, m, from) # 0 =>
                /\ EndMark(sh, m, from) \in EndMarks(sh, m, from)
                /\ EndMark(sh, m, from) \in 1 .. Len(m)
                /\ \A k \in EndMarks(sh, m, from) : EndMark(sh, m, from) <= k
  <1> DEFINE A == EndMarks(sh, m, from)
  <1>1. A \subseteq 1 .. Len(m) /\ A \subseteq Nat /\ 0 \notin A
    BY LenProperties DEF EndMarks, At
  <1>2. EndMark(sh, m, from) = FirstOf(A)
    BY DEF EndMark
  <1> HIDE DEF A
  <1>3. /\ FirstOf(A) \in Nat
        /\ FirstOf(A) = 0 <=> A = {}
        /\ FirstOf(A) # 0 => FirstOf(A) \in A /\ \A k \in A : FirstOf(A) <= k
    BY <1>1, FirstOfIndices
  <1>4. FirstOf(A) # 0 => FirstOf(A) \in 1 .. Len(m)
    BY <1>1, <1>3
  <1> QED
    BY <1>2, <1>3, <1>4 DEF A

(***************************************************************************)
(* The marks of a kind, when one is appended.                                *)
(***************************************************************************)
LEMMA MarkAppended ==
  ASSUME NEW S, NEW m \in Seq(S), NEW x \in S, NEW from \in Nat, from <= Len(m), NEW kind
  PROVE  /\ \A i : i \in At(Append(m, x), from, kind) <=>
                       i \in At(m, from, kind) \/ (i = Len(m) + 1 /\ x.kind = kind)
         /\ At(m, from, kind) \subseteq 1 .. Len(m) /\ Len(m) \in Nat
  <1> DEFINE n == Append(m, x)
  <1>1. /\ n \in Seq(S) /\ Len(m) \in Nat /\ Len(n) = Len(m) + 1
        /\ \A i \in 1 .. Len(m) : n[i] = m[i]
        /\ n[Len(m) + 1] = x
    BY AppendProperties, LenProperties
  <1> HIDE DEF n
  <1>2. ASSUME NEW i
        PROVE  i \in At(n, from, kind) <=> i \in At(m, from, kind) \/ (i = Len(m) + 1 /\ x.kind = kind)
    <2>1. i \in At(n, from, kind) <=> i \in from + 1 .. Len(n) /\ n[i].kind = kind
      BY DEF At
    <2>2. i \in At(m, from, kind) <=> i \in from + 1 .. Len(m) /\ m[i].kind = kind
      BY DEF At
    <2> QED
      BY <1>1, <2>1, <2>2
  <1>3. At(m, from, kind) \subseteq 1 .. Len(m)
    BY <1>1 DEF At
  <1> QED
    BY <1>1, <1>2, <1>3 DEF n

(***************************************************************************)
(* What raw.log says of a command is final: a mark that is appended matters   *)
(* only to a command that is not over, and only if it closes it.             *)
(***************************************************************************)
LEMMA EndMarkAppended ==
  ASSUME NEW sh, NEW S, NEW m \in Seq(S), NEW x \in S, NEW from \in Nat, from <= Len(m)
  PROVE  EndMark(sh, Append(m, x), from) =
             IF EndMark(sh, m, from) # 0 THEN EndMark(sh, m, from)
             ELSE IF Closes(sh, m, x, from) THEN Len(m) + 1 ELSE 0
  <1> DEFINE n == Append(m, x)
             kind == IF sh = "sentinel" THEN "S" ELSE "D"
             A == EndMarks(sh, m, from)
             B == EndMarks(sh, n, from)
             f == EndMark(sh, m, from)
             g == EndMark(sh, n, from)
             c == Closes(sh, m, x, from)
  <1>1. n \in Seq(S) /\ Len(m) \in Nat
    BY AppendProperties, LenProperties
  <1>2. /\ f \in Nat /\ (f = 0 <=> A = {})
        /\ f # 0 => f \in A /\ f \in 1 .. Len(m) /\ \A k \in A : f <= k
    BY EndMarkFound
  <1>3. /\ g \in Nat /\ (g = 0 <=> B = {})
        /\ g # 0 => g \in B /\ \A k \in B : g <= k
    <2> HIDE DEF n
    <2> QED
      BY <1>1, EndMarkFound
  <1>4. \A i : i \in B <=> i \in A \/ (i = Len(m) + 1 /\ c)
    <2>1. ASSUME NEW i PROVE i \in B <=> i \in A \/ (i = Len(m) + 1 /\ c)
      <3>1. /\ i \in At(n, from, kind) <=> i \in At(m, from, kind) \/ (i = Len(m) + 1 /\ x.kind = kind)
            /\ At(m, from, kind) \subseteq 1 .. Len(m)
        BY MarkAppended
      <3>2. /\ \A k : k \in At(n, from, "C") <=>
                          k \in At(m, from, "C") \/ (k = Len(m) + 1 /\ x.kind = "C")
            /\ At(m, from, "C") \subseteq 1 .. Len(m)
        BY MarkAppended
      <3> HIDE DEF n, kind
      <3>3. i \in B <=> i \in At(n, from, kind) /\ (sh = "hooks" => \E k \in At(n, from, "C") : k < i)
        BY DEF EndMarks, kind
      <3>4. i \in A <=> i \in At(m, from, kind) /\ (sh = "hooks" => \E k \in At(m, from, "C") : k < i)
        BY DEF EndMarks, kind
      <3>5. c <=> x.kind = kind /\ (sh = "hooks" => At(m, from, "C") # {})
        BY DEF Closes, kind
      <3> HIDE DEF A, B, c
      <3>6. CASE i \in At(m, from, kind)
        <4>1. i \in 1 .. Len(m) /\ i \in At(n, from, kind)
          BY <3>1, <3>6
        <4>2. (\E k \in At(n, from, "C") : k < i) <=> (\E k \in At(m, from, "C") : k < i)
          BY <1>1, <3>2, <4>1
        <4> QED
          BY <1>1, <3>3, <3>4, <3>6, <4>1, <4>2
      <3>7. CASE i = Len(m) + 1
        <4>1. i \notin At(m, from, kind)
          BY <1>1, <3>1, <3>7
        <4>2. (\E k \in At(n, from, "C") : k < i) <=> At(m, from, "C") # {}
          BY <1>1, <3>2, <3>7
        <4> QED
          BY <3>1, <3>3, <3>4, <3>5, <3>7, <4>1, <4>2
      <3> QED
        BY <3>1, <3>3, <3>4, <3>6, <3>7
    <2> QED
      BY <2>1
  <1> HIDE DEF n, A, B, f, g, c
  <1>5. g = IF f # 0 THEN f ELSE IF c THEN Len(m) + 1 ELSE 0
    <2>1. CASE f # 0
      <3>1. f \in B /\ g # 0
        BY <1>2, <1>3, <1>4, <2>1
      <3>2. g <= f
        BY <1>3, <3>1
      <3>3. g \in A
        BY <1>1, <1>2, <1>3, <1>4, <2>1, <3>1, <3>2
      <3> QED
        BY <1>2, <1>3, <2>1, <3>2, <3>3
    <2>2. CASE f = 0 /\ c
      <3>1. Len(m) + 1 \in B /\ \A i \in B : i = Len(m) + 1
        BY <1>2, <1>4, <2>2
      <3> QED
        BY <1>1, <1>3, <2>2, <3>1
    <2>3. CASE f = 0 /\ ~c
      <3>1. B = {}
        BY <1>2, <1>4, <2>3
      <3> QED
        BY <1>3, <2>3, <3>1
    <2> QED
      BY <2>1, <2>2, <2>3
  <1> QED
    BY <1>5 DEF f, g, n, c

-----------------------------------------------------------------------------
(* The pane: where the text that runs typed is. *)

\* The pieces of line l that runs typed.
RunTyped(l) == {p \in Pieces(l) : p.who = "run"}

\* Those in a pane with line l being typed, f executing and q entered.
RunsIn(l, f, q) == RunTyped(l) \cup RunTyped(f) \cup UNION {RunTyped(q[i]) : i \in 1 .. Len(q)}

\* They are all in one line.
OneLine(l, f, q) ==
    /\ RunTyped(l) # {} => RunTyped(f) = {} /\ \A i \in 1 .. Len(q) : RunTyped(q[i]) = {}
    /\ RunTyped(f) # {} => \A i \in 1 .. Len(q) : RunTyped(q[i]) = {}
    /\ \A i, k \in 1 .. Len(q) : RunTyped(q[i]) # {} /\ RunTyped(q[k]) # {} => i = k

(***************************************************************************)
(* A blank line holds nobody's text.                                         *)
(***************************************************************************)
LEMMA BlankLine == Pieces(<<>>) = {} /\ RunTyped(<<>>) = {}
  BY EmptySeq DEF Pieces, RunTyped

(***************************************************************************)
(* Text is added to the line being typed: none of a run's, or a run's when    *)
(* the pane holds none.                                                      *)
(***************************************************************************)
LEMMA PaneTyped ==
  ASSUME NEW l, NEW f, NEW q, OneLine(l, f, q), NEW n
  PROVE  /\ RunTyped(n) \subseteq RunTyped(l) =>
                OneLine(n, f, q) /\ RunsIn(n, f, q) \subseteq RunsIn(l, f, q)
         /\ RunsIn(l, f, q) = {} => OneLine(n, f, q) /\ RunsIn(n, f, q) = RunTyped(n)
  <1>1. RunsIn(l, f, q) = {} =>
            RunTyped(l) = {} /\ RunTyped(f) = {} /\ \A i \in 1 .. Len(q) : RunTyped(q[i]) = {}
    BY DEF RunsIn
  <1>2. RunsIn(l, f, q) = {} => RunsIn(n, f, q) = RunTyped(n)
    BY <1>1 DEF RunsIn
  <1>3. RunTyped(n) \subseteq RunTyped(l) => RunsIn(n, f, q) \subseteq RunsIn(l, f, q)
    BY DEF RunsIn
  <1> QED
    BY <1>1, <1>2, <1>3 DEF OneLine

(***************************************************************************)
(* Enter: the line that was being typed is the last one entered.             *)
(***************************************************************************)
LEMMA PaneEntered ==
  ASSUME NEW l, NEW f, NEW q \in Seq(Lines), OneLine(l, f, q),
         NEW n \in Lines, RunTyped(n) \subseteq RunTyped(l)
  PROVE  /\ OneLine(<<>>, f, Append(q, n))
         /\ RunsIn(<<>>, f, Append(q, n)) \subseteq RunsIn(l, f, q)
         /\ RunTyped(n) = RunTyped(l) => RunsIn(<<>>, f, Append(q, n)) = RunsIn(l, f, q)
  <1> DEFINE r == Append(q, n)
  <1>1. /\ Len(q) \in Nat /\ Len(r) = Len(q) + 1
        /\ \A i \in 1 .. Len(q) : r[i] = q[i]
        /\ r[Len(q) + 1] = n
    BY AppendProperties, LenProperties
  <1> HIDE DEF r
  <1>2. \A i \in 1 .. Len(r) : (i = Len(q) + 1 /\ r[i] = n) \/ (i \in 1 .. Len(q) /\ r[i] = q[i])
    BY <1>1
  <1>3. RunTyped(<<>>) = {}
    BY BlankLine
  <1>4. RunsIn(<<>>, f, r) \subseteq RunsIn(l, f, q)
    BY <1>2, <1>3 DEF RunsIn
  <1>5. RunTyped(n) = RunTyped(l) => RunsIn(l, f, q) \subseteq RunsIn(<<>>, f, r)
    BY <1>1 DEF RunsIn
  <1>6. RunTyped(f) # {} => \A i \in 1 .. Len(r) : RunTyped(r[i]) = {}
    BY <1>2 DEF OneLine
  <1>7. \A i, k \in 1 .. Len(r) : RunTyped(r[i]) # {} /\ RunTyped(r[k]) # {} => i = k
    BY <1>2 DEF OneLine
  <1>8. OneLine(<<>>, f, r)
    BY <1>3, <1>6, <1>7 DEF OneLine
  <1> QED
    BY <1>4, <1>5, <1>8 DEF r

(***************************************************************************)
(* The first line entered is read: by a program, or by the shell, to execute  *)
(* it.                                                                       *)
(***************************************************************************)
LEMMA PaneRead ==
  ASSUME NEW l, NEW f, NEW q \in Seq(Lines), q # <<>>, OneLine(l, f, q)
  PROVE  /\ OneLine(l, f, Tail(q)) /\ RunsIn(l, f, Tail(q)) \subseteq RunsIn(l, f, q)
         /\ RunTyped(f) = {} => /\ OneLine(l, Head(q), Tail(q))
                                /\ RunsIn(l, Head(q), Tail(q)) = RunsIn(l, f, q)
  <1> DEFINE r == Tail(q)
  <1>1. /\ Len(q) \in Nat /\ Len(r) \in Nat /\ Len(q) = Len(r) + 1
        /\ \A i \in 1 .. Len(r) : r[i] = q[i + 1]
        /\ Head(q) = q[1]
    BY HeadTailProperties, LenProperties, EmptySeq
  <1> HIDE DEF r
  <1>2. \A i \in 1 .. Len(r) : i + 1 \in 1 .. Len(q) /\ i + 1 # 1 /\ r[i] = q[i + 1]
    BY <1>1
  <1>3. 1 \in 1 .. Len(q)
    BY <1>1
  <1>4. /\ RunsIn(l, f, r) \subseteq RunsIn(l, f, q)
        /\ RunTyped(f) = {} => RunsIn(l, q[1], r) = RunsIn(l, f, q)
    <2>1. RunsIn(l, f, r) \subseteq RunsIn(l, f, q) /\ RunsIn(l, q[1], r) \subseteq RunsIn(l, f, q)
      BY <1>2, <1>3 DEF RunsIn
    <2>2. \A i \in 1 .. Len(q) : i = 1 \/ \E j \in 1 .. Len(r) : q[i] = r[j]
      <3>1. ASSUME NEW i \in 1 .. Len(q), i # 1 PROVE \E j \in 1 .. Len(r) : q[i] = r[j]
        <4>1. i - 1 \in 1 .. Len(r) /\ r[i - 1] = q[i]
          BY <1>1, <3>1
        <4> QED
          BY <4>1
      <3> QED
        BY <3>1
    <2>3. RunTyped(f) = {} => RunsIn(l, f, q) \subseteq RunsIn(l, q[1], r)
      BY <2>2 DEF RunsIn
    <2> QED
      BY <2>1, <2>3
  <1>5. \A i, k \in 1 .. Len(r) : RunTyped(r[i]) # {} /\ RunTyped(r[k]) # {} => i = k
    <2>1. ASSUME NEW i \in 1 .. Len(r), NEW k \in 1 .. Len(r), RunTyped(r[i]) # {}, RunTyped(r[k]) # {}
          PROVE  i = k
      <3>1. i + 1 = k + 1
        BY <1>2, <2>1 DEF OneLine
      <3> QED
        BY <3>1, <1>1
    <2> QED
      BY <2>1
  <1>6. RunTyped(l) # {} \/ RunTyped(f) # {} => \A i \in 1 .. Len(r) : RunTyped(r[i]) = {}
    BY <1>2 DEF OneLine
  <1>7. RunTyped(q[1]) # {} => \A i \in 1 .. Len(r) : RunTyped(r[i]) = {}
    BY <1>2, <1>3 DEF OneLine
  <1>8. RunTyped(l) # {} => RunTyped(f) = {} /\ RunTyped(q[1]) = {}
    BY <1>3 DEF OneLine
  <1>9. OneLine(l, f, r) /\ OneLine(l, q[1], r)
    BY <1>5, <1>6, <1>7, <1>8 DEF OneLine
  <1> QED
    BY <1>1, <1>4, <1>9 DEF r

(***************************************************************************)
(* The line that was executing is gone, and with it the only text of a run    *)
(* there was, if it held any.                                                *)
(***************************************************************************)
LEMMA PaneCleared ==
  ASSUME NEW l, NEW f, NEW q, OneLine(l, f, q), NEW n, RunTyped(n) = {}
  PROVE  /\ OneLine(l, n, q) /\ RunsIn(l, n, q) \subseteq RunsIn(l, f, q)
         /\ RunTyped(f) # {} => RunsIn(l, n, q) = {}
         /\ RunTyped(f) = {} => RunsIn(l, n, q) = RunsIn(l, f, q)
  <1>1. RunsIn(l, n, q) \subseteq RunsIn(l, f, q)
    BY DEF RunsIn
  <1>2. RunTyped(f) # {} => RunsIn(l, n, q) = {}
    BY DEF OneLine, RunsIn
  <1>3. RunTyped(f) = {} => RunsIn(l, n, q) = RunsIn(l, f, q)
    BY DEF RunsIn
  <1> QED
    BY <1>1, <1>2, <1>3 DEF OneLine

-----------------------------------------------------------------------------
(* The commands of the log, and the marks that ended them. *)

Commands(l) == {i \in 1 .. Len(l) : IsStart(l[i])}

\* The mark that ended command i of log l: it is over; 0, it is not.
OverAt(sh, l, m, i) == EndMark(sh, m, l[i].offset)

\* A command that is over was ended by its own text, and only the last may not be.
CommandsOwn(sh, l, m) ==
    \A i \in Commands(l) :
        /\ l[i].offset <= Len(m)
        /\ OverAt(sh, l, m, i) # 0 => RunPiece(l[i].id) \in Pieces(m[OverAt(sh, l, m, i)].by)
        /\ OverAt(sh, l, m, i) = 0 => \A k \in Commands(l) : k <= i

\* Every recorded end was read from the mark of its command.
EndsOwn(sh, l, m) ==
    \A k \in 1 .. Len(l) : IsEnd(l[k]) =>
        \E i \in Commands(l) :
            l[i].id = l[k].id /\ OverAt(sh, l, m, i) # 0 /\ l[k].exit = OverAt(sh, l, m, i)

\* Pieces ps are of commands that are not over.
PiecesOwn(sh, l, m, ps) ==
    \A p \in ps : \E i \in Commands(l) : p = RunPiece(l[i].id) /\ OverAt(sh, l, m, i) = 0

AllOver(sh, l, m) == \A i \in Commands(l) : OverAt(sh, l, m, i) # 0

(***************************************************************************)
(* Events that start no command leave the commands as they were.             *)
(***************************************************************************)
LEMMA CommandsKept ==
  ASSUME NEW sh, NEW l \in Seq(Events), NEW ev \in Events, ~IsStart(ev), NEW m
  PROVE  /\ Commands(Append(l, ev)) = Commands(l)
         /\ \A i \in Commands(l) : /\ OverAt(sh, Append(l, ev), m, i) = OverAt(sh, l, m, i)
                                  /\ Append(l, ev)[i] = l[i]
  <1> DEFINE n == Append(l, ev)
  <1>1. /\ Len(l) \in Nat /\ Len(n) = Len(l) + 1
        /\ \A i \in 1 .. Len(l) : n[i] = l[i]
        /\ n[Len(l) + 1] = ev
    BY AppendElements
  <1> HIDE DEF n
  <1>2. \A i : i \in Commands(n) <=> i \in Commands(l)
    BY <1>1 DEF Commands
  <1>3. \A i \in Commands(l) : n[i] = l[i]
    BY <1>1 DEF Commands
  <1> QED
    BY <1>2, <1>3 DEF OverAt, n

(***************************************************************************)
(* So they are still ended by their own text, and so are the recorded ends,   *)
(* the one just appended included if it is.                                  *)
(***************************************************************************)
LEMMA OwnAppended ==
  ASSUME NEW sh, NEW l \in Seq(Events), NEW ev \in Events, ~IsStart(ev), NEW n, n = Append(l, ev),
         NEW m, NEW ps, CommandsOwn(sh, l, m), EndsOwn(sh, l, m), PiecesOwn(sh, l, m, ps),
         IsEnd(ev) => \E i \in Commands(l) :
             l[i].id = ev.id /\ OverAt(sh, l, m, i) # 0 /\ ev.exit = OverAt(sh, l, m, i)
  PROVE  CommandsOwn(sh, n, m) /\ EndsOwn(sh, n, m) /\ PiecesOwn(sh, n, m, ps)
  <1>1. /\ Commands(n) = Commands(l)
        /\ \A i \in Commands(l) : OverAt(sh, n, m, i) = OverAt(sh, l, m, i) /\ n[i] = l[i]
    BY CommandsKept
  <1>2. CommandsOwn(sh, n, m)
    BY <1>1 DEF CommandsOwn
  <1>3. PiecesOwn(sh, n, m, ps)
    BY <1>1 DEF PiecesOwn
  <1>4. /\ Len(l) \in Nat /\ Len(n) = Len(l) + 1
        /\ \A i \in 1 .. Len(l) : n[i] = l[i]
        /\ n[Len(l) + 1] = ev
    BY AppendElements
  <1>5. ASSUME NEW k \in 1 .. Len(n), IsEnd(n[k])
        PROVE  \E i \in Commands(n) :
                   n[i].id = n[k].id /\ OverAt(sh, n, m, i) # 0 /\ n[k].exit = OverAt(sh, n, m, i)
    <2>1. PICK i \in Commands(l) :
              l[i].id = n[k].id /\ OverAt(sh, l, m, i) # 0 /\ n[k].exit = OverAt(sh, l, m, i)
      <3>1. CASE k = Len(l) + 1
        BY <1>4, <1>5, <3>1
      <3>2. CASE k \in 1 .. Len(l)
        BY <1>4, <1>5, <3>2 DEF EndsOwn
      <3> QED
        BY <1>4, <3>1, <3>2
    <2> QED
      BY <1>1, <2>1
  <1>6. EndsOwn(sh, n, m)
    BY <1>5 DEF EndsOwn
  <1> QED
    BY <1>2, <1>3, <1>6

(***************************************************************************)
(* A command starts where every earlier one is over and no mark after its     *)
(* offset ended it: it is the only one that is not over.                     *)
(***************************************************************************)
LEMMA OwnStarted ==
  ASSUME NEW ev \in Events, IsStart(ev), NEW n, n = Append(log, ev), log \in Seq(Events),
         CommandsOwn(Shell, log, marks), EndsOwn(Shell, log, marks), AllOver(Shell, log, marks),
         ev.offset <= Len(marks), EndMark(Shell, marks, ev.offset) = 0
  PROVE  /\ CommandsOwn(Shell, n, marks) /\ EndsOwn(Shell, n, marks)
         /\ Len(log) + 1 \in Commands(n) /\ n[Len(log) + 1] = ev
         /\ OverAt(Shell, n, marks, Len(log) + 1) = 0
  <1>1. /\ Len(log) \in Nat /\ Len(n) = Len(log) + 1
        /\ \A i \in 1 .. Len(log) : n[i] = log[i]
        /\ n[Len(log) + 1] = ev
    BY AppendElements
  <1>2. \A i : i \in Commands(n) <=> i \in Commands(log) \/ i = Len(log) + 1
    BY <1>1 DEF Commands
  <1>3. /\ \A i \in Commands(log) : n[i] = log[i] /\ i \in 1 .. Len(log)
        /\ \A i \in Commands(log) : OverAt(Shell, n, marks, i) = OverAt(Shell, log, marks, i)
    BY <1>1 DEF Commands, OverAt
  <1>4. OverAt(Shell, n, marks, Len(log) + 1) = 0
    BY <1>1 DEF OverAt
  <1>5. CommandsOwn(Shell, n, marks)
    <2>1. ASSUME NEW i \in Commands(n)
          PROVE  /\ n[i].offset <= Len(marks)
                 /\ OverAt(Shell, n, marks, i) # 0 =>
                        RunPiece(n[i].id) \in Pieces(marks[OverAt(Shell, n, marks, i)].by)
                 /\ OverAt(Shell, n, marks, i) = 0 => \A k \in Commands(n) : k <= i
      <3>1. CASE i = Len(log) + 1
        <4>1. \A k \in Commands(n) : k <= i
          BY <1>1, <1>2, <1>3, <3>1
        <4> QED
          BY <1>1, <1>4, <3>1, <4>1
      <3>2. CASE i \in Commands(log)
        BY <1>3, <3>2 DEF CommandsOwn, AllOver
      <3> QED
        BY <1>2, <3>1, <3>2
    <2> QED
      BY <2>1 DEF CommandsOwn
  <1>6. ~IsEnd(ev)
    BY DEF IsStart, IsEnd
  <1>7. EndsOwn(Shell, n, marks)
    <2>1. ASSUME NEW k \in 1 .. Len(n), IsEnd(n[k])
          PROVE  \E i \in Commands(n) :
                     /\ n[i].id = n[k].id /\ OverAt(Shell, n, marks, i) # 0
                     /\ n[k].exit = OverAt(Shell, n, marks, i)
      <3>1. k \in 1 .. Len(log) /\ n[k] = log[k]
        BY <1>1, <1>6, <2>1
      <3>2. PICK i \in Commands(log) :
                /\ log[i].id = log[k].id /\ OverAt(Shell, log, marks, i) # 0
                /\ log[k].exit = OverAt(Shell, log, marks, i)
        BY <2>1, <3>1 DEF EndsOwn
      <3> QED
        BY <1>2, <1>3, <3>1, <3>2
    <2> QED
      BY <2>1 DEF EndsOwn
  <1> QED
    BY <1>1, <1>2, <1>4, <1>5, <1>7

(***************************************************************************)
(* Commands were started at offsets of raw.log.                              *)
(***************************************************************************)
LEMMA OffsetsInLog ==
  ASSUME NEW sh, NEW l \in Seq(Events), NEW m, CommandsOwn(sh, l, m)
  PROVE  \A i \in Commands(l) : i \in Nat /\ l[i].offset \in Nat /\ l[i].offset <= Len(m)
  <1>1. \A i \in 1 .. Len(l) : l[i] \in Events
    BY ElementOfSeq
  <1>2. \A i \in 1 .. Len(l) : l[i].offset \in Nat
    BY <1>1 DEF Events
  <1> QED
    BY <1>2 DEF Commands, CommandsOwn

(***************************************************************************)
(* A mark that is appended is the end of the commands it closes.             *)
(***************************************************************************)
LEMMA OverAppended ==
  ASSUME NEW sh, NEW l \in Seq(Events), NEW S, NEW m \in Seq(S), NEW x \in S,
         NEW i \in Commands(l), l[i].offset \in Nat, l[i].offset <= Len(m)
  PROVE  OverAt(sh, l, Append(m, x), i) =
             IF OverAt(sh, l, m, i) # 0 THEN OverAt(sh, l, m, i)
             ELSE IF Closes(sh, m, x, l[i].offset) THEN Len(m) + 1 ELSE 0
  BY EndMarkAppended DEF OverAt

(***************************************************************************)
(* A line that holds the text of a command that is not over ends, and its     *)
(* mark closes what is not: that command, the only one, is over now, by its   *)
(* own text.                                                                 *)
(***************************************************************************)
LEMMA OwnMarked ==
  ASSUME NEW sh, NEW l \in Seq(Events), NEW S, NEW m \in Seq(S), NEW x \in S,
         NEW n, n = Append(m, x),
         CommandsOwn(sh, l, m), EndsOwn(sh, l, m), PiecesOwn(sh, l, m, RunTyped(x.by)),
         RunTyped(x.by) # {},
         \A i \in Commands(l) : OverAt(sh, l, m, i) = 0 => Closes(sh, m, x, l[i].offset)
  PROVE  /\ CommandsOwn(sh, l, n) /\ EndsOwn(sh, l, n) /\ AllOver(sh, l, n)
         /\ \A i \in Commands(l) :
                OverAt(sh, l, m, i) # 0 => OverAt(sh, l, n, i) = OverAt(sh, l, m, i)
  <1>1. /\ n \in Seq(S) /\ Len(m) \in Nat /\ Len(n) = Len(m) + 1
        /\ \A i \in 1 .. Len(m) : n[i] = m[i]
        /\ n[Len(m) + 1] = x
    BY AppendProperties, LenProperties
  <1>2. \A i \in Commands(l) : i \in Nat /\ l[i].offset \in Nat /\ l[i].offset <= Len(m)
    BY OffsetsInLog
  <1>3. \A i \in Commands(l) :
            OverAt(sh, l, n, i) = IF OverAt(sh, l, m, i) # 0 THEN OverAt(sh, l, m, i) ELSE Len(m) + 1
    BY <1>2, OverAppended
  <1>4. AllOver(sh, l, n)
    BY <1>1, <1>3 DEF AllOver
  <1>5. ASSUME NEW i \in Commands(l)
        PROVE  RunPiece(l[i].id) \in Pieces(n[OverAt(sh, l, n, i)].by)
    <2>1. CASE OverAt(sh, l, m, i) # 0
      <3>1. OverAt(sh, l, m, i) \in 1 .. Len(m)
        BY <1>2, <2>1, EndMarkFound DEF OverAt
      <3> QED
        BY <1>1, <1>3, <2>1, <3>1 DEF CommandsOwn
    <2>2. CASE OverAt(sh, l, m, i) = 0
      <3>1. PICK p \in RunTyped(x.by) : TRUE
        OBVIOUS
      <3>2. PICK k \in Commands(l) : p = RunPiece(l[k].id) /\ OverAt(sh, l, m, k) = 0
        BY <3>1 DEF PiecesOwn
      <3>3. i = k
        BY <1>2, <2>2, <3>2 DEF CommandsOwn
      <3>4. p \in Pieces(x.by)
        BY <3>1 DEF RunTyped
      <3> QED
        BY <1>1, <1>3, <2>2, <3>2, <3>3, <3>4
    <2> QED
      BY <2>1, <2>2
  <1>6. CommandsOwn(sh, l, n)
    <2>1. \A i \in Commands(l) : l[i].offset <= Len(n) /\ OverAt(sh, l, n, i) # 0
      BY <1>1, <1>2, <1>4 DEF AllOver
    <2> QED
      BY <1>5, <2>1 DEF CommandsOwn
  <1>7. EndsOwn(sh, l, n)
    BY <1>3 DEF EndsOwn
  <1> QED
    BY <1>3, <1>4, <1>6, <1>7

(***************************************************************************)
(* Any other mark is appended: it closes none of the commands that are not    *)
(* over.                                                                     *)
(***************************************************************************)
LEMMA OwnNotMarked ==
  ASSUME NEW sh, NEW l \in Seq(Events), NEW S, NEW m \in Seq(S), NEW x \in S,
         NEW n, n = Append(m, x), NEW ps,
         CommandsOwn(sh, l, m), EndsOwn(sh, l, m), PiecesOwn(sh, l, m, ps),
         \A i \in Commands(l) : OverAt(sh, l, m, i) = 0 => ~Closes(sh, m, x, l[i].offset)
  PROVE  /\ CommandsOwn(sh, l, n) /\ EndsOwn(sh, l, n) /\ PiecesOwn(sh, l, n, ps)
         /\ \A i \in Commands(l) : OverAt(sh, l, n, i) = OverAt(sh, l, m, i)
  <1>1. /\ n \in Seq(S) /\ Len(m) \in Nat /\ Len(n) = Len(m) + 1
        /\ \A i \in 1 .. Len(m) : n[i] = m[i]
    BY AppendProperties, LenProperties
  <1>2. \A i \in Commands(l) : i \in Nat /\ l[i].offset \in Nat /\ l[i].offset <= Len(m)
    BY OffsetsInLog
  <1>3. \A i \in Commands(l) : OverAt(sh, l, n, i) = OverAt(sh, l, m, i)
    BY <1>2, OverAppended
  <1>4. ASSUME NEW i \in Commands(l), OverAt(sh, l, n, i) # 0
        PROVE  RunPiece(l[i].id) \in Pieces(n[OverAt(sh, l, n, i)].by)
    <2>1. OverAt(sh, l, n, i) = OverAt(sh, l, m, i)
      BY <1>3
    <2>2. OverAt(sh, l, m, i) \in 1 .. Len(m)
      BY <1>2, <1>4, <2>1, EndMarkFound DEF OverAt
    <2> QED
      BY <1>1, <1>4, <2>1, <2>2 DEF CommandsOwn
  <1>5. CommandsOwn(sh, l, n)
    <2>1. \A i \in Commands(l) : l[i].offset <= Len(n)
      BY <1>1, <1>2
    <2>2. \A i \in Commands(l) : OverAt(sh, l, n, i) = 0 => \A k \in Commands(l) : k <= i
      BY <1>3 DEF CommandsOwn
    <2> QED
      BY <1>4, <2>1, <2>2 DEF CommandsOwn
  <1>6. EndsOwn(sh, l, n) /\ PiecesOwn(sh, l, n, ps)
    BY <1>3 DEF EndsOwn, PiecesOwn
  <1> QED
    BY <1>3, <1>5, <1>6

(***************************************************************************)
(* Where the last pending command of the log is over, or none is pending,     *)
(* every command is: only the last may not be, and an ended one is.          *)
(***************************************************************************)
LEMMA NoneLeft ==
  ASSUME NEW sh, NEW l \in Seq(Events), WellFormed(l), NEW m, CommandsOwn(sh, l, m), EndsOwn(sh, l, m),
         PendingCmd(l) = 0 \/ OverAt(sh, l, m, PendingCmd(l)) # 0
  PROVE  AllOver(sh, l, m)
  <1> SUFFICES ASSUME NEW i \in Commands(l), OverAt(sh, l, m, i) = 0 PROVE FALSE
    BY DEF AllOver
  <1>1. Unended(l) \subseteq Commands(l) /\ Commands(l) \subseteq 1 .. Len(l) /\ Len(l) \in Nat
    BY LenProperties DEF Unended, Commands, IsStart
  <1>2. i \in Unended(l)
    <2>1. SUFFICES ASSUME EndedAfter(l, i) PROVE FALSE
      BY DEF Unended, Commands, IsStart
    <2>2. PICK k \in i + 1 .. Len(l) : l[k].type = "cmd_end" /\ l[k].id = l[i].id
      BY <2>1 DEF EndedAfter
    <2>3. k \in 1 .. Len(l) /\ IsEnd(l[k])
      BY <1>1, <2>2 DEF IsEnd
    <2>4. PICK h \in Commands(l) : l[h].id = l[k].id /\ OverAt(sh, l, m, h) # 0
      BY <2>3 DEF EndsOwn
    <2>5. h = i
      BY <2>2, <2>4 DEF WellFormed, Commands
    <2> QED
      BY <2>4, <2>5
  <1>3. PendingCmd(l) # 0 /\ PendingCmd(l) \in Unended(l) /\ \A k \in Unended(l) : k <= PendingCmd(l)
    BY <1>2, PendingIsUnended
  <1>4. PendingCmd(l) = i
    BY <1>1, <1>2, <1>3 DEF CommandsOwn
  <1> QED
    BY <1>3, <1>4

-----------------------------------------------------------------------------
(* The invariant that makes completions a run's own. *)

(***************************************************************************)
(* Where they are: in sentinel mode, where every mux call that is made        *)
(* succeeds; in the other modes too, where nobody but runs uses the pane;     *)
(* and beside a shell that marks C, where a human enters lines at an idle     *)
(* prompt only and nothing fails but appends.                                *)
(***************************************************************************)
Sentinels == Shell = "sentinel" /\ Env \cap {"fail", "unreadable"} = {}

Unattended ==
    /\ Shell # "sentinel" /\ Env \cap {"fail", "unreadable"} = {}
    /\ world.sends = 0 /\ world.humanLines = 0

Attended == Shell = "hooks" /\ Env \subseteq {"io"} /\ world.sends = 0

Sure == Sentinels \/ Unattended \/ Attended

\* The text of runs that is in the pane, and the commands that are not over.
RunText == RunsIn(line, fg, queue)

Unfinished == {i \in Commands(log) : OverAt(Shell, log, marks, i) = 0}

(***************************************************************************)
(* What a run relies on: past settlement nothing is left of an earlier        *)
(* command, so its own is the only one that the next mark can end; and the    *)
(* mark it found is the one that ended its own.                              *)
(***************************************************************************)
RunOwn(a) ==
    /\ pc[a] \in {"start", "record", "literal"} => RunText = {}
    /\ pc[a] \in {"start", "record"} => AllOver(Shell, log, marks)
    /\ pc[a] = "record" =>
           run[a].offset <= Len(marks) /\ EndMark(Shell, marks, run[a].offset) = 0
    /\ pc[a] \in Started => \E i \in Commands(log) :
           /\ log[i].id = run[a].id /\ log[i].offset = run[a].offset
           /\ pc[a] = "literal" => OverAt(Shell, log, marks, i) = 0
           /\ pc[a] = "end" => /\ OverAt(Shell, log, marks, i) # 0
                               /\ run[a].mark = OverAt(Shell, log, marks, i)

OwnInv ==
    /\ CommandsOwn(Shell, log, marks) /\ EndsOwn(Shell, log, marks)
    /\ PiecesOwn(Shell, log, marks, RunText)
    /\ OneLine(line, fg, queue)
    /\ \A a \in Agents : RunOwn(a)

(***************************************************************************)
(* Beside hooks: every line that waits to be read is a run's, and a shell     *)
(* that marks C has marked one for an unfinished command exactly when it      *)
(* executes its line.                                                        *)
(***************************************************************************)
HookInv ==
    /\ \A s \in Senders : spc[s] = "idle"
    /\ line = <<>> \/ RunTyped(line) # {}
    /\ \A k \in 1 .. Len(queue) : RunTyped(queue[k]) # {}
    /\ Shell = "hooks-noC" => At(marks, 0, "C") = {}
    /\ Shell = "hooks" => \A i \in Unfinished :
           At(marks, log[i].offset, "C") # {} <=> RunPiece(log[i].id) \in Pieces(fg)
    /\ \A a \in Agents : /\ pc[a] = "record" => At(marks, run[a].offset, "C") = {}
                         /\ pc[a] = "enter" => RunTyped(line) # {}

\* With nobody else there, every line is a run's and every D closes.
AloneInv ==
    /\ fg = <<>> \/ RunTyped(fg) # {}
    /\ \A i \in Unfinished : At(marks, log[i].offset, "D") = {}
    /\ \A a \in Agents : pc[a] = "record" => At(marks, run[a].offset, "D") = {}

\* With a human there, an unfinished command has its run, and its text is in the pane.
BesideInv ==
    /\ \A i \in Unfinished : \E a \in Agents :
           /\ run[a].id = log[i].id /\ pc[a] \in {"literal", "enter", "wait"}
           /\ pc[a] # "literal" => RunPiece(log[i].id) \in RunText
    /\ RunTyped(line) # {} => \E a \in Agents : pc[a] = "enter"

SureInv ==
    /\ OwnInv
    /\ Unattended \/ Attended => HookInv
    /\ Unattended => AloneInv
    /\ Attended => BesideInv

(***************************************************************************)
(* What the marks are read for: a completion is the mark that ended the       *)
(* command, and a D that is held is one only where no C can be seen.         *)
(***************************************************************************)
LEMMA ReadMarks ==
  ASSUME RunInv, NEW from \in Nat
  PROVE  /\ Shell \in {"hooks", "hooks-noC", "sentinel"}
         /\ Shell = "sentinel" => Completed(from) = EndMark(Shell, marks, from) /\ Held(from) = 0
         /\ Shell = "hooks" => /\ Completed(from) = EndMark(Shell, marks, from)
                               /\ Held(from) # 0 => /\ EndMark(Shell, marks, from) = 0
                                                    /\ At(marks, from, "D") # {}
         /\ Shell = "hooks-noC" /\ At(marks, 0, "C") = {} =>
                Completed(from) = 0 /\ Held(from) = EndMark(Shell, marks, from)
  <1>1. Shell \in {"hooks", "hooks-noC", "sentinel"}
    BY RunAssumption DEF RunAssumption, World, RunInv, TypeOK, Shell
  <1>2. FirstOf({}) = 0
    BY DEF FirstOf
  <1>3. ASSUME Shell = "sentinel"
        PROVE  Completed(from) = EndMark(Shell, marks, from) /\ Held(from) = 0
    <2>1. EndMarks(Shell, marks, from) = At(marks, from, "S")
      BY <1>3 DEF EndMarks
    <2> QED
      BY <1>3, <2>1 DEF EndMark, Completed, Held, FirstSentinel
  <1>4. ASSUME Shell = "hooks"
        PROVE  /\ Completed(from) = EndMark(Shell, marks, from)
               /\ Held(from) # 0 => /\ EndMark(Shell, marks, from) = 0
                                    /\ At(marks, from, "D") # {}
    <2>1. EndMarks(Shell, marks, from) =
              {i \in At(marks, from, "D") : \E c \in At(marks, from, "C") : c < i}
      BY <1>4 DEF EndMarks
    <2>2. Completed(from) = EndMark(Shell, marks, from)
      BY <1>4, <2>1 DEF EndMark, Completed, CorrelatedD
    <2>3. ASSUME Held(from) # 0
          PROVE  EndMark(Shell, marks, from) = 0 /\ At(marks, from, "D") # {}
      <3>1. At(marks, from, "C") = {} /\ FirstOf(At(marks, from, "D")) # 0
        BY <1>4, <2>3 DEF Held, HeldD
      <3>2. EndMarks(Shell, marks, from) = {}
        BY <2>1, <3>1
      <3> QED
        BY <1>2, <3>1, <3>2 DEF EndMark
    <2> QED
      BY <2>2, <2>3
  <1>5. ASSUME Shell = "hooks-noC", At(marks, 0, "C") = {}
        PROVE  Completed(from) = 0 /\ Held(from) = EndMark(Shell, marks, from)
    <2>1. At(marks, from, "C") = {}
      <3>1. Len(marks) \in Nat
        BY LenProperties DEF RunInv, TypeOK
      <3> QED
        BY <1>5, <3>1 DEF At
    <2>2. {i \in At(marks, from, "D") : \E c \in At(marks, from, "C") : c < i} = {}
      BY <2>1
    <2>3. EndMarks(Shell, marks, from) = At(marks, from, "D")
      BY <1>5 DEF EndMarks
    <2>4. Completed(from) = 0
      BY <1>2, <1>5, <2>2 DEF Completed, CorrelatedD
    <2>5. Held(from) = EndMark(Shell, marks, from)
      BY <1>5, <2>1, <2>3 DEF Held, HeldD, EndMark
    <2> QED
      BY <2>4, <2>5
  <1> QED
    BY <1>1, <1>3, <1>4, <1>5

(***************************************************************************)
(* Two runs that are both past the lock are one.                             *)
(***************************************************************************)
LEMMA OneRun ==
  ASSUME RunInv, NEW a \in Agents, NEW b \in Agents, pc[a] # "idle", pc[b] # "idle"
  PROVE  a = b
  BY DEF RunInv, RunOK

(***************************************************************************)
(* So the mark a run takes for a command's completion is the one that ended   *)
(* it: a D that is held and belongs to nobody's command is never taken, not   *)
(* by the grace period, not at the deadline, and not by settlement.          *)
(***************************************************************************)
LEMMA RightMark ==
  ASSUME RunInv, SureInv, Sure, NEW i \in Commands(log), NEW a \in Agents, NEW m, m # 0,
         \/ m = Completed(log[i].offset)
         \/ m = Held(log[i].offset) /\ pc[a] = "settle"
         \/ m = Held(log[i].offset) /\ log[i].id = run[a].id /\ pc[a] = "wait" /\ GraceOver(a)
         \/ m = Held(log[i].offset) /\ "timeout" \in Env
  PROVE  m = OverAt(Shell, log, marks, i)
  <1> DEFINE from == log[i].offset
             e == EndMark(Shell, marks, from)
  <1>1. from \in Nat /\ e = OverAt(Shell, log, marks, i)
    BY OffsetsInLog DEF SureInv, OwnInv, OverAt, RunInv, TypeOK
  <1>2. /\ Shell \in {"hooks", "hooks-noC", "sentinel"}
        /\ Shell = "sentinel" => Completed(from) = e /\ Held(from) = 0
        /\ Shell = "hooks" => /\ Completed(from) = e
                              /\ Held(from) # 0 => e = 0 /\ At(marks, from, "D") # {}
        /\ Shell = "hooks-noC" /\ At(marks, 0, "C") = {} => Completed(from) = 0 /\ Held(from) = e
    BY <1>1, ReadMarks
  <1> HIDE DEF e
  <1>3. CASE Shell = "sentinel"
    BY <1>1, <1>2, <1>3
  <1>4. CASE Shell = "hooks-noC"
    <2>1. Unattended
      BY <1>4 DEF Sure, Sentinels, Attended
    <2>2. At(marks, 0, "C") = {}
      BY <1>4, <2>1 DEF SureInv, HookInv
    <2> QED
      BY <1>1, <1>2, <1>4, <2>2
  <1>5. CASE Shell = "hooks"
    <2>1. SUFFICES ASSUME m = Held(from), m # Completed(from) PROVE FALSE
      BY <1>1, <1>2, <1>5
    <2>2. i \in Unfinished /\ At(marks, from, "D") # {}
      BY <1>1, <1>2, <1>5, <2>1 DEF Unfinished
    <2>3. Attended
      BY <1>5, <2>2 DEF Sure, Sentinels, SureInv, AloneInv
    <2>4. PICK b \in Agents : /\ run[b].id = log[i].id /\ pc[b] \in {"literal", "enter", "wait"}
                              /\ pc[b] # "literal" => RunPiece(log[i].id) \in RunText
      BY <2>2, <2>3 DEF SureInv, BesideInv
    <2>5. pc[a] # "idle" => a = b
      BY <2>4, OneRun
    <2>6. GraceOver(a) /\ pc[a] = "wait"
      BY <2>1, <2>3, <2>4, <2>5 DEF Attended
    <2>7. fg = <<>> /\ queue = <<>>
      BY <1>5, <2>3, <2>6 DEF GraceOver, Attended
    <2>8. RunTyped(line) = {}
      <3>1. \A c \in Agents : pc[c] # "enter"
        BY <2>6, OneRun
      <3> QED
        BY <2>3, <3>1 DEF SureInv, BesideInv
    <2>9. RunText = {}
      BY <2>7, <2>8, BlankLine, EmptySeq DEF RunText, RunsIn
    <2> QED
      BY <2>4, <2>5, <2>6, <2>9
  <1> QED
    BY <1>2, <1>3, <1>4, <1>5


(***************************************************************************)
(* A run moves while the others are outside the lock, and these rely on       *)
(* nothing.                                                                  *)
(***************************************************************************)
LEMMA OwnByRun ==
  ASSUME RunInv, NEW a \in Agents, NEW l, Goto(a, l), writeLock \in {None, a},
         CommandsOwn(Shell', log', marks'), EndsOwn(Shell', log', marks'),
         PiecesOwn(Shell', log', marks', RunText'), OneLine(line', fg', queue'), RunOwn(a)'
  PROVE  OwnInv'
  <1>1. None \notin Agents /\ pc \in [Agents -> RunLabels]
    BY RunAssumption DEF RunAssumption, RunInv, TypeOK
  <1>2. \A b \in Agents \ {a} : pc[b] = "idle"
    BY <1>1 DEF RunInv, RunOK
  <1>3. \A b \in Agents \ {a} : pc'[b] = "idle"
    BY <1>1, <1>2 DEF Goto
  <1>4. \A b \in Agents \ {a} : RunOwn(b)'
    BY <1>3 DEF RunOwn, Started
  <1> QED
    BY <1>4 DEF OwnInv

(***************************************************************************)
(* An event that is neither a start nor an end is appended, or none: what is  *)
(* known of the commands is what it was.                                     *)
(***************************************************************************)
LEMMA LogKept ==
  ASSUME RunInv, UNCHANGED <<world, marks>>,
         log' = log \/ \E ev \in Events : log' = Append(log, ev) /\ ~IsStart(ev)
  PROVE  /\ Shell' = Shell /\ Commands(log') = Commands(log) /\ Unfinished' = Unfinished
         /\ \A i \in Commands(log) : /\ OverAt(Shell', log', marks', i) = OverAt(Shell, log, marks, i)
                                     /\ log'[i] = log[i]
  <1>1. Shell' = Shell /\ log \in Seq(Events)
    BY DEF Shell, RunInv, TypeOK
  <1>2. /\ Commands(log') = Commands(log)
        /\ \A i \in Commands(log) : /\ OverAt(Shell, log', marks, i) = OverAt(Shell, log, marks, i)
                                    /\ log'[i] = log[i]
    <2>1. CASE log' = log
      BY <2>1
    <2>2. ASSUME NEW ev \in Events, log' = Append(log, ev), ~IsStart(ev)
          PROVE  /\ Commands(log') = Commands(log)
                 /\ \A i \in Commands(log) :
                        /\ OverAt(Shell, log', marks, i) = OverAt(Shell, log, marks, i)
                        /\ log'[i] = log[i]
      BY <1>1, <2>2, CommandsKept
    <2> QED
      BY <2>1, <2>2
  <1>3. \A i \in Commands(log) : OverAt(Shell', log', marks', i) = OverAt(Shell, log, marks, i)
    BY <1>1, <1>2
  <1>4. Unfinished' = Unfinished
    BY <1>2, <1>3 DEF Unfinished
  <1> QED
    BY <1>1, <1>2, <1>3, <1>4

(***************************************************************************)
(* Senders, notes, readers, and the pane as long as no mark ends a command:   *)
(* the text of runs is moved, never added.                                   *)
(***************************************************************************)
LEMMA QuietOwn ==
  ASSUME RunInv, OwnInv, UNCHANGED <<world, runVars>>,
         \/ /\ marks' = marks
            /\ \/ log' = log
               \/ \E ev \in Events : log' = Append(log, ev) /\ ~IsStart(ev) /\ ~IsEnd(ev)
         \/ /\ log' = log
            /\ \E x \in [kind : MarkKinds, by : Lines] :
                   /\ marks' = Append(marks, x)
                   /\ \A i \in Unfinished : ~Closes(Shell, marks, x, log[i].offset)
                   /\ \A a \in Agents :
                          pc[a] = "record" => ~Closes(Shell, marks, x, run[a].offset),
         OneLine(line', fg', queue'), RunText' \subseteq RunText
  PROVE  OwnInv'
  <1> DEFINE M == [kind : MarkKinds, by : Lines]
  <1>1. /\ CommandsOwn(Shell, log, marks) /\ EndsOwn(Shell, log, marks)
        /\ PiecesOwn(Shell, log, marks, RunText)
        /\ log \in Seq(Events) /\ marks \in Seq(M) /\ Shell' = Shell
    BY DEF OwnInv, RunInv, TypeOK, Shell
  <1>2. \A a \in Agents : pc[a] = "record" => run[a].offset \in Nat /\ run[a].offset <= Len(marks)
    BY DEF OwnInv, RunOwn, RunInv, TypeOK, RunState
  <1> DEFINE AsBefore ==
               /\ CommandsOwn(Shell, log', marks') /\ EndsOwn(Shell, log', marks')
               /\ PiecesOwn(Shell, log', marks', RunText)
               /\ Commands(log') = Commands(log)
               /\ \A i \in Commands(log) : /\ OverAt(Shell, log', marks', i) = OverAt(Shell, log, marks, i)
                                           /\ log'[i] = log[i]
               /\ \A a \in Agents : pc[a] = "record" =>
                      /\ run[a].offset <= Len(marks')
                      /\ EndMark(Shell, marks', run[a].offset) = EndMark(Shell, marks, run[a].offset)
  <1>3. AsBefore
    <2>1. CASE log' = log /\ marks' = marks
      BY <1>1, <1>2, <2>1
    <2>2. ASSUME NEW ev \in Events, log' = Append(log, ev), ~IsStart(ev), ~IsEnd(ev), marks' = marks
          PROVE  AsBefore
      <3>1. /\ CommandsOwn(Shell, log', marks) /\ EndsOwn(Shell, log', marks)
            /\ PiecesOwn(Shell, log', marks, RunText)
        BY <1>1, <2>2, OwnAppended
      <3>2. /\ Commands(log') = Commands(log)
            /\ \A i \in Commands(log) :
                   OverAt(Shell, log', marks, i) = OverAt(Shell, log, marks, i) /\ log'[i] = log[i]
        BY <1>1, <2>2, CommandsKept
      <3> QED
        BY <1>2, <2>2, <3>1, <3>2
    <2>3. ASSUME NEW x \in M, marks' = Append(marks, x), log' = log,
                 \A i \in Unfinished : ~Closes(Shell, marks, x, log[i].offset),
                 \A a \in Agents : pc[a] = "record" => ~Closes(Shell, marks, x, run[a].offset)
          PROVE  AsBefore
      <3>1. \A i \in Commands(log) :
                OverAt(Shell, log, marks, i) = 0 => ~Closes(Shell, marks, x, log[i].offset)
        BY <2>3 DEF Unfinished
      <3> HIDE DEF M
      <3>2. /\ CommandsOwn(Shell, log, marks') /\ EndsOwn(Shell, log, marks')
            /\ PiecesOwn(Shell, log, marks', RunText)
            /\ \A i \in Commands(log) : OverAt(Shell, log, marks', i) = OverAt(Shell, log, marks, i)
        BY <1>1, <2>3, <3>1, OwnNotMarked
      <3>3. Len(marks') = Len(marks) + 1 /\ Len(marks) \in Nat
        BY <1>1, <2>3, AppendProperties, LenProperties
      <3>4. ASSUME NEW a \in Agents, pc[a] = "record"
            PROVE  EndMark(Shell, marks', run[a].offset) = EndMark(Shell, marks, run[a].offset)
        <4>1. run[a].offset \in Nat /\ run[a].offset <= Len(marks)
              /\ ~Closes(Shell, marks, x, run[a].offset)
          BY <1>2, <2>3, <3>4
        <4> QED
          BY <1>1, <2>3, <4>1, EndMarkAppended
      <3>5. \A a \in Agents : pc[a] = "record" => run[a].offset <= Len(marks')
        BY <1>2, <3>3
      <3> QED
        BY <2>3, <3>2, <3>4, <3>5
    <2> HIDE DEF M
    <2> QED
      BY <2>1, <2>2, <2>3 DEF M
  <1>4. PiecesOwn(Shell, log', marks', RunText')
    BY <1>3 DEF PiecesOwn
  <1>5. AllOver(Shell, log, marks) => AllOver(Shell, log', marks')
    BY <1>3 DEF AllOver
  <1>6. ASSUME NEW a \in Agents PROVE RunOwn(a)'
    <2>1. RunOwn(a) /\ pc'[a] = pc[a] /\ run'[a] = run[a]
      BY DEF OwnInv, runVars
    <2>2. pc[a] \in {"start", "record", "literal"} => RunText' = {}
      BY <2>1 DEF RunOwn
    <2>3. pc[a] \in {"start", "record"} => AllOver(Shell, log', marks')
      BY <1>5, <2>1 DEF RunOwn
    <2>4. pc[a] = "record" =>
              run[a].offset <= Len(marks') /\ EndMark(Shell, marks', run[a].offset) = 0
      BY <1>3, <2>1 DEF RunOwn
    <2>5. pc[a] \in Started => \E i \in Commands(log') :
              /\ log'[i].id = run[a].id /\ log'[i].offset = run[a].offset
              /\ pc[a] = "literal" => OverAt(Shell, log', marks', i) = 0
              /\ pc[a] = "end" => /\ OverAt(Shell, log', marks', i) # 0
                                  /\ run[a].mark = OverAt(Shell, log', marks', i)
      BY <1>3, <2>1 DEF RunOwn
    <2> QED
      BY <1>1, <2>1, <2>2, <2>3, <2>4, <2>5 DEF RunOwn
  <1> QED
    BY <1>1, <1>3, <1>4, <1>6 DEF OwnInv

(***************************************************************************)
(* The mark that ends a run's line is printed: its command is over, by its    *)
(* own mark, and nothing of a run is left in the pane.                       *)
(***************************************************************************)
LEMMA MarkPrinted ==
  ASSUME RunInv, OwnInv, UNCHANGED <<world, runVars, log, line, queue>>,
         RunTyped(fg) # {}, NEW x \in [kind : MarkKinds, by : Lines], x.by = fg,
         \A i \in Unfinished : Closes(Shell, marks, x, log[i].offset),
         marks' = Append(marks, x), fg' = <<>>
  PROVE  /\ OwnInv' /\ Unfinished' = {} /\ RunText' = {}
         /\ \A a \in Agents : pc[a] \notin {"start", "record", "literal"}
  <1> DEFINE M == [kind : MarkKinds, by : Lines]
  <1>1. /\ CommandsOwn(Shell, log, marks) /\ EndsOwn(Shell, log, marks)
        /\ PiecesOwn(Shell, log, marks, RunText)
        /\ OneLine(line, fg, queue) /\ Shell' = Shell
        /\ log \in Seq(Events) /\ marks \in Seq(M) /\ x \in M
    BY DEF OwnInv, RunInv, TypeOK, Shell
  <1>2. RunTyped(fg) \subseteq RunText
    BY DEF RunText, RunsIn
  <1>3. PiecesOwn(Shell, log, marks, RunTyped(x.by))
    BY <1>1, <1>2 DEF PiecesOwn
  <1>4. \A i \in Commands(log) :
            OverAt(Shell, log, marks, i) = 0 => Closes(Shell, marks, x, log[i].offset)
    BY DEF Unfinished
  <1> HIDE DEF M
  <1>5. /\ CommandsOwn(Shell, log, marks') /\ EndsOwn(Shell, log, marks')
        /\ AllOver(Shell, log, marks')
        /\ \A i \in Commands(log) :
               OverAt(Shell, log, marks, i) # 0 =>
                   OverAt(Shell, log, marks', i) = OverAt(Shell, log, marks, i)
    BY <1>1, <1>3, <1>4, OwnMarked
  <1>6. OneLine(line', fg', queue') /\ RunText' = {}
    <2>1. RunTyped(<<>>) = {}
      BY BlankLine
    <2>2. OneLine(line, <<>>, queue) /\ RunsIn(line, <<>>, queue) = {}
      BY <1>1, <2>1, PaneCleared
    <2> QED
      BY <2>2 DEF RunText
  <1>7. PiecesOwn(Shell', log', marks', RunText')
    BY <1>6 DEF PiecesOwn
  <1>8. \A a \in Agents : pc[a] \notin {"start", "record", "literal"}
    BY <1>2 DEF RunOwn, OwnInv
  <1>9. ASSUME NEW a \in Agents PROVE RunOwn(a)'
    <2>1. RunOwn(a) /\ pc'[a] = pc[a] /\ run'[a] = run[a] /\ log' = log
      BY DEF OwnInv, runVars
    <2>2. pc[a] \in Started => \E i \in Commands(log) :
              /\ log[i].id = run[a].id /\ log[i].offset = run[a].offset
              /\ pc[a] = "end" => /\ OverAt(Shell, log, marks', i) # 0
                                  /\ run[a].mark = OverAt(Shell, log, marks', i)
      BY <1>5, <2>1 DEF RunOwn
    <2> QED
      BY <1>1, <1>8, <2>1, <2>2 DEF RunOwn
  <1>10. Unfinished' = {}
    BY <1>1, <1>5 DEF Unfinished, AllOver
  <1> QED
    BY <1>1, <1>5, <1>6, <1>7, <1>8, <1>9, <1>10 DEF OwnInv

(***************************************************************************)
(* The steps of a run: its offset is taken and its start recorded when all    *)
(* else is over, its text typed when the pane holds none of a run's, and its  *)
(* end, like one it settles, is recorded from the mark of the command.       *)
(***************************************************************************)
LEMMA RunKeepsOwn ==
  ASSUME RunInv, SureInv, Sure, NEW a \in Agents, RunStep(a) \/ CrashRun(a), UNCHANGED world
  PROVE  OwnInv'
  <1>1. /\ CommandsOwn(Shell, log, marks) /\ EndsOwn(Shell, log, marks)
        /\ PiecesOwn(Shell, log, marks, RunText)
        /\ OneLine(line, fg, queue) /\ RunOwn(a) /\ RunOK(a)
        /\ log \in Seq(Events) /\ WellFormed(log)
        /\ run \in [Agents -> RunState] /\ pc \in [Agents -> RunLabels]
        /\ line \in Lines /\ queue \in Seq(Lines) /\ fg \in Lines
        /\ marks \in Seq([kind : MarkKinds, by : Lines])
        /\ Shell' = Shell
    BY DEF SureInv, OwnInv, RunInv, TypeOK, Shell
  <1>2. pc[a] # "idle" => writeLock = a
    BY <1>1 DEF RunOK
  <1>3. \A l : Goto(a, l) => pc'[a] = l
    BY <1>1 DEF Goto
  <1>4. AllOver(Shell, log, marks) => RunText = {}
    BY <1>1 DEF AllOver, PiecesOwn
  <1>5. UNCHANGED paneVars =>
            OneLine(line', fg', queue') /\ RunText' = RunText /\ marks' = marks
    BY <1>1 DEF paneVars, RunText
  <1>6. "fail" \notin Env /\ "unreadable" \notin Env
    BY DEF Sure, Sentinels, Unattended, Attended
  <1>7. CASE AcquireWriteLock(a)
    <2>1. Goto(a, "baseline") /\ writeLock = None /\ UNCHANGED <<log, paneVars>>
      BY <1>7 DEF AcquireWriteLock, logVars
    <2>2. RunOwn(a)'
      BY <1>3, <2>1 DEF RunOwn, Started
    <2> QED
      BY <1>1, <1>5, <2>1, <2>2, OwnByRun
  <1>8. CASE NotesBaseline(a)
    <2>1. Goto(a, "settle") /\ pc[a] # "idle" /\ UNCHANGED <<log, paneVars>>
      BY <1>8 DEF NotesBaseline, logVars
    <2>2. RunOwn(a)'
      BY <1>3, <2>1 DEF RunOwn, Started
    <2> QED
      BY <1>1, <1>2, <1>5, <2>1, <2>2, OwnByRun
  <1>9. CASE NothingPending(a)
    <2>1. Goto(a, "start") /\ pc[a] # "idle" /\ UNCHANGED <<log, paneVars>> /\ PendingCmd(log) = 0
      BY <1>9 DEF NothingPending, logVars
    <2>2. AllOver(Shell, log, marks)
      BY <1>1, <2>1, NoneLeft
    <2>3. RunOwn(a)'
      BY <1>1, <1>3, <1>4, <1>5, <2>1, <2>2 DEF RunOwn, Started
    <2> QED
      BY <1>1, <1>2, <1>5, <2>1, <2>3, OwnByRun
  <1>10. CASE Settle(a)
    <2> DEFINE p == PendingCmd(log)
               f == OverAt(Shell, log, marks, p)
               ev == CmdEnd(log[p].id, f, f, Now)
    <2>1. Goto(a, "start") /\ pc[a] = "settle" /\ UNCHANGED paneVars /\ PendingCmd(log) # 0
      BY <1>10 DEF Settle, SettleAs
    <2>2. p \in Unended(log) /\ p \in Commands(log)
      BY <1>1, <2>1, PendingIsUnended DEF Unended, Commands, IsStart
    <2>3. f # 0 /\ (AppendEvent(ev) \/ UNCHANGED logVars)
      <3>1. PICK m : /\ m # 0
                     /\ m = Completed(log[p].offset) \/ m = Held(log[p].offset)
                     /\ AppendEvent(CmdEnd(log[p].id, m, m, Now)) \/ UNCHANGED logVars
        BY <1>10 DEF Settle, SettleAs
      <3>2. m = f
        BY <2>1, <2>2, <3>1, RightMark
      <3> HIDE DEF f
      <3> QED
        BY <3>1, <3>2
    <2>4. AllOver(Shell, log, marks)
      BY <1>1, <2>3, NoneLeft
    <2>5. /\ CommandsOwn(Shell, log', marks') /\ EndsOwn(Shell, log', marks')
          /\ PiecesOwn(Shell, log', marks', RunText')
          /\ AllOver(Shell, log', marks')
      <3>1. CASE AppendEvent(ev)
        <4>1. ev \in Events
          <5>1. log[p].id \in 0 .. MaxCmds /\ log[p].offset \in Nat
            BY <2>2, UnendedType
          <5>2. f \in Nat
            BY <1>1, <5>1, EndMarkFound DEF OverAt
          <5> HIDE DEF f
          <5> QED
            BY <5>1, <5>2, EventType
        <4>2. /\ ~IsStart(ev) /\ IsEnd(ev) /\ ev.id = log[p].id /\ ev.exit = f
              /\ log' = Append(log, ev)
          BY <3>1 DEF CmdEnd, IsStart, IsEnd, AppendEvent
        <4>3. \E i \in Commands(log) :
                  /\ log[i].id = ev.id /\ OverAt(Shell, log, marks, i) # 0
                  /\ ev.exit = OverAt(Shell, log, marks, i)
          BY <2>2, <2>3, <4>2
        <4> HIDE DEF ev
        <4>4. /\ CommandsOwn(Shell, log', marks) /\ EndsOwn(Shell, log', marks)
              /\ PiecesOwn(Shell, log', marks, RunText)
          BY <1>1, <4>1, <4>2, <4>3, OwnAppended
        <4>5. AllOver(Shell, log', marks)
          BY <1>1, <2>4, <4>1, <4>2, CommandsKept DEF AllOver
        <4> QED
          BY <1>5, <2>1, <4>4, <4>5
      <3>2. CASE UNCHANGED logVars
        BY <1>1, <1>5, <2>1, <2>4, <3>2 DEF logVars
      <3> QED
        BY <2>3, <3>1, <3>2
    <2>6. RunOwn(a)'
      BY <1>1, <1>3, <1>4, <1>5, <2>1, <2>4, <2>5 DEF RunOwn, Started
    <2> QED
      BY <1>1, <1>2, <1>5, <2>1, <2>5, <2>6, OwnByRun
  <1>11. CASE StillRunning(a) \/ StartFails(a) \/ GiveUp(a) \/ Emit(a) \/ WaitFails(a)
             \/ CrashRun(a)
    <2>1. Leave(a) /\ pc[a] # "idle" /\ UNCHANGED <<log, paneVars>>
      BY <1>11 DEF StillRunning, StartFails, GiveUp, Emit, WaitFails, CrashRun, logVars
    <2>2. RunOwn(a)'
      BY <1>3, <2>1 DEF RunOwn, Started, Leave
    <2> QED
      BY <1>1, <1>2, <1>5, <2>1, <2>2, OwnByRun DEF Leave
  <1>12. CASE NumberCommand(a)
    <2>1. Goto(a, "record") /\ pc[a] = "start" /\ UNCHANGED <<log, paneVars>>
          /\ run'[a].offset = Len(marks)
      BY <1>1, <1>12 DEF NumberCommand, logVars, RunState
    <2>2. AllOver(Shell, log, marks) /\ RunText = {}
      BY <1>1, <2>1 DEF RunOwn
    <2>3. EndMark(Shell, marks, Len(marks)) = 0 /\ Len(marks) \in Nat
      <3>1. Len(marks) \in Nat
        BY <1>1, LenProperties
      <3>2. EndMarks(Shell, marks, Len(marks)) = {}
        BY <3>1 DEF At, EndMarks
      <3> QED
        BY <1>1, <3>1, <3>2, EndMarkFound
    <2>4. RunOwn(a)'
      BY <1>1, <1>3, <1>5, <2>1, <2>2, <2>3 DEF RunOwn, Started
    <2> QED
      BY <1>1, <1>2, <1>5, <2>1, <2>4, OwnByRun
  <1>13. CASE RecordStart(a)
    <2> DEFINE ev == CmdStart(run[a].id, run[a].offset, Now)
    <2>1. Goto(a, "literal") /\ pc[a] = "record" /\ UNCHANGED <<run, paneVars>>
          /\ log' = Append(log, ev)
      BY <1>13 DEF RecordStart, AppendEvent
    <2>2. /\ AllOver(Shell, log, marks) /\ RunText = {}
          /\ run[a].offset <= Len(marks) /\ EndMark(Shell, marks, run[a].offset) = 0
      BY <1>1, <2>1 DEF RunOwn
    <2>3. /\ IsStart(ev) /\ ev.id = run[a].id /\ ev.offset = run[a].offset /\ ev \in Events
      BY <1>1, EventType DEF CmdStart, IsStart, RunState
    <2> HIDE DEF ev
    <2>4. /\ CommandsOwn(Shell, log', marks) /\ EndsOwn(Shell, log', marks)
          /\ Len(log) + 1 \in Commands(log') /\ log'[Len(log) + 1] = ev
          /\ OverAt(Shell, log', marks, Len(log) + 1) = 0
      <3>1. ev.offset <= Len(marks) /\ EndMark(Shell, marks, ev.offset) = 0
        BY <2>2, <2>3
      <3>2. IsStart(ev) /\ ev \in Events /\ AllOver(Shell, log, marks)
        BY <2>2, <2>3
      <3>3. log \in Seq(Events) /\ CommandsOwn(Shell, log, marks) /\ EndsOwn(Shell, log, marks)
        BY <1>1
      <3>4. log' = Append(log, ev)
        BY <2>1
      <3> QED
        BY <3>1, <3>2, <3>3, <3>4, OwnStarted
    <2>5. PiecesOwn(Shell', log', marks', RunText')
      BY <1>5, <2>1, <2>2 DEF PiecesOwn
    <2>6. RunOwn(a)'
      BY <1>1, <1>3, <1>5, <2>1, <2>2, <2>3, <2>4 DEF RunOwn, Started
    <2> QED
      BY <1>1, <1>2, <1>5, <2>1, <2>4, <2>5, <2>6, OwnByRun
  <1>14. CASE SendLiteral(a)
    <2>1. /\ Goto(a, "enter") /\ pc[a] = "literal" /\ line' = Append(line, RunPiece(run[a].id))
          /\ UNCHANGED <<log, run, marks, fg, queue>>
      BY <1>14 DEF SendLiteral, logVars
    <2>2. RunText = {}
      BY <1>1, <2>1 DEF RunOwn
    <2>3. PICK i \in Commands(log) :
              /\ log[i].id = run[a].id /\ log[i].offset = run[a].offset
              /\ OverAt(Shell, log, marks, i) = 0
      BY <1>1, <2>1 DEF RunOwn, Started
    <2>4. RunTyped(line') \subseteq {RunPiece(run[a].id)}
      <3>1. Pieces(line') \subseteq Pieces(line) \cup {RunPiece(run[a].id)}
        BY <1>1, <2>1, PaneType, TypedPieces DEF Started
      <3>2. RunTyped(line) = {}
        BY <2>2 DEF RunText, RunsIn
      <3> QED
        BY <3>1, <3>2 DEF RunTyped
    <2>5. OneLine(line', fg, queue) /\ RunsIn(line', fg, queue) = RunTyped(line')
      BY <1>1, <2>2, PaneTyped DEF RunText
    <2>6. RunText' \subseteq {RunPiece(run[a].id)} /\ OneLine(line', fg', queue')
      BY <2>1, <2>4, <2>5 DEF RunText
    <2>7. PiecesOwn(Shell', log', marks', RunText')
      BY <1>1, <2>1, <2>3, <2>6 DEF PiecesOwn
    <2>8. RunOwn(a)'
      BY <1>1, <1>3, <2>1, <2>3 DEF RunOwn, Started
    <2> QED
      BY <1>1, <1>2, <2>1, <2>6, <2>7, <2>8, OwnByRun
  <1>15. CASE SendEnter(a)
    <2>1. /\ Goto(a, "wait") /\ pc[a] = "enter" /\ queue' = Append(queue, line) /\ line' = <<>>
          /\ UNCHANGED <<log, run, marks, fg>>
      BY <1>15 DEF SendEnter, logVars
    <2>2. OneLine(line', fg', queue') /\ RunText' \subseteq RunText
      BY <1>1, <2>1, PaneEntered DEF RunText
    <2>3. PiecesOwn(Shell', log', marks', RunText')
      BY <1>1, <2>1, <2>2 DEF PiecesOwn
    <2>4. RunOwn(a)'
      BY <1>1, <1>3, <2>1 DEF RunOwn, Started
    <2> QED
      BY <1>1, <1>2, <2>1, <2>2, <2>3, <2>4, OwnByRun
  <1>16. CASE Abort(a)
    BY <1>6, <1>16 DEF Abort
  <1>17. CASE WaitDone(a) \/ GraceOver(a) \/ DeadlineTakesHeld(a)
    <2>1. pc[a] = "wait"
      BY <1>17 DEF WaitDone, GraceOver, DeadlineTakesHeld, Finish
    <2>2. PICK m : Finish(a, m) /\ \/ m = Completed(run[a].offset)
                                   \/ m = Held(run[a].offset) /\ GraceOver(a)
                                   \/ m = Held(run[a].offset) /\ "timeout" \in Env
      BY <1>17 DEF WaitDone, GraceOver, DeadlineTakesHeld
    <2>3. /\ Goto(a, "end") /\ UNCHANGED <<log, paneVars>> /\ m # 0
          /\ run'[a].mark = m /\ run'[a].id = run[a].id /\ run'[a].offset = run[a].offset
      BY <1>1, <2>2 DEF Finish, logVars, RunState
    <2>4. PICK i \in Commands(log) : log[i].id = run[a].id /\ log[i].offset = run[a].offset
      BY <1>1, <2>1 DEF RunOwn, Started
    <2>5. m = OverAt(Shell, log, marks, i)
      BY <2>1, <2>2, <2>3, <2>4, RightMark
    <2>6. RunOwn(a)'
      BY <1>1, <1>3, <1>5, <2>3, <2>4, <2>5 DEF RunOwn, Started
    <2> QED
      BY <1>1, <1>2, <1>5, <2>1, <2>3, <2>6, OwnByRun
  <1>18. CASE RecordEnd(a)
    <2> DEFINE ev == CmdEnd(run[a].id, run[a].mark, run[a].mark, Now)
    <2>1. /\ Goto(a, "emit") /\ pc[a] = "end" /\ UNCHANGED paneVars
          /\ AppendEvent(ev) \/ UNCHANGED logVars
      BY <1>18 DEF RecordEnd
    <2>2. PICK i \in Commands(log) :
              /\ log[i].id = run[a].id
              /\ OverAt(Shell, log, marks, i) # 0 /\ run[a].mark = OverAt(Shell, log, marks, i)
      BY <1>1, <2>1 DEF RunOwn, Started
    <2>3. /\ CommandsOwn(Shell, log', marks) /\ EndsOwn(Shell, log', marks)
          /\ PiecesOwn(Shell, log', marks, RunText)
      <3>1. CASE AppendEvent(ev)
        <4>1. ev \in Events
          BY <1>1, EventType DEF RunState
        <4>2. /\ ~IsStart(ev) /\ IsEnd(ev) /\ ev.id = run[a].id /\ ev.exit = run[a].mark
              /\ log' = Append(log, ev)
          BY <3>1 DEF CmdEnd, IsStart, IsEnd, AppendEvent
        <4>3. \E k \in Commands(log) :
                  /\ log[k].id = ev.id /\ OverAt(Shell, log, marks, k) # 0
                  /\ ev.exit = OverAt(Shell, log, marks, k)
          BY <2>2, <4>2
        <4> HIDE DEF ev
        <4> QED
          BY <1>1, <4>1, <4>2, <4>3, OwnAppended
      <3>2. CASE UNCHANGED logVars
        BY <1>1, <3>2 DEF logVars
      <3> QED
        BY <2>1, <3>1, <3>2
    <2>4. RunOwn(a)'
      BY <1>3, <2>1 DEF RunOwn, Started
    <2> QED
      BY <1>1, <1>2, <1>5, <2>1, <2>3, <2>4, OwnByRun
  <1> QED
    BY <1>6, <1>7, <1>8, <1>9, <1>10, <1>11, <1>12, <1>13, <1>14, <1>15, <1>16, <1>17, <1>18
    DEF RunStep, SettleUnread

(***************************************************************************)
(* A human's text holds none of a run's, whatever line it completes.         *)
(***************************************************************************)
LEMMA HumanRuns ==
  ASSUME RunInv, NEW text \in {<<HumanPiece>>, <<>>}
  PROVE  /\ line \o text \in Lines /\ RunTyped(line \o text) \subseteq RunTyped(line)
         /\ RunTyped(text) = {}
  <1> DEFINE P == {RunPiece(id) : id \in 1 .. MaxCmds} \cup {SendPiece(s) : s \in Senders}
                  \cup {HumanPiece}
  <1>1. line \in Seq(P) /\ text \in Seq(P) /\ Lines = Seq(P)
    BY PaneType DEF Lines, RunInv, TypeOK
  <1>2. Len(text) \in {0, 1} /\ (Len(text) = 1 => text[1] = HumanPiece)
    BY EmptySeq
  <1>3. RunTyped(text) = {}
    BY <1>2 DEF RunTyped, Pieces, HumanPiece
  <1> HIDE DEF P
  <1>4. /\ line \o text \in Seq(P)
        /\ Len(line \o text) = Len(line) + Len(text) /\ Len(line) \in Nat /\ Len(text) \in Nat
    BY <1>1, ConcatProperties, LenProperties
  <1>5. \A i \in 1 .. Len(line) + Len(text) :
            (line \o text)[i] = IF i <= Len(line) THEN line[i] ELSE text[i - Len(line)]
    BY <1>1, ConcatProperties, Zenon
  <1>6. \A i \in 1 .. Len(line \o text) :
            (line \o text)[i] = HumanPiece \/ \E j \in 1 .. Len(line) : (line \o text)[i] = line[j]
    BY <1>2, <1>4, <1>5
  <1>7. RunTyped(line \o text) \subseteq RunTyped(line)
    BY <1>6 DEF RunTyped, Pieces, HumanPiece
  <1> QED
    BY <1>1, <1>3, <1>4, <1>7

(***************************************************************************)
(* Text of a run in the pane is a command's that is not over, and there is    *)
(* only one of these.                                                        *)
(***************************************************************************)
LEMMA OneUnfinished ==
  ASSUME OwnInv, log \in Seq(Events), NEW p \in RunText
  PROVE  \E i \in Unfinished : Unfinished = {i} /\ p = RunPiece(log[i].id)
  <1>1. PICK i \in Commands(log) : p = RunPiece(log[i].id) /\ OverAt(Shell, log, marks, i) = 0
    BY DEF OwnInv, PiecesOwn
  <1>2. \A k \in Unfinished : k = i
    <2>1. Commands(log) \subseteq Nat
      BY LenProperties DEF Commands
    <2> QED
      BY <1>1, <2>1 DEF OwnInv, CommandsOwn, Unfinished
  <1> QED
    BY <1>1, <1>2 DEF Unfinished

(***************************************************************************)
(* The mark of a line that ends: that of a run's ends its command, that of a  *)
(* human's ends nobody's.                                                    *)
(***************************************************************************)
LEMMA EndingCloses ==
  ASSUME RunInv, SureInv, Sure, fg # <<>>, NEW x,
         x.kind = IF Shell = "sentinel" THEN "S" ELSE "D"
  PROVE  /\ RunTyped(fg) # {} => \A i \in Unfinished : Closes(Shell, marks, x, log[i].offset)
         /\ Shell # "sentinel" /\ RunTyped(fg) = {} =>
                /\ Attended
                /\ \A i \in Unfinished : ~Closes(Shell, marks, x, log[i].offset)
                /\ \A a \in Agents : pc[a] = "record" => ~Closes(Shell, marks, x, run[a].offset)
  <1>1. ASSUME RunTyped(fg) # {}, NEW i \in Unfinished
        PROVE  Closes(Shell, marks, x, log[i].offset)
    <2>1. PICK p : p \in RunTyped(fg)
      BY <1>1
    <2>2. p \in RunText /\ log \in Seq(Events) /\ OwnInv
      BY <2>1 DEF RunText, RunsIn, SureInv, RunInv, TypeOK
    <2>3. p = RunPiece(log[i].id) /\ p \in Pieces(fg)
      BY <1>1, <2>1, <2>2, OneUnfinished DEF RunTyped
    <2>4. Shell = "hooks" => At(marks, log[i].offset, "C") # {}
      BY <2>3 DEF Sure, Sentinels, SureInv, HookInv
    <2> QED
      BY <2>4 DEF Closes
  <1>2. ASSUME Shell # "sentinel", RunTyped(fg) = {}
        PROVE  /\ Attended
               /\ \A i \in Unfinished : ~Closes(Shell, marks, x, log[i].offset)
               /\ \A a \in Agents : pc[a] = "record" => ~Closes(Shell, marks, x, run[a].offset)
    <2>1. Attended /\ HookInv /\ Shell = "hooks"
      BY <1>2 DEF Sure, Sentinels, SureInv, AloneInv, Attended
    <2>2. ASSUME NEW i \in Unfinished PROVE At(marks, log[i].offset, "C") = {}
      <3>1. RunPiece(log[i].id) \notin Pieces(fg)
        BY <1>2 DEF RunTyped, RunPiece
      <3> QED
        BY <2>1, <3>1 DEF HookInv
    <2>3. \A a \in Agents : pc[a] = "record" => At(marks, run[a].offset, "C") = {}
      BY <2>1 DEF HookInv
    <2> QED
      BY <2>1, <2>2, <2>3 DEF Closes
  <1> QED
    BY <1>1, <1>2

(***************************************************************************)
(* A human who types at an idle prompt beside a shell that marks C finds no   *)
(* command unfinished and no offset taken.                                   *)
(***************************************************************************)
LEMMA IdlePrompt ==
  ASSUME RunInv, SureInv, Attended, ~RunOnItsWay, fg = <<>>, queue = <<>>, line = <<>>
  PROVE  Unfinished = {} /\ \A a \in Agents : pc[a] # "record"
  <1>1. RunText = {}
    BY BlankLine, EmptySeq DEF RunText, RunsIn
  <1>2. \A a \in Agents : pc[a] \notin {"record", "literal", "enter"}
    BY DEF RunOnItsWay
  <1>3. Unfinished = {}
    BY <1>1, <1>2 DEF SureInv, BesideInv
  <1> QED
    BY <1>2, <1>3

(***************************************************************************)
(* The steps of everybody else.  The text of sends and humans is no run's,    *)
(* and the only mark that ends a command is that of its own line.            *)
(***************************************************************************)
LEMMA OthersKeepOwn ==
  ASSUME RunInv, SureInv, Sure, UNCHANGED world,
         \/ \E s \in Senders : SendStep(s) \/ SendFails(s)
         \/ \E n \in Notes : StampNote(n) \/ AppendNote(n)
         \/ Peek \/ ShellReads \/ CommandEnds \/ CommandReads
         \/ HumanEnters(<<HumanPiece>>) \/ HumanEnters(<<>>)
         \/ UNCHANGED vars
  PROVE  OwnInv'
  <1> DEFINE M == [kind : MarkKinds, by : Lines]
  <1>1. /\ OneLine(line, fg, queue) /\ line \in Lines /\ queue \in Seq(Lines) /\ fg \in Lines
        /\ RunTyped(<<>>) = {} /\ OwnInv /\ log \in Seq(Events) /\ <<>> \in Lines
        /\ Shell \in {"hooks", "hooks-noC", "sentinel"}
    BY BlankLine, PaneType, ReadMarks DEF SureInv, OwnInv, RunInv, TypeOK
  <1>2. ASSUME UNCHANGED <<runVars, paneVars>>,
               \/ log' = log
               \/ \E ev \in Events : log' = Append(log, ev) /\ ~IsStart(ev) /\ ~IsEnd(ev)
        PROVE  OwnInv'
    <2>1. OneLine(line', fg', queue') /\ RunText' \subseteq RunText /\ UNCHANGED <<runVars, marks>>
      BY <1>1, <1>2 DEF paneVars, RunText
    <2> QED
      BY <1>1, <1>2, <2>1, QuietOwn
  <1>3. ASSUME NEW s \in Senders, SendStep(s) \/ SendFails(s) PROVE OwnInv'
    <2>1. CASE RecordSent(s)
      <3>1. SentEvent(Now) \in Events /\ ~IsStart(SentEvent(Now)) /\ ~IsEnd(SentEvent(Now))
        BY EventType DEF SentEvent, IsStart, IsEnd
      <3>2. log' = Append(log, SentEvent(Now)) /\ UNCHANGED <<runVars, paneVars>>
        BY <2>1 DEF RecordSent, AppendEvent
      <3> QED
        BY <1>2, <3>1, <3>2
    <2>2. CASE SendText(s)
      <3>1. /\ line' = Append(line, SendPiece(s)) /\ UNCHANGED <<log, runVars, marks, queue, fg>>
        BY <2>2 DEF SendText, logVars
      <3>2. Pieces(line') \subseteq Pieces(line) \cup {SendPiece(s)}
        BY <1>1, <3>1, PaneType, TypedPieces
      <3>3. RunTyped(line') \subseteq RunTyped(line)
        BY <3>2 DEF RunTyped, SendPiece
      <3>4. OneLine(line', fg, queue) /\ RunsIn(line', fg, queue) \subseteq RunsIn(line, fg, queue)
        BY <1>1, <3>3, PaneTyped
      <3> QED
        BY <1>1, <3>1, <3>4, QuietOwn DEF RunText
    <2>3. CASE SendKeys(s)
      <3>1. /\ queue' = Append(queue, line) /\ line' = <<>>
            /\ UNCHANGED <<log, runVars, marks, fg>>
        BY <2>3 DEF SendKeys, logVars
      <3>2. OneLine(line', fg', queue') /\ RunText' \subseteq RunText
        BY <1>1, <3>1, PaneEntered DEF RunText
      <3> QED
        BY <1>1, <3>1, <3>2, QuietOwn
    <2>4. CASE AcquireSendLock(s) \/ SendFails(s)
      BY <1>2, <2>4 DEF AcquireSendLock, SendFails, logVars
    <2> QED
      BY <1>3, <2>1, <2>2, <2>3, <2>4 DEF SendStep
  <1>4. ASSUME NEW n \in Notes, StampNote(n) \/ AppendNote(n) PROVE OwnInv'
    <2>1. CASE StampNote(n)
      BY <1>2, <2>1 DEF StampNote
    <2>2. CASE AppendNote(n)
      <3>1. /\ NoteEvent(n, stamp[n]) \in Events
            /\ ~IsStart(NoteEvent(n, stamp[n])) /\ ~IsEnd(NoteEvent(n, stamp[n]))
        BY EventType DEF NoteEvent, IsStart, IsEnd, RunInv, TypeOK
      <3>2. log' = Append(log, NoteEvent(n, stamp[n])) /\ UNCHANGED <<runVars, paneVars>>
        BY <2>2 DEF AppendNote
      <3> QED
        BY <1>2, <3>1, <3>2
    <2> QED
      BY <1>4, <2>1, <2>2
  <1>5. CASE Peek \/ UNCHANGED vars
    BY <1>2, <1>5 DEF Peek, vars, logVars
  <1>6. ASSUME NEW l \in Lines, l # <<>>, Execute(l), UNCHANGED <<log, runVars>>,
               OneLine(line', l, queue'), RunsIn(line', l, queue') \subseteq RunText
        PROVE  OwnInv'
    <2>1. fg' = l /\ marks' = IF Shell = "hooks" THEN Append(marks, Mark("C", l)) ELSE marks
      BY <1>6 DEF Execute
    <2>2. OneLine(line', fg', queue') /\ RunText' \subseteq RunText
      BY <1>6, <2>1 DEF RunText
    <2>3. CASE Shell = "hooks"
      <3>1. /\ Mark("C", l) \in M /\ marks' = Append(marks, Mark("C", l))
            /\ \A from : ~Closes(Shell, marks, Mark("C", l), from)
        BY <1>6, <2>1, <2>3 DEF Mark, MarkKinds, Closes
      <3> QED
        BY <1>1, <1>6, <2>2, <3>1, QuietOwn
    <2>4. CASE Shell # "hooks"
      BY <1>1, <1>6, <2>1, <2>2, <2>4, QuietOwn
    <2> QED
      BY <2>3, <2>4
  <1>7. CASE ShellReads
    <2>1. /\ fg = <<>> /\ queue # <<>> /\ Execute(Head(queue)) /\ queue' = Tail(queue)
          /\ UNCHANGED <<log, runVars, line>>
      BY <1>7 DEF ShellReads, logVars
    <2>2. Head(queue) \in Lines /\ RunTyped(fg) = {}
      BY <1>1, <2>1, PaneType
    <2>3. OneLine(line', Head(queue), queue') /\ RunsIn(line', Head(queue), queue') \subseteq RunText
      BY <1>1, <2>1, <2>2, PaneRead DEF RunText
    <2>4. CASE Head(queue) # <<>>
      BY <1>6, <2>1, <2>2, <2>3, <2>4
    <2>5. CASE Head(queue) = <<>>
      <3>1. Shell = "sentinel"
        <4>1. SUFFICES ASSUME Unattended \/ Attended PROVE FALSE
          BY DEF Sure, Sentinels
        <4>2. 1 \in 1 .. Len(queue) /\ Head(queue) = queue[1]
          BY <1>1, <2>1, HeadTailProperties, EmptySeq, LenProperties
        <4> QED
          BY <1>1, <2>5, <4>1, <4>2 DEF SureInv, HookInv
      <3>2. marks' = marks /\ fg' = fg
        BY <2>1, <2>5, <3>1 DEF Execute
      <3>3. OneLine(line', fg', queue') /\ RunText' \subseteq RunText
        BY <2>1, <2>3, <2>5, <3>2 DEF RunText
      <3> QED
        BY <1>1, <2>1, <3>2, <3>3, QuietOwn
    <2> QED
      BY <2>4, <2>5
  <1>8. CASE CommandReads
    <2>1. queue # <<>> /\ queue' = Tail(queue) /\ UNCHANGED <<log, runVars, marks, line, fg>>
      BY <1>8 DEF CommandReads, logVars
    <2>2. OneLine(line', fg', queue') /\ RunText' \subseteq RunText
      BY <1>1, <2>1, PaneRead DEF RunText
    <2> QED
      BY <1>1, <2>1, <2>2, QuietOwn
  <1>9. CASE CommandEnds
    <2> DEFINE x == Mark(IF Shell = "sentinel" THEN "S" ELSE "D", fg)
    <2>1. fg # <<>> /\ fg' = <<>> /\ UNCHANGED <<log, runVars, line, queue>>
      BY <1>9 DEF CommandEnds, logVars
    <2>2. /\ x \in M /\ x.by = fg /\ x.kind = IF Shell = "sentinel" THEN "S" ELSE "D"
      BY <1>1 DEF Mark, MarkKinds
    <2>3. marks' = IF Shell # "sentinel" \/ HasRun(fg) THEN Append(marks, x) ELSE marks
      BY <1>9 DEF CommandEnds
    <2>4. HasRun(fg) <=> RunTyped(fg) # {}
      BY DEF HasRun, RunTyped
    <2> HIDE DEF x
    <2>5. /\ RunTyped(fg) # {} => \A i \in Unfinished : Closes(Shell, marks, x, log[i].offset)
          /\ Shell # "sentinel" /\ RunTyped(fg) = {} =>
                /\ \A i \in Unfinished : ~Closes(Shell, marks, x, log[i].offset)
                /\ \A a \in Agents : pc[a] = "record" => ~Closes(Shell, marks, x, run[a].offset)
      BY <2>1, <2>2, EndingCloses
    <2>6. CASE RunTyped(fg) # {}
      <3>1. marks' = Append(marks, x)
        BY <2>3, <2>4, <2>6
      <3> QED
        BY <1>1, <2>1, <2>2, <2>5, <2>6, <3>1, MarkPrinted
    <2>7. CASE RunTyped(fg) = {}
      <3>1. OneLine(line', fg', queue') /\ RunText' \subseteq RunText
        BY <1>1, <2>1, PaneCleared DEF RunText
      <3>2. CASE Shell = "sentinel"
        BY <1>1, <2>1, <2>3, <2>4, <2>7, <3>1, <3>2, QuietOwn
      <3>3. CASE Shell # "sentinel"
        BY <1>1, <2>1, <2>2, <2>3, <2>5, <2>7, <3>1, <3>3, QuietOwn
      <3> QED
        BY <3>2, <3>3
    <2> QED
      BY <2>6, <2>7
  <1>10. ASSUME NEW text \in {<<HumanPiece>>, <<>>}, HumanEnters(text) PROVE OwnInv'
    <2>1. UNCHANGED <<log, runVars>> /\ world.humanLines # 0
      BY <1>10 DEF HumanEnters, logVars, RunInv, TypeOK
    <2>2. text \in Lines /\ RunTyped(text) = {}
      BY HumanRuns, PaneType
    <2>3. OneLine(line, text, queue) /\ RunsIn(line, text, queue) \subseteq RunText
      BY <1>1, <2>2, PaneCleared DEF RunText
    <2>4. CASE Execute(text) /\ UNCHANGED <<line, queue>> /\ fg = <<>> /\ queue = <<>> /\ line = <<>>
               /\ ~RunOnItsWay
      <3>1. CASE text # <<>>
        BY <1>6, <2>1, <2>2, <2>3, <2>4, <3>1
      <3>2. CASE text = <<>>
        <4>1. fg' = fg /\ marks' = IF Shell = "sentinel" THEN marks ELSE Append(marks, Mark("D", text))
          BY <2>4, <3>2 DEF Execute
        <4>2. OneLine(line', fg', queue') /\ RunText' \subseteq RunText
          BY <2>3, <2>4, <3>2, <4>1 DEF RunText
        <4>3. CASE Shell = "sentinel"
          BY <1>1, <2>1, <4>1, <4>2, <4>3, QuietOwn
        <4>4. CASE Shell # "sentinel"
          <5>1. Attended
            BY <2>1, <4>4 DEF Sure, Sentinels, Unattended
          <5>2. Unfinished = {} /\ \A a \in Agents : pc[a] # "record"
            BY <2>4, <5>1, IdlePrompt
          <5>3. Mark("D", text) \in M /\ marks' = Append(marks, Mark("D", text))
            BY <2>2, <4>1, <4>4 DEF Mark, MarkKinds
          <5> QED
            BY <1>1, <2>1, <4>2, <5>2, <5>3, QuietOwn
        <4> QED
          BY <4>3, <4>4
      <3> QED
        BY <3>1, <3>2
    <2>5. CASE queue' = Append(queue, line \o text) /\ line' = <<>> /\ UNCHANGED <<marks, fg>>
      <3>1. line \o text \in Lines /\ RunTyped(line \o text) \subseteq RunTyped(line)
        BY HumanRuns
      <3>2. /\ OneLine(<<>>, fg, Append(queue, line \o text))
            /\ RunsIn(<<>>, fg, Append(queue, line \o text)) \subseteq RunsIn(line, fg, queue)
        BY <1>1, <3>1, PaneEntered
      <3>3. OneLine(line', fg', queue') /\ RunText' \subseteq RunText
        BY <2>5, <3>2 DEF RunText
      <3> QED
        BY <1>1, <2>1, <2>5, <3>3, QuietOwn
    <2> QED
      BY <1>10, <2>4, <2>5 DEF HumanEnters
  <1> QED
    BY <1>3, <1>4, <1>5, <1>7, <1>8, <1>9, <1>10

(***************************************************************************)
(* A mark that closes no unfinished command leaves the commands as they are.  *)
(***************************************************************************)
LEMMA MarkKept ==
  ASSUME RunInv, OwnInv, UNCHANGED <<world, log>>, NEW x \in [kind : MarkKinds, by : Lines],
         marks' = Append(marks, x), \A i \in Unfinished : ~Closes(Shell, marks, x, log[i].offset)
  PROVE  /\ Shell' = Shell /\ Unfinished' = Unfinished
         /\ \A kind \in MarkKinds \ {x.kind} :
                /\ At(marks', 0, kind) = At(marks, 0, kind)
                /\ \A i \in Unfinished : At(marks', log[i].offset, kind) = At(marks, log[i].offset, kind)
                /\ \A a \in Agents : pc[a] = "record" =>
                       At(marks', run[a].offset, kind) = At(marks, run[a].offset, kind)
         /\ \A i \in Unfinished : At(marks', log[i].offset, x.kind) # {}
  <1> DEFINE M == [kind : MarkKinds, by : Lines]
  <1>1. /\ CommandsOwn(Shell, log, marks) /\ EndsOwn(Shell, log, marks)
        /\ PiecesOwn(Shell, log, marks, RunText)
        /\ log \in Seq(Events) /\ marks \in Seq(M) /\ x \in M /\ Shell' = Shell
    BY DEF OwnInv, RunInv, TypeOK, Shell
  <1>2. \A i \in Commands(log) :
            OverAt(Shell, log, marks, i) = 0 => ~Closes(Shell, marks, x, log[i].offset)
    BY DEF Unfinished
  <1>3. \A i \in Unfinished : log[i].offset \in Nat /\ log[i].offset <= Len(marks)
    BY <1>1, OffsetsInLog DEF Unfinished
  <1>4. \A a \in Agents : pc[a] = "record" => run[a].offset \in Nat /\ run[a].offset <= Len(marks)
    BY DEF OwnInv, RunOwn, RunInv, TypeOK, RunState
  <1> HIDE DEF M
  <1>5. \A i \in Commands(log) : OverAt(Shell, log, marks', i) = OverAt(Shell, log, marks, i)
    BY <1>1, <1>2, OwnNotMarked
  <1>6. Unfinished' = Unfinished
    BY <1>1, <1>5 DEF Unfinished
  <1>7. Len(marks) \in Nat
    BY <1>1, LenProperties
  <1>8. ASSUME NEW from \in Nat, from <= Len(marks), NEW kind
        PROVE  \A i : i \in At(marks', from, kind) <=>
                   i \in At(marks, from, kind) \/ (i = Len(marks) + 1 /\ x.kind = kind)
    BY <1>1, <1>8, MarkAppended
  <1>9. ASSUME NEW from \in Nat, from <= Len(marks), NEW kind \in MarkKinds \ {x.kind}
        PROVE  At(marks', from, kind) = At(marks, from, kind)
    <2>1. \A i : i \in At(marks', from, kind) <=>
              i \in At(marks, from, kind) \/ (i = Len(marks) + 1 /\ x.kind = kind)
      BY <1>8, <1>9
    <2>2. \A i : i \in At(marks', from, kind) <=> i \in At(marks, from, kind)
      BY <1>9, <2>1
    <2> QED
      BY <2>2, Zenon
  <1>10. ASSUME NEW from \in Nat, from <= Len(marks) PROVE At(marks', from, x.kind) # {}
    BY <1>8, <1>10
  <1> QED
    BY <1>1, <1>3, <1>4, <1>6, <1>7, <1>9, <1>10

(***************************************************************************)
(* While a run moves, no other one is past the lock.                         *)
(***************************************************************************)
LEMMA RunsAlone ==
  ASSUME RunInv, NEW a \in Agents, RunStep(a) \/ CrashRun(a)
  PROVE  /\ \E l \in RunLabels : Goto(a, l)
         /\ \A b \in Agents \ {a} : pc[b] = "idle" /\ pc'[b] = "idle"
         /\ UNCHANGED <<sendVars, humanLines>>
  <1>1. UNCHANGED <<sendVars, humanLines>> /\ \E l \in RunLabels : Goto(a, l)
    BY DEF RunStep, CrashRun, AcquireWriteLock, NotesBaseline, NothingPending, Settle,
       SettleUnread, SettleAs, StillRunning, WaitFails, NumberCommand, StartFails, RecordStart,
       SendLiteral, SendEnter, Abort, WaitDone, GraceOver, GiveUp, DeadlineTakesHeld, Finish, RecordEnd, Emit, Leave, RunLabels
  <1>2. writeLock \in {None, a}
    <2>1. pc[a] = "idle" => AcquireWriteLock(a)
      BY DEF RunStep, CrashRun, NotesBaseline, NothingPending, Settle,
         SettleUnread, StillRunning, WaitFails, NumberCommand, StartFails, RecordStart,
         SendLiteral, SendEnter, Abort, WaitDone, GraceOver, GiveUp, DeadlineTakesHeld, Finish, RecordEnd, Emit
    <2> QED
      BY <2>1 DEF RunInv, RunOK, AcquireWriteLock
  <1>3. None \notin Agents /\ pc \in [Agents -> RunLabels]
    BY RunAssumption DEF RunAssumption, RunInv, TypeOK
  <1>4. \A b \in Agents \ {a} : pc[b] = "idle"
    BY <1>2, <1>3 DEF RunInv, RunOK
  <1>5. \A b \in Agents \ {a} : pc'[b] = pc[b]
    BY <1>1, <1>3 DEF Goto
  <1> QED
    BY <1>1, <1>4, <1>5

(***************************************************************************)
(* A run starts its command beside hooks: it is the unfinished one, its text  *)
(* is nowhere yet, and no mark follows its offset.                           *)
(***************************************************************************)
LEMMA StartsHooked ==
  ASSUME RunInv, SureInv, Sure, Unattended \/ Attended, NEW a \in Agents, RecordStart(a),
         UNCHANGED world, OwnInv'
  PROVE  SureInv'
  <1> DEFINE ev == CmdStart(run[a].id, run[a].offset, Now)
             n == Len(log) + 1
  <1>1. /\ pc[a] = "record" /\ pc'[a] = "literal" /\ log' = Append(log, ev)
        /\ UNCHANGED <<run, paneVars, sendVars>>
        /\ \A b \in Agents \ {a} : pc'[b] = "idle"
    BY RunsAlone DEF RecordStart, AppendEvent, RunStep, Goto, RunInv, TypeOK
  <1>2. /\ OwnInv /\ HookInv /\ (Unattended => AloneInv) /\ (Attended => BesideInv)
        /\ Shell' = Shell /\ (Unattended' <=> Unattended) /\ (Attended' <=> Attended)
    BY DEF SureInv, Shell, Env, Unattended, Attended
  <1>3. /\ AllOver(Shell, log, marks) /\ RunText = {} /\ RunText' = {}
        /\ At(marks, run[a].offset, "C") = {} /\ (Unattended => At(marks, run[a].offset, "D") = {})
    BY <1>1, <1>2 DEF OwnInv, RunOwn, HookInv, AloneInv, RunText, paneVars
  <1>4. log \in Seq(Events) /\ ev \in Events /\ ev.id = run[a].id /\ ev.offset = run[a].offset
    BY EventType DEF RunInv, TypeOK, RunState, CmdStart
  <1> HIDE DEF ev
  <1>5. /\ Len(log) \in Nat /\ Len(log') = n /\ log'[n] = ev
        /\ \A i \in 1 .. Len(log) : log'[i] = log[i]
    BY <1>1, <1>4, AppendElements
  <1>6. \A i \in Unfinished' : i = n
    <2>1. ASSUME NEW i \in Commands(log)
          PROVE  OverAt(Shell', log', marks', i) # 0
      BY <1>1, <1>2, <1>3, <1>5 DEF AllOver, OverAt, Commands, paneVars
    <2>2. \A i \in Commands(log') : i \in Commands(log) \/ i = n
      BY <1>5 DEF Commands
    <2> QED
      BY <2>1, <2>2 DEF Unfinished
  <1>7. RunTyped(line) = {} /\ RunTyped(fg) = {}
    BY <1>3 DEF RunText, RunsIn
  <1>8. RunPiece(ev.id) \notin Pieces(fg)
    BY <1>7 DEF RunTyped, RunPiece
  <1>9. HookInv'
    <2>1. (\A s \in Senders : spc[s] = "idle")'
      BY <1>1, <1>2 DEF HookInv, sendVars
    <2>2. /\ (line = <<>> \/ RunTyped(line) # {})'
          /\ (\A k \in 1 .. Len(queue) : RunTyped(queue[k]) # {})'
          /\ (Shell = "hooks-noC" => At(marks, 0, "C") = {})'
      BY <1>1, <1>2 DEF HookInv, paneVars
    <2>3. (Shell = "hooks" => \A i \in Unfinished :
              At(marks, log[i].offset, "C") # {} <=> RunPiece(log[i].id) \in Pieces(fg))'
      BY <1>1, <1>3, <1>4, <1>5, <1>6, <1>8 DEF paneVars
    <2>4. \A b \in Agents : pc'[b] \notin {"record", "enter"}
      BY <1>1
    <2> QED
      BY <2>1, <2>2, <2>3, <2>4 DEF HookInv
  <1>10. Unattended => AloneInv'
    <2> SUFFICES ASSUME Unattended PROVE AloneInv'
      OBVIOUS
    <2>1. \A b \in Agents : pc'[b] # "record"
      BY <1>1
    <2>2. (fg = <<>> \/ RunTyped(fg) # {})'
      BY <1>1, <1>2 DEF AloneInv, paneVars
    <2>3. (\A i \in Unfinished : At(marks, log[i].offset, "D") = {})'
      BY <1>1, <1>3, <1>4, <1>5, <1>6 DEF paneVars
    <2> QED
      BY <2>1, <2>2, <2>3 DEF AloneInv
  <1>11. BesideInv'
    <2>1. RunTyped(line') = {}
      BY <1>1, <1>7 DEF paneVars
    <2>2. (\A i \in Unfinished : \E b \in Agents :
              /\ run[b].id = log[i].id /\ pc[b] \in {"literal", "enter", "wait"}
              /\ pc[b] # "literal" => RunPiece(log[i].id) \in RunText)'
      BY <1>1, <1>4, <1>5, <1>6
    <2> QED
      BY <2>1, <2>2 DEF BesideInv
  <1> QED
    BY <1>2, <1>9, <1>10, <1>11 DEF SureInv

(***************************************************************************)
(* The text of a run's command is typed: it is in the line.                  *)
(***************************************************************************)
LEMMA TypedIsThere ==
  ASSUME NEW l \in Lines, NEW id, Append(l, RunPiece(id)) \in Lines
  PROVE  RunPiece(id) \in RunTyped(Append(l, RunPiece(id)))
  <1> DEFINE n == Append(l, RunPiece(id))
  <1>1. Len(l) \in Nat /\ Len(n) = Len(l) + 1 /\ n[Len(l) + 1] = RunPiece(id)
    BY LenProperties, AppendProperties DEF Lines
  <1>2. RunPiece(id) \in Pieces(n)
    BY <1>1 DEF Pieces
  <1>3. RunPiece(id).who = "run"
    BY DEF RunPiece
  <1> HIDE DEF n
  <1> QED
    BY <1>2, <1>3 DEF RunTyped, n

(***************************************************************************)
(* A run types its command beside hooks, and enters it.                      *)
(***************************************************************************)
LEMMA SendsHooked ==
  ASSUME RunInv, SureInv, Sure, Unattended \/ Attended, NEW a \in Agents,
         SendLiteral(a) \/ SendEnter(a), UNCHANGED world, OwnInv'
  PROVE  SureInv'
  <1>1. /\ UNCHANGED <<log, run, marks, fg, sendVars>>
        /\ \A b \in Agents \ {a} : pc[b] = "idle" /\ pc'[b] = "idle"
        /\ line \in Lines /\ queue \in Seq(Lines) /\ pc \in [Agents -> RunLabels]
    BY RunsAlone DEF SendLiteral, SendEnter, RunStep, logVars, RunInv, TypeOK
  <1>2. /\ OwnInv /\ HookInv /\ (Unattended => AloneInv) /\ (Attended => BesideInv)
        /\ Shell' = Shell /\ (Unattended' <=> Unattended) /\ (Attended' <=> Attended)
    BY DEF SureInv, Shell, Env, Unattended, Attended
  <1>3. Unfinished' = Unfinished
    BY <1>1, <1>2 DEF Unfinished
  <1>4. /\ (\A s \in Senders : spc[s] = "idle")'
        /\ (Shell = "hooks-noC" => At(marks, 0, "C") = {})'
        /\ (Shell = "hooks" => \A i \in Unfinished :
               At(marks, log[i].offset, "C") # {} <=> RunPiece(log[i].id) \in Pieces(fg))'
    BY <1>1, <1>2, <1>3 DEF HookInv, sendVars
  <1>5. pc'[a] \in {"enter", "wait"}
    BY <1>1 DEF SendLiteral, SendEnter, Goto
  <1>6. Unattended => AloneInv'
    BY <1>1, <1>2, <1>3, <1>5 DEF AloneInv
  <1>7. CASE SendLiteral(a)
    <2>1. /\ pc[a] = "literal" /\ pc'[a] = "enter"
          /\ line' = Append(line, RunPiece(run[a].id)) /\ queue' = queue
      BY <1>1, <1>7 DEF SendLiteral, Goto
    <2>2. RunPiece(run[a].id) \in RunTyped(line')
      BY <1>1, <2>1, PaneType, TypedIsThere DEF Started
    <2>3. HookInv'
      <3>1. (\A k \in 1 .. Len(queue) : RunTyped(queue[k]) # {})'
        BY <1>2, <2>1 DEF HookInv
      <3>2. (line = <<>> \/ RunTyped(line) # {})'
        BY <2>2
      <3>3. (\A b \in Agents : /\ pc[b] = "record" => At(marks, run[b].offset, "C") = {}
                               /\ pc[b] = "enter" => RunTyped(line) # {})'
        BY <1>1, <2>1, <2>2
      <3> QED
        BY <1>4, <3>1, <3>2, <3>3 DEF HookInv
    <2>4. Attended => BesideInv'
      <3> SUFFICES ASSUME Attended PROVE BesideInv'
        OBVIOUS
      <3>1. ASSUME NEW i \in Unfinished
            PROVE  RunPiece(log[i].id) \in RunText' /\ run[a].id = log[i].id
        <4>1. PICK b \in Agents : run[b].id = log[i].id /\ pc[b] \in {"literal", "enter", "wait"}
          BY <1>2 DEF BesideInv
        <4>2. b = a
          BY <1>1, <4>1
        <4>3. RunTyped(line') \subseteq RunText'
          BY DEF RunText, RunsIn
        <4> QED
          BY <2>2, <4>1, <4>2, <4>3
      <3>2. (\A i \in Unfinished : \E b \in Agents :
                /\ run[b].id = log[i].id /\ pc[b] \in {"literal", "enter", "wait"}
                /\ pc[b] # "literal" => RunPiece(log[i].id) \in RunText)'
        BY <1>1, <1>3, <2>1, <3>1
      <3> QED
        BY <2>1, <3>2 DEF BesideInv
    <2> QED
      BY <1>2, <1>6, <2>3, <2>4 DEF SureInv
  <1>8. CASE SendEnter(a)
    <2>1. /\ pc[a] = "enter" /\ pc'[a] = "wait" /\ line' = <<>> /\ queue' = Append(queue, line)
      BY <1>1, <1>8 DEF SendEnter, Goto
    <2>2. RunTyped(line) # {} /\ RunTyped(line') = {}
      BY <1>2, <2>1, BlankLine DEF HookInv
    <2>3. RunText' = RunText
      <3>1. RunsIn(<<>>, fg, Append(queue, line)) = RunsIn(line, fg, queue)
        BY <1>1, <1>2, PaneEntered DEF OwnInv
      <3> QED
        BY <1>1, <2>1, <3>1 DEF RunText
    <2>4. HookInv'
      <3>1. \A k \in 1 .. Len(queue') : RunTyped(queue'[k]) # {}
        <4>1. /\ Len(queue) \in Nat /\ Len(queue') = Len(queue) + 1
              /\ \A k \in 1 .. Len(queue) : queue'[k] = queue[k]
              /\ queue'[Len(queue) + 1] = line
          BY <1>1, <2>1, AppendProperties, LenProperties
        <4> QED
          BY <1>2, <2>2, <4>1 DEF HookInv
      <3>2. (\A b \in Agents : /\ pc[b] = "record" => At(marks, run[b].offset, "C") = {}
                               /\ pc[b] = "enter" => RunTyped(line) # {})'
        BY <1>1, <2>1
      <3> QED
        BY <1>4, <2>1, <3>1, <3>2 DEF HookInv
    <2>5. Attended => BesideInv'
      <3> SUFFICES ASSUME Attended PROVE BesideInv'
        OBVIOUS
      <3>1. ASSUME NEW i \in Unfinished
            PROVE  RunPiece(log[i].id) \in RunText' /\ run[a].id = log[i].id
        <4>1. PICK b \in Agents : /\ run[b].id = log[i].id /\ pc[b] \in {"literal", "enter", "wait"}
                                  /\ pc[b] # "literal" => RunPiece(log[i].id) \in RunText
          BY <1>2 DEF BesideInv
        <4>2. b = a
          BY <1>1, <4>1
        <4> QED
          BY <2>1, <2>3, <4>1, <4>2
      <3>2. (\A i \in Unfinished : \E b \in Agents :
                /\ run[b].id = log[i].id /\ pc[b] \in {"literal", "enter", "wait"}
                /\ pc[b] # "literal" => RunPiece(log[i].id) \in RunText)'
        BY <1>1, <1>3, <2>1, <3>1
      <3> QED
        BY <2>2, <3>2 DEF BesideInv
    <2> QED
      BY <1>2, <1>6, <2>4, <2>5 DEF SureInv
  <1> QED
    BY <1>7, <1>8

(***************************************************************************)
(* The other steps of a run beside hooks leave the pane alone and start       *)
(* nothing; where a human is, a run stays with its command until that is      *)
(* over.                                                                     *)
(***************************************************************************)
LEMMA MovesHooked ==
  ASSUME RunInv, RunInv', SureInv, Sure, Unattended \/ Attended, NEW a \in Agents,
         RunStep(a) \/ CrashRun(a),
         ~RecordStart(a), ~SendLiteral(a), ~SendEnter(a), UNCHANGED world, OwnInv'
  PROVE  SureInv'
  <1>1. /\ UNCHANGED <<paneVars, sendVars>>
        /\ \A b \in Agents \ {a} : pc[b] = "idle" /\ pc'[b] = "idle"
        /\ pc \in [Agents -> RunLabels] /\ run \in [Agents -> RunState]
    BY RunsAlone DEF RunStep, CrashRun, AcquireWriteLock, NotesBaseline, NothingPending, Settle,
       SettleUnread, SettleAs, WaitFails, StillRunning, NumberCommand, StartFails, Abort, WaitDone, GraceOver,
       GiveUp, DeadlineTakesHeld, Finish, RecordEnd, Emit, RunInv, TypeOK
  <1>2. /\ OwnInv /\ HookInv /\ (Unattended => AloneInv) /\ (Attended => BesideInv)
        /\ Shell' = Shell /\ (Unattended' <=> Unattended) /\ (Attended' <=> Attended)
        /\ "fail" \notin Env /\ "unreadable" \notin Env /\ (Attended => Env \subseteq {"io"})
    BY DEF SureInv, Shell, Env, Unattended, Attended
  <1>3. log' = log \/ \E ev \in Events : log' = Append(log, ev) /\ ~IsStart(ev)
    <2>1. CASE Settle(a)
      <3> DEFINE p == PendingCmd(log)
      <3>1. PICK m : /\ m = Completed(log[p].offset) \/ m = Held(log[p].offset)
                     /\ AppendEvent(CmdEnd(log[p].id, m, m, Now)) \/ log' = log
        BY <2>1 DEF Settle, SettleAs, logVars
      <3>2. log[p].id \in 0 .. MaxCmds /\ log[p].offset \in Nat
        <4>1. p \in Unended(log)
          BY <2>1, PendingIsUnended DEF Settle, RunInv, TypeOK
        <4> QED
          BY <4>1, UnendedType
      <3>3. m \in Nat
        BY <3>1, <3>2, CompletionType DEF RunInv, TypeOK
      <3>4. CmdEnd(log[p].id, m, m, Now) \in Events
        BY <3>2, <3>3, EventType
      <3>5. ~IsStart(CmdEnd(log[p].id, m, m, Now))
        BY DEF CmdEnd, IsStart
      <3> QED
        BY <3>1, <3>4, <3>5 DEF AppendEvent
    <2>2. CASE RecordEnd(a)
      <3> DEFINE ev == CmdEnd(run[a].id, run[a].mark, run[a].mark, Now)
      <3>1. AppendEvent(ev) \/ log' = log
        BY <2>2 DEF RecordEnd, logVars
      <3>2. ev \in Events
        BY <1>1, EventType DEF RunState
      <3>3. ~IsStart(ev)
        BY DEF CmdEnd, IsStart
      <3> QED
        BY <3>1, <3>2, <3>3 DEF AppendEvent
    <2>3. CASE ~Settle(a) /\ ~RecordEnd(a)
      BY <1>2, <2>3 DEF RunStep, CrashRun, AcquireWriteLock, NotesBaseline, NothingPending,
         SettleUnread, WaitFails, StillRunning, NumberCommand, StartFails, Abort, WaitDone, GraceOver,
         GiveUp, DeadlineTakesHeld, Finish, Emit, logVars
    <2> QED
      BY <2>1, <2>2, <2>3
  <1>4. /\ Unfinished' = Unfinished /\ Commands(log') = Commands(log)
        /\ \A i \in Commands(log) : log'[i] = log[i]
    <2>1. marks' = marks
      BY <1>1 DEF paneVars
    <2> QED
      BY <1>3, <2>1, LogKept
  <1>5. \A i \in Unfinished : log'[i] = log[i] /\ i \in Commands(log)
    BY <1>4 DEF Unfinished
  <1>6. pc'[a] \notin {"literal", "enter", "wait"}
    BY <1>1, <1>2 DEF RunStep, CrashRun, AcquireWriteLock, NotesBaseline, NothingPending, Settle,
       SettleUnread, SettleAs, WaitFails, StillRunning, NumberCommand, StartFails, Abort, WaitDone, GraceOver,
       GiveUp, DeadlineTakesHeld, Finish, RecordEnd, Emit, Leave, Goto
  <1>7. pc'[a] = "record" => At(marks, run'[a].offset, "C") = {} /\ At(marks, run'[a].offset, "D") = {}
    <2> SUFFICES ASSUME pc'[a] = "record"
                 PROVE  At(marks, run'[a].offset, "C") = {} /\ At(marks, run'[a].offset, "D") = {}
      OBVIOUS
    <2>1. NumberCommand(a)
      BY <1>1, <1>2 DEF RunStep, CrashRun, AcquireWriteLock, NotesBaseline, NothingPending, Settle,
         SettleUnread, SettleAs, WaitFails, StillRunning, StartFails, Abort, WaitDone, GraceOver,
         GiveUp, DeadlineTakesHeld, Finish, RecordEnd, Emit, Leave, Goto
    <2>2. run'[a].offset = Len(marks)
      BY <1>1, <2>1 DEF NumberCommand, RunState
    <2>3. Len(marks) \in Nat
      BY LenProperties DEF RunInv, TypeOK
    <2> QED
      BY <2>2, <2>3 DEF At
  <1>8. HookInv'
    <2>1. /\ (\A s \in Senders : spc[s] = "idle")'
          /\ (line = <<>> \/ RunTyped(line) # {})'
          /\ (\A k \in 1 .. Len(queue) : RunTyped(queue[k]) # {})'
          /\ (Shell = "hooks-noC" => At(marks, 0, "C") = {})'
      BY <1>1, <1>2 DEF HookInv, paneVars, sendVars
    <2>2. (Shell = "hooks" => \A i \in Unfinished :
              At(marks, log[i].offset, "C") # {} <=> RunPiece(log[i].id) \in Pieces(fg))'
      BY <1>1, <1>2, <1>4, <1>5 DEF HookInv, paneVars
    <2>3. (\A b \in Agents : /\ pc[b] = "record" => At(marks, run[b].offset, "C") = {}
                             /\ pc[b] = "enter" => RunTyped(line) # {})'
      BY <1>1, <1>6, <1>7 DEF paneVars
    <2> QED
      BY <2>1, <2>2, <2>3 DEF HookInv
  <1>9. Unattended => AloneInv'
    BY <1>1, <1>2, <1>4, <1>5, <1>7 DEF AloneInv, paneVars
  <1>10. Attended => BesideInv'
    <2> SUFFICES ASSUME Attended PROVE BesideInv'
      OBVIOUS
    <2>1. pc[a] \in {"literal", "enter", "wait"} => Finish(a, Completed(run[a].offset))
                                                   \/ Finish(a, Held(run[a].offset))
      BY <1>2 DEF RunStep, CrashRun, AcquireWriteLock, NotesBaseline, NothingPending, Settle,
         SettleUnread, SettleAs, WaitFails, StillRunning, NumberCommand, StartFails, Abort, WaitDone, GraceOver,
         GiveUp, DeadlineTakesHeld, RecordEnd, Emit
    <2>2. ASSUME NEW i \in Unfinished PROVE FALSE
      <3>1. PICK b \in Agents : run[b].id = log[i].id /\ pc[b] \in {"literal", "enter", "wait"}
        BY <1>2 DEF BesideInv
      <3>2. b = a
        BY <1>1, <3>1
      <3>3. pc'[a] = "end" /\ run'[a].id = run[a].id
        BY <1>1, <2>1, <3>1, <3>2 DEF Finish, Goto, RunState
      <3>4. PICK k \in Commands(log') : log'[k].id = run'[a].id /\ k \notin Unfinished'
        BY <3>3 DEF OwnInv, RunOwn, Started, Unfinished
      <3>5. k \in Commands(log) /\ log[k].id = log[i].id
        BY <1>4, <3>1, <3>2, <3>3, <3>4
      <3>6. k = i
        BY <1>5, <3>5 DEF RunInv, WellFormed, Commands
      <3> QED
        BY <1>4, <3>4, <3>6
    <2>3. RunTyped(line') = {}
      <3>1. SUFFICES ASSUME RunTyped(line) # {} PROVE FALSE
        BY <1>1 DEF paneVars
      <3>2. PICK b \in Agents : pc[b] = "enter"
        BY <1>2, <3>1 DEF BesideInv
      <3>3. b = a
        BY <1>1, <3>2
      <3> QED
        BY <2>1, <3>2, <3>3 DEF Finish
    <2> QED
      BY <1>4, <2>2, <2>3 DEF BesideInv
  <1> QED
    BY <1>2, <1>8, <1>9, <1>10 DEF SureInv

(***************************************************************************)
(* The shell takes up a run's line beside hooks: it marks C for the           *)
(* unfinished command and executes its text.                                 *)
(***************************************************************************)
LEMMA ReadsHooked ==
  ASSUME RunInv, SureInv, Sure, Unattended \/ Attended, ShellReads, UNCHANGED world, OwnInv'
  PROVE  SureInv'
  <1> DEFINE l == Head(queue)
  <1>1. /\ fg = <<>> /\ queue # <<>> /\ Execute(l) /\ queue' = Tail(queue)
        /\ UNCHANGED <<log, runVars, sendVars, line>>
        /\ queue \in Seq(Lines) /\ log \in Seq(Events)
    BY DEF ShellReads, logVars, RunInv, TypeOK
  <1>2. /\ OwnInv /\ HookInv /\ (Unattended => AloneInv) /\ (Attended => BesideInv)
        /\ Shell' = Shell /\ (Unattended' <=> Unattended) /\ (Attended' <=> Attended)
    BY DEF SureInv, Shell, Env, Unattended, Attended
  <1>3. /\ Len(queue) \in Nat /\ 1 \in 1 .. Len(queue) /\ l = queue[1] /\ l \in Lines
        /\ Len(queue') = Len(queue) - 1
        /\ \A k \in 1 .. Len(queue') : queue'[k] = queue[k + 1]
    BY <1>1, HeadTailProperties, EmptySeq, LenProperties, PaneType
  <1>4. RunTyped(l) # {} /\ RunTyped(l) \subseteq RunText
    BY <1>2, <1>3 DEF HookInv, RunText, RunsIn
  <1>5. PICK p : p \in RunTyped(l)
    BY <1>4
  <1>6. PICK i \in Unfinished : Unfinished = {i} /\ p = RunPiece(log[i].id)
    BY <1>1, <1>2, <1>4, <1>5, OneUnfinished
  <1>7. fg' = l /\ marks' = IF Shell = "hooks" THEN Append(marks, Mark("C", l)) ELSE marks
    BY <1>1, <1>4, BlankLine DEF Execute
  <1>8. RunText' = RunText
    <2>1. RunTyped(fg) = {}
      BY <1>1, BlankLine
    <2>2. RunsIn(line, Head(queue), Tail(queue)) = RunsIn(line, fg, queue)
      BY <1>1, <1>2, <2>1, PaneRead DEF OwnInv
    <2> QED
      BY <1>1, <1>7, <2>2 DEF RunText
  <1>9. \A a \in Agents : pc[a] # "record" /\ pc'[a] = pc[a] /\ run'[a] = run[a]
    BY <1>1, <1>2, <1>4, <1>5 DEF OwnInv, RunOwn, runVars
  <1>10. /\ Unfinished' = Unfinished
         /\ At(marks', log[i].offset, "D") = At(marks, log[i].offset, "D")
         /\ Shell = "hooks" => At(marks', log[i].offset, "C") # {}
         /\ Shell # "hooks" => marks' = marks
    <2>1. CASE Shell # "hooks"
      BY <1>1, <1>2, <1>7, <2>1 DEF Unfinished
    <2>2. CASE Shell = "hooks"
      <3> DEFINE x == Mark("C", l)
      <3>1. /\ x \in [kind : MarkKinds, by : Lines] /\ x.kind = "C" /\ "D" \in MarkKinds \ {"C"}
            /\ \A k \in Unfinished : ~Closes(Shell, marks, x, log[k].offset)
        BY <1>3, <2>2 DEF Mark, MarkKinds, Closes
      <3>2. marks' = Append(marks, x)
        BY <1>7, <2>2
      <3> HIDE DEF x
      <3>3. /\ Unfinished' = Unfinished
            /\ \A kind \in MarkKinds \ {"C"} : \A k \in Unfinished :
                   At(marks', log[k].offset, kind) = At(marks, log[k].offset, kind)
            /\ \A k \in Unfinished : At(marks', log[k].offset, "C") # {}
        BY <1>1, <1>2, <3>1, <3>2, MarkKept
      <3> QED
        BY <1>6, <2>2, <3>1, <3>3
    <2> QED
      BY <2>1, <2>2
  <1> HIDE DEF l
  <1>11. HookInv'
    <2>1. /\ (\A s \in Senders : spc[s] = "idle")'
          /\ (line = <<>> \/ RunTyped(line) # {})'
      BY <1>1, <1>2 DEF HookInv, sendVars
    <2>2. \A k \in 1 .. Len(queue') : RunTyped(queue'[k]) # {}
      <3>1. \A k \in 1 .. Len(queue') : k + 1 \in 1 .. Len(queue)
        BY <1>3
      <3> QED
        BY <1>2, <1>3, <3>1 DEF HookInv
    <2>3. (Shell = "hooks-noC" => At(marks, 0, "C") = {})'
      BY <1>2, <1>10 DEF HookInv
    <2>4. (Shell = "hooks" => \A k \in Unfinished :
              At(marks, log[k].offset, "C") # {} <=> RunPiece(log[k].id) \in Pieces(fg))'
      <3>1. RunPiece(log[i].id) \in Pieces(fg')
        BY <1>5, <1>6, <1>7 DEF RunTyped
      <3> QED
        BY <1>1, <1>2, <1>6, <1>10, <3>1
    <2>5. (\A a \in Agents : /\ pc[a] = "record" => At(marks, run[a].offset, "C") = {}
                             /\ pc[a] = "enter" => RunTyped(line) # {})'
      BY <1>1, <1>2, <1>9 DEF HookInv
    <2> QED
      BY <2>1, <2>2, <2>3, <2>4, <2>5 DEF HookInv
  <1>12. Unattended => AloneInv'
    BY <1>1, <1>2, <1>4, <1>6, <1>7, <1>9, <1>10 DEF AloneInv
  <1>13. Attended => BesideInv'
    BY <1>1, <1>2, <1>8, <1>9, <1>10 DEF BesideInv
  <1> QED
    BY <1>2, <1>11, <1>12, <1>13 DEF SureInv

(***************************************************************************)
(* A line ends beside hooks: a run's, and no command is unfinished any more;  *)
(* or a human's, whose D is nobody's.                                        *)
(***************************************************************************)
LEMMA EndsHooked ==
  ASSUME RunInv, SureInv, Sure, Unattended \/ Attended, CommandEnds, UNCHANGED world, OwnInv'
  PROVE  SureInv'
  <1> DEFINE x == Mark("D", fg)
  <1>1. /\ fg # <<>> /\ fg' = <<>> /\ UNCHANGED <<log, runVars, sendVars, line, queue>>
        /\ marks \in Seq([kind : MarkKinds, by : Lines])
    BY DEF CommandEnds, logVars, RunInv, TypeOK
  <1>2. /\ OwnInv /\ HookInv /\ (Unattended => AloneInv) /\ (Attended => BesideInv)
        /\ Shell' = Shell /\ (Unattended' <=> Unattended) /\ (Attended' <=> Attended)
        /\ Shell # "sentinel"
    BY DEF SureInv, Shell, Env, Unattended, Attended
  <1>3. /\ marks' = Append(marks, x) /\ x \in [kind : MarkKinds, by : Lines]
        /\ x.by = fg /\ x.kind = "D" /\ "C" \in MarkKinds \ {"D"}
    BY <1>2 DEF CommandEnds, Mark, MarkKinds, RunInv, TypeOK
  <1> HIDE DEF x
  <1>4. /\ RunTyped(fg) # {} => \A i \in Unfinished : Closes(Shell, marks, x, log[i].offset)
        /\ RunTyped(fg) = {} =>
               /\ Attended
               /\ \A i \in Unfinished : ~Closes(Shell, marks, x, log[i].offset)
    BY <1>1, <1>2, <1>3, EndingCloses
  <1>5. \A a \in Agents : pc'[a] = pc[a] /\ run'[a] = run[a]
    BY <1>1 DEF runVars
  <1>6. /\ (\A s \in Senders : spc[s] = "idle")'
        /\ (line = <<>> \/ RunTyped(line) # {})'
        /\ (\A k \in 1 .. Len(queue) : RunTyped(queue[k]) # {})'
        /\ (\A a \in Agents : pc[a] = "enter" => RunTyped(line) # {})'
    BY <1>1, <1>2, <1>5 DEF HookInv, sendVars
  <1>7. (Shell = "hooks-noC" => At(marks, 0, "C") = {})'
    <2>1. \A k : k \in At(marks', 0, "C") <=> k \in At(marks, 0, "C")
      <3>1. Len(marks) \in Nat
        BY <1>1, LenProperties
      <3>2. \A k : k \in At(marks', 0, "C") <=>
                k \in At(marks, 0, "C") \/ (k = Len(marks) + 1 /\ x.kind = "C")
        <4> DEFINE M == [kind : MarkKinds, by : Lines]
        <4>1. 0 \in Nat /\ 0 <= Len(marks) /\ marks \in Seq(M) /\ x \in M
          BY <1>1, <1>3, <3>1
        <4> HIDE DEF M
        <4> QED
          BY <1>3, <4>1, MarkAppended
      <3> QED
        BY <1>3, <3>2
    <2> QED
      BY <1>2, <2>1 DEF HookInv
  <1>8. CASE RunTyped(fg) # {}
    <2>1. /\ Unfinished' = {}
          /\ \A a \in Agents : pc[a] # "record"
      BY <1>1, <1>2, <1>3, <1>4, <1>8, MarkPrinted
    <2>2. HookInv'
      BY <1>5, <1>6, <1>7, <2>1 DEF HookInv
    <2>3. AloneInv'
      BY <1>1, <1>5, <2>1 DEF AloneInv
    <2>4. Attended => BesideInv'
      BY <1>1, <1>2, <1>5, <2>1 DEF BesideInv
    <2> QED
      BY <1>2, <2>2, <2>3, <2>4 DEF SureInv
  <1>9. CASE RunTyped(fg) = {}
    <2>1. Attended /\ ~Unattended
      BY <1>1, <1>2, <1>4, <1>9 DEF AloneInv
    <2>2. /\ Unfinished' = Unfinished
          /\ \A i \in Unfinished : At(marks', log[i].offset, "C") = At(marks, log[i].offset, "C")
          /\ \A a \in Agents : pc[a] = "record" =>
                 At(marks', run[a].offset, "C") = At(marks, run[a].offset, "C")
      BY <1>1, <1>2, <1>3, <1>4, <1>9, MarkKept
    <2>3. \A i \in Unfinished : RunPiece(log[i].id) \notin Pieces(fg)
      BY <1>9 DEF RunTyped, RunPiece
    <2>4. (Shell = "hooks" => \A i \in Unfinished :
              At(marks, log[i].offset, "C") # {} <=> RunPiece(log[i].id) \in Pieces(fg))'
      BY <1>1, <1>2, <2>2, <2>3, BlankLine DEF HookInv
    <2>5. (\A a \in Agents : pc[a] = "record" => At(marks, run[a].offset, "C") = {})'
      BY <1>2, <1>5, <2>2 DEF HookInv
    <2>6. HookInv'
      BY <1>6, <1>7, <2>4, <2>5 DEF HookInv
    <2>7. RunText' = RunText
      <3>1. RunsIn(line, <<>>, queue) = RunsIn(line, fg, queue)
        BY <1>2, <1>9, BlankLine, PaneCleared DEF OwnInv
      <3> QED
        BY <1>1, <3>1 DEF RunText
    <2>8. BesideInv'
      BY <1>1, <1>2, <1>5, <2>1, <2>2, <2>7 DEF BesideInv
    <2> QED
      BY <1>2, <2>1, <2>6, <2>8 DEF SureInv
  <1> QED
    BY <1>8, <1>9

(***************************************************************************)
(* A human enters a line at an idle prompt beside a shell that marks C.       *)
(***************************************************************************)
LEMMA EntersHooked ==
  ASSUME RunInv, SureInv, Sure, Unattended \/ Attended,
         NEW text \in {<<HumanPiece>>, <<>>}, HumanEnters(text), UNCHANGED world, OwnInv'
  PROVE  SureInv'
  <1>1. Attended /\ ~Unattended
    BY DEF HumanEnters, Unattended, RunInv, TypeOK
  <1>2. /\ ~RunOnItsWay /\ fg = <<>> /\ queue = <<>> /\ line = <<>>
        /\ Execute(text) /\ UNCHANGED <<line, queue, log, runVars, sendVars>>
    BY <1>1 DEF HumanEnters, Attended, logVars
  <1>3. /\ OwnInv /\ HookInv /\ Shell' = Shell /\ Attended' /\ ~Unattended' /\ Shell = "hooks"
    BY <1>1 DEF SureInv, Shell, Env, Unattended, Attended
  <1>4. Unfinished = {} /\ \A a \in Agents : pc[a] # "record"
    BY <1>1, <1>2, IdlePrompt
  <1>5. \A a \in Agents : pc'[a] = pc[a] /\ run'[a] = run[a]
    BY <1>2 DEF runVars
  <1>6. Unfinished' = {}
    <2>1. PICK x \in [kind : MarkKinds, by : Lines] : marks' = Append(marks, x)
      BY <1>2, <1>3, PaneType DEF Execute, Mark, MarkKinds
    <2>2. Unfinished' = Unfinished
      BY <1>2, <1>3, <1>4, <2>1, MarkKept
    <2> QED
      BY <1>4, <2>2
  <1>7. HookInv'
    BY <1>2, <1>3, <1>4, <1>5, <1>6 DEF HookInv, sendVars
  <1>8. BesideInv'
    <2>1. RunTyped(line') = {}
      BY <1>2, BlankLine
    <2> QED
      BY <1>6, <2>1 DEF BesideInv
  <1> QED
    BY <1>3, <1>7, <1>8 DEF SureInv

(***************************************************************************)
(* Everybody else's steps, beside hooks: nobody sends, a program has no line  *)
(* of a run to read, and a note is no command.                               *)
(***************************************************************************)
LEMMA OthersHooked ==
  ASSUME RunInv, SureInv, Sure, Unattended \/ Attended, UNCHANGED world, OwnInv',
         \/ \E s \in Senders : SendStep(s) \/ SendFails(s)
         \/ \E n \in Notes : StampNote(n) \/ AppendNote(n)
         \/ Peek \/ ShellReads \/ CommandEnds \/ CommandReads
         \/ HumanEnters(<<HumanPiece>>) \/ HumanEnters(<<>>)
         \/ UNCHANGED vars
  PROVE  SureInv'
  <1>1. /\ OwnInv /\ HookInv /\ (Unattended => AloneInv) /\ (Attended => BesideInv)
        /\ Shell' = Shell /\ (Unattended' <=> Unattended) /\ (Attended' <=> Attended)
    BY DEF SureInv, Shell, Env, Unattended, Attended
  <1>2. ASSUME UNCHANGED <<runVars, paneVars, sendVars>>,
               log' = log \/ \E ev \in Events : log' = Append(log, ev) /\ ~IsStart(ev)
        PROVE  SureInv'
    <2>1. marks' = marks /\ line' = line /\ queue' = queue /\ fg' = fg /\ spc' = spc
          /\ pc' = pc /\ run' = run /\ RunText' = RunText
      BY <1>2 DEF paneVars, runVars, sendVars, RunText
    <2>2. Unfinished' = Unfinished /\ \A i \in Unfinished : log'[i] = log[i]
      BY <1>2, <2>1, LogKept DEF Unfinished
    <2>3. HookInv'
      BY <1>1, <2>1, <2>2 DEF HookInv
    <2>4. Unattended => AloneInv'
      BY <1>1, <2>1, <2>2 DEF AloneInv
    <2>5. Attended => BesideInv'
      BY <1>1, <2>1, <2>2 DEF BesideInv
    <2> QED
      BY <1>1, <2>3, <2>4, <2>5 DEF SureInv
  <1>3. ASSUME NEW s \in Senders, SendStep(s) \/ SendFails(s) PROVE FALSE
    <2>1. spc[s] = "idle" /\ world.sends = 0 /\ sends = 0
      BY <1>1 DEF HookInv, Unattended, Attended, RunInv, TypeOK
    <2> QED
      BY <1>3, <2>1 DEF SendStep, SendFails, AcquireSendLock, SendText, SendKeys, RecordSent
  <1>4. ASSUME NEW n \in Notes, StampNote(n) \/ AppendNote(n) PROVE SureInv'
    <2>1. CASE StampNote(n)
      BY <1>2, <2>1 DEF StampNote
    <2>2. CASE AppendNote(n)
      <3>1. NoteEvent(n, stamp[n]) \in Events /\ ~IsStart(NoteEvent(n, stamp[n]))
        BY EventType DEF NoteEvent, IsStart, RunInv, TypeOK
      <3> QED
        BY <1>2, <2>2, <3>1 DEF AppendNote
    <2> QED
      BY <1>4, <2>1, <2>2
  <1>5. CASE Peek \/ UNCHANGED vars
    BY <1>2, <1>5 DEF Peek, vars, logVars
  <1>6. CASE CommandReads
    <2>1. fg # <<>> /\ queue # <<>> /\ (HasRun(Head(queue)) => "eats" \in Env)
      BY <1>6 DEF CommandReads
    <2>2. 1 \in 1 .. Len(queue) /\ Head(queue) = queue[1]
      BY <2>1, HeadTailProperties, EmptySeq, LenProperties DEF RunInv, TypeOK
    <2>3. RunTyped(queue[1]) # {}
      BY <1>1, <2>2 DEF HookInv
    <2>4. HasRun(Head(queue))
      BY <2>2, <2>3 DEF HasRun, RunTyped
    <2>5. Unattended
      BY <2>1, <2>4 DEF Attended
    <2>6. RunTyped(fg) # {}
      BY <1>1, <2>1, <2>5 DEF AloneInv
    <2> QED
      BY <1>1, <2>2, <2>3, <2>6 DEF OwnInv, OneLine
  <1>7. CASE ShellReads
    BY <1>7, ReadsHooked
  <1>8. CASE CommandEnds
    BY <1>8, EndsHooked
  <1>9. CASE HumanEnters(<<HumanPiece>>) \/ HumanEnters(<<>>)
    BY <1>9, EntersHooked
  <1> QED
    BY <1>3, <1>4, <1>5, <1>6, <1>7, <1>8, <1>9

(***************************************************************************)
(* A command that is over has left nothing of its text in the pane.          *)
(***************************************************************************)
LEMMA OverIsGone ==
  ASSUME RunInv, OwnInv, NEW i \in Commands(log), OverAt(Shell, log, marks, i) # 0
  PROVE  ~Outstanding(log[i].id)
  <1> SUFFICES ASSUME Outstanding(log[i].id) PROVE FALSE
    OBVIOUS
  <1>1. RunPiece(log[i].id) \in RunText
    <2>1. PICK l \in {line, fg} \cup {queue[k] : k \in 1 .. Len(queue)} :
              RunPiece(log[i].id) \in Pieces(l)
      BY DEF Outstanding
    <2>2. RunPiece(log[i].id) \in RunTyped(l)
      BY <2>1 DEF RunTyped, RunPiece
    <2> QED
      BY <2>1, <2>2 DEF RunText, RunsIn
  <1>2. PICK k \in Commands(log) :
            RunPiece(log[i].id) = RunPiece(log[k].id) /\ OverAt(Shell, log, marks, k) = 0
    BY <1>1 DEF OwnInv, PiecesOwn
  <1>3. log[i].id = log[k].id
    BY <1>2 DEF RunPiece
  <1>4. i = k
    BY <1>3 DEF RunInv, WellFormed, Commands
  <1> QED
    BY <1>2, <1>4

-----------------------------------------------------------------------------
(***************************************************************************)
(* Nothing has been typed, started or marked.                                *)
(***************************************************************************)
LEMMA InitSure == Init => SureInv
  <1> SUFFICES ASSUME Init PROVE SureInv
    OBVIOUS
  <1>1. /\ log = <<>> /\ Len(log) = 0 /\ line = <<>> /\ fg = <<>> /\ Len(queue) = 0
        /\ marks = <<>> /\ Len(marks) = 0
    BY EmptySeq DEF Init
  <1>2. RunTyped(<<>>) = {} /\ Commands(log) = {} /\ At(marks, 0, "C") = {}
    BY <1>1, BlankLine DEF Commands, At
  <1>3. RunText = {} /\ OneLine(line, fg, queue) /\ Unfinished = {}
    BY <1>1, <1>2 DEF RunText, RunsIn, OneLine, Unfinished
  <1>4. \A a \in Agents : RunOwn(a) /\ pc[a] = "idle"
    BY DEF Init, RunOwn, Started
  <1>5. OwnInv
    BY <1>1, <1>2, <1>3, <1>4 DEF OwnInv, CommandsOwn, EndsOwn, PiecesOwn
  <1>6. HookInv
    BY <1>1, <1>2, <1>3, <1>4 DEF HookInv, Init
  <1>7. AloneInv /\ BesideInv
    BY <1>1, <1>2, <1>3, <1>4 DEF AloneInv, BesideInv
  <1> QED
    BY <1>5, <1>6, <1>7 DEF SureInv

(***************************************************************************)
(* Every step keeps what makes completions a run's own.                      *)
(***************************************************************************)
LEMMA StepSure == RunInv /\ RunInv' /\ Sure /\ SureInv /\ [Next]_vars => SureInv'
  <1> SUFFICES ASSUME RunInv, RunInv', Sure, SureInv, [Next]_vars PROVE SureInv'
    OBVIOUS
  <1>1. UNCHANGED world
    BY DEF Next, vars
  <1>2. OwnInv'
    <2>1. ASSUME NEW a \in Agents, RunStep(a) \/ CrashRun(a) PROVE OwnInv'
      BY <1>1, <2>1, RunKeepsOwn
    <2> QED
      BY <1>1, <2>1, OthersKeepOwn DEF Next, Step
  <1>3. CASE ~Unattended /\ ~Attended
    <2>1. ~Unattended' /\ ~Attended'
      BY <1>1, <1>3 DEF Unattended, Attended, Shell, Env
    <2> QED
      BY <1>2, <2>1 DEF SureInv
  <1>4. CASE Unattended \/ Attended
    <2>1. ASSUME NEW a \in Agents, RunStep(a) \/ CrashRun(a) PROVE SureInv'
      BY <1>1, <1>2, <1>4, <2>1, StartsHooked, SendsHooked, MovesHooked
    <2> QED
      BY <1>1, <1>2, <1>4, <2>1, OthersHooked DEF Next, Step
  <1> QED
    BY <1>3, <1>4

(***************************************************************************)
(* In the circumstances Sure describes, SureInv holds at every moment,        *)
(* whatever runs time out or are killed, programs read and appends fail, and  *)
(* in sentinel mode whatever humans and sends enter.                         *)
(***************************************************************************)
THEOREM SureThroughout == Spec /\ Sure => [](Sure /\ SureInv)
  <1>1. Sure /\ [Next]_vars => Sure'
    BY DEF Next, vars, Sure, Sentinels, Unattended, Attended, Shell, Env
  <1> QED
    BY <1>1, InitSure, StepSure, LogWellFormed, PTL DEF Spec

(***************************************************************************)
(* The end recorded for a command was read from the mark its own line caused, *)
(* so its exit code and its output region are its own: in sentinel mode       *)
(* nothing that a human, a send or another run enters in the pane can be      *)
(* taken for it, and beside hooks no late D is.                              *)
(***************************************************************************)
THEOREM CompletionIsOwn == Spec /\ Sure => []OwnCompletion
  <1>1. SureInv => OwnCompletion
    <2> SUFFICES ASSUME OwnInv, NEW k \in 1 .. Len(log), IsEnd(log[k])
                 PROVE  RunPiece(log[k].id) \in Pieces(marks[log[k].exit].by)
      BY DEF SureInv, OwnCompletion, IsEnd
    <2>1. PICK i \in Commands(log) : /\ log[i].id = log[k].id /\ OverAt(Shell, log, marks, i) # 0
                                     /\ log[k].exit = OverAt(Shell, log, marks, i)
      BY DEF OwnInv, EndsOwn
    <2> QED
      BY <2>1 DEF OwnInv, CommandsOwn
  <1> QED
    BY <1>1, SureThroughout, PTL

(***************************************************************************)
(* What peek, ls and wait call idle there has finished: nothing of the        *)
(* pending command's text is still to be entered, to be read, or executing.  *)
(***************************************************************************)
THEOREM IdleHasFinished == Spec /\ Sure => []IdleIsOver
  <1>1. RunInv /\ Sure /\ SureInv => IdleIsOver
    <2> SUFFICES ASSUME RunInv, Sure, SureInv, Shell = "sentinel" \/ world.humanLines = 0,
                        NEW p, p = PendingCmd(log), p # 0, ScanForMark(marks, log[p].offset, Mode)
                 PROVE  ~Outstanding(log[p].id)
      BY DEF IdleIsOver
    <2>1. log \in Seq(Events) /\ marks \in Seq([kind : MarkKinds, by : Lines]) /\ OwnInv
      BY DEF RunInv, TypeOK, SureInv
    <2>2. p \in Unended(log)
      BY <2>1, PendingIsUnended
    <2>3. p \in Commands(log) /\ log[p].offset \in Nat
      BY <2>2, UnendedType DEF Unended, Commands, IsStart
    <2>4. OverAt(Shell, log, marks, p) # 0
      <3>1. CASE Shell = "sentinel"
        <4>1. EndMarks(Shell, marks, log[p].offset) # {}
          BY <3>1 DEF EndMarks, ScanForMark, CompletionKind, Mode
        <4> QED
          BY <2>1, <2>3, <4>1, EndMarkFound DEF OverAt
      <3>2. CASE Shell # "sentinel"
        <4>1. Unattended
          BY <3>2 DEF Sure, Sentinels, Unattended, Attended
        <4>2. At(marks, log[p].offset, "D") # {}
          BY <3>2 DEF ScanForMark, CompletionKind, Mode
        <4> QED
          BY <2>3, <4>1, <4>2 DEF SureInv, AloneInv, Unfinished
      <3> QED
        BY <3>1, <3>2
    <2> QED
      BY <2>1, <2>3, <2>4, OverIsGone
  <1> QED
    BY <1>1, SureThroughout, LogWellFormed, PTL

(***************************************************************************)
(* Where raw.log can be read: a run that finds a command pending goes on to   *)
(* its own only when nothing is left of that one's text in the pane, whether *)
(* or not it could record its end.  This is about every step after which the *)
(* run goes on, not only about those that read a mark.                       *)
(***************************************************************************)
THEOREM SettlementIsLate == Spec /\ Sure => SettledIsOver
  <1>1. RunInv /\ Sure /\ SureInv /\ [Next]_vars => GoesOnBehindNone
    <2> SUFFICES ASSUME RunInv, Sure, SureInv, [Next]_vars, NEW a \in Agents,
                        "unreadable" \notin Env,
                        pc[a] = "settle", pc'[a] = "start", PendingCmd(log) # 0
                 PROVE  ~Outstanding(log[PendingCmd(log)].id)
      BY DEF GoesOnBehindNone
    <2> DEFINE p == PendingCmd(log)
    <2>1. PICK b \in Agents : RunStep(b) \/ CrashRun(b)
      <3>1. pc' # pc
        OBVIOUS
      <3> QED
        BY <3>1 DEF Next, Step, vars, runVars, SendStep, AcquireSendLock, SendText, SendKeys,
           RecordSent, SendFails, StampNote, AppendNote, Peek, ShellReads, CommandEnds,
           CommandReads, HumanEnters
    <2>2. b = a
      BY <2>1, RunsAlone
    <2>3. Settle(a)
      <3>1. pc \in [Agents -> RunLabels]
        BY DEF RunInv, TypeOK
      <3> QED
        BY <2>1, <2>2, <3>1 DEF RunStep, CrashRun, AcquireWriteLock, NotesBaseline, NothingPending,
           SettleUnread, StillRunning, NumberCommand, StartFails, RecordStart, SendLiteral,
           SendEnter, Abort, WaitDone, GraceOver, GiveUp, DeadlineTakesHeld, WaitFails, Finish,
           RecordEnd, Emit, Leave, Goto
    <2>4. p \in Commands(log)
      BY PendingIsUnended DEF RunInv, TypeOK, Unended, Commands, IsStart
    <2>5. PICK m : m # 0 /\ (m = Completed(log[p].offset) \/ m = Held(log[p].offset))
      BY <2>3 DEF Settle
    <2>6. OverAt(Shell, log, marks, p) # 0
      BY <2>4, <2>5, RightMark
    <2> QED
      BY <2>4, <2>6, OverIsGone DEF SureInv
  <1>2. Spec /\ Sure => [][GoesOnBehindNone]_vars
    BY <1>1, SureThroughout, LogWellFormed, PTL DEF Spec
  <1> QED
    BY <1>2 DEF SettledIsOver

=============================================================================
