--------------------------- MODULE Detection_proofs ---------------------------
(***************************************************************************)
(* internal/detect, in two parts.  A loop that reads raw.log in whatever     *)
(* chunks its polls find knows what one scan of everything read so far would  *)
(* know, and what it reports is right: for streams of any length, any chunks, *)
(* and timers that run out at any moment (CompletionWatch).  And the marks it  *)
(* goes by are those the bytes of the log hold, for each of its followers, at  *)
(* whatever offset they begin and however the reads cut an escape sequence or  *)
(* a boundary (LogFollower).                                                  *)
(***************************************************************************)
EXTENDS CompletionWatch, LogFollower, TLAPS, SequenceTheorems, WellFoundedInduction

-----------------------------------------------------------------------------
(* First elements. *)

(***************************************************************************)
(* A nonempty set of numbers has a least one: the mark that is CHOSEn as the  *)
(* first of several exists, and so does the first mark an induction over the  *)
(* stream would fail at.                                                     *)
(***************************************************************************)
LEMMA LeastExists ==
  ASSUME NEW S, S \subseteq Nat, S # {}
  PROVE  \E m \in S : \A k \in S : m <= k
  <1>1. PICK m \in S : \A k \in S : ~ (<<k, m>> \in OpToRel(<, Nat))
    BY NatLessThanWellFounded, WFMin
  <1>2. \A k \in S : ~ (k < m)
    BY <1>1 DEF OpToRel
  <1> QED
    BY <1>2

\* Positions in raw.log start at 1; 0 is "no such mark".
Positions == Nat \ {0}

(***************************************************************************)
(* The first of some marks is one of them, and 0 says that there is none.    *)
(***************************************************************************)
LEMMA FirstOfIs ==
  ASSUME NEW S, S \subseteq Positions
  PROVE  /\ FirstOf(S) = 0 <=> S = {}
         /\ S # {} => FirstOf(S) \in S /\ \A k \in S : FirstOf(S) <= k
  BY LeastExists DEF FirstOf, Positions

(***************************************************************************)
(* A mark that comes later is the first one only if there was none.          *)
(***************************************************************************)
LEMMA FirstOfLater ==
  ASSUME NEW S, S \subseteq Positions, NEW T, T \subseteq Positions, S \subseteq T,
         \A k \in S : \A x \in T \ S : k < x
  PROVE  S # {} => FirstOf(T) = FirstOf(S)
  <1> SUFFICES ASSUME S # {} PROVE FirstOf(T) = FirstOf(S)
    OBVIOUS
  <1> DEFINE s == FirstOf(S)
             t == FirstOf(T)
  <1>1. s \in S /\ \A k \in S : s <= k
    BY FirstOfIs, Zenon
  <1>2. T # {}
    OBVIOUS
  <1>3. t \in T /\ \A k \in T : t <= k
    BY <1>2, FirstOfIs, Zenon
  <1>4. s \in Nat /\ t \in Nat
    BY <1>1, <1>3 DEF Positions
  <1> HIDE DEF s, t
  <1>5. t <= s
    BY <1>1, <1>3
  <1>6. s <= t
    <2>1. CASE t \in S
      BY <1>1, <2>1
    <2>2. CASE t \notin S
      BY <1>1, <1>3, <1>4, <2>2
    <2> QED
      BY <2>1, <2>2
  <1>7. s = t
    BY <1>4, <1>5, <1>6
  <1> QED
    BY <1>7 DEF s, t

(***************************************************************************)
(* The first of one.                                                         *)
(***************************************************************************)
LEMMA FirstOfOne ==
  ASSUME NEW x \in Positions
  PROVE  FirstOf({x}) = x
  BY FirstOfIs DEF Positions

(***************************************************************************)
(* The first of some of the first n marks, and what a mark more makes of it. *)
(***************************************************************************)
LEMMA FirstOfMore ==
  ASSUME NEW n \in Nat, NEW S, S \subseteq 1 .. n, NEW T, T = S \/ T = S \cup {n + 1}
  PROVE  /\ FirstOf(S) = 0 <=> S = {}
         /\ FirstOf(S) \in 0 .. n
         /\ FirstOf(T) = IF S = {} /\ T # S THEN n + 1 ELSE FirstOf(S)
  <1>1. S \subseteq Positions /\ T \subseteq Positions /\ n + 1 \in Positions /\ n + 1 \notin S
    <2>1. n + 1 \in Positions
      BY DEF Positions
    <2>2. \A i \in 1 .. n : i \in Positions /\ i # n + 1
      BY DEF Positions
    <2>3. S \subseteq Positions /\ n + 1 \notin S
      BY <2>2
    <2>4. S \cup {n + 1} \subseteq Positions
      BY <2>1, <2>3
    <2> QED
      BY <2>1, <2>3, <2>4
  <1>2. (FirstOf(S) = 0 <=> S = {}) /\ (S # {} => FirstOf(S) \in S)
    BY <1>1, FirstOfIs, Zenon
  <1>3. FirstOf(S) \in 0 .. n
    <2>1. FirstOf(S) = 0 \/ FirstOf(S) \in 1 .. n
      BY <1>2
    <2> QED
      BY <2>1
  <1>4. FirstOf(T) = IF S = {} /\ T # S THEN n + 1 ELSE FirstOf(S)
    <2>1. CASE T = S
      BY <2>1
    <2>2. CASE T = S \cup {n + 1} /\ S = {}
      <3>1. T = {n + 1} /\ T # S
        BY <2>2
      <3> QED
        BY <1>1, <2>2, <3>1, FirstOfOne
    <2>3. CASE T = S \cup {n + 1} /\ S # {}
      <3>1. S \subseteq T /\ \A k \in S : \A x \in T \ S : k < x
        BY <2>3
      <3> QED
        BY <1>1, <2>3, <3>1, FirstOfLater
    <2> QED
      BY <2>1, <2>2, <2>3
  <1> QED
    BY <1>2, <1>3, <1>4

-----------------------------------------------------------------------------
(* What one scan of the first n marks finds. *)

Upto(kind, n) == {i \in 1 .. n : marks[i].kind = kind}

\* The Ds among them that C correlates, and the boundaries after the first sentinel.
Correlated(n) == {i \in Upto("D", n) : \E c \in Upto("C", n) : c < i}

Bounded(n) ==
    {i \in Upto("B", n) : FirstOf(Upto("S", n)) # 0 /\ FirstOf(Upto("S", n)) < i}

CompletionIn(n) ==
    CASE Mode = "hooks" -> FirstOf(Correlated(n))
      [] Mode = "sentinel" -> FirstOf(Upto("S", n))
      [] Mode = "bounded" -> FirstOf(Bounded(n))

HeldIn(n) ==
    CASE Mode = "hooks" -> IF Upto("C", n) = {} THEN FirstOf(Upto("D", n)) ELSE 0
      [] Mode = "sentinel" -> 0
      [] Mode = "bounded" -> FirstOf(Upto("S", n))

CodeIn(n) == IF Mode = "bounded" THEN FirstOf(Upto("S", n)) ELSE CompletionIn(n)

(***************************************************************************)
(* The state v of a loop that has consumed n marks is that of the scan.      *)
(***************************************************************************)
Verdicts == [outcome : {"none", "done", "timeout", "awaiting-input"}, at : Nat, code : Nat]

LoopStates == [seenC : BOOLEAN, held : Nat, result : Verdicts]

Scanned(v, n) ==
    /\ v \in LoopStates /\ v.held <= n
    /\ v.result = NoResult =>
           /\ CompletionIn(n) = 0
           /\ v.held = HeldIn(n)
           /\ Mode = "hooks" => (v.seenC <=> Upto("C", n) # {})
    /\ v.result # NoResult =>
           /\ CompletionIn(n) # 0 /\ CompletionIn(n) <= n /\ CodeIn(n) <= n
           /\ v.result = Done(CompletionIn(n), CodeIn(n))

(***************************************************************************)
(* The sets of a mark more.                                                  *)
(***************************************************************************)
LEMMA OneMore ==
  ASSUME NEW n \in Nat, NEW kind
  PROVE  /\ Upto(kind, n) \subseteq 1 .. n /\ Upto(kind, n) \subseteq Positions
         /\ marks[n + 1].kind = kind => Upto(kind, n + 1) = Upto(kind, n) \cup {n + 1}
         /\ marks[n + 1].kind # kind => Upto(kind, n + 1) = Upto(kind, n)
         /\ n + 1 \in Positions
  <1>1. \A i : i \in 1 .. n + 1 <=> i \in 1 .. n \/ i = n + 1
    OBVIOUS
  <1>2. \A i : i \in Upto(kind, n + 1) <=>
            i \in Upto(kind, n) \/ (i = n + 1 /\ marks[n + 1].kind = kind)
    BY <1>1, Zenon DEF Upto
  <1>3. Upto(kind, n) \subseteq 1 .. n
    BY DEF Upto
  <1>4. Upto(kind, n) \subseteq Positions /\ n + 1 \in Positions
    BY <1>3 DEF Positions
  <1>5. marks[n + 1].kind = kind => Upto(kind, n + 1) = Upto(kind, n) \cup {n + 1}
    BY <1>2
  <1>6. marks[n + 1].kind # kind => Upto(kind, n + 1) = Upto(kind, n)
    BY <1>2
  <1> QED
    BY <1>3, <1>4, <1>5, <1>6

(***************************************************************************)
(* The first mark of a kind stays the first one.                             *)
(***************************************************************************)
LEMMA FirstStays ==
  ASSUME NEW n \in Nat, NEW kind
  PROVE  /\ FirstOf(Upto(kind, n)) = 0 <=> Upto(kind, n) = {}
         /\ FirstOf(Upto(kind, n)) \in 0 .. n
         /\ FirstOf(Upto(kind, n + 1)) =
                IF Upto(kind, n) = {} /\ marks[n + 1].kind = kind THEN n + 1
                ELSE FirstOf(Upto(kind, n))
  <1>1. /\ Upto(kind, n) \subseteq 1 .. n /\ n + 1 \notin Upto(kind, n)
        /\ marks[n + 1].kind = kind => Upto(kind, n + 1) = Upto(kind, n) \cup {n + 1}
        /\ marks[n + 1].kind # kind => Upto(kind, n + 1) = Upto(kind, n)
    <2>1. n + 1 \notin 1 .. n
      OBVIOUS
    <2> QED
      BY <2>1, OneMore, Zenon
  <1>2. Upto(kind, n + 1) # Upto(kind, n) <=> marks[n + 1].kind = kind
    BY <1>1
  <1> QED
    BY <1>1, <1>2, FirstOfMore

(***************************************************************************)
(* A D more is correlated if a C comes before it.                            *)
(***************************************************************************)
LEMMA CorrelatedMore ==
  ASSUME NEW n \in Nat
  PROVE  /\ FirstOf(Correlated(n)) = 0 <=> Correlated(n) = {}
         /\ FirstOf(Correlated(n)) \in 0 .. n
         /\ FirstOf(Correlated(n + 1)) =
                IF Correlated(n) = {} /\ marks[n + 1].kind = "D" /\ Upto("C", n) # {} THEN n + 1
                ELSE FirstOf(Correlated(n))
  <1>1. Correlated(n) \subseteq 1 .. n /\ n + 1 \notin Correlated(n)
    BY DEF Correlated, Upto
  <1>2. \A i : i \in Correlated(n + 1) <=>
            i \in Correlated(n) \/ (i = n + 1 /\ marks[n + 1].kind = "D" /\ Upto("C", n) # {})
    <2> SUFFICES ASSUME NEW i
                 PROVE  i \in Correlated(n + 1) <=>
                            \/ i \in Correlated(n)
                            \/ i = n + 1 /\ marks[n + 1].kind = "D" /\ Upto("C", n) # {}
      OBVIOUS
    <2>1. \A kind, k : k \in Upto(kind, n + 1) <=>
              k \in Upto(kind, n) \/ (k = n + 1 /\ marks[n + 1].kind = kind)
      BY DEF Upto
    <2>2. \A kind : \A k \in Upto(kind, n) : k \in Nat /\ k < n + 1
      BY DEF Upto
    <2>3. CASE i \in Upto("D", n)
      <3>1. i # n + 1 /\ i < n + 1 /\ i \in Nat
        BY <2>2, <2>3
      <3>2. (\E c \in Upto("C", n + 1) : c < i) <=> (\E c \in Upto("C", n) : c < i)
        BY <2>1, <3>1
      <3> QED
        BY <2>1, <2>3, <3>1, <3>2 DEF Correlated
    <2>4. CASE i = n + 1
      <3>1. (\E c \in Upto("C", n + 1) : c < i) <=> Upto("C", n) # {}
        BY <2>1, <2>2, <2>4
      <3>2. i \notin Correlated(n)
        BY <1>1, <2>4
      <3> QED
        BY <2>1, <2>2, <2>4, <3>1, <3>2 DEF Correlated
    <2>5. CASE i \notin Upto("D", n) /\ i # n + 1
      BY <2>1, <2>5 DEF Correlated
    <2> QED
      BY <2>3, <2>4, <2>5
  <1>3. CASE marks[n + 1].kind = "D" /\ Upto("C", n) # {}
    <2>1. Correlated(n + 1) = Correlated(n) \cup {n + 1} /\ Correlated(n + 1) # Correlated(n)
      BY <1>1, <1>2, <1>3
    <2> QED
      BY <1>1, <1>3, <2>1, FirstOfMore
  <1>4. CASE ~(marks[n + 1].kind = "D" /\ Upto("C", n) # {})
    <2>1. Correlated(n + 1) = Correlated(n)
      BY <1>2, <1>4
    <2> QED
      BY <1>1, <1>4, <2>1, FirstOfMore
  <1> QED
    BY <1>3, <1>4

(***************************************************************************)
(* A boundary more counts if the sentinel comes before it.                   *)
(***************************************************************************)
LEMMA BoundedMore ==
  ASSUME NEW n \in Nat
  PROVE  /\ FirstOf(Bounded(n)) = 0 <=> Bounded(n) = {}
         /\ FirstOf(Bounded(n)) \in 0 .. n
         /\ FirstOf(Upto("S", n)) = 0 => Bounded(n) = {}
         /\ FirstOf(Bounded(n + 1)) =
                IF Bounded(n) = {} /\ marks[n + 1].kind = "B" /\ FirstOf(Upto("S", n)) # 0 THEN n + 1
                ELSE FirstOf(Bounded(n))
  <1> DEFINE s == FirstOf(Upto("S", n))
  <1>1. Bounded(n) \subseteq 1 .. n /\ n + 1 \notin Bounded(n)
    BY DEF Bounded, Upto
  <1>2. /\ s \in 0 .. n /\ (s = 0 <=> Upto("S", n) = {})
        /\ FirstOf(Upto("S", n + 1)) =
               IF Upto("S", n) = {} /\ marks[n + 1].kind = "S" THEN n + 1 ELSE s
    BY FirstStays
  <1>3. \A k : k \in Upto("B", n + 1) <=>
            k \in Upto("B", n) \/ (k = n + 1 /\ marks[n + 1].kind = "B")
    BY DEF Upto
  <1>4. \A k \in Upto("B", n) : k \in Nat /\ k < n + 1
    BY DEF Upto
  <1> HIDE DEF s
  <1>5. \A i : i \in Bounded(n) <=> i \in Upto("B", n) /\ s # 0 /\ s < i
    BY DEF Bounded, s
  <1>6. \A i : i \in Bounded(n + 1) <=>
            i \in Bounded(n) \/ (i = n + 1 /\ marks[n + 1].kind = "B" /\ s # 0)
    <2>1. CASE s # 0
      <3>1. FirstOf(Upto("S", n + 1)) = s /\ s < n + 1
        BY <1>2, <2>1
      <3>2. \A i : i \in Bounded(n + 1) <=> i \in Upto("B", n + 1) /\ s < i
        BY <2>1, <3>1 DEF Bounded
      <3> QED
        BY <1>3, <1>5, <2>1, <3>1, <3>2
    <2>2. CASE s = 0
      <3>1. FirstOf(Upto("S", n + 1)) \in {0, n + 1}
        BY <1>2, <2>2
      <3>2. Bounded(n + 1) = {}
        <4> SUFFICES ASSUME NEW i \in Bounded(n + 1) PROVE FALSE
          OBVIOUS
        <4>1. /\ i \in Upto("B", n + 1) /\ FirstOf(Upto("S", n + 1)) # 0
              /\ FirstOf(Upto("S", n + 1)) < i
          BY DEF Bounded
        <4>2. i \in Nat /\ i <= n + 1
          BY <4>1 DEF Upto
        <4> QED
          BY <3>1, <4>1, <4>2
      <3> QED
        BY <1>5, <2>2, <3>2
    <2> QED
      BY <2>1, <2>2
  <1>7. s = 0 => Bounded(n) = {}
    BY <1>5
  <1>8. CASE marks[n + 1].kind = "B" /\ s # 0
    <2>1. Bounded(n + 1) = Bounded(n) \cup {n + 1} /\ Bounded(n + 1) # Bounded(n)
      BY <1>1, <1>6, <1>8
    <2> QED
      BY <1>1, <1>7, <1>8, <2>1, FirstOfMore DEF s
  <1>9. CASE ~(marks[n + 1].kind = "B" /\ s # 0)
    <2>1. Bounded(n + 1) = Bounded(n)
      BY <1>6, <1>9
    <2> QED
      BY <1>1, <1>7, <1>9, <2>1, FirstOfMore DEF s
  <1> QED
    BY <1>8, <1>9

Modes == {"hooks", "sentinel", "bounded"}

(***************************************************************************)
(* A completion that was found stays the completion.                         *)
(***************************************************************************)
LEMMA CompletionStays ==
  ASSUME NEW n \in Nat, Mode \in Modes, CompletionIn(n) # 0
  PROVE  /\ CompletionIn(n) \in 0 .. n /\ CodeIn(n) \in 0 .. n
         /\ CompletionIn(n + 1) = CompletionIn(n) /\ CodeIn(n + 1) = CodeIn(n)
  <1>1. CASE Mode = "hooks"
    BY <1>1, CorrelatedMore DEF CompletionIn, CodeIn
  <1>2. CASE Mode = "sentinel"
    BY <1>2, FirstStays DEF CompletionIn, CodeIn
  <1>3. CASE Mode = "bounded"
    <2>1. CompletionIn(n) = FirstOf(Bounded(n)) /\ CompletionIn(n + 1) = FirstOf(Bounded(n + 1))
      BY <1>3 DEF CompletionIn
    <2>2. CodeIn(n) = FirstOf(Upto("S", n)) /\ CodeIn(n + 1) = FirstOf(Upto("S", n + 1))
      BY <1>3 DEF CodeIn
    <2>3. Bounded(n) # {} /\ FirstOf(Upto("S", n)) # 0
      BY <2>1, BoundedMore
    <2> QED
      BY <2>1, <2>2, <2>3, BoundedMore, FirstStays
  <1> QED
    BY <1>1, <1>2, <1>3 DEF Modes

(***************************************************************************)
(* The result of an earlier mark ends the loop's interest in the rest.       *)
(***************************************************************************)
LEMMA ObserveDone ==
  ASSUME NEW n \in Nat, Mode \in Modes, NEW v, Scanned(v, n), v.result # NoResult
  PROVE  Scanned(Observe(v, n + 1), n + 1)
  <1>1. Observe(v, n + 1) = v
    BY DEF Observe
  <1>2. /\ CompletionIn(n) # 0 /\ v.result = Done(CompletionIn(n), CodeIn(n))
        /\ v \in LoopStates /\ v.held \in Nat /\ v.held <= n + 1
    BY DEF Scanned, LoopStates
  <1>3. /\ CompletionIn(n) \in 0 .. n /\ CodeIn(n) \in 0 .. n
        /\ CompletionIn(n + 1) = CompletionIn(n) /\ CodeIn(n + 1) = CodeIn(n)
    BY <1>2, CompletionStays
  <1>4. CompletionIn(n + 1) <= n + 1 /\ CodeIn(n + 1) <= n + 1
    BY <1>3
  <1> QED
    BY <1>1, <1>2, <1>3, <1>4 DEF Scanned

(***************************************************************************)
(* The loop's state is made of its three parts, and a mark changes the C it  *)
(* saw, the completion it holds or the result.                               *)
(***************************************************************************)
LEMMA LoopParts ==
  ASSUME NEW v \in LoopStates
  PROVE  v.seenC \in BOOLEAN /\ v.held \in Nat /\ v.result \in Verdicts
  BY DEF LoopStates

LEMMA SawC ==
  ASSUME NEW v \in LoopStates, NEW w, w = [v EXCEPT !.seenC = TRUE, !.held = 0]
  PROVE  w \in LoopStates /\ w.seenC = TRUE /\ w.held = 0 /\ w.result = v.result
  BY DEF LoopStates

LEMMA HoldsIt ==
  ASSUME NEW v \in LoopStates, NEW at \in Nat, NEW w, w = [v EXCEPT !.held = at]
  PROVE  w \in LoopStates /\ w.seenC = v.seenC /\ w.held = at /\ w.result = v.result
  BY DEF LoopStates

LEMMA ReportsIt ==
  ASSUME NEW v \in LoopStates, NEW at \in Nat, NEW code \in Nat,
         NEW w, w = [v EXCEPT !.result = Done(at, code)]
  PROVE  /\ w \in LoopStates /\ w.held = v.held
         /\ w.result = Done(at, code) /\ w.result # NoResult
  <1>1. Done(at, code) \in Verdicts /\ Done(at, code) # NoResult
    BY DEF Done, Verdicts, NoResult
  <1> QED
    BY <1>1 DEF LoopStates

(***************************************************************************)
(* ObserveHooks: a C correlates the Ds after it and drops the held one.      *)
(***************************************************************************)
LEMMA HooksStep ==
  ASSUME NEW n \in Nat, Mode = "hooks", marks[n + 1].kind \in {"C", "D"},
         NEW v, Scanned(v, n), v.result = NoResult
  PROVE  Scanned(Observe(v, n + 1), n + 1)
  <1> DEFINE w == Observe(v, n + 1)
             k == marks[n + 1].kind
             found == FirstOf(Correlated(n))
             d == FirstOf(Upto("D", n))
  <1>1. w = ObserveHooks(v, n + 1)
    BY DEF Observe
  <1>2. /\ v \in LoopStates /\ v.held <= n
        /\ found = 0 /\ (v.seenC <=> Upto("C", n) # {})
        /\ v.held = IF Upto("C", n) = {} THEN d ELSE 0
    BY DEF Scanned, CompletionIn, HeldIn
  <1>3. v.seenC \in BOOLEAN /\ v.held \in Nat
    BY <1>2, LoopParts
  <1>4. /\ Upto("C", n + 1) # {} <=> (Upto("C", n) # {} \/ k = "C")
        /\ Upto("C", n + 1) = {} <=> (Upto("C", n) = {} /\ k # "C")
    BY OneMore
  <1>5. /\ d \in 0 .. n /\ (d = 0 <=> Upto("D", n) = {})
        /\ FirstOf(Upto("D", n + 1)) = IF Upto("D", n) = {} /\ k = "D" THEN n + 1 ELSE d
    BY FirstStays
  <1>6. /\ Correlated(n) = {}
        /\ FirstOf(Correlated(n + 1)) = IF k = "D" /\ Upto("C", n) # {} THEN n + 1 ELSE 0
    BY <1>2, CorrelatedMore
  <1>7. CompletionIn(n + 1) = FirstOf(Correlated(n + 1)) /\ CodeIn(n + 1) = CompletionIn(n + 1)
    BY DEF CompletionIn, CodeIn
  <1>8. HeldIn(n + 1) = IF Upto("C", n + 1) = {} THEN FirstOf(Upto("D", n + 1)) ELSE 0
    BY DEF HeldIn
  <1> HIDE DEF w, found, d
  <1>9. CASE k = "C" /\ ~v.seenC
    <2>1. w = [v EXCEPT !.seenC = TRUE, !.held = 0]
      BY <1>1, <1>9 DEF ObserveHooks
    <2>2. w \in LoopStates /\ w.seenC = TRUE /\ w.held = 0 /\ w.result = NoResult
      BY <1>2, <2>1, SawC
    <2>3. CompletionIn(n + 1) = 0 /\ HeldIn(n + 1) = 0 /\ Upto("C", n + 1) # {}
      BY <1>4, <1>6, <1>7, <1>8, <1>9
    <2> QED
      BY <2>2, <2>3 DEF Scanned, w
  <1>10. CASE k = "D" /\ v.seenC
    <2>1. w = [v EXCEPT !.result = Done(n + 1, n + 1)]
      BY <1>1, <1>10 DEF ObserveHooks
    <2>2. /\ w \in LoopStates /\ w.held = v.held /\ w.result = Done(n + 1, n + 1)
          /\ w.result # NoResult
      BY <1>2, <2>1, ReportsIt
    <2>3. CompletionIn(n + 1) = n + 1 /\ CodeIn(n + 1) = n + 1
      BY <1>2, <1>6, <1>7, <1>10
    <2>4. n + 1 # 0 /\ n + 1 <= n + 1 /\ w.held <= n + 1
      BY <1>2, <1>3, <2>2
    <2> QED
      BY <2>2, <2>3, <2>4 DEF Scanned, w
  <1>11. CASE k = "D" /\ ~v.seenC /\ v.held = 0
    <2>1. w = [v EXCEPT !.held = n + 1]
      BY <1>1, <1>11 DEF ObserveHooks
    <2>2. w \in LoopStates /\ w.seenC = v.seenC /\ w.held = n + 1 /\ w.result = NoResult
      BY <1>2, <2>1, HoldsIt
    <2>3. CompletionIn(n + 1) = 0 /\ HeldIn(n + 1) = n + 1 /\ (v.seenC <=> Upto("C", n + 1) # {})
      BY <1>2, <1>4, <1>5, <1>6, <1>7, <1>8, <1>11
    <2>4. n + 1 <= n + 1
      OBVIOUS
    <2> QED
      BY <2>2, <2>3, <2>4 DEF Scanned, w
  <1>12. CASE /\ ~(k = "C" /\ ~v.seenC) /\ ~(k = "D" /\ v.seenC)
              /\ ~(k = "D" /\ ~v.seenC /\ v.held = 0)
    <2>1. w = v
      BY <1>1, <1>12 DEF ObserveHooks
    <2>2. (k = "C" /\ v.seenC) \/ (k = "D" /\ ~v.seenC /\ v.held # 0)
      BY <1>3, <1>12
    <2>3. CompletionIn(n + 1) = 0
      BY <1>2, <1>6, <1>7, <2>2
    <2>4. v.seenC <=> Upto("C", n + 1) # {}
      BY <1>2, <1>4, <2>2
    <2>5. HeldIn(n + 1) = v.held
      BY <1>2, <1>4, <1>5, <1>8, <2>2
    <2>6. v.held <= n + 1
      BY <1>2, <1>3
    <2> QED
      BY <1>2, <2>1, <2>3, <2>4, <2>5, <2>6 DEF Scanned, w
  <1> QED
    BY <1>9, <1>10, <1>11, <1>12 DEF w

(***************************************************************************)
(* ObserveSentinel: the first sentinel is the completion.                    *)
(***************************************************************************)
LEMMA SentinelStep ==
  ASSUME NEW n \in Nat, Mode = "sentinel",
         NEW v, Scanned(v, n), v.result = NoResult
  PROVE  Scanned(Observe(v, n + 1), n + 1)
  <1> DEFINE w == Observe(v, n + 1)
             k == marks[n + 1].kind
  <1>1. w = IF k = "S" THEN [v EXCEPT !.result = Done(n + 1, n + 1)] ELSE v
    BY DEF Observe, ObserveSentinel
  <1>2. v \in LoopStates /\ v.held <= n /\ FirstOf(Upto("S", n)) = 0 /\ v.held = 0
    BY DEF Scanned, CompletionIn, HeldIn
  <1>3. FirstOf(Upto("S", n + 1)) = IF k = "S" THEN n + 1 ELSE 0
    BY <1>2, FirstStays
  <1>4. /\ CompletionIn(n + 1) = FirstOf(Upto("S", n + 1)) /\ CodeIn(n + 1) = CompletionIn(n + 1)
        /\ HeldIn(n + 1) = 0
    BY DEF CompletionIn, CodeIn, HeldIn
  <1> HIDE DEF w, k
  <1>5. CASE k = "S"
    <2>1. /\ w \in LoopStates /\ w.held = v.held /\ w.result = Done(n + 1, n + 1)
          /\ w.result # NoResult
      <3>1. w = [v EXCEPT !.result = Done(n + 1, n + 1)] /\ n + 1 \in Nat
        BY <1>1, <1>5
      <3> QED
        BY <1>2, <3>1, ReportsIt
    <2>2. CompletionIn(n + 1) = n + 1 /\ CodeIn(n + 1) = n + 1
      BY <1>3, <1>4, <1>5
    <2>3. n + 1 # 0 /\ n + 1 <= n + 1 /\ w.held <= n + 1
      BY <1>2, <2>1
    <2> QED
      BY <2>1, <2>2, <2>3 DEF Scanned, w
  <1>6. CASE k # "S"
    <2>1. w = v /\ CompletionIn(n + 1) = 0 /\ v.held <= n + 1
      BY <1>1, <1>2, <1>3, <1>4, <1>6
    <2> QED
      BY <1>2, <1>4, <2>1 DEF Scanned, w
  <1> QED
    BY <1>5, <1>6 DEF w

(***************************************************************************)
(* ObserveBounded: the boundary after the first sentinel is the completion,  *)
(* with the sentinel's exit code.                                            *)
(***************************************************************************)
LEMMA BoundedStep ==
  ASSUME NEW n \in Nat, Mode = "bounded", marks[n + 1].kind \in {"S", "B"},
         NEW v, Scanned(v, n), v.result = NoResult
  PROVE  Scanned(Observe(v, n + 1), n + 1)
  <1> DEFINE w == Observe(v, n + 1)
             k == marks[n + 1].kind
             s == FirstOf(Upto("S", n))
  <1>1. w = ObserveBounded(v, n + 1)
    BY DEF Observe
  <1>2. /\ v \in LoopStates /\ v.held <= n
        /\ FirstOf(Bounded(n)) = 0 /\ v.held = s
    BY DEF Scanned, CompletionIn, HeldIn
  <1>3. v.held \in Nat
    BY <1>2, LoopParts
  <1>4. /\ s \in 0 .. n /\ (s = 0 <=> Upto("S", n) = {})
        /\ FirstOf(Upto("S", n + 1)) = IF s = 0 /\ k = "S" THEN n + 1 ELSE s
    BY FirstStays
  <1>5. /\ Bounded(n) = {}
        /\ FirstOf(Bounded(n + 1)) = IF k = "B" /\ s # 0 THEN n + 1 ELSE 0
    BY <1>2, BoundedMore
  <1>6. /\ CompletionIn(n + 1) = FirstOf(Bounded(n + 1))
        /\ CodeIn(n + 1) = FirstOf(Upto("S", n + 1)) /\ HeldIn(n + 1) = FirstOf(Upto("S", n + 1))
    BY DEF CompletionIn, CodeIn, HeldIn
  <1> HIDE DEF w, s
  <1>7. CASE k = "S" /\ v.held = 0
    <2>1. w = [v EXCEPT !.held = n + 1]
      BY <1>1, <1>7 DEF ObserveBounded
    <2>2. w \in LoopStates /\ w.held = n + 1 /\ w.result = NoResult
      BY <1>2, <2>1, HoldsIt
    <2>3. CompletionIn(n + 1) = 0 /\ HeldIn(n + 1) = n + 1
      BY <1>2, <1>4, <1>5, <1>6, <1>7
    <2>4. n + 1 <= n + 1
      OBVIOUS
    <2> QED
      BY <2>2, <2>3, <2>4 DEF Scanned, w
  <1>8. CASE k = "B" /\ v.held # 0
    <2>1. w = [v EXCEPT !.result = Done(n + 1, v.held)]
      BY <1>1, <1>8 DEF ObserveBounded
    <2>2. /\ w \in LoopStates /\ w.held = v.held /\ w.result = Done(n + 1, v.held)
          /\ w.result # NoResult
      BY <1>2, <1>3, <2>1, ReportsIt
    <2>3. CompletionIn(n + 1) = n + 1 /\ CodeIn(n + 1) = v.held
      BY <1>2, <1>4, <1>5, <1>6, <1>8
    <2>4. n + 1 # 0 /\ n + 1 <= n + 1 /\ v.held <= n + 1
      BY <1>2, <1>3
    <2> QED
      BY <2>2, <2>3, <2>4 DEF Scanned, w
  <1>9. CASE ~(k = "S" /\ v.held = 0) /\ ~(k = "B" /\ v.held # 0)
    <2>1. w = v
      BY <1>1, <1>9 DEF ObserveBounded
    <2>2. CompletionIn(n + 1) = 0
      BY <1>2, <1>5, <1>6, <1>9
    <2>3. HeldIn(n + 1) = v.held /\ v.held <= n + 1
      BY <1>2, <1>3, <1>4, <1>6, <1>9
    <2> QED
      BY <1>2, <2>1, <2>2, <2>3 DEF Scanned, w
  <1> QED
    BY <1>7, <1>8, <1>9 DEF w

(***************************************************************************)
(* One mark more, in whichever mode.                                         *)
(***************************************************************************)
LEMMA ObserveStep ==
  ASSUME NEW n \in Nat, Mode \in Modes, marks[n + 1].kind \in Kinds,
         NEW v, Scanned(v, n)
  PROVE  Scanned(Observe(v, n + 1), n + 1)
  <1>1. Mode = "hooks" => marks[n + 1].kind \in {"C", "D"}
    BY DEF Kinds
  <1>2. Mode = "bounded" => marks[n + 1].kind \in {"S", "B"}
    BY DEF Kinds
  <1> QED
    BY <1>1, <1>2, ObserveDone, HooksStep, SentinelStep, BoundedStep DEF Modes

-----------------------------------------------------------------------------
(* A read: one mark after the other. *)

\* f holds what the loop knows after each of the marks a .. m, starting from v.
Follows(f, v, a, m) ==
    f = [i \in a - 1 .. m |-> IF i < a THEN v ELSE Observe(f[i - 1], i)]

(***************************************************************************)
(* There is such a function: the recursion over the marks of a read is well  *)
(* founded.                                                                  *)
(***************************************************************************)
LEMMA FollowsExists ==
  ASSUME NEW v, NEW a \in Positions, NEW m \in Nat
  PROVE  \E f : Follows(f, v, a, m)
  <1> DEFINE Bad == {k \in Nat : ~ \E f : Follows(f, v, a, k)}
  <1> SUFFICES ASSUME Bad # {} PROVE FALSE
    OBVIOUS
  <1>1. PICK k \in Bad : \A j \in Bad : k <= j
    <2>1. Bad \subseteq Nat
      OBVIOUS
    <2> HIDE DEF Bad
    <2> QED
      BY <2>1, LeastExists, Zenon
  <1>2. k \in Nat /\ (~ \E f : Follows(f, v, a, k)) /\ a \in Nat /\ a >= 1
    BY <1>1 DEF Positions
  <1>3. CASE k < a
    <2> DEFINE g == [i \in a - 1 .. k |-> v]
    <2>1. g = [i \in a - 1 .. k |-> IF i < a THEN v ELSE Observe(g[i - 1], i)]
      <3>1. \A i \in a - 1 .. k : i < a
        BY <1>2, <1>3
      <3> QED
        BY <3>1
    <2>2. Follows(g, v, a, k)
      BY <2>1, Zenon DEF Follows
    <2> QED
      BY <1>2, <2>2
  <1>4. CASE k >= a
    <2>1. k - 1 \in Nat /\ k - 1 \notin Bad
      BY <1>1, <1>2, <1>4
    <2>2. PICK f : Follows(f, v, a, k - 1)
      BY <2>1
    <2> DEFINE g == [i \in a - 1 .. k |-> IF i < k THEN f[i] ELSE Observe(f[k - 1], k)]
               h == [i \in a - 1 .. k |-> IF i < a THEN v ELSE Observe(g[i - 1], i)]
    <2>3. \A i \in a - 1 .. k - 1 : f[i] = IF i < a THEN v ELSE Observe(f[i - 1], i)
      <3>1. f = [i \in a - 1 .. k - 1 |-> IF i < a THEN v ELSE Observe(f[i - 1], i)]
        BY <2>2, Zenon DEF Follows
      <3> QED
        BY <3>1
    <2>4. \A i \in a - 1 .. k : g[i] = h[i]
      <3> SUFFICES ASSUME NEW i \in a - 1 .. k PROVE g[i] = h[i]
        OBVIOUS
      <3>1. i \in Int /\ a - 1 <= i /\ i <= k /\ h[i] = IF i < a THEN v ELSE Observe(g[i - 1], i)
        BY <1>2
      <3>2. CASE i < a
        <4>1. (i < k /\ i \in a - 1 .. k - 1) \/ i = k
          BY <1>2, <1>4, <3>1
        <4>2. i < k /\ i \in a - 1 .. k - 1
          BY <1>2, <1>4, <3>1, <3>2, <4>1
        <4>3. g[i] = f[i]
          BY <4>2
        <4> QED
          BY <2>3, <3>1, <3>2, <4>2, <4>3
      <3>3. CASE i >= a
        <4>1. i - 1 \in a - 1 .. k /\ i - 1 < k
          BY <1>2, <3>1, <3>3
        <4>2. g[i - 1] = f[i - 1]
          BY <4>1
        <4>3. h[i] = Observe(f[i - 1], i)
          BY <1>2, <3>1, <3>3, <4>2
        <4>4. CASE i < k
          <5>1. i \in a - 1 .. k - 1 /\ g[i] = f[i]
            BY <1>2, <3>1, <4>4
          <5> QED
            BY <1>2, <2>3, <3>1, <3>3, <4>3, <5>1
        <4>5. CASE i = k
          <5>1. g[i] = Observe(f[k - 1], k)
            BY <4>5
          <5> QED
            BY <4>3, <4>5, <5>1
        <4> QED
          BY <1>2, <3>1, <4>4, <4>5
      <3> QED
        BY <1>2, <3>1, <3>2, <3>3
    <2>5. g = h
      BY <2>4
    <2>6. Follows(g, v, a, k)
      BY <2>5, Zenon DEF Follows
    <2> QED
      BY <1>2, <2>6
  <1> QED
    BY <1>2, <1>3, <1>4

(***************************************************************************)
(* Feed: a read of all the marks after n, one after the other, leaves what   *)
(* one scan of everything would.                                             *)
(***************************************************************************)
LEMMA FeedScanned ==
  ASSUME NEW n \in Nat, Mode \in Modes, marks \in Seq([kind : Kinds]), n <= Len(marks),
         NEW v, Scanned(v, n)
  PROVE  Scanned(Feed(v, n + 1, Len(marks)), Len(marks))
  <1> DEFINE m == Len(marks)
             f == CHOOSE g : Follows(g, v, n + 1, m)
  <1>1. m \in Nat /\ n + 1 \in Positions /\ n <= m
    BY DEF Positions
  <1>2. \A i \in n + 1 .. m : marks[i].kind \in Kinds
    <2>1. \A i \in 1 .. Len(marks) : marks[i] \in [kind : Kinds]
      BY ElementOfSeq, Zenon
    <2>2. \A i \in n + 1 .. m : i \in 1 .. Len(marks)
      OBVIOUS
    <2> QED
      BY <2>1, <2>2
  <1>3. Feed(v, n + 1, Len(marks)) = f[m]
    BY Zenon DEF Feed, ObserveAll, Follows
  <1> HIDE DEF m
  <1>4. Follows(f, v, n + 1, m)
    BY <1>1, FollowsExists, Zenon
  <1> HIDE DEF f
  <1>5. f = [i \in (n + 1) - 1 .. m |-> IF i < n + 1 THEN v ELSE Observe(f[i - 1], i)]
    BY <1>4, Zenon DEF Follows
  <1>6. \A i \in n .. m : f[i] = IF i < n + 1 THEN v ELSE Observe(f[i - 1], i)
    <2>1. (n + 1) - 1 = n
      OBVIOUS
    <2> QED
      BY <1>5, <2>1
  <1> DEFINE Bad == {k \in n .. m : ~ Scanned(f[k], k)}
  <1>7. Bad = {}
    <2> SUFFICES ASSUME Bad # {} PROVE FALSE
      OBVIOUS
    <2>1. PICK k \in Bad : \A j \in Bad : k <= j
      <3>1. Bad \subseteq Nat
        BY <1>1
      <3> HIDE DEF Bad
      <3> QED
        BY <3>1, LeastExists, Zenon
    <2>2. k \in n .. m /\ ~ Scanned(f[k], k)
      BY <2>1
    <2>3. CASE k = n
      <3>1. f[k] = v
        BY <1>1, <1>6, <2>2, <2>3
      <3> QED
        BY <2>2, <2>3, <3>1
    <2>4. CASE k # n
      <3> DEFINE p == k - 1
      <3>1. p \in n .. m /\ p \notin Bad /\ p \in Nat /\ k = p + 1 /\ k \in n + 1 .. m
        BY <1>1, <2>1, <2>2, <2>4
      <3>2. Scanned(f[p], p) /\ marks[p + 1].kind \in Kinds
        BY <1>2, <3>1
      <3>3. f[k] = Observe(f[p], p + 1)
        BY <1>1, <1>6, <2>2, <3>1
      <3> HIDE DEF p
      <3>4. Scanned(Observe(f[p], p + 1), p + 1)
        BY <3>1, <3>2, ObserveStep
      <3> QED
        BY <2>2, <3>1, <3>3, <3>4
    <2> QED
      BY <2>3, <2>4
  <1>8. m \in n .. m
    BY <1>1
  <1>9. Scanned(f[m], m)
    BY <1>7, <1>8
  <1> QED
    BY <1>3, <1>9 DEF m

-----------------------------------------------------------------------------
(* The scan of a prefix. *)

(***************************************************************************)
(* At and its readers, in the first n of the marks s, are about the first n  *)
(* marks.                                                                    *)
(***************************************************************************)
LEMMA AtPrefix ==
  ASSUME marks \in Seq([kind : Kinds]), NEW n \in 0 .. Len(marks), NEW kind, NEW after \in Nat
  PROVE  At(SubSeq(marks, 1, n), after, kind) = {i \in Upto(kind, n) : after < i}
  <1> DEFINE s == SubSeq(marks, 1, n)
  <1>1. Len(marks) \in Nat /\ n \in Nat /\ n <= Len(marks)
    OBVIOUS
  <1>2. Len(s) = n /\ \A i \in 1 .. n : s[i] = marks[i]
    <2>1. Len(s) = IF 1 <= n THEN n - 1 + 1 ELSE 0
      BY <1>1, SubSeqProperties
    <2>2. \A i \in 1 .. n : s[i] = marks[i]
      BY <1>1
    <2> QED
      BY <1>1, <2>1, <2>2
  <1> HIDE DEF s
  <1>3. \A i : i \in after + 1 .. n <=> i \in 1 .. n /\ after < i
    BY <1>1
  <1>4. At(s, after, kind) = {i \in after + 1 .. n : s[i].kind = kind}
    BY <1>2 DEF At
  <1>5. \A i : i \in At(s, after, kind) <=> i \in Upto(kind, n) /\ after < i
    BY <1>2, <1>3, <1>4 DEF Upto
  <1> QED
    BY <1>5 DEF s

(***************************************************************************)
(* What the properties call seen is what a scan of the first off marks finds. *)
(***************************************************************************)
LEMMA SeenIs ==
  ASSUME marks \in Seq([kind : Kinds]), off \in 0 .. Len(marks), Mode \in Modes
  PROVE  /\ At(Seen, 0, "C") = Upto("C", off)
         /\ SeenCompletion = CompletionIn(off)
         /\ SeenHeld = HeldIn(off)
         /\ FirstSentinel(Seen, 0) = FirstOf(Upto("S", off))
  <1>1. \A kind : At(Seen, 0, kind) = Upto(kind, off)
    <2> SUFFICES ASSUME NEW kind PROVE At(Seen, 0, kind) = Upto(kind, off)
      OBVIOUS
    <2>1. At(Seen, 0, kind) = {i \in Upto(kind, off) : 0 < i}
      BY AtPrefix DEF Seen
    <2>2. \A i \in Upto(kind, off) : 0 < i
      BY DEF Upto
    <2> QED
      BY <2>1, <2>2
  <1>2. FirstSentinel(Seen, 0) = FirstOf(Upto("S", off))
    BY <1>1 DEF FirstSentinel
  <1>3. SeenHeld = HeldIn(off)
    BY <1>1, <1>2 DEF SeenHeld, HeldIn, HeldD, Modes
  <1>4. SeenCompletion = CompletionIn(off)
    <2>1. CASE Mode = "hooks"
      <3>1. SeenCompletion = CorrelatedD(Seen, 0) /\ CompletionIn(off) = FirstOf(Correlated(off))
        BY <2>1 DEF SeenCompletion, CompletionIn
      <3>2. At(Seen, 0, "D") = Upto("D", off) /\ At(Seen, 0, "C") = Upto("C", off)
        BY <1>1
      <3>3. CorrelatedD(Seen, 0) = FirstOf(Correlated(off))
        BY <3>2, Zenon DEF CorrelatedD, Correlated
      <3> QED
        BY <3>1, <3>3
    <2>2. CASE Mode = "sentinel"
      BY <1>2, <2>2 DEF SeenCompletion, CompletionIn
    <2>3. CASE Mode = "bounded"
      <3> DEFINE s == FirstOf(Upto("S", off))
      <3>1. s \in 0 .. off
        BY FirstStays
      <3>2. SeenCompletion = IF s = 0 THEN 0 ELSE FirstOf(At(Seen, s, "B"))
        BY <1>2, <2>3 DEF SeenCompletion, BoundedEnd
      <3>3. CompletionIn(off) = FirstOf(Bounded(off))
        BY <2>3 DEF CompletionIn
      <3>4. At(Seen, s, "B") = {i \in Upto("B", off) : s < i}
        BY <3>1, AtPrefix DEF Seen
      <3>5. s = 0 => Bounded(off) = {}
        BY BoundedMore
      <3>6. s # 0 => Bounded(off) = At(Seen, s, "B")
        BY <3>4 DEF Bounded
      <3>7. FirstOf({}) = 0
        BY DEF FirstOf
      <3> QED
        BY <3>2, <3>3, <3>5, <3>6, <3>7
    <2> QED
      BY <2>1, <2>2, <2>3 DEF Modes
  <1> QED
    BY <1>1, <1>2, <1>3, <1>4

(***************************************************************************)
(* A scan of marks that are still there finds what it found.                 *)
(***************************************************************************)
LEMMA ScanKept ==
  ASSUME NEW m \in Nat, off' = m, how' = how, \A i \in 1 .. m : marks'[i] = marks[i],
         Mode \in Modes
  PROVE  /\ Upto("C", off)' = Upto("C", m)
         /\ CompletionIn(off)' = CompletionIn(m)
         /\ HeldIn(off)' = HeldIn(m)
         /\ CodeIn(off)' = CodeIn(m)
  <1>1. \A kind : {i \in 1 .. off' : marks'[i].kind = kind} = Upto(kind, m)
    BY DEF Upto
  <1>2. \A kind \in MarkKinds : Upto(kind, off)' = Upto(kind, m)
    BY <1>1 DEF Upto
  <1>3. /\ Upto("C", off)' = Upto("C", m) /\ Upto("D", off)' = Upto("D", m)
        /\ Upto("S", off)' = Upto("S", m) /\ Upto("B", off)' = Upto("B", m)
    BY <1>2 DEF MarkKinds
  <1>4. Correlated(off)' = Correlated(m) /\ Bounded(off)' = Bounded(m)
    BY <1>3 DEF Correlated, Bounded
  <1>5. Mode' = Mode
    BY DEF Mode
  <1>6. CompletionIn(off)' = CompletionIn(m)
    BY <1>3, <1>4, <1>5 DEF CompletionIn, Modes
  <1>7. HeldIn(off)' = HeldIn(m)
    BY <1>3, <1>5 DEF HeldIn, Modes
  <1>8. CodeIn(off)' = CodeIn(m)
    BY <1>3, <1>5, <1>6 DEF CodeIn
  <1> QED
    BY <1>3, <1>6, <1>7, <1>8

-----------------------------------------------------------------------------
(* The invariant of the loop. *)

(***************************************************************************)
(* A loop that has not returned knows what a scan of everything read would,  *)
(* and one that has was right to.                                            *)
(***************************************************************************)
Knows ==
    pc # "returned" =>
        /\ result = NoResult
        /\ CompletionIn(off) = 0
        /\ held = HeldIn(off)
        /\ Mode = "hooks" => (seenC <=> Upto("C", off) # {})

DoneRight ==
    result.outcome = "done" =>
        \/ result.at = CompletionIn(off) /\ result.code = CodeIn(off)
        \/ /\ CompletionIn(off) = 0
           /\ result.at = HeldIn(off) /\ result.code = HeldIn(off) /\ HeldIn(off) # 0
           /\ graceUp \/ pastDeadline

OthersRight ==
    result.outcome \in {"awaiting-input", "timeout"} =>
        /\ CompletionIn(off) = 0
        /\ HeldIn(off) = 0 \/ (result.outcome = "awaiting-input" /\ Mode = "hooks")

WatchInv == TypeOK /\ Knows /\ DoneRight /\ OthersRight

(***************************************************************************)
(* The modes of a wait.                                                      *)
(***************************************************************************)
LEMMA ModeIs == TypeOK => Mode \in Modes
  BY WatchAssumption DEF TypeOK, Wait, Mode, Modes

(***************************************************************************)
(* The invariant says what the properties say.                               *)
(***************************************************************************)
LEMMA InvImplies == WatchInv => ChunksDoNotMatter /\ VerdictIsRight
  <1> SUFFICES ASSUME WatchInv PROVE ChunksDoNotMatter /\ VerdictIsRight
    OBVIOUS
  <1>1. TypeOK /\ Knows /\ DoneRight /\ OthersRight /\ Mode \in Modes
    BY ModeIs DEF WatchInv
  <1>2. /\ At(Seen, 0, "C") = Upto("C", off)
        /\ SeenCompletion = CompletionIn(off)
        /\ SeenHeld = HeldIn(off)
        /\ FirstSentinel(Seen, 0) = FirstOf(Upto("S", off))
    BY <1>1, SeenIs DEF TypeOK
  <1>3. seenC \in BOOLEAN
    BY <1>1 DEF TypeOK
  <1>4. ChunksDoNotMatter
    BY <1>1, <1>2, <1>3 DEF Knows, ChunksDoNotMatter
  <1>5. DoneIsJustified
    BY <1>1, <1>2 DEF DoneRight, DoneIsJustified, CodeIn
  <1>6. CompletionBeatsTheRest
    BY <1>1, <1>2 DEF OthersRight, CompletionBeatsTheRest
  <1> QED
    BY <1>4, <1>5, <1>6 DEF VerdictIsRight

(***************************************************************************)
(* Before the first read nothing is known.                                   *)
(***************************************************************************)
LEMMA InitInv == Init => WatchInv
  <1> SUFFICES ASSUME Init PROVE WatchInv
    OBVIOUS
  <1>1. PICK n \in 0 .. InitMarks : marks \in [1 .. n -> [kind : Kinds]]
    BY DEF Init
  <1>2. n \in Nat /\ n <= MaxMarks
    BY <1>1, WatchAssumption
  <1>3. marks \in Seq([kind : Kinds]) /\ Len(marks) = n
    <2> DEFINE M == [kind : Kinds]
    <2> HIDE DEF M
    <2>1. marks \in [1 .. n -> M] /\ n \in Nat
      BY <1>1, <1>2 DEF M
    <2>2. marks \in Seq(M) /\ Len(marks) = n
      BY <2>1
    <2> QED
      BY <2>2 DEF M
  <1>4. TypeOK
    <2>1. result \in [outcome : {"none", "done", "timeout", "awaiting-input"},
                      at : 0 .. Len(marks), code : 0 .. Len(marks)]
      BY <1>2, <1>3 DEF Init, NoResult
    <2>2. pastDeadline \in BOOLEAN
      BY DEF Init
    <2>3. off \in 0 .. Len(marks) /\ held \in 0 .. off
      BY <1>2, <1>3 DEF Init
    <2> QED
      BY <1>2, <1>3, <2>1, <2>2, <2>3, Zenon DEF Init, TypeOK
  <1>5. \A kind : Upto(kind, 0) = {}
    BY DEF Upto
  <1>6. Correlated(0) = {} /\ Bounded(0) = {} /\ FirstOf({}) = 0
    BY <1>5 DEF Correlated, Bounded, FirstOf
  <1>7. CompletionIn(0) = 0 /\ HeldIn(0) = 0
    BY <1>4, <1>5, <1>6, ModeIs DEF CompletionIn, HeldIn, Modes
  <1>8. Knows /\ DoneRight /\ OthersRight
    BY <1>5, <1>7 DEF Init, Knows, DoneRight, OthersRight, NoResult
  <1> QED
    BY <1>4, <1>8 DEF WatchInv

-----------------------------------------------------------------------------
(* The steps. *)

(***************************************************************************)
(* Read: the marks raw.log gained are observed one after the other, on top   *)
(* of what the earlier polls left.                                           *)
(***************************************************************************)
LEMMA ReadKeeps == WatchInv /\ Read => WatchInv'
  <1> SUFFICES ASSUME WatchInv, Read PROVE WatchInv'
    OBVIOUS
  <1> DEFINE v == [seenC |-> seenC, held |-> held, result |-> NoResult]
             m == Len(marks)
             w == Feed(v, off + 1, m)
  <1>1. TypeOK /\ Knows /\ pc = "read" /\ Mode \in Modes
    BY ModeIs DEF WatchInv, Read
  <1>2. /\ marks \in Seq([kind : Kinds]) /\ m \in Nat /\ off \in Nat /\ off <= m
        /\ held \in Nat /\ held <= off /\ seenC \in BOOLEAN
    <2>1. marks \in Seq([kind : Kinds]) /\ off \in 0 .. m /\ held \in 0 .. off /\ seenC \in BOOLEAN
      BY <1>1 DEF TypeOK
    <2>2. m \in Nat
      BY <2>1, LenProperties, Zenon
    <2> QED
      BY <2>1, <2>2
  <1>3. Scanned(v, off)
    <2>1. v \in LoopStates /\ v.held = held /\ v.result = NoResult /\ v.seenC = seenC
      BY <1>2 DEF LoopStates, Verdicts, NoResult
    <2>2. CompletionIn(off) = 0 /\ held = HeldIn(off) /\ (Mode = "hooks" => (seenC <=> Upto("C", off) # {}))
      BY <1>1 DEF Knows
    <2> QED
      BY <1>2, <2>1, <2>2 DEF Scanned
  <1>4. /\ seenC' = w.seenC /\ held' = w.held /\ result' = w.result
        /\ graceUp' = (graceUp /\ w.held = held)
        /\ pc' = IF w.result = NoResult THEN "check" ELSE "returned"
        /\ off' = m /\ how' = how /\ marks' = marks
        /\ pastDeadline' = pastDeadline /\ quiet' = quiet
    BY DEF Read
  <1> HIDE DEF v, m
  <1>5. Scanned(w, m)
    BY <1>1, <1>2, <1>3, FeedScanned DEF m
  <1> HIDE DEF w
  <1>6. /\ Upto("C", off)' = Upto("C", m) /\ CompletionIn(off)' = CompletionIn(m)
        /\ HeldIn(off)' = HeldIn(m) /\ CodeIn(off)' = CodeIn(m)
    BY <1>1, <1>2, <1>4, ScanKept
  <1>7. /\ w.seenC \in BOOLEAN /\ w.held \in Nat /\ w.held <= m /\ w.result \in Verdicts
        /\ w \in LoopStates
    BY <1>5, LoopParts DEF Scanned
  <1>8. Mode' = Mode
    BY <1>4 DEF Mode
  <1>9. CASE w.result = NoResult
    <2>1. CompletionIn(m) = 0 /\ w.held = HeldIn(m) /\ (Mode = "hooks" => (w.seenC <=> Upto("C", m) # {}))
      BY <1>5, <1>9 DEF Scanned
    <2>2. Knows'
      BY <1>4, <1>6, <1>8, <1>9, <2>1 DEF Knows
    <2>3. result'.outcome = "none"
      BY <1>4, <1>9 DEF NoResult
    <2>4. DoneRight' /\ OthersRight'
      BY <2>3 DEF DoneRight, OthersRight
    <2>5. result' \in [outcome : {"none", "done", "timeout", "awaiting-input"},
                       at : 0 .. Len(marks'), code : 0 .. Len(marks')]
      BY <1>2, <1>4, <1>9 DEF NoResult, m
    <2>6. TypeOK'
      BY <1>1, <1>2, <1>4, <1>7, <2>5 DEF TypeOK, Kinds, Mode, m
    <2> QED
      BY <2>2, <2>4, <2>6 DEF WatchInv
  <1>10. CASE w.result # NoResult
    <2>1. /\ CompletionIn(m) # 0 /\ CompletionIn(m) <= m /\ CodeIn(m) <= m
          /\ w.result = Done(CompletionIn(m), CodeIn(m))
      BY <1>5, <1>10 DEF Scanned
    <2>2. Knows'
      BY <1>4, <1>10 DEF Knows
    <2>3. result'.outcome = "done" /\ result'.at = CompletionIn(m) /\ result'.code = CodeIn(m)
      BY <1>4, <2>1 DEF Done
    <2>4. DoneRight' /\ OthersRight'
      BY <1>6, <2>3 DEF DoneRight, OthersRight
    <2>5. result' \in [outcome : {"none", "done", "timeout", "awaiting-input"},
                       at : 0 .. Len(marks'), code : 0 .. Len(marks')]
      <3>1. CompletionIn(m) \in 0 .. m /\ CodeIn(m) \in 0 .. m
        BY <1>1, <1>2, <2>1, CompletionStays
      <3> QED
        BY <1>2, <1>4, <2>1, <3>1 DEF Done, m
    <2>6. TypeOK'
      BY <1>1, <1>2, <1>4, <1>7, <2>5 DEF TypeOK, Kinds, Mode, m
    <2> QED
      BY <2>2, <2>4, <2>6 DEF WatchInv
  <1> QED
    BY <1>9, <1>10

(***************************************************************************)
(* Steps that read nothing leave what the loop knows as it was, if the marks *)
(* it has read are still there: Emit only appends.                           *)
(***************************************************************************)
LEMMA ReadsNothing ==
  ASSUME TypeOK, how' = how, off' = off, marks' = marks \/ Emit
  PROVE  /\ Upto("C", off)' = Upto("C", off) /\ CompletionIn(off)' = CompletionIn(off)
         /\ HeldIn(off)' = HeldIn(off) /\ CodeIn(off)' = CodeIn(off) /\ Mode' = Mode
         /\ marks' \in Seq([kind : Kinds]) /\ Len(marks') <= MaxMarks
         /\ Len(marks) \in Nat /\ Len(marks') \in Nat /\ Len(marks) <= Len(marks')
  <1> DEFINE M == [kind : Kinds]
  <1> HIDE DEF M
  <1>1. marks \in Seq(M) /\ off \in 0 .. Len(marks) /\ Len(marks) <= MaxMarks /\ MaxMarks \in Nat
    BY WatchAssumption DEF TypeOK, M
  <1>2. Len(marks) \in Nat /\ off \in Nat /\ off <= Len(marks)
    <2>1. Len(marks) \in Nat
      BY <1>1, LenProperties, Zenon
    <2> QED
      BY <1>1, <2>1
  <1>3. /\ \A i \in 1 .. Len(marks) : marks'[i] = marks[i]
        /\ marks' \in Seq(M) /\ Len(marks') <= MaxMarks
        /\ Len(marks') \in Nat /\ Len(marks) <= Len(marks')
    <2>1. CASE marks' = marks
      BY <1>1, <1>2, <2>1
    <2>2. CASE Emit
      <3>1. PICK x \in M : marks' = Append(marks, x) /\ Len(marks) < MaxMarks
        <4>1. \A k \in Kinds : [kind |-> k] \in M
          BY DEF M
        <4> QED
          BY <2>2, <4>1 DEF Emit
      <3>2. /\ marks' \in Seq(M) /\ Len(marks') = Len(marks) + 1
            /\ \A i \in 1 .. Len(marks) : marks'[i] = marks[i]
        BY <1>1, <3>1, AppendProperties
      <3> QED
        BY <1>1, <1>2, <3>1, <3>2
    <2> QED
      BY <2>1, <2>2
  <1>4. \A i \in 1 .. off : marks'[i] = marks[i]
    BY <1>2, <1>3
  <1>5. Mode \in Modes /\ Mode' = Mode
    BY ModeIs DEF Mode
  <1>6. /\ Upto("C", off)' = Upto("C", off) /\ CompletionIn(off)' = CompletionIn(off)
        /\ HeldIn(off)' = HeldIn(off) /\ CodeIn(off)' = CodeIn(off)
    BY <1>2, <1>4, <1>5, ScanKept
  <1> QED
    BY <1>2, <1>3, <1>5, <1>6 DEF M

(***************************************************************************)
(* The shell's marks and the timers: nothing the loop knows or reported      *)
(* depends on them, but for timers that ran out.                             *)
(***************************************************************************)
LEMMA WorldKeeps ==
  ASSUME WatchInv, Emit \/ GraceElapses \/ DeadlinePasses \/ Quiesces \/ UNCHANGED vars
  PROVE  WatchInv'
  <1>1. /\ how' = how /\ off' = off /\ (marks' = marks \/ Emit)
        /\ seenC' = seenC /\ held' = held /\ pc' = pc /\ result' = result
    BY DEF Emit, GraceElapses, DeadlinePasses, Quiesces, vars
  <1>2. /\ graceUp => graceUp'
        /\ pastDeadline => pastDeadline'
        /\ graceUp' \in BOOLEAN /\ pastDeadline' \in BOOLEAN /\ quiet' \in BOOLEAN
    BY DEF WatchInv, TypeOK, Emit, GraceElapses, DeadlinePasses, Quiesces, vars
  <1>3. TypeOK /\ Knows /\ DoneRight /\ OthersRight
    BY DEF WatchInv
  <1>4. /\ Upto("C", off)' = Upto("C", off) /\ CompletionIn(off)' = CompletionIn(off)
        /\ HeldIn(off)' = HeldIn(off) /\ CodeIn(off)' = CodeIn(off) /\ Mode' = Mode
        /\ marks' \in Seq([kind : Kinds]) /\ Len(marks') <= MaxMarks
        /\ Len(marks) \in Nat /\ Len(marks') \in Nat /\ Len(marks) <= Len(marks')
    BY <1>1, <1>3, ReadsNothing
  <1>5. TypeOK'
    <2>1. off' \in 0 .. Len(marks') /\ held' \in 0 .. off'
      BY <1>1, <1>3, <1>4 DEF TypeOK
    <2>2. result' \in [outcome : {"none", "done", "timeout", "awaiting-input"},
                       at : 0 .. Len(marks'), code : 0 .. Len(marks')]
      <3>1. result \in [outcome : {"none", "done", "timeout", "awaiting-input"},
                        at : 0 .. Len(marks), code : 0 .. Len(marks)]
        BY <1>3 DEF TypeOK
      <3>2. 0 .. Len(marks) \subseteq 0 .. Len(marks')
        BY <1>4
      <3> QED
        BY <1>1, <3>1, <3>2
    <2>3. marks' \in Seq([kind : Kinds'])
      BY <1>4 DEF Kinds
    <2> QED
      BY <1>1, <1>2, <1>3, <1>4, <2>1, <2>2, <2>3, Zenon DEF TypeOK
  <1>6. Knows'
    BY <1>1, <1>3, <1>4 DEF Knows
  <1>7. DoneRight'
    BY <1>1, <1>2, <1>3, <1>4 DEF DoneRight
  <1>8. OthersRight'
    BY <1>1, <1>3, <1>4 DEF OthersRight
  <1> QED
    BY <1>5, <1>6, <1>7, <1>8 DEF WatchInv

(***************************************************************************)
(* Check: the held completion, the prompt and the deadline, in that order.   *)
(***************************************************************************)
LEMMA CheckKeeps == WatchInv /\ Check => WatchInv'
  <1> SUFFICES ASSUME WatchInv, Check PROVE WatchInv'
    OBVIOUS
  <1>1. TypeOK /\ Knows /\ pc = "check" /\ LoopUnchanged
    BY DEF WatchInv, Check, AcceptHeld, SeePrompt, GiveUp, PollAgain
  <1>2. /\ how' = how /\ off' = off /\ marks' = marks
        /\ seenC' = seenC /\ held' = held
        /\ graceUp' = graceUp /\ pastDeadline' = pastDeadline /\ quiet' = quiet
    BY <1>1 DEF LoopUnchanged
  <1>3. /\ Upto("C", off)' = Upto("C", off) /\ CompletionIn(off)' = CompletionIn(off)
        /\ HeldIn(off)' = HeldIn(off) /\ CodeIn(off)' = CodeIn(off) /\ Mode' = Mode
        /\ Len(marks) \in Nat
    BY <1>1, <1>2, ReadsNothing
  <1>4. /\ CompletionIn(off) = 0 /\ held = HeldIn(off) /\ result = NoResult
        /\ Mode = "hooks" => (seenC <=> Upto("C", off) # {})
    BY <1>1 DEF Knows
  <1>5. held \in 0 .. Len(marks) /\ off \in 0 .. Len(marks)
    BY <1>1, <1>3 DEF TypeOK
  <1>6. \A r \in [outcome : {"none", "done", "timeout", "awaiting-input"},
                  at : 0 .. Len(marks), code : 0 .. Len(marks)] :
            result' = r /\ pc' \in {"read", "check", "returned"} => TypeOK'
    BY <1>1, <1>2 DEF TypeOK, Kinds, Mode
  <1>7. CASE AcceptHeld
    <2>1. held # 0 /\ (graceUp \/ pastDeadline) /\ result' = Done(held, held) /\ pc' = "returned"
      BY <1>7 DEF AcceptHeld, HeldDue, Return
    <2>2. TypeOK'
      BY <1>5, <1>6, <2>1 DEF Done
    <2>3. result'.outcome = "done" /\ result'.at = held /\ result'.code = held
      BY <2>1 DEF Done
    <2>4. DoneRight'
      BY <1>2, <1>3, <1>4, <2>1, <2>3 DEF DoneRight
    <2>5. OthersRight' /\ Knows'
      BY <2>1, <2>3 DEF OthersRight, Knows
    <2> QED
      BY <2>2, <2>4, <2>5 DEF WatchInv
  <1>8. CASE SeePrompt
    <2>1. /\ Mode = "hooks" \/ held = 0
          /\ result' = [outcome |-> "awaiting-input", at |-> 0, code |-> 0] /\ pc' = "returned"
      BY <1>8 DEF SeePrompt, Return
    <2>2. TypeOK'
      BY <1>3, <1>6, <2>1
    <2>3. result'.outcome = "awaiting-input"
      BY <2>1
    <2>4. OthersRight'
      BY <1>3, <1>4, <2>1, <2>3 DEF OthersRight
    <2>5. DoneRight' /\ Knows'
      BY <2>1, <2>3 DEF DoneRight, Knows
    <2> QED
      BY <2>2, <2>4, <2>5 DEF WatchInv
  <1>9. CASE GiveUp
    <2>1. /\ pastDeadline /\ pc' = "returned"
          /\ result' = IF held # 0 THEN Done(held, held)
                       ELSE [outcome |-> "timeout", at |-> 0, code |-> 0]
      BY <1>9 DEF GiveUp, Return
    <2>2. TypeOK'
      BY <1>3, <1>5, <1>6, <2>1 DEF Done
    <2>3. /\ held # 0 => result'.outcome = "done" /\ result'.at = held /\ result'.code = held
          /\ held = 0 => result'.outcome = "timeout"
      BY <2>1 DEF Done
    <2>4. DoneRight'
      BY <1>2, <1>3, <1>4, <2>1, <2>3 DEF DoneRight
    <2>5. OthersRight' /\ Knows'
      BY <1>3, <1>4, <2>1, <2>3 DEF OthersRight, Knows
    <2> QED
      BY <2>2, <2>4, <2>5 DEF WatchInv
  <1>10. CASE PollAgain
    <2>1. pc' = "read" /\ result' = result
      BY <1>10 DEF PollAgain
    <2>2. TypeOK'
      BY <1>1, <1>6, <2>1 DEF TypeOK
    <2>3. Knows'
      BY <1>2, <1>3, <1>4, <2>1 DEF Knows
    <2>4. DoneRight' /\ OthersRight'
      BY <1>4, <2>1 DEF DoneRight, OthersRight, NoResult
    <2> QED
      BY <2>2, <2>3, <2>4 DEF WatchInv
  <1> QED
    BY <1>7, <1>8, <1>9, <1>10 DEF Check

(***************************************************************************)
(* Whatever step the loop, the shell or a timer takes.                       *)
(***************************************************************************)
LEMMA NextKeeps == WatchInv /\ [Next]_vars => WatchInv'
  BY ReadKeeps, CheckKeeps, WorldKeeps DEF Next

-----------------------------------------------------------------------------
(* The theorems. *)

(***************************************************************************)
(* The loop's state keeps to its types (detect.waitCompletionCorrelated,     *)
(* waitCompletion, CompletionWatcher).                                       *)
(***************************************************************************)
THEOREM WatchTypeOK == Spec => []TypeOK
  <1>1. WatchInv => TypeOK
    BY DEF WatchInv
  <1> QED
    BY <1>1, InitInv, NextKeeps, PTL DEF Spec

(***************************************************************************)
(* However raw.log is cut into polls, a loop that is still waiting knows what *)
(* one scan of everything it read would know and has passed no completion    *)
(* over: the persistent Scanner, the C it saw and the completion it holds    *)
(* back (detect/wait.go:95-97) say the same for streams of any length.       *)
(***************************************************************************)
THEOREM OneScanOrMany == Spec => []ChunksDoNotMatter
  BY InitInv, NextKeeps, InvImplies, PTL DEF Spec

(***************************************************************************)
(* What a loop reports is right in every order of polls, prompts and timers: *)
(* a completion is the correlated one, or the held one after its grace       *)
(* period or at the deadline, with its own exit code, and no prompt or       *)
(* timeout is reported over a completion the loop has read                   *)
(* (detect/wait.go:248, detect/await.go:377-378).                            *)
(***************************************************************************)
THEOREM WatchReportsRight == Spec => []VerdictIsRight
  BY InitInv, NextKeeps, InvImplies, PTL DEF Spec

-----------------------------------------------------------------------------
(* The scanner reads one more byte. *)

\* A byte, as Bytes has it; the proofs use no more of it than its name.
Byte == STRING

\* t is the stream st and one byte more, b.
Grown(t, st, b) ==
    /\ st \in Seq(Byte) /\ t \in Seq(Byte) /\ b \in Byte
    /\ Len(t) = Len(st) + 1 /\ t[Len(t)] = b
    /\ \A k \in 1..Len(st) : t[k] = st[k]

(***************************************************************************)
(* Appending a byte grows a stream by it.                                    *)
(***************************************************************************)
LEMMA AppendGrows ==
  ASSUME NEW st \in Seq(Byte), NEW b \in Byte
  PROVE  Grown(Append(st, b), st, b)
  BY AppendProperties, LenProperties DEF Grown

(***************************************************************************)
(* What was read stays what it was: a stretch that ends before the new byte  *)
(* is the same stretch.                                                      *)
(***************************************************************************)
LEMMA GrownStretch ==
  ASSUME NEW st, NEW t, NEW b, Grown(t, st, b),
         NEW i \in Nat \ {0}, NEW j \in Int, j <= Len(st)
  PROVE  SubSeq(t, i, j) = SubSeq(st, i, j)
  <1>1. st \in Seq(Byte) /\ t \in Seq(Byte) /\ j <= Len(t) /\ Len(st) \in Nat /\ Len(t) = Len(st) + 1
        /\ \A k \in 1..Len(st) : t[k] = st[k]
    BY DEF Grown
  <1>2. SubSeq(t, i, j) = [k \in 1..(j - i + 1) |-> t[i + k - 1]]
    BY <1>1
  <1>3. SubSeq(st, i, j) = [k \in 1..(j - i + 1) |-> st[i + k - 1]]
    BY <1>1
  <1>4. \A k \in 1..(j - i + 1) : t[i + k - 1] = st[i + k - 1]
    BY <1>1
  <1> QED
    BY <1>2, <1>3, <1>4

(***************************************************************************)
(* The stretch that ends with the new byte is the old one and that byte.     *)
(***************************************************************************)
LEMMA GrownTail ==
  ASSUME NEW st, NEW t, NEW b, Grown(t, st, b),
         NEW i \in Nat \ {0}, i <= Len(st) + 1
  PROVE  SubSeq(t, i, Len(t)) = Append(SubSeq(st, i, Len(st)), b)
  <1>1. st \in Seq(Byte) /\ t \in Seq(Byte) /\ b \in Byte /\ Len(st) \in Nat /\ Len(t) = Len(st) + 1
        /\ t[Len(t)] = b /\ \A k \in 1..Len(st) : t[k] = st[k]
    BY LenProperties DEF Grown
  <1> DEFINE w == SubSeq(st, i, Len(st))
             u == SubSeq(t, i, Len(t))
             v == Append(w, b)
             n == Len(t) - i + 1
  <1>2. u \in Seq(Byte) /\ Len(u) = n /\ \A k \in 1..n : u[k] = t[i + k - 1]
    <2>1. \A k \in i..Len(t) : t[k] \in Byte
      BY <1>1, ElementOfSeq
    <2> QED
      BY <1>1, <2>1, SubSeqProperties
  <1>3. w \in Seq(Byte) /\ Len(w) = n - 1 /\ \A k \in 1..n - 1 : w[k] = st[i + k - 1]
    <2>1. \A k \in i..Len(st) : st[k] \in Byte
      BY <1>1, ElementOfSeq
    <2> QED
      BY <1>1, <2>1, SubSeqProperties
  <1>4. v \in Seq(Byte) /\ Len(v) = n /\ v[n] = b /\ \A k \in 1..n - 1 : v[k] = st[i + k - 1]
    <2>1. n \in Nat /\ (n - 1) + 1 = n
      BY <1>1
    <2> HIDE DEF w, n
    <2>2. Append(w, b) \in Seq(Byte) /\ Len(Append(w, b)) = Len(w) + 1 /\ Append(w, b)[Len(w) + 1] = b
          /\ \A k \in 1..Len(w) : Append(w, b)[k] = w[k]
      BY <1>1, <1>3, AppendProperties
    <2> QED
      BY <1>3, <2>1, <2>2
  <1>5. \A k \in 1..n : u[k] = v[k]
    <2> SUFFICES ASSUME NEW k \in 1..n PROVE u[k] = v[k]
      OBVIOUS
    <2>1. CASE k = n
      BY <1>1, <1>2, <1>4, <2>1
    <2>2. CASE k # n
      <3>1. k \in 1..n - 1 /\ i + k - 1 \in 1..Len(st)
        BY <1>1, <2>2
      <3> QED
        BY <1>1, <1>2, <1>4, <3>1
    <2> QED
      BY <2>1, <2>2
  <1> HIDE DEF u, v, n
  <1>6. u = v
    BY <1>2, <1>4, <1>5, SeqEqual
  <1> QED
    BY <1>6 DEF u, v, w

(***************************************************************************)
(* An OSC that has not ended before a byte that was read stays such.         *)
(***************************************************************************)
LEMMA OpenGrown ==
  ASSUME NEW st, NEW t, NEW b, Grown(t, st, b), NEW i, NEW j \in Int, j <= Len(st) + 1
  PROVE  OscOpen(t, i, j) <=> OscOpen(st, i, j)
  <1>1. CASE i \in 1..(j - 2)
    <2>1. /\ i \in 1..Len(st) /\ i + 1 \in 1..Len(st)
          /\ \A k \in (i + 2)..(j - 1) : k \in 1..Len(st)
      BY <1>1, LenProperties DEF Grown
    <2>2. t[i] = st[i] /\ t[i + 1] = st[i + 1] /\ \A k \in (i + 2)..(j - 1) : t[k] = st[k]
      BY <2>1 DEF Grown
    <2> QED
      BY <2>2, Zenon DEF OscOpen
  <1>2. CASE i \notin 1..(j - 2)
    BY <1>2 DEF OscOpen
  <1> QED
    BY <1>1, <1>2

(***************************************************************************)
(* At most one OSC is open at a time: an ESC within it would have ended it.  *)
(***************************************************************************)
LEMMA OneIsOpen ==
  ASSUME NEW s, NEW i, NEW k, NEW j \in Int, OscOpen(s, i, j), OscOpen(s, k, j)
  PROVE  i = k
  <1>1. /\ i \in Int /\ k \in Int /\ i + 1 <= j - 1 /\ k + 1 <= j - 1 /\ s[i] = "ESC" /\ s[k] = "ESC"
        /\ s[i + 1] = "]" /\ s[k + 1] = "]"
        /\ \A x \in (i + 2)..(j - 1) : s[x] # "ESC"
        /\ \A x \in (k + 2)..(j - 1) : s[x] # "ESC"
    BY DEF OscOpen
  <1>2. k # i + 1 /\ i # k + 1 /\ ~ (k \in (i + 2)..(j - 1)) /\ ~ (i \in (k + 2)..(j - 1))
    BY <1>1
  <1> QED
    BY <1>1, <1>2

(***************************************************************************)
(* An OSC is open after a byte that opened it, or if the byte let it go on.  *)
(***************************************************************************)
LEMMA OpenStep ==
  ASSUME NEW s, NEW i, NEW j \in Int
  PROVE  OscOpen(s, i, j + 1) <=>
            \/ i = j - 1 /\ i >= 1 /\ s[i] = "ESC" /\ s[j] = "]"
            \/ OscOpen(s, i, j) /\ s[j] \notin {"ESC", "BEL"} /\ j - (i + 1) <= PayloadCap
  <1>1. CASE i = j - 1
    BY <1>1, ScannerAssumption DEF OscOpen
  <1>2. CASE i # j - 1
    <2>1. SUFFICES ASSUME i \in 1..(j - 2)
                   PROVE  OscOpen(s, i, j + 1) <=>
                            OscOpen(s, i, j) /\ s[j] \notin {"ESC", "BEL"} /\ j - (i + 1) <= PayloadCap
      BY <1>2 DEF OscOpen
    <2>2. i \in Int /\ i <= j - 2 /\ j \in (i + 2)..j
      BY <2>1
    <2>3. \A x : x \in (i + 2)..j <=> (x \in (i + 2)..(j - 1) \/ x = j)
      BY <2>2
    <2> QED
      BY <2>1, <2>2, <2>3, ScannerAssumption DEF OscOpen
  <1> QED
    BY <1>1, <1>2
-----------------------------------------------------------------------------
(* What a byte does to a scanner. *)

\* sc is a record of a scanner's fields.
IsScanner(sc) ==
    sc = [state |-> sc.state, pos |-> sc.pos, markStart |-> sc.markStart, payload |-> sc.payload,
          bnd |-> sc.bnd, marks |-> sc.marks]

\* r differs from sc in what was read of an escape sequence only.
SameMatch(r, sc) == r.bnd = sc.bnd /\ r.marks = sc.marks

(***************************************************************************)
(* A byte outside any sequence begins one or is matched with the boundary.   *)
(***************************************************************************)
LEMMA ByteInGround ==
  ASSUME NEW sc, IsScanner(sc), sc.state = "ground", sc.pos \in Int, NEW b
  PROVE  LET r == ScanByte(sc, b)
             n == Matched(sc.bnd, b)
         IN  /\ IsScanner(r) /\ r.pos = sc.pos + 1
             /\ b = "ESC" => /\ r.state = "esc" /\ r.markStart = sc.pos
                             /\ r.bnd = 0 /\ r.marks = sc.marks
             /\ b # "ESC" => r.state = "ground" /\ r.markStart = sc.markStart
             /\ b # "ESC" /\ n = Len(Boundary) =>
                    r.bnd = 0 /\ r.marks = sc.marks \cup {BoundaryMark((sc.pos + 1) - n, sc.pos + 1)}
             /\ b # "ESC" /\ n # Len(Boundary) => r.bnd = n /\ r.marks = sc.marks
  <1> DEFINE end == sc.pos + 1
  <1>1. ScanByte(sc, b) = [GroundByte(sc, b, end) EXCEPT !.pos = end]
    BY DEF ScanByte
  <1>0. end - 1 = sc.pos /\ end - 2 = sc.pos - 1 /\ end = sc.pos + 1
    OBVIOUS
  <1> HIDE DEF end
  <1>2. CASE b = "ESC"
    BY <1>1, <1>0, <1>2 DEF GroundByte, IsScanner
  <1>3. CASE b # "ESC" /\ Matched(sc.bnd, b) = Len(Boundary)
    <2> DEFINE n == Matched(sc.bnd, b)
               more == sc.marks \cup {BoundaryMark(end - n, end)}
    <2>1. GroundByte(sc, b, end) = [sc EXCEPT !.bnd = 0, !.marks = more]
      <3>1. GroundByte(sc, b, end) = [sc EXCEPT !.bnd = 0, !.marks = @ \cup {BoundaryMark(end - n, end)}]
        BY <1>3, Zenon DEF GroundByte
      <3> QED
        BY <3>1
    <2>2. more = sc.marks \cup {BoundaryMark((sc.pos + 1) - n, sc.pos + 1)}
      BY DEF end
    <2> HIDE DEF n, more
    <2>3. LET r == ScanByte(sc, b)
          IN  IsScanner(r) /\ r.pos = end /\ r.state = "ground" /\ r.markStart = sc.markStart
              /\ r.bnd = 0 /\ r.marks = more
      BY <1>1, <2>1 DEF IsScanner
    <2> QED
      BY <1>3, <1>0, <2>2, <2>3 DEF n
  <1>4. CASE b # "ESC" /\ Matched(sc.bnd, b) # Len(Boundary)
    <2> DEFINE n == Matched(sc.bnd, b)
    <2>1. GroundByte(sc, b, end) = [sc EXCEPT !.bnd = n]
      BY <1>4, Zenon DEF GroundByte
    <2> HIDE DEF n
    <2>2. ScanByte(sc, b) = [[sc EXCEPT !.bnd = n] EXCEPT !.pos = end]
      BY <1>1, <2>1, Zenon
    <2>3. sc = [state |-> sc.state, pos |-> sc.pos, markStart |-> sc.markStart, payload |-> sc.payload,
                bnd |-> sc.bnd, marks |-> sc.marks]
      BY Zenon DEF IsScanner
    <2>4. ScanByte(sc, b) = [state |-> sc.state, pos |-> end, markStart |-> sc.markStart,
                payload |-> sc.payload, bnd |-> n, marks |-> sc.marks]
      BY <2>2, <2>3
    <2>5. LET r == ScanByte(sc, b)
          IN  IsScanner(r) /\ r.pos = end /\ r.state = "ground" /\ r.markStart = sc.markStart
              /\ r.bnd = n /\ r.marks = sc.marks
      <3> DEFINE r == ScanByte(sc, b)
      <3>1. r = [state |-> sc.state, pos |-> end, markStart |-> sc.markStart,
                 payload |-> sc.payload, bnd |-> n, marks |-> sc.marks]
        BY <2>4
      <3> HIDE DEF r
      <3>2. /\ r.state = sc.state /\ r.pos = end /\ r.markStart = sc.markStart
            /\ r.payload = sc.payload /\ r.bnd = n /\ r.marks = sc.marks
        BY <3>1
      <3>3. r = [state |-> r.state, pos |-> r.pos, markStart |-> r.markStart, payload |-> r.payload,
                 bnd |-> r.bnd, marks |-> r.marks]
        BY <3>1, <3>2, Zenon
      <3>4. IsScanner(r)
        BY <3>3, Zenon DEF IsScanner
      <3> QED
        BY <3>2, <3>4 DEF r
    <2> QED
      BY <1>4, <1>0, <2>5 DEF n
  <1> QED
    BY <1>2, <1>3, <1>4

(***************************************************************************)
(* The byte after an ESC opens an OSC, is another ESC, or ends the sequence. *)
(***************************************************************************)
LEMMA ByteAfterEsc ==
  ASSUME NEW sc, IsScanner(sc), sc.state = "esc", sc.pos \in Int, NEW b
  PROVE  LET r == ScanByte(sc, b)
         IN  /\ IsScanner(r) /\ r.pos = sc.pos + 1 /\ SameMatch(r, sc)
             /\ b = "]" => r.state = "osc" /\ r.markStart = sc.markStart /\ r.payload = <<>>
             /\ b = "ESC" => r.state = "esc" /\ r.markStart = sc.pos
             /\ b \notin {"]", "ESC"} => r.state = "ground" /\ r.markStart = sc.markStart
  <1> DEFINE end == sc.pos + 1
  <1>1. ScanByte(sc, b) = [EscapeByte(sc, b, end) EXCEPT !.pos = end]
    BY DEF ScanByte
  <1>0. end - 1 = sc.pos /\ end - 2 = sc.pos - 1 /\ end = sc.pos + 1
    OBVIOUS
  <1> HIDE DEF end
  <1>2. CASE b = "]"
    BY <1>1, <1>0, <1>2 DEF EscapeByte, IsScanner, SameMatch
  <1>3. CASE b = "ESC"
    BY <1>1, <1>0, <1>3 DEF EscapeByte, IsScanner, SameMatch
  <1>4. CASE b \notin {"]", "ESC"}
    BY <1>1, <1>0, <1>4 DEF EscapeByte, IsScanner, SameMatch
  <1> QED
    BY <1>2, <1>3, <1>4

(***************************************************************************)
(* A byte in an OSC ends it, may end it, or belongs to its payload.          *)
(***************************************************************************)
LEMMA ByteInOsc ==
  ASSUME NEW sc, IsScanner(sc), sc.state = "osc", sc.pos \in Int, NEW b
  PROVE  LET r    == ScanByte(sc, b)
             more == Append(sc.payload, b)
         IN  /\ IsScanner(r) /\ r.pos = sc.pos + 1 /\ r.markStart = sc.markStart /\ r.bnd = sc.bnd
             /\ b = "BEL" => /\ r.state = "ground"
                             /\ r.marks = sc.marks \cup MarkOf(sc.payload, sc.markStart, sc.pos + 1)
             /\ b # "BEL" => r.marks = sc.marks
             /\ b = "ESC" => r.state = "oscEsc" /\ r.payload = sc.payload
             /\ b \notin {"BEL", "ESC"} => IF Len(more) > PayloadCap THEN r.state = "ground"
                                          ELSE r.state = "osc" /\ r.payload = more
  <1> DEFINE end == sc.pos + 1
  <1>1. ScanByte(sc, b) = [OscByte(sc, b, end) EXCEPT !.pos = end]
    BY DEF ScanByte
  <1>0. end - 1 = sc.pos /\ end - 2 = sc.pos - 1 /\ end = sc.pos + 1
    OBVIOUS
  <1> HIDE DEF end
  <1>2. CASE b = "BEL"
    BY <1>1, <1>0, <1>2 DEF OscByte, Finish, IsScanner
  <1>3. CASE b = "ESC"
    BY <1>1, <1>0, <1>3 DEF OscByte, IsScanner
  <1>4. CASE b \notin {"BEL", "ESC"} /\ Len(Append(sc.payload, b)) > PayloadCap
    BY <1>1, <1>0, <1>4 DEF OscByte, IsScanner
  <1>5. CASE b \notin {"BEL", "ESC"} /\ ~ (Len(Append(sc.payload, b)) > PayloadCap)
    BY <1>1, <1>0, <1>5 DEF OscByte, IsScanner
  <1> QED
    BY <1>2, <1>3, <1>4, <1>5

(***************************************************************************)
(* The byte after an ESC in an OSC ends it, or begins something else.        *)
(***************************************************************************)
LEMMA ByteAfterOscEsc ==
  ASSUME NEW sc, IsScanner(sc), sc.state = "oscEsc", sc.pos \in Int, NEW b
  PROVE  LET r == ScanByte(sc, b)
         IN  /\ IsScanner(r) /\ r.pos = sc.pos + 1 /\ r.bnd = sc.bnd
             /\ b = "\\" => /\ r.state = "ground"
                            /\ r.marks = sc.marks \cup MarkOf(sc.payload, sc.markStart, sc.pos + 1)
             /\ b # "\\" => r.marks = sc.marks
             /\ b = "]" => r.state = "osc" /\ r.markStart = sc.pos - 1 /\ r.payload = <<>>
             /\ b = "ESC" => r.state = "esc" /\ r.markStart = sc.pos
             /\ b \notin {"\\", "]", "ESC"} => r.state = "ground"
             /\ b \notin {"]", "ESC"} => r.markStart = sc.markStart
  <1> DEFINE end == sc.pos + 1
  <1>1. ScanByte(sc, b) = [OscEscByte(sc, b, end) EXCEPT !.pos = end]
    BY DEF ScanByte
  <1>0. end - 1 = sc.pos /\ end - 2 = sc.pos - 1 /\ end = sc.pos + 1
    OBVIOUS
  <1> HIDE DEF end
  <1>2. CASE b = "\\"
    BY <1>1, <1>0, <1>2 DEF OscEscByte, Finish, IsScanner
  <1>3. CASE b = "]"
    BY <1>1, <1>0, <1>3 DEF OscEscByte, IsScanner
  <1>4. CASE b = "ESC"
    BY <1>1, <1>0, <1>4 DEF OscEscByte, IsScanner
  <1>5. CASE b \notin {"\\", "]", "ESC"}
    BY <1>1, <1>0, <1>5 DEF OscEscByte, IsScanner
  <1> QED
    BY <1>2, <1>3, <1>4, <1>5
-----------------------------------------------------------------------------
(* The escape sequences of a stream. *)

AtEsc(st) == Len(st) >= 1 /\ st[Len(st)] = "ESC"
NoOsc(st, j) == \A i : ~ OscOpen(st, i, j)

\* The OSC the scanner is in is open before j, with what it collected of it.
InOsc(sc, st, base, j) ==
    /\ OscOpen(st, (sc.markStart - base) + 1, j)
    /\ sc.payload = SubSeq(st, (sc.markStart - base) + 3, j - 1)

(***************************************************************************)
(* The scanner that read st, from offset base on, is in the sequence that st *)
(* ends in.                                                                  *)
(***************************************************************************)
InSequence(sc, st, base) ==
    /\ IsScanner(sc) /\ sc.pos = base + Len(st) /\ sc.markStart \in Int
    /\ \/ sc.state = "ground" /\ ~ AtEsc(st) /\ NoOsc(st, Len(st) + 1)
       \/ sc.state = "esc" /\ AtEsc(st) /\ NoOsc(st, Len(st)) /\ sc.markStart = sc.pos - 1
       \/ sc.state = "osc" /\ InOsc(sc, st, base, Len(st) + 1)
       \/ sc.state = "oscEsc" /\ AtEsc(st) /\ InOsc(sc, st, base, Len(st))

(***************************************************************************)
(* After an ESC no OSC is open: it ended the one that was.                   *)
(***************************************************************************)
LEMMA EscEndsOsc ==
  ASSUME NEW st \in Seq(Byte), AtEsc(st)
  PROVE  NoOsc(st, Len(st) + 1)
  <1> SUFFICES ASSUME NEW i PROVE ~ OscOpen(st, i, Len(st) + 1)
    BY Zenon DEF NoOsc
  <1>1. Len(st) \in Int /\ st[Len(st)] = "ESC"
    BY LenProperties DEF AtEsc
  <1> QED
    BY <1>1, OpenStep

(***************************************************************************)
(* The facts about a grown stream, by name.                                  *)
(***************************************************************************)
LEMMA GrownIs ==
  ASSUME NEW st, NEW t, NEW b, Grown(t, st, b)
  PROVE  /\ st \in Seq(Byte) /\ t \in Seq(Byte) /\ b \in Byte
         /\ Len(st) \in Nat /\ Len(t) = Len(st) + 1 /\ t[Len(st) + 1] = b
         /\ \A k \in 1..Len(st) : t[k] = st[k]
         /\ AtEsc(t) <=> b = "ESC"
         /\ AtEsc(st) => Len(st) >= 1 /\ t[Len(st)] = "ESC"
         /\ \A i : OscOpen(t, i, Len(st) + 1) <=> OscOpen(st, i, Len(st) + 1)
         /\ \A i : OscOpen(t, i, Len(st)) <=> OscOpen(st, i, Len(st))
  <1>1. /\ st \in Seq(Byte) /\ t \in Seq(Byte) /\ b \in Byte
        /\ Len(st) \in Nat /\ Len(t) = Len(st) + 1 /\ t[Len(st) + 1] = b
        /\ \A k \in 1..Len(st) : t[k] = st[k]
    BY LenProperties DEF Grown
  <1>2. AtEsc(t) <=> b = "ESC"
    BY <1>1 DEF AtEsc
  <1>3. AtEsc(st) => Len(st) >= 1 /\ t[Len(st)] = "ESC"
    BY <1>1 DEF AtEsc
  <1>4. \A i : OscOpen(t, i, Len(st) + 1) <=> OscOpen(st, i, Len(st) + 1)
    BY <1>1, OpenGrown
  <1>5. \A i : OscOpen(t, i, Len(st)) <=> OscOpen(st, i, Len(st))
    BY <1>1, OpenGrown
  <1> QED
    BY <1>1, <1>2, <1>3, <1>4, <1>5, Zenon

(***************************************************************************)
(* Which OSC is open after one more byte.                                    *)
(***************************************************************************)
LEMMA OpenAfter ==
  ASSUME NEW st, NEW t, NEW b, Grown(t, st, b), NEW i
  PROVE  OscOpen(t, i, Len(t) + 1) <=>
            \/ i = Len(st) /\ AtEsc(st) /\ b = "]"
            \/ OscOpen(st, i, Len(t)) /\ b \notin {"ESC", "BEL"} /\ Len(t) - (i + 1) <= PayloadCap
  <1>1. OscOpen(t, i, Len(t) + 1) <=>
            \/ i = Len(t) - 1 /\ i >= 1 /\ t[i] = "ESC" /\ t[Len(t)] = "]"
            \/ OscOpen(t, i, Len(t)) /\ t[Len(t)] \notin {"ESC", "BEL"} /\ Len(t) - (i + 1) <= PayloadCap
    <2>1. Len(t) \in Int
      BY GrownIs
    <2> QED
      BY <2>1, OpenStep
  <1>2. Len(t) \in Nat /\ Len(st) = Len(t) - 1 /\ t[Len(t)] = b
        /\ (OscOpen(t, i, Len(t)) <=> OscOpen(st, i, Len(t)))
    BY GrownIs
  <1>3. (i = Len(t) - 1 /\ i >= 1 /\ t[i] = "ESC") <=> (i = Len(st) /\ AtEsc(st))
    BY <1>2, GrownIs DEF AtEsc
  <1> QED
    BY <1>1, <1>2, <1>3, Zenon

(***************************************************************************)
(* Before the byte after an ESC that opened nothing, nothing is open.        *)
(***************************************************************************)
LEMMA OpenBefore ==
  ASSUME NEW st, NEW t, NEW b, Grown(t, st, b), AtEsc(st)
  PROVE  NoOsc(t, Len(t)) /\ NoOsc(st, Len(t))
  <1>1. NoOsc(st, Len(st) + 1)
    BY GrownIs, EscEndsOsc, Zenon
  <1> QED
    BY <1>1, GrownIs DEF NoOsc
(***************************************************************************)
(* A byte outside any sequence leaves the scanner in the sequence, if any,   *)
(* that the stream then ends in.                                             *)
(***************************************************************************)
LEMMA GroundSequence ==
  ASSUME NEW st, NEW t, NEW b, Grown(t, st, b), NEW base \in Nat, NEW sc,
         InSequence(sc, st, base), sc.state = "ground"
  PROVE  InSequence(ScanByte(sc, b), t, base)
  <1> DEFINE r == ScanByte(sc, b)
  <1>1. /\ IsScanner(sc) /\ sc.pos = base + Len(st) /\ sc.markStart \in Int
        /\ ~ AtEsc(st) /\ NoOsc(st, Len(st) + 1)
    BY DEF InSequence
  <1>2. Len(st) \in Nat /\ Len(t) = Len(st) + 1 /\ sc.pos \in Int
    BY <1>1, GrownIs
  <1>3. /\ IsScanner(r) /\ r.pos = sc.pos + 1
        /\ b = "ESC" => r.state = "esc" /\ r.markStart = sc.pos
        /\ b # "ESC" => r.state = "ground" /\ r.markStart = sc.markStart
    BY <1>1, <1>2, ByteInGround
  <1>4. NoOsc(t, Len(t)) /\ NoOsc(st, Len(t))
    BY <1>1, <1>2, GrownIs DEF NoOsc
  <1> HIDE DEF r
  <1>5. IsScanner(r) /\ r.pos = base + Len(t) /\ r.markStart \in Int
    BY <1>1, <1>2, <1>3
  <1>6. CASE b = "ESC"
    <2>1. AtEsc(t) /\ r.state = "esc" /\ r.markStart = r.pos - 1
      BY <1>2, <1>3, <1>6, GrownIs
    <2> QED
      BY <1>4, <1>5, <2>1 DEF InSequence, r
  <1>7. CASE b # "ESC"
    <2>1. ~ AtEsc(t) /\ r.state = "ground"
      BY <1>3, <1>7, GrownIs
    <2>2. NoOsc(t, Len(t) + 1)
      BY <1>1, <1>4, OpenAfter, Zenon DEF NoOsc
    <2> QED
      BY <1>5, <2>1, <2>2 DEF InSequence, r
  <1> QED
    BY <1>6, <1>7

(***************************************************************************)
(* So does the byte after an ESC.                                            *)
(***************************************************************************)
LEMMA EscSequence ==
  ASSUME NEW st, NEW t, NEW b, Grown(t, st, b), NEW base \in Nat, NEW sc,
         InSequence(sc, st, base), sc.state = "esc"
  PROVE  InSequence(ScanByte(sc, b), t, base)
  <1> DEFINE r == ScanByte(sc, b)
  <1>1. /\ IsScanner(sc) /\ sc.pos = base + Len(st) /\ sc.markStart \in Int
        /\ AtEsc(st) /\ sc.markStart = sc.pos - 1
    BY DEF InSequence
  <1>2. Len(st) \in Nat /\ Len(t) = Len(st) + 1 /\ sc.pos \in Int
    BY <1>1, GrownIs
  <1>3. /\ IsScanner(r) /\ r.pos = sc.pos + 1
        /\ b = "]" => r.state = "osc" /\ r.markStart = sc.markStart /\ r.payload = <<>>
        /\ b = "ESC" => r.state = "esc" /\ r.markStart = sc.pos
        /\ b \notin {"]", "ESC"} => r.state = "ground" /\ r.markStart = sc.markStart
    BY <1>1, <1>2, ByteAfterEsc
  <1>4. NoOsc(t, Len(t)) /\ NoOsc(st, Len(t))
    BY <1>1, OpenBefore
  <1> HIDE DEF r
  <1>5. IsScanner(r) /\ r.pos = base + Len(t) /\ r.markStart \in Int
    BY <1>1, <1>2, <1>3
  <1>6. CASE b = "ESC"
    <2>1. AtEsc(t) /\ r.state = "esc" /\ r.markStart = r.pos - 1
      BY <1>2, <1>3, <1>6, GrownIs
    <2> QED
      BY <1>4, <1>5, <2>1 DEF InSequence, r
  <1>7. CASE b = "]"
    <2>1. r.state = "osc" /\ (r.markStart - base) + 1 = Len(st) /\ r.payload = <<>>
      BY <1>1, <1>2, <1>3, <1>7
    <2>2. OscOpen(t, Len(st), Len(t) + 1)
      BY <1>1, <1>7, OpenAfter, Zenon
    <2>3. SubSeq(t, (r.markStart - base) + 3, (Len(t) + 1) - 1) = <<>>
      BY <1>2, <1>5, <2>1, SubSeqEmpty
    <2>4. InOsc(r, t, base, Len(t) + 1)
      BY <2>1, <2>2, <2>3 DEF InOsc
    <2> QED
      BY <1>5, <2>1, <2>4 DEF InSequence, r
  <1>8. CASE b \notin {"]", "ESC"}
    <2>1. ~ AtEsc(t) /\ r.state = "ground"
      BY <1>3, <1>8, GrownIs
    <2>2. NoOsc(t, Len(t) + 1)
      BY <1>4, <1>8, OpenAfter, Zenon DEF NoOsc
    <2> QED
      BY <1>5, <2>1, <2>2 DEF InSequence, r
  <1> QED
    BY <1>6, <1>7, <1>8

(***************************************************************************)
(* So does a byte in an OSC.                                                 *)
(***************************************************************************)
LEMMA OscSequence ==
  ASSUME NEW st, NEW t, NEW b, Grown(t, st, b), NEW base \in Nat, NEW sc,
         InSequence(sc, st, base), sc.state = "osc"
  PROVE  InSequence(ScanByte(sc, b), t, base)
  <1> DEFINE r == ScanByte(sc, b)
             i == (sc.markStart - base) + 1
             more == Append(sc.payload, b)
  <1>1. /\ IsScanner(sc) /\ sc.pos = base + Len(st) /\ sc.markStart \in Int
        /\ InOsc(sc, st, base, Len(st) + 1)
    BY DEF InSequence
  <1>2. Len(st) \in Nat /\ Len(t) = Len(st) + 1 /\ sc.pos \in Int /\ i \in Int
        /\ (sc.markStart - base) + 3 = i + 2 /\ (Len(st) + 1) - 1 = Len(st)
    BY <1>1, GrownIs
  <1>3. OscOpen(st, i, Len(t)) /\ sc.payload = SubSeq(st, i + 2, Len(st))
    BY <1>1, <1>2 DEF InOsc
  <1>4. /\ IsScanner(r) /\ r.pos = sc.pos + 1 /\ r.markStart = sc.markStart
        /\ b = "BEL" => r.state = "ground"
        /\ b = "ESC" => r.state = "oscEsc" /\ r.payload = sc.payload
        /\ b \notin {"BEL", "ESC"} => IF Len(more) > PayloadCap THEN r.state = "ground"
                                     ELSE r.state = "osc" /\ r.payload = more
    BY <1>1, <1>2, ByteInOsc
  <1>5. ~ AtEsc(st)
    BY <1>3, OpenBefore, Zenon DEF NoOsc
  <1>6. \A k : OscOpen(st, k, Len(t)) => k = i
    BY <1>2, <1>3, OneIsOpen
  <1>7. i >= 1 /\ i + 2 <= Len(st) + 1
    BY <1>2, <1>3 DEF OscOpen
  <1>8. SubSeq(t, i + 2, Len(t)) = more /\ Len(more) = Len(t) - (i + 1)
        /\ SubSeq(t, i + 2, Len(st)) = sc.payload
    <2>1. i + 2 \in Nat \ {0}
      BY <1>2, <1>7
    <2>2. SubSeq(t, i + 2, Len(t)) = more
      <3> DEFINE k == i + 2
      <3>1. k \in Nat \ {0} /\ k <= Len(st) + 1
        BY <1>7, <2>1
      <3>2. sc.payload = SubSeq(st, k, Len(st))
        BY <1>3
      <3> HIDE DEF k
      <3>3. SubSeq(t, k, Len(t)) = Append(SubSeq(st, k, Len(st)), b)
        BY <3>1, GrownTail
      <3> QED
        BY <3>2, <3>3, Zenon DEF k
    <2>3. SubSeq(t, i + 2, Len(st)) = sc.payload
      <3> DEFINE k == i + 2
      <3>1. k \in Nat \ {0} /\ Len(st) \in Int /\ Len(st) <= Len(st)
        BY <1>2, <2>1
      <3>2. sc.payload = SubSeq(st, k, Len(st))
        BY <1>3
      <3> HIDE DEF k
      <3>3. SubSeq(t, k, Len(st)) = SubSeq(st, k, Len(st))
        BY <3>1, GrownStretch
      <3> QED
        BY <3>2, <3>3, Zenon DEF k
    <2>4. Len(SubSeq(t, i + 2, Len(t))) = Len(t) - (i + 1)
      <3>1. \A k \in (i + 2)..Len(t) : t[k] \in Byte
        BY <1>2, <1>7, GrownIs, ElementOfSeq
      <3> QED
        BY <1>2, <1>7, <3>1, SubSeqProperties
    <2> QED
      BY <2>2, <2>3, <2>4, Zenon
  <1> HIDE DEF r, more
  <1>9. IsScanner(r) /\ r.pos = base + Len(t) /\ r.markStart \in Int
        /\ (r.markStart - base) + 1 = i /\ (r.markStart - base) + 3 = i + 2
    BY <1>1, <1>2, <1>4
  <1> HIDE DEF i
  <1>10. CASE b = "BEL"
    <2>1. ~ AtEsc(t) /\ r.state = "ground"
      BY <1>4, <1>10, GrownIs
    <2>2. NoOsc(t, Len(t) + 1)
      BY <1>5, <1>10, OpenAfter, Zenon DEF NoOsc
    <2> QED
      BY <1>9, <2>1, <2>2 DEF InSequence, r
  <1>11. CASE b = "ESC"
    <2>1. AtEsc(t) /\ r.state = "oscEsc" /\ r.payload = sc.payload
      BY <1>4, <1>11, GrownIs
    <2>2. OscOpen(t, i, Len(t)) /\ Len(t) - 1 = Len(st)
      BY <1>2, <1>3, GrownIs
    <2>3. InOsc(r, t, base, Len(t))
      BY <1>8, <1>9, <2>1, <2>2 DEF InOsc
    <2> QED
      BY <1>9, <2>1, <2>3 DEF InSequence, r
  <1>12. CASE b \notin {"BEL", "ESC"} /\ Len(more) > PayloadCap
    <2>1. ~ AtEsc(t) /\ r.state = "ground"
      BY <1>4, <1>12, GrownIs
    <2>2. ~ (Len(t) - (i + 1) <= PayloadCap)
      BY <1>2, <1>7, <1>8, <1>12, ScannerAssumption
    <2>3. NoOsc(t, Len(t) + 1)
      BY <1>5, <1>6, <2>2, OpenAfter, Zenon DEF NoOsc
    <2> QED
      BY <1>9, <2>1, <2>3 DEF InSequence, r
  <1>13. CASE b \notin {"BEL", "ESC"} /\ ~ (Len(more) > PayloadCap)
    <2>1. r.state = "osc" /\ r.payload = more
      BY <1>4, <1>13
    <2>2. Len(t) - (i + 1) <= PayloadCap /\ (Len(t) + 1) - 1 = Len(t)
      BY <1>2, <1>7, <1>8, <1>13, ScannerAssumption
    <2>3. OscOpen(t, i, Len(t) + 1)
      BY <1>3, <1>13, <2>2, OpenAfter, Zenon
    <2>4. InOsc(r, t, base, Len(t) + 1)
      BY <1>8, <1>9, <2>1, <2>2, <2>3 DEF InOsc
    <2> QED
      BY <1>9, <2>1, <2>4 DEF InSequence, r
  <1> QED
    BY <1>10, <1>11, <1>12, <1>13

(***************************************************************************)
(* So does the byte after an ESC in an OSC.                                  *)
(***************************************************************************)
LEMMA OscEscSequence ==
  ASSUME NEW st, NEW t, NEW b, Grown(t, st, b), NEW base \in Nat, NEW sc,
         InSequence(sc, st, base), sc.state = "oscEsc"
  PROVE  InSequence(ScanByte(sc, b), t, base)
  <1> DEFINE r == ScanByte(sc, b)
  <1>1. /\ IsScanner(sc) /\ sc.pos = base + Len(st) /\ sc.markStart \in Int /\ AtEsc(st)
    BY DEF InSequence
  <1>2. Len(st) \in Nat /\ Len(t) = Len(st) + 1 /\ sc.pos \in Int
    BY <1>1, GrownIs
  <1>3. /\ IsScanner(r) /\ r.pos = sc.pos + 1
        /\ b = "\\" => r.state = "ground"
        /\ b = "]" => r.state = "osc" /\ r.markStart = sc.pos - 1 /\ r.payload = <<>>
        /\ b = "ESC" => r.state = "esc" /\ r.markStart = sc.pos
        /\ b \notin {"\\", "]", "ESC"} => r.state = "ground"
        /\ b \notin {"]", "ESC"} => r.markStart = sc.markStart
    BY <1>1, <1>2, ByteAfterOscEsc
  <1>4. NoOsc(t, Len(t)) /\ NoOsc(st, Len(t))
    BY <1>1, OpenBefore
  <1> HIDE DEF r
  <1>5. IsScanner(r) /\ r.pos = base + Len(t) /\ r.markStart \in Int
    BY <1>1, <1>2, <1>3
  <1>6. CASE b = "ESC"
    <2>1. AtEsc(t) /\ r.state = "esc" /\ r.markStart = r.pos - 1
      BY <1>2, <1>3, <1>6, GrownIs
    <2> QED
      BY <1>4, <1>5, <2>1 DEF InSequence, r
  <1>7. CASE b = "]"
    <2>1. r.state = "osc" /\ (r.markStart - base) + 1 = Len(st) /\ r.payload = <<>>
      BY <1>1, <1>2, <1>3, <1>7
    <2>2. OscOpen(t, Len(st), Len(t) + 1)
      BY <1>1, <1>7, OpenAfter, Zenon
    <2>3. SubSeq(t, (r.markStart - base) + 3, (Len(t) + 1) - 1) = <<>>
      BY <1>2, <1>5, <2>1, SubSeqEmpty
    <2>4. InOsc(r, t, base, Len(t) + 1)
      BY <2>1, <2>2, <2>3 DEF InOsc
    <2> QED
      BY <1>5, <2>1, <2>4 DEF InSequence, r
  <1>8. CASE b \notin {"]", "ESC"}
    <2>1. ~ AtEsc(t) /\ r.state = "ground"
      BY <1>3, <1>8, GrownIs
    <2>2. NoOsc(t, Len(t) + 1)
      BY <1>4, <1>8, OpenAfter, Zenon DEF NoOsc
    <2> QED
      BY <1>5, <2>1, <2>2 DEF InSequence, r
  <1> QED
    BY <1>6, <1>7, <1>8

(***************************************************************************)
(* After every byte the scanner is in the sequence that the stream ends in.  *)
(***************************************************************************)
LEMMA SequenceStep ==
  ASSUME NEW st, NEW t, NEW b, Grown(t, st, b), NEW base \in Nat, NEW sc,
         InSequence(sc, st, base)
  PROVE  InSequence(ScanByte(sc, b), t, base)
  <1>1. sc.state \in {"ground", "esc", "osc", "oscEsc"}
    BY DEF InSequence
  <1> QED
    BY <1>1, GroundSequence, EscSequence, OscSequence, OscEscSequence
-----------------------------------------------------------------------------
(* Text, and the marks of the OSCs that ended. *)

(***************************************************************************)
(* What was text, or was not, stays so.                                      *)
(***************************************************************************)
LEMMA TextGrown ==
  ASSUME NEW st, NEW t, NEW b, Grown(t, st, b), NEW k \in 1..Len(st)
  PROVE  IsText(t, k) <=> IsText(st, k)
  <1>1. k \in Int /\ k <= Len(st) + 1 /\ \A e \in 1..k : t[e] = st[e]
    BY GrownIs
  <1>2. \A e \in 1..k : OscOpen(t, e, k) <=> OscOpen(st, e, k)
    BY <1>1, OpenGrown
  <1> QED
    BY <1>1, <1>2, Zenon DEF IsText

(***************************************************************************)
(* A byte is text if the scanner is in no sequence and it begins none.       *)
(***************************************************************************)
LEMMA TextAfter ==
  ASSUME NEW st, NEW t, NEW b, Grown(t, st, b), NEW base \in Nat, NEW sc,
         InSequence(sc, st, base)
  PROVE  IsText(t, Len(t)) <=> sc.state = "ground" /\ b # "ESC"
  <1> DEFINE n == Len(t)
  <1>1. /\ Len(st) \in Nat /\ n = Len(st) + 1 /\ n \in Nat /\ t[n] = b /\ n \in 1..n
        /\ \A e \in 1..n : e # n => e \in 1..Len(st) /\ t[e] = st[e]
    BY GrownIs
  <1> HIDE DEF n
  <1>2. CASE b = "ESC"
    BY <1>1, <1>2 DEF IsText, n
  <1>3. CASE b # "ESC" /\ sc.state = "ground"
    <2>1. ~ AtEsc(st) /\ NoOsc(st, Len(st) + 1)
      BY <1>3 DEF InSequence
    <2>2. ASSUME NEW e \in 1..n, t[e] = "ESC" PROVE n > e + 1 /\ ~ OscOpen(t, e, n)
      <3>1. e # n /\ e \in 1..Len(st) /\ st[e] = "ESC"
        BY <1>1, <1>3, <2>2
      <3>2. e # Len(st)
        BY <1>1, <2>1, <3>1 DEF AtEsc
      <3>3. ~ OscOpen(t, e, n)
        BY <1>1, <2>1, GrownIs DEF NoOsc
      <3> QED
        BY <1>1, <3>1, <3>2, <3>3
    <2>3. IsText(t, n)
      BY <2>2, Zenon DEF IsText
    <2> QED
      BY <1>3, <2>3 DEF n
  <1>4. CASE AtEsc(st)
    <2>1. t[Len(st)] = "ESC" /\ Len(st) \in 1..n /\ ~ (n > Len(st) + 1)
      BY <1>1, <1>4, GrownIs
    <2>2. ~ IsText(t, n)
      BY <2>1, Zenon DEF IsText
    <2>3. sc.state # "ground"
      BY <1>4 DEF InSequence
    <2> QED
      BY <2>2, <2>3 DEF n
  <1>5. CASE sc.state = "osc"
    <2>1. PICK i : OscOpen(st, i, Len(st) + 1)
      BY <1>5 DEF InSequence, InOsc
    <2>2. OscOpen(t, i, n)
      BY <1>1, <2>1, GrownIs
    <2>3. i \in 1..n /\ t[i] = "ESC"
      BY <1>1, <2>2 DEF OscOpen
    <2>4. ~ IsText(t, n)
      BY <2>2, <2>3, Zenon DEF IsText
    <2> QED
      BY <1>5, <2>4 DEF n
  <1>6. sc.state = "ground" \/ sc.state = "osc" \/ AtEsc(st)
    BY DEF InSequence
  <1> QED
    BY <1>2, <1>3, <1>4, <1>5, <1>6

(***************************************************************************)
(* The marks of a stream's OSCs, one by one.                                 *)
(***************************************************************************)
LEMMA OscMarksAre ==
  ASSUME NEW s, NEW base, NEW x
  PROVE  x \in OscMarks(s, base) <=>
            \E i, j \in 1..Len(s) : Closes(s, i, j) /\ x \in OscMark(s, base, i, j)
  <1>1. ASSUME x \in OscMarks(s, base)
        PROVE  \E i, j \in 1..Len(s) : Closes(s, i, j) /\ x \in OscMark(s, base, i, j)
    <2>1. PICK p \in Closed(s) : x \in OscMark(s, base, p[1], p[2])
      BY <1>1, Zenon DEF OscMarks
    <2>2. p[1] \in 1..Len(s) /\ p[2] \in 1..Len(s) /\ Closes(s, p[1], p[2])
      BY <2>1 DEF Closed
    <2> QED
      BY <2>1, <2>2, Zenon
  <1>2. ASSUME NEW i \in 1..Len(s), NEW j \in 1..Len(s), Closes(s, i, j), x \in OscMark(s, base, i, j)
        PROVE  x \in OscMarks(s, base)
    <2> DEFINE p == <<i, j>>
    <2>1. p[1] = i /\ p[2] = j /\ p \in (1..Len(s)) \X (1..Len(s))
      OBVIOUS
    <2> HIDE DEF p
    <2>2. p \in Closed(s)
      BY <1>2, <2>1, Zenon DEF Closed
    <2> QED
      BY <1>2, <2>1, <2>2, Zenon DEF OscMarks
  <1> QED
    BY <1>1, <1>2, Zenon

(***************************************************************************)
(* Where OSCs end after one more byte: where they did, and at this byte or   *)
(* the ESC before it.                                                        *)
(***************************************************************************)
LEMMA ClosesAfter ==
  ASSUME NEW st, NEW t, NEW b, Grown(t, st, b), NEW i, NEW j \in 1..Len(t)
  PROVE  Closes(t, i, j) <=>
            \/ j <= Len(st) /\ Closes(st, i, j)
            \/ j = Len(st) /\ OscOpen(st, i, Len(st)) /\ AtEsc(st) /\ b = "\\"
            \/ j = Len(t) /\ OscOpen(st, i, Len(t)) /\ b = "BEL"
  <1>1. /\ Len(st) \in Nat /\ Len(t) = Len(st) + 1 /\ j \in Int /\ j >= 1 /\ j <= Len(st) + 1
        /\ t[Len(t)] = b /\ (OscOpen(t, i, j) <=> OscOpen(st, i, j))
        /\ \A k \in 1..Len(st) : t[k] = st[k]
    BY GrownIs, OpenGrown
  <1>2. CASE j = Len(t)
    BY <1>1, <1>2 DEF Closes
  <1>3. CASE j = Len(st)
    BY <1>1, <1>3 DEF Closes, AtEsc
  <1>4. CASE j < Len(st)
    <2>1. t[j] = st[j] /\ t[j + 1] = st[j + 1] /\ j < Len(t)
      BY <1>1, <1>4
    <2> QED
      BY <1>1, <1>4, <2>1 DEF Closes
  <1> QED
    BY <1>1, <1>2, <1>3, <1>4

(***************************************************************************)
(* The mark of an OSC that ended earlier is the same.                        *)
(***************************************************************************)
LEMMA OscMarkGrown ==
  ASSUME NEW st, NEW t, NEW b, Grown(t, st, b), NEW base, NEW i \in Nat \ {0}, NEW j \in 1..Len(st)
  PROVE  OscMark(t, base, i, j) = OscMark(st, base, i, j)
  <1> DEFINE k == i + 2
             m == j - 1
  <1>1. k \in Nat \ {0} /\ m \in Int /\ m <= Len(st) /\ t[j] = st[j]
    BY GrownIs
  <1> HIDE DEF k, m
  <1>2. SubSeq(t, k, m) = SubSeq(st, k, m)
    BY <1>1, GrownStretch
  <1> QED
    BY <1>1, <1>2, Zenon DEF OscMark, k, m

\* The mark that a byte completes, if any.
NewMark(sc, b) ==
    IF (sc.state = "osc" /\ b = "BEL") \/ (sc.state = "oscEsc" /\ b = "\\")
    THEN MarkOf(sc.payload, sc.markStart, sc.pos + 1) ELSE {}

(***************************************************************************)
(* The scanner completes a mark just when the stream then holds it.          *)
(***************************************************************************)
LEMMA OscMarksAfter ==
  ASSUME NEW st, NEW t, NEW b, Grown(t, st, b), NEW base \in Nat, NEW sc,
         InSequence(sc, st, base)
  PROVE  OscMarks(t, base) = OscMarks(st, base) \cup NewMark(sc, b)
  <1> DEFINE n == Len(t)
             i == (sc.markStart - base) + 1
             EndsAt(k, j) == \/ j = Len(st) /\ OscOpen(st, k, Len(st)) /\ AtEsc(st) /\ b = "\\"
                             \/ j = n /\ OscOpen(st, k, n) /\ b = "BEL"
             Ended(x) == \E k, j \in 1..n : EndsAt(k, j) /\ x \in OscMark(t, base, k, j)
  <1>1. /\ st \in Seq(Byte) /\ Len(st) \in Nat /\ n = Len(st) + 1 /\ n \in Nat /\ t[n] = b
        /\ sc.pos = base + Len(st) /\ sc.markStart \in Int /\ i \in Int
    BY GrownIs DEF InSequence
  <1> HIDE DEF n, i
  <1>2. \A x : x \in OscMarks(t, base) <=> (x \in OscMarks(st, base) \/ Ended(x))
    <2> TAKE x
    <2>1. ASSUME x \in OscMarks(t, base) PROVE x \in OscMarks(st, base) \/ Ended(x)
      <3>1. PICK k \in 1..n, j \in 1..n : Closes(t, k, j) /\ x \in OscMark(t, base, k, j)
        BY <2>1, OscMarksAre, Zenon DEF n
      <3>2. CASE j <= Len(st) /\ Closes(st, k, j)
        <4>1. k \in Nat \ {0} /\ j \in 1..Len(st) /\ k \in 1..Len(st)
          BY <1>1, <3>1, <3>2 DEF Closes, OscOpen
        <4>2. x \in OscMark(st, base, k, j)
          BY <3>1, <4>1, OscMarkGrown
        <4> QED
          BY <3>2, <4>1, <4>2, OscMarksAre, Zenon
      <3>3. CASE ~ (j <= Len(st) /\ Closes(st, k, j))
        <4>1. \/ j = Len(st) /\ OscOpen(st, k, Len(st)) /\ AtEsc(st) /\ b = "\\"
              \/ j = n /\ OscOpen(st, k, n) /\ b = "BEL"
          <5>1. j \in 1..Len(t) /\ Closes(t, k, j)
            BY <3>1 DEF n
          <5>2. \/ j <= Len(st) /\ Closes(st, k, j)
                \/ j = Len(st) /\ OscOpen(st, k, Len(st)) /\ AtEsc(st) /\ b = "\\"
                \/ j = Len(t) /\ OscOpen(st, k, Len(t)) /\ b = "BEL"
            BY <5>1, ClosesAfter
          <5> QED
            BY <3>3, <5>2 DEF n
        <4>2. Ended(x)
          BY <3>1, <4>1
        <4> QED
          BY <4>2
      <3> QED
        BY <3>2, <3>3
    <2>2. ASSUME x \in OscMarks(st, base) PROVE x \in OscMarks(t, base)
      <3>1. PICK k \in 1..Len(st), j \in 1..Len(st) : Closes(st, k, j) /\ x \in OscMark(st, base, k, j)
        BY <2>2, OscMarksAre, Zenon
      <3>2. k \in Nat \ {0} /\ k \in 1..n /\ j \in 1..n /\ j <= Len(st)
        BY <1>1, <3>1
      <3>3. Closes(t, k, j)
        BY <3>1, <3>2, ClosesAfter, Zenon DEF n
      <3>4. x \in OscMark(t, base, k, j)
        BY <3>1, <3>2, OscMarkGrown
      <3> QED
        BY <3>2, <3>3, <3>4, OscMarksAre, Zenon DEF n
    <2>3. ASSUME Ended(x) PROVE x \in OscMarks(t, base)
      <3>1. PICK k \in 1..n, j \in 1..n : EndsAt(k, j) /\ x \in OscMark(t, base, k, j)
        BY <2>3, Zenon
      <3>2. Closes(t, k, j)
        BY <3>1, ClosesAfter, Zenon DEF n
      <3> QED
        BY <3>1, <3>2, OscMarksAre, Zenon DEF n
    <2> QED
      BY <2>1, <2>2, <2>3, Zenon
  <1>3. \A x : Ended(x) <=> x \in NewMark(sc, b)
    <2> TAKE x
    <2>1. CASE sc.state = "osc" /\ b = "BEL"
      <3>1. OscOpen(st, i, n) /\ sc.payload = SubSeq(st, i + 2, Len(st))
        <4>1. (sc.markStart - base) + 3 = i + 2 /\ (Len(st) + 1) - 1 = Len(st)
          BY <1>1 DEF i
        <4> QED
          BY <1>1, <2>1, <4>1 DEF InSequence, InOsc, i
      <3>2. \A k : OscOpen(st, k, n) => k = i
        BY <1>1, <3>1, OneIsOpen
      <3>3. OscMark(t, base, i, n) = MarkOf(sc.payload, sc.markStart, sc.pos + 1)
        <4> DEFINE k == i + 2
                   m == n - 1
        <4>0. i >= 1 /\ i + 1 <= Len(st)
          BY <1>1, <3>1 DEF OscOpen
        <4>1. i >= 1 /\ base + i - 1 = sc.markStart /\ base + n = sc.pos + 1 /\ m = Len(st)
              /\ k \in Nat \ {0} /\ m \in Int /\ m <= Len(st)
          BY <1>1, <4>0 DEF i
        <4> HIDE DEF k, m
        <4>2. SubSeq(t, k, m) = SubSeq(st, k, m)
          BY <4>1, GrownStretch
        <4>3. SubSeq(t, k, m) = sc.payload
          BY <3>1, <4>1, <4>2, Zenon DEF k
        <4>4. t[n] = "BEL"
          BY <1>1, <2>1
        <4> QED
          BY <4>1, <4>3, <4>4, Zenon DEF OscMark, k, m
      <3>4. i \in 1..n /\ n \in 1..n
        BY <1>1, <3>1 DEF OscOpen
      <3>5. NewMark(sc, b) = MarkOf(sc.payload, sc.markStart, sc.pos + 1) /\ b # "\\" /\ b = "BEL"
        BY <2>1 DEF NewMark
      <3> QED
        BY <3>1, <3>2, <3>3, <3>4, <3>5, Zenon
    <2>2. CASE sc.state = "oscEsc" /\ b = "\\"
      <3>1. AtEsc(st) /\ OscOpen(st, i, Len(st)) /\ sc.payload = SubSeq(st, i + 2, Len(st) - 1)
        <4>1. (sc.markStart - base) + 3 = i + 2
          BY <1>1 DEF i
        <4> QED
          BY <1>1, <2>2, <4>1 DEF InSequence, InOsc, i
      <3>2. \A k : OscOpen(st, k, Len(st)) => k = i
        BY <1>1, <3>1, OneIsOpen
      <3>3. OscMark(t, base, i, Len(st)) = MarkOf(sc.payload, sc.markStart, sc.pos + 1)
        <4> DEFINE k == i + 2
                   m == Len(st) - 1
        <4>0. i >= 1 /\ i + 1 <= Len(st)
          BY <1>1, <3>1 DEF OscOpen
        <4>1. i >= 1 /\ base + i - 1 = sc.markStart /\ base + (Len(st) + 1) = sc.pos + 1
              /\ k \in Nat \ {0} /\ m \in Int /\ m <= Len(st)
          BY <1>1, <4>0 DEF i
        <4> HIDE DEF k, m
        <4>2. SubSeq(t, k, m) = SubSeq(st, k, m)
          BY <4>1, GrownStretch
        <4>3. SubSeq(t, k, m) = sc.payload
          BY <3>1, <4>2, Zenon DEF k, m
        <4>4. t[Len(st)] # "BEL"
          BY <3>1, GrownIs
        <4> QED
          BY <4>1, <4>3, <4>4, Zenon DEF OscMark, k, m
      <3>4. i \in 1..n /\ Len(st) \in 1..n
        BY <1>1, <3>1 DEF OscOpen
      <3>5. NewMark(sc, b) = MarkOf(sc.payload, sc.markStart, sc.pos + 1) /\ b = "\\" /\ b # "BEL"
        BY <2>2, Zenon DEF NewMark
      <3>6. ASSUME Ended(x) PROVE x \in NewMark(sc, b)
        <4>1. PICK k \in 1..n, j \in 1..n : /\ j = Len(st) /\ OscOpen(st, k, Len(st))
                                            /\ x \in OscMark(t, base, k, j)
          BY <3>5, <3>6, Zenon
        <4> QED
          BY <3>2, <3>3, <3>5, <4>1, Zenon
      <3>7. ASSUME x \in NewMark(sc, b) PROVE Ended(x)
        <4> DEFINE j == Len(st)
        <4>1. /\ i \in 1..n /\ j \in 1..n /\ j = Len(st) /\ OscOpen(st, i, Len(st)) /\ AtEsc(st)
              /\ b = "\\" /\ x \in OscMark(t, base, i, j)
          BY <3>1, <3>3, <3>4, <3>5, <3>7, Zenon
        <4> HIDE DEF j
        <4> QED
          BY <4>1, Zenon
      <3> QED
        BY <3>6, <3>7
    <2>3. CASE ~ (sc.state = "osc" /\ b = "BEL") /\ ~ (sc.state = "oscEsc" /\ b = "\\")
      <3>1. x \notin NewMark(sc, b)
        BY <2>3 DEF NewMark
      <3>2. ASSUME NEW k, OscOpen(st, k, Len(st)), AtEsc(st), b = "\\" PROVE FALSE
        <4>1. sc.state = "esc" \/ sc.state = "osc"
          BY <2>3, <3>2 DEF InSequence
        <4>2. CASE sc.state = "esc"
          BY <3>2, <4>2 DEF InSequence, NoOsc
        <4>3. CASE sc.state = "osc"
          BY <1>1, <3>2, <4>3, EscEndsOsc DEF InSequence, InOsc, NoOsc
        <4> QED
          BY <4>1, <4>2, <4>3
      <3>3. ASSUME NEW k, OscOpen(st, k, n), b = "BEL" PROVE FALSE
        <4>1. ~ AtEsc(st)
          BY <1>1, <3>3, EscEndsOsc DEF NoOsc
        <4>2. sc.state = "ground" /\ NoOsc(st, n)
          BY <1>1, <2>3, <3>3, <4>1 DEF InSequence
        <4> QED
          BY <3>3, <4>2, Zenon DEF NoOsc
      <3> QED
        BY <3>1, <3>2, <3>3, Zenon
    <2> QED
      BY <2>1, <2>2, <2>3
  <1> HIDE DEF Ended
  <1> QED
    BY <1>2, <1>3
-----------------------------------------------------------------------------
(* The boundaries of a stream. *)

N == Len(Boundary)

\* The last m bytes of a stream are text and the first m of the boundary.
Fits(st, m) ==
    /\ m \in 0..Len(st)
    /\ \A k \in 1..m : st[(Len(st) - m) + k] = Boundary[k] /\ IsText(st, (Len(st) - m) + k)

\* The matches that are under way after the boundaries that were taken.
Partial(st) ==
    {m \in 0..(N - 1) : Fits(st, m) /\ \A g \in Starts(st) : (g + N) + m <= Len(st) + 1}
IsMatch(p, st) == p \in Partial(st) /\ \A m \in Partial(st) : m <= p

\* Which boundaries are taken is well defined.
Taken(st) == Starts(st) \subseteq Occurrences(st) /\ LeftmostFirst(Starts(st), Occurrences(st))

(***************************************************************************)
(* The boundary is a stream of bytes and not empty (core.SentinelBoundary).  *)
(***************************************************************************)
LEMMA BoundaryIs == Boundary \in Seq(Byte) /\ N \in Nat /\ N >= 1
  <1>1. Boundary \in Seq(Byte) /\ Boundary # <<>>
    BY ScannerAssumption DEF Byte
  <1>2. Len(Boundary) \in Nat \ {0}
    BY <1>1, EmptySeq
  <1> QED
    BY <1>1, <1>2 DEF N

(***************************************************************************)
(* One more byte makes every match longer by one, or ends it.                *)
(***************************************************************************)
LEMMA FitsAfter ==
  ASSUME NEW st, NEW t, NEW b, Grown(t, st, b), NEW m \in Nat
  PROVE  Fits(t, m + 1) <=> Fits(st, m) /\ Boundary[m + 1] = b /\ IsText(t, Len(t))
  <1> DEFINE n == Len(t)
             l == Len(st)
             d == l - m
  <1>1. l \in Nat /\ n = l + 1 /\ t[n] = b /\ d \in Int /\ n - (m + 1) = d /\ d + m = l
        /\ \A k \in 1..l : t[k] = st[k]
    BY GrownIs
  <1>2. \A k \in 1..l : IsText(t, k) <=> IsText(st, k)
    BY TextGrown
  <1> HIDE DEF n, l, d
  <1>3. CASE m + 1 \in 0..n
    <2>1. m \in 0..l /\ d >= 0
      BY <1>1, <1>3
    <2>2. \A k \in 1..m : d + k \in 1..l
      BY <1>1, <2>1
    <2>3. \A k : k \in 1..(m + 1) <=> k \in 1..m \/ k = m + 1
      OBVIOUS
    <2>4. d + (m + 1) = n
      BY <1>1
    <2>5. Fits(t, m + 1) <=> \A k \in 1..(m + 1) : t[d + k] = Boundary[k] /\ IsText(t, d + k)
      BY <1>1, <1>3 DEF Fits, n
    <2>6. Fits(st, m) <=> \A k \in 1..m : st[d + k] = Boundary[k] /\ IsText(st, d + k)
      BY <2>1, Zenon DEF Fits, l, d
    <2>7. \A k \in 1..m : t[d + k] = st[d + k] /\ (IsText(t, d + k) <=> IsText(st, d + k))
      BY <1>1, <1>2, <2>2
    <2> QED
      BY <1>1, <2>3, <2>4, <2>5, <2>6, <2>7 DEF n
  <1>4. CASE m + 1 \notin 0..n
    <2>1. m \notin 0..l
      BY <1>1, <1>4
    <2> QED
      BY <1>4, <2>1 DEF Fits, n, l
  <1> QED
    BY <1>3, <1>4

(***************************************************************************)
(* The boundary occurs where it did, and possibly at the end.                *)
(***************************************************************************)
LEMMA OccurrencesAfter ==
  ASSUME NEW st, NEW t, NEW b, Grown(t, st, b), NEW i
  PROVE  i \in Occurrences(t) <=>
            i \in Occurrences(st) \/ (Fits(t, N) /\ i = (Len(t) - N) + 1)
  <1> DEFINE n == Len(t)
             l == Len(st)
  <1>1. l \in Nat /\ n = l + 1 /\ \A k \in 1..l : t[k] = st[k]
    BY GrownIs
  <1>2. \A k \in 1..l : IsText(t, k) <=> IsText(st, k)
    BY TextGrown
  <1>3. N \in Nat /\ N >= 1
    BY BoundaryIs
  <1> HIDE DEF n, l
  <1>4. CASE i \in 1..((l - N) + 1)
    <2>1. i \in Nat /\ i \in 1..((n - N) + 1) /\ i # (n - N) + 1
          /\ \A k \in 1..N : (i + k) - 1 \in 1..l /\ (i + k) - 1 = i + (k - 1)
      BY <1>1, <1>3, <1>4
    <2>2. \A k \in 1..N : /\ t[i + (k - 1)] = st[i + (k - 1)]
                          /\ IsText(t, i + (k - 1)) <=> IsText(st, i + (k - 1))
      BY <1>1, <1>2, <2>1
    <2>3. i \in Occurrences(t) <=> \A k \in 1..N : t[i + (k - 1)] = Boundary[k] /\ IsText(t, i + (k - 1))
      BY <2>1, Zenon DEF Occurrences, N, n
    <2>4. i \in Occurrences(st) <=> \A k \in 1..N : st[i + (k - 1)] = Boundary[k] /\ IsText(st, i + (k - 1))
      BY <1>4, Zenon DEF Occurrences, N, l
    <2> QED
      BY <2>1, <2>2, <2>3, <2>4, Zenon DEF n
  <1>5. CASE i = (n - N) + 1
    <2>1. i \notin Occurrences(st)
      BY <1>1, <1>3, <1>5 DEF Occurrences, N, l
    <2>2. i \in 1..((n - N) + 1) <=> N \in 0..n
      BY <1>1, <1>3, <1>5
    <2>3. \A k \in 1..N : i + (k - 1) = (n - N) + k
      BY <1>1, <1>3, <1>5
    <2>4. i \in Occurrences(t) <=> /\ i \in 1..((n - N) + 1)
                                   /\ \A k \in 1..N : t[i + (k - 1)] = Boundary[k] /\ IsText(t, i + (k - 1))
      BY Zenon DEF Occurrences, N, n
    <2>5. Fits(t, N) <=> /\ N \in 0..n
                         /\ \A k \in 1..N : t[(n - N) + k] = Boundary[k] /\ IsText(t, (n - N) + k)
      BY Zenon DEF Fits, n
    <2>6. i \in Occurrences(t) <=> Fits(t, N)
      BY <2>2, <2>3, <2>4, <2>5
    <2> QED
      BY <1>5, <2>1, <2>6 DEF n
  <1>6. CASE i \notin 1..((l - N) + 1) /\ i # (n - N) + 1
    <2>1. i \notin 1..((n - N) + 1)
      BY <1>1, <1>3, <1>6
    <2> QED
      BY <1>6, <2>1, Zenon DEF Occurrences, N, n, l
  <1> QED
    BY <1>4, <1>5, <1>6

(***************************************************************************)
(* Where the boundary occurs, in numbers.                                    *)
(***************************************************************************)
LEMMA OccurrencesRange ==
  ASSUME NEW st \in Seq(Byte)
  PROVE  \A i \in Occurrences(st) : i \in Nat /\ i >= 1 /\ i + N <= Len(st) + 1
  BY BoundaryIs, LenProperties DEF Occurrences, N

(***************************************************************************)
(* There is one way to take boundaries leftmost first.                       *)
(***************************************************************************)
LEMMA LeftmostUnique ==
  ASSUME NEW all, all \subseteq Nat, NEW X, NEW Y, X \subseteq all, Y \subseteq all,
         LeftmostFirst(X, all), LeftmostFirst(Y, all)
  PROVE  X = Y
  <1> DEFINE D == {i \in all : ~ (i \in X <=> i \in Y)}
  <1> SUFFICES ASSUME D # {} PROVE FALSE
    OBVIOUS
  <1>1. D \subseteq Nat
    OBVIOUS
  <1> HIDE DEF D
  <1>2. PICK i \in D : \A k \in D : i <= k
    BY <1>1, LeastExists
  <1> USE DEF D
  <1>3. i \in Nat /\ i \in all /\ ~ (i \in X <=> i \in Y)
    BY <1>2
  <1>4. \A g \in all : g < i => (g \in X <=> g \in Y)
    BY <1>2, <1>3
  <1>5. i \in X <=> \A g \in X : g < i => g + N <= i
    BY <1>3, Zenon DEF LeftmostFirst, N
  <1>6. i \in Y <=> \A g \in Y : g < i => g + N <= i
    BY <1>3, Zenon DEF LeftmostFirst, N
  <1> QED
    BY <1>3, <1>4, <1>5, <1>6, Zenon

(***************************************************************************)
(* A stream without bytes holds no boundary, and none is under way.          *)
(***************************************************************************)
LEMMA NoBytes ==
  /\ Occurrences(<<>>) = {} /\ Starts(<<>>) = {} /\ Taken(<<>>) /\ IsMatch(0, <<>>)
  <1>1. Len(<<>>) = 0 /\ N \in Nat /\ N >= 1
    BY BoundaryIs
  <1>2. Occurrences(<<>>) = {}
    BY <1>1 DEF Occurrences, N
  <1>3. Starts(<<>>) = {}
    <2>1. LeftmostFirst({}, {})
      BY DEF LeftmostFirst
    <2>2. Starts(<<>>) = CHOOSE taken \in SUBSET {} : LeftmostFirst(taken, {})
      BY <1>2, Zenon DEF Starts
    <2> QED
      BY <2>1, <2>2
  <1>4. Taken(<<>>)
    BY <1>2, <1>3 DEF Taken, LeftmostFirst
  <1>5. Partial(<<>>) = {0}
    BY <1>1, <1>3 DEF Partial, Fits
  <1> QED
    BY <1>2, <1>3, <1>4, <1>5 DEF IsMatch
(***************************************************************************)
(* Of a stream's boundaries, those that were taken stay taken; one that just *)
(* ended is taken if it begins after the last of them.                       *)
(***************************************************************************)
LEMMA StartsAfter ==
  ASSUME NEW st, NEW t, NEW b, Grown(t, st, b), Taken(st)
  PROVE  LET new == (Len(t) - N) + 1
         IN  /\ Taken(t)
             /\ Fits(t, N) /\ (\A g \in Starts(st) : g + N <= new) => Starts(t) = Starts(st) \cup {new}
             /\ ~ (Fits(t, N) /\ \A g \in Starts(st) : g + N <= new) => Starts(t) = Starts(st)
  <1> DEFINE new == (Len(t) - N) + 1
             S == Starts(st)
             O == Occurrences(st)
             P == Occurrences(t)
             takes == Fits(t, N) /\ \A g \in S : g + N <= new
             X == IF takes THEN S \cup {new} ELSE S
  <1>1. /\ st \in Seq(Byte) /\ t \in Seq(Byte) /\ Len(st) \in Nat /\ Len(t) = Len(st) + 1
        /\ N \in Nat /\ N >= 1
    BY GrownIs, BoundaryIs
  <1>2. \A i : i \in P <=> i \in O \/ (Fits(t, N) /\ i = new)
    BY OccurrencesAfter
  <1>3. /\ \A i \in O : i \in Nat /\ i + N <= Len(st) + 1 /\ i < new
        /\ \A i \in P : i \in Nat
    BY <1>1, OccurrencesRange
  <1>4. S \subseteq O /\ \A i \in O : i \in S <=> \A g \in S : g < i => g + N <= i
    BY Zenon DEF Taken, LeftmostFirst, N
  <1>5. new \in Int
    BY <1>1
  <1>6. Starts(t) = CHOOSE taken \in SUBSET P : LeftmostFirst(taken, P)
    BY Zenon DEF Starts
  <1> HIDE DEF new, S, O, P
  <1>7. X \subseteq P
    BY <1>2, <1>4
  <1>8. LeftmostFirst(X, P)
    <2> SUFFICES ASSUME NEW i \in P PROVE i \in X <=> \A g \in X : g < i => g + N <= i
      BY Zenon DEF LeftmostFirst, N
    <2>1. CASE i \in O
      <3>1. i < new /\ i # new /\ ~ (new < i) /\ i \in Int
        BY <1>3, <1>5, <2>1
      <3>2. i \in X <=> i \in S
        BY <3>1
      <3>3. (\A g \in X : g < i => g + N <= i) <=> (\A g \in S : g < i => g + N <= i)
        BY <3>1
      <3> QED
        BY <1>4, <2>1, <3>2, <3>3, Zenon
    <2>2. CASE i \notin O
      <3>1. Fits(t, N) /\ i = new
        BY <1>2, <2>2
      <3>2. \A g \in S : g < i
        BY <1>3, <1>4, <3>1
      <3>3. ~ (new < new)
        BY <1>5
      <3>4. i \notin S
        BY <1>4, <2>2
      <3>5. CASE takes
        BY <3>1, <3>3, <3>5
      <3>6. CASE ~ takes
        BY <3>1, <3>2, <3>4, <3>6
      <3> QED
        BY <3>5, <3>6
    <2> QED
      BY <2>1, <2>2
  <1> HIDE DEF X
  <1>9. Starts(t) \in SUBSET P /\ LeftmostFirst(Starts(t), P)
    BY <1>6, <1>7, <1>8, Zenon
  <1>10. Starts(t) = X
    <2>1. P \subseteq Nat
      BY <1>3
    <2> QED
      BY <1>7, <1>8, <1>9, <2>1, LeftmostUnique
  <1>11. Taken(t)
    BY <1>9, Zenon DEF Taken, P
  <1>12. takes => X = S \cup {new}
    BY DEF X
  <1>13. ~ takes => X = S
    BY DEF X
  <1> QED
    BY <1>10, <1>11, <1>12, <1>13, Zenon DEF new, S

(***************************************************************************)
(* A boundary that is no text in its last byte does not end there.           *)
(***************************************************************************)
LEMMA NoTextNoMatch ==
  ASSUME NEW st, NEW t, NEW b, Grown(t, st, b), Taken(st), ~ IsText(t, Len(t))
  PROVE  Taken(t) /\ Starts(t) = Starts(st) /\ IsMatch(0, t)
  <1>1. N \in Nat /\ N >= 1 /\ Len(t) \in Nat /\ t \in Seq(Byte)
    BY GrownIs, BoundaryIs
  <1>2. \A m \in Nat : ~ Fits(t, m + 1)
    BY FitsAfter
  <1>3. ~ Fits(t, N)
    <2>1. N - 1 \in Nat /\ (N - 1) + 1 = N
      BY <1>1
    <2> QED
      BY <1>2, <2>1
  <1>4. Taken(t) /\ Starts(t) = Starts(st)
    BY <1>3, StartsAfter, Zenon
  <1>5. \A m \in 0..(N - 1) : Fits(t, m) => m = 0
    <2> SUFFICES ASSUME NEW m \in 0..(N - 1), m # 0 PROVE ~ Fits(t, m)
      OBVIOUS
    <2>1. m - 1 \in Nat /\ (m - 1) + 1 = m
      BY <1>1
    <2> QED
      BY <1>2, <2>1
  <1>6. 0 \in Partial(t)
    <2>1. Fits(t, 0) /\ 0 \in 0..(N - 1)
      BY <1>1 DEF Fits
    <2>2. \A g \in Starts(t) : (g + N) + 0 <= Len(t) + 1
      BY <1>1, <1>4, OccurrencesRange DEF Taken
    <2> QED
      BY <2>1, <2>2, Zenon DEF Partial
  <1>7. \A m \in Partial(t) : m <= 0
    BY <1>1, <1>5 DEF Partial
  <1> QED
    BY <1>4, <1>6, <1>7 DEF IsMatch
(***************************************************************************)
(* As long as no boundary is taken, the matches under way are those that the *)
(* byte continued, and the empty one.                                        *)
(***************************************************************************)
LEMMA PartialAfter ==
  ASSUME NEW st, NEW t, NEW b, Grown(t, st, b), Taken(st), IsText(t, Len(t)), Starts(t) = Starts(st)
  PROVE  /\ 0 \in Partial(t)
         /\ \A m \in Nat : m + 1 \in Partial(t) <=>
                           m + 1 <= N - 1 /\ m \in Partial(st) /\ Boundary[m + 1] = b
  <1>1. /\ N \in Nat /\ N >= 1 /\ Len(st) \in Nat /\ Len(t) = Len(st) + 1 /\ st \in Seq(Byte)
        /\ \A g \in Starts(st) : g \in Nat /\ g + N <= Len(st) + 1
    BY GrownIs, BoundaryIs, OccurrencesRange DEF Taken
  <1>2. 0 \in Partial(t)
    BY <1>1 DEF Partial, Fits
  <1>3. ASSUME NEW m \in Nat
        PROVE  m + 1 \in Partial(t) <=> m + 1 <= N - 1 /\ m \in Partial(st) /\ Boundary[m + 1] = b
    <2>1. Fits(t, m + 1) <=> Fits(st, m) /\ Boundary[m + 1] = b
      BY FitsAfter
    <2>2. m + 1 \in 0..(N - 1) <=> m + 1 <= N - 1
      BY <1>1
    <2>3. m + 1 <= N - 1 => m \in 0..(N - 1)
      BY <1>1
    <2>4. (\A g \in Starts(st) : (g + N) + (m + 1) <= Len(t) + 1) <=>
          (\A g \in Starts(st) : (g + N) + m <= Len(st) + 1)
      BY <1>1
    <2>5. m + 1 \in Partial(t) <=> /\ m + 1 \in 0..(N - 1) /\ Fits(t, m + 1)
                                   /\ \A g \in Starts(st) : (g + N) + (m + 1) <= Len(t) + 1
      BY Zenon DEF Partial
    <2>6. m \in Partial(st) <=> /\ m \in 0..(N - 1) /\ Fits(st, m)
                                /\ \A g \in Starts(st) : (g + N) + m <= Len(st) + 1
      BY Zenon DEF Partial
    <2> QED
      BY <2>1, <2>2, <2>3, <2>4, <2>5, <2>6, Zenon
  <1> QED
    BY <1>2, <1>3

(***************************************************************************)
(* A boundary ends at a byte only if all but that byte was matched.          *)
(***************************************************************************)
LEMMA TakesOnlyLongest ==
  ASSUME NEW st, NEW t, NEW b, Grown(t, st, b), Taken(st), NEW p, IsMatch(p, st),
         Fits(t, N), \A g \in Starts(st) : g + N <= (Len(t) - N) + 1
  PROVE  p = N - 1 /\ Boundary[p + 1] = b
  <1>1. /\ N \in Nat /\ N >= 1 /\ Len(st) \in Nat /\ Len(t) = Len(st) + 1 /\ st \in Seq(Byte)
        /\ \A g \in Starts(st) : g \in Nat
    BY GrownIs, BoundaryIs, OccurrencesRange DEF Taken
  <1>2. N - 1 \in Nat /\ (N - 1) + 1 = N /\ N - 1 \in 0..(N - 1)
    BY <1>1
  <1>3. Fits(st, N - 1) /\ Boundary[N] = b
    <2> DEFINE m == N - 1
    <2>1. m \in Nat /\ m + 1 = N
      BY <1>2
    <2> HIDE DEF m
    <2>2. Fits(t, m + 1) <=> Fits(st, m) /\ Boundary[m + 1] = b /\ IsText(t, Len(t))
      BY <2>1, FitsAfter
    <2> QED
      BY <2>1, <2>2 DEF m
  <1>4. \A g \in Starts(st) : (g + N) + (N - 1) <= Len(st) + 1
    BY <1>1
  <1>5. N - 1 \in Partial(st)
    BY <1>2, <1>3, <1>4, Zenon DEF Partial
  <1>6. N - 1 <= p /\ p \in 0..(N - 1)
    BY <1>5, Zenon DEF IsMatch, Partial
  <1>7. p = N - 1
    BY <1>1, <1>6
  <1> QED
    BY <1>2, <1>3, <1>7

(***************************************************************************)
(* A nonempty set of numbers below a bound has a greatest one.               *)
(***************************************************************************)
LEMMA GreatestExists ==
  ASSUME NEW p \in Nat, NEW S, S \subseteq 0..p, S # {}
  PROVE  \E m \in S : \A k \in S : k <= m
  <1> DEFINE D == {p - k : k \in S}
  <1>1. D \subseteq Nat /\ D # {}
    <2>1. \A k \in S : p - k \in Nat
      OBVIOUS
    <2> QED
      BY <2>1
  <1>2. PICK d \in D : \A e \in D : d <= e
    <2> HIDE DEF D
    <2> QED
      BY <1>1, LeastExists
  <1>3. PICK m \in S : d = p - m
    BY <1>2
  <1>4. \A k \in S : p - m <= p - k
    BY <1>2, <1>3
  <1> QED
    BY <1>3, <1>4

(***************************************************************************)
(* On a mismatch the scanner falls back to the longest match that is still   *)
(* under way.                                                                *)
(***************************************************************************)
LEMMA FallsBack ==
  ASSUME NEW st, NEW t, NEW b, Grown(t, st, b), Taken(st), IsText(t, Len(t)), Starts(t) = Starts(st),
         NEW p, IsMatch(p, st), Boundary[p + 1] # b
  PROVE  IsMatch(Matched(p, b), t) /\ Matched(p, b) \in 0..p
  <1> DEFINE n == Len(t)
             l == Len(st)
             seen == Append(SubSeq(Boundary, 1, p), b)
             fits == {x \in 0..p : \A k \in 1..x : Boundary[k] = seen[p + 1 - x + k]}
  <1>1. /\ N \in Nat /\ N >= 1 /\ l \in Nat /\ n = l + 1 /\ st \in Seq(Byte) /\ b \in Byte
        /\ Boundary \in Seq(Byte) /\ t[n] = b
        /\ \A k \in 1..l : t[k] = st[k] /\ (IsText(t, k) <=> IsText(st, k))
        /\ \A g \in Starts(st) : g \in Nat
    BY GrownIs, TextGrown, BoundaryIs, OccurrencesRange DEF Taken
  <1>2. /\ p \in 0..(N - 1) /\ p \in 0..l /\ p \in Nat
        /\ \A k \in 1..p : st[(l - p) + k] = Boundary[k] /\ IsText(st, (l - p) + k)
        /\ \A g \in Starts(st) : (g + N) + p <= l + 1
        /\ \A m \in Partial(st) : m <= p
    <2>1. p \in 0..(N - 1) /\ Fits(st, p) /\ \A g \in Starts(st) : (g + N) + p <= Len(st) + 1
      BY Zenon DEF IsMatch, Partial
    <2>2. \A m \in Partial(st) : m <= p
      BY Zenon DEF IsMatch
    <2>3. p \in 0..Len(st) /\ \A k \in 1..p : /\ st[(Len(st) - p) + k] = Boundary[k]
                                              /\ IsText(st, (Len(st) - p) + k)
      BY <2>1, Zenon DEF Fits
    <2> QED
      BY <2>1, <2>2, <2>3
  <1>3. /\ \A j \in 1..p : seen[j] = Boundary[j]
        /\ seen[p + 1] = b
    <2> DEFINE head == SubSeq(Boundary, 1, p)
    <2>1. \A k \in 1..p : Boundary[k] \in Byte
      <3>1. \A k \in 1..p : k \in 1..Len(Boundary)
        BY <1>1, <1>2 DEF N
      <3> QED
        BY <1>1, <3>1, ElementOfSeq
    <2>2. head \in Seq(Byte) /\ Len(head) = p /\ \A k \in 1..p : head[k] = Boundary[k]
      <3>1. p - 1 + 1 = p /\ \A k \in 1..p : 1 + k - 1 = k
        BY <1>2
      <3> QED
        BY <1>2, <2>1, <3>1, SubSeqProperties
    <2> HIDE DEF head
    <2>3. /\ \A j \in 1..Len(head) : Append(head, b)[j] = head[j]
          /\ Append(head, b)[Len(head) + 1] = b
      BY <1>1, <2>2, AppendProperties
    <2> QED
      BY <2>2, <2>3 DEF head
  <1> HIDE DEF n, l, seen
  <1>4. \A j \in 1..(p + 1) : t[(n - (p + 1)) + j] = seen[j] /\ IsText(t, (n - (p + 1)) + j)
    <2> SUFFICES ASSUME NEW j \in 1..(p + 1)
                 PROVE  t[(n - (p + 1)) + j] = seen[j] /\ IsText(t, (n - (p + 1)) + j)
      OBVIOUS
    <2>0. l \in Nat /\ n = l + 1 /\ p \in Nat /\ p <= l /\ j \in Nat /\ j >= 1 /\ j <= p + 1
      BY <1>1, <1>2
    <2>1. CASE j = p + 1
      <3>1. (n - (p + 1)) + j = n
        BY <2>0, <2>1
      <3> QED
        BY <1>1, <1>3, <2>1, <3>1 DEF n
    <2>2. CASE j # p + 1
      <3>1. j \in 1..p /\ (n - (p + 1)) + j = (l - p) + j /\ (l - p) + j \in 1..l
        BY <2>0, <2>2
      <3>2. st[(l - p) + j] = Boundary[j] /\ IsText(st, (l - p) + j) /\ seen[j] = Boundary[j]
        BY <1>2, <1>3, <3>1
      <3>3. t[(l - p) + j] = st[(l - p) + j] /\ (IsText(t, (l - p) + j) <=> IsText(st, (l - p) + j))
        BY <1>1, <3>1
      <3> QED
        BY <3>1, <3>2, <3>3
    <2> QED
      BY <2>1, <2>2
  <1>5. ASSUME NEW x \in 0..p PROVE x \in fits <=> x \in Partial(t)
    <2>1. \A k \in 1..x : /\ p + 1 - x + k \in 1..(p + 1)
                          /\ (n - (p + 1)) + (p + 1 - x + k) = (n - x) + k
      BY <1>1, <1>2
    <2>2. \A k \in 1..x : t[(n - x) + k] = seen[p + 1 - x + k] /\ IsText(t, (n - x) + k)
      BY <1>4, <2>1
    <2>3. x \in fits <=> \A k \in 1..x : t[(n - x) + k] = Boundary[k]
      BY <2>2
    <2>4. x \in 0..n /\ x \in 0..(N - 1)
      BY <1>1, <1>2
    <2>5. Fits(t, x) <=> \A k \in 1..x : t[(n - x) + k] = Boundary[k]
      BY <2>2, <2>4, Zenon DEF Fits, n
    <2>6. \A g \in Starts(t) : (g + N) + x <= Len(t) + 1
      BY <1>1, <1>2 DEF n
    <2> QED
      BY <2>3, <2>4, <2>5, <2>6, Zenon DEF Partial
  <1>6. \A x \in Partial(t) : x \in 0..p
    <2> SUFFICES ASSUME NEW x \in Partial(t) PROVE x \in 0..p
      OBVIOUS
    <2>1. x \in Nat
      BY DEF Partial
    <2>2. CASE x = 0
      BY <1>2, <2>2
    <2>3. CASE x # 0
      <3> DEFINE m == x - 1
      <3>1. m \in Nat /\ x = m + 1
        BY <2>1, <2>3
      <3> HIDE DEF m
      <3>2. m \in Partial(st) /\ Boundary[m + 1] = b
        BY <3>1, PartialAfter
      <3>3. m <= p /\ m # p
        BY <1>2, <3>2
      <3> QED
        BY <1>2, <3>1, <3>3
    <2> QED
      BY <2>2, <2>3
  <1>7. fits = Partial(t)
    <2>1. \A x \in fits : x \in 0..p
      OBVIOUS
    <2> HIDE DEF fits
    <2> QED
      BY <1>5, <1>6, <2>1
  <1>8. Matched(p, b) = CHOOSE x \in fits : \A k \in fits : k <= x
    BY Zenon DEF Matched, seen
  <1> HIDE DEF fits
  <1>9. \E x \in fits : \A k \in fits : k <= x
    <2>1. fits \subseteq 0..p
      BY <1>6, <1>7
    <2>2. 0 \in fits
      BY <1>7, PartialAfter
    <2> QED
      BY <1>2, <2>1, <2>2, GreatestExists
  <1>10. Matched(p, b) \in fits /\ \A k \in fits : k <= Matched(p, b)
    BY <1>8, <1>9, Zenon
  <1> QED
    BY <1>6, <1>7, <1>10, Zenon DEF IsMatch
(***************************************************************************)
(* A byte of text: the scanner's match is the longest one under way, and it  *)
(* finds a boundary when one ends that is taken.                             *)
(***************************************************************************)
LEMMA MatchAfter ==
  ASSUME NEW st, NEW t, NEW b, Grown(t, st, b), Taken(st), IsText(t, Len(t)), NEW p, IsMatch(p, st)
  PROVE  LET q == Matched(p, b)
         IN  /\ Taken(t)
             /\ q = N => Starts(t) = Starts(st) \cup {(Len(t) - N) + 1} /\ IsMatch(0, t)
             /\ q # N => Starts(t) = Starts(st) /\ IsMatch(q, t)
  <1> DEFINE new == (Len(t) - N) + 1
             takes == Fits(t, N) /\ \A g \in Starts(st) : g + N <= new
  <1>1. /\ N \in Nat /\ N >= 1 /\ Len(st) \in Nat /\ Len(t) = Len(st) + 1
        /\ st \in Seq(Byte) /\ t \in Seq(Byte)
        /\ \A g \in Starts(st) : g \in Nat /\ g + N <= Len(st) + 1
    BY GrownIs, BoundaryIs, OccurrencesRange DEF Taken
  <1>2. /\ p \in 0..(N - 1) /\ Fits(st, p) /\ p \in Partial(st)
        /\ \A g \in Starts(st) : (g + N) + p <= Len(st) + 1
        /\ \A m \in Partial(st) : m <= p
    BY Zenon DEF IsMatch, Partial
  <1>3. Taken(t) /\ (takes => Starts(t) = Starts(st) \cup {new}) /\ (~ takes => Starts(t) = Starts(st))
    BY StartsAfter, Zenon
  <1>4. takes => p = N - 1 /\ Boundary[p + 1] = b
    BY TakesOnlyLongest, Zenon
  <1>5. Boundary[p + 1] = b => Matched(p, b) = p + 1
    BY DEF Matched
  <1>6. CASE Boundary[p + 1] = b /\ p = N - 1
    <2>1. p + 1 = N /\ p \in Nat
      BY <1>1, <1>6
    <2>2. Fits(t, p + 1)
      <3>1. Fits(st, p) /\ p \in Nat /\ Boundary[p + 1] = b
        BY <1>2, <1>6, <2>1
      <3>2. Fits(t, p + 1) <=> Fits(st, p) /\ Boundary[p + 1] = b /\ IsText(t, Len(t))
        <4>1. p \in Nat
          BY <3>1
        <4> QED
          BY <4>1, FitsAfter
      <3> QED
        BY <3>1, <3>2
    <2>3. \A g \in Starts(st) : g + N <= new
      BY <1>1, <1>2, <1>6, SMTT(60)
    <2>4. Starts(t) = Starts(st) \cup {new}
      BY <1>3, <2>1, <2>2, <2>3
    <2>5. Matched(p, b) = N
      BY <1>5, <1>6, <2>1
    <2>6. 0 \in Partial(t)
      <3>1. Fits(t, 0) /\ 0 \in 0..(N - 1)
        BY <1>1 DEF Fits
      <3>2. \A g \in Starts(t) : (g + N) + 0 <= Len(t) + 1
        BY <1>1, <2>4
      <3> QED
        BY <3>1, <3>2, Zenon DEF Partial
    <2>7. \A m \in Partial(t) : m <= 0
      <3> SUFFICES ASSUME NEW m \in Partial(t) PROVE m <= 0
        OBVIOUS
      <3>1. m \in 0..(N - 1) /\ \A g \in Starts(t) : (g + N) + m <= Len(t) + 1
        BY Zenon DEF Partial
      <3>2. (new + N) + m <= Len(t) + 1
        BY <2>4, <3>1
      <3> QED
        BY <1>1, <3>1, <3>2
    <2> QED
      BY <1>3, <2>4, <2>5, <2>6, <2>7 DEF IsMatch
  <1>7. CASE Boundary[p + 1] = b /\ p # N - 1
    <2>1. Starts(t) = Starts(st)
      BY <1>3, <1>4, <1>7
    <2>2. p \in Nat /\ p + 1 <= N - 1 /\ p + 1 # N
      BY <1>1, <1>2, <1>7
    <2>3. /\ 0 \in Partial(t)
          /\ \A m \in Nat : m + 1 \in Partial(t) <=>
                            m + 1 <= N - 1 /\ m \in Partial(st) /\ Boundary[m + 1] = b
      BY <2>1, PartialAfter
    <2>4. p + 1 \in Partial(t)
      BY <1>2, <1>7, <2>2, <2>3
    <2>5. \A x \in Partial(t) : x <= p + 1
      <3> SUFFICES ASSUME NEW x \in Partial(t) PROVE x <= p + 1
        OBVIOUS
      <3>1. x \in Nat
        BY DEF Partial
      <3>2. CASE x = 0
        BY <2>2, <3>2
      <3>3. CASE x # 0
        <4> DEFINE m == x - 1
        <4>1. m \in Nat /\ x = m + 1
          BY <3>1, <3>3
        <4> HIDE DEF m
        <4>2. m \in Partial(st)
          BY <2>3, <4>1
        <4> QED
          BY <1>2, <2>2, <4>1, <4>2
      <3> QED
        BY <3>2, <3>3
    <2>6. IsMatch(p + 1, t)
      BY <2>4, <2>5, Zenon DEF IsMatch
    <2> QED
      BY <1>3, <1>5, <1>7, <2>1, <2>2, <2>6
  <1>8. CASE Boundary[p + 1] # b
    <2>1. Starts(t) = Starts(st)
      BY <1>3, <1>4, <1>8
    <2>2. IsMatch(Matched(p, b), t) /\ Matched(p, b) \in 0..p
      BY <1>8, <2>1, FallsBack
    <2>3. Matched(p, b) # N
      BY <1>1, <1>2, <2>2
    <2> QED
      BY <1>3, <2>1, <2>2, <2>3
  <1> QED
    BY <1>6, <1>7, <1>8

-----------------------------------------------------------------------------
(* The scanner knows the stream it read. *)

(***************************************************************************)
(* sc read st, from offset base on: it is in the sequence that st ends in,   *)
(* has matched as much of a boundary as is under way there, and knows the    *)
(* marks of st.                                                              *)
(***************************************************************************)
HasRead(sc, st, base) ==
    /\ InSequence(sc, st, base)
    /\ Taken(st) /\ IsMatch(sc.bnd, st) /\ (sc.state # "ground" => sc.bnd = 0)
    /\ sc.marks = MarksIn(st, base)

(***************************************************************************)
(* In a sequence a byte completes a mark or nothing.                         *)
(***************************************************************************)
LEMMA ByteInSequence ==
  ASSUME NEW sc, NEW b, IsScanner(sc), sc.pos \in Int, sc.state \in {"esc", "osc", "oscEsc"}
  PROVE  ScanByte(sc, b).bnd = sc.bnd /\ ScanByte(sc, b).marks = sc.marks \cup NewMark(sc, b)
  <1>1. CASE sc.state = "esc"
    <2>1. NewMark(sc, b) = {}
      BY <1>1 DEF NewMark
    <2> QED
      BY <1>1, <2>1, ByteAfterEsc DEF SameMatch
  <1>2. CASE sc.state = "osc"
    <2>1. NewMark(sc, b) = IF b = "BEL" THEN MarkOf(sc.payload, sc.markStart, sc.pos + 1) ELSE {}
      BY <1>2 DEF NewMark
    <2> QED
      BY <1>2, <2>1, ByteInOsc
  <1>3. CASE sc.state = "oscEsc"
    <2>1. NewMark(sc, b) = IF b = "\\" THEN MarkOf(sc.payload, sc.markStart, sc.pos + 1) ELSE {}
      BY <1>3 DEF NewMark
    <2> QED
      BY <1>3, <2>1, ByteAfterOscEsc
  <1> QED
    BY <1>1, <1>2, <1>3

(***************************************************************************)
(* One more byte.                                                            *)
(***************************************************************************)
LEMMA ByteStep ==
  ASSUME NEW st, NEW t, NEW b, Grown(t, st, b), NEW base \in Nat, NEW sc, HasRead(sc, st, base)
  PROVE  HasRead(ScanByte(sc, b), t, base)
  <1> DEFINE r == ScanByte(sc, b)
             q == Matched(sc.bnd, b)
             new == (Len(t) - N) + 1
  <1>1. /\ InSequence(sc, st, base) /\ Taken(st) /\ IsMatch(sc.bnd, st)
        /\ (sc.state # "ground" => sc.bnd = 0)
        /\ sc.marks = OscMarks(st, base) \cup BoundaryMarks(st, base)
    BY Zenon DEF HasRead, MarksIn
  <1>2. /\ IsScanner(sc) /\ sc.pos = base + Len(st) /\ sc.pos \in Int
        /\ sc.state \in {"ground", "esc", "osc", "oscEsc"}
        /\ Len(st) \in Nat /\ Len(t) = Len(st) + 1 /\ N \in Nat /\ N >= 1
        /\ st \in Seq(Byte)
    BY <1>1, GrownIs, BoundaryIs DEF InSequence
  <1>3. InSequence(r, t, base)
    BY <1>1, SequenceStep
  <1>4. OscMarks(t, base) = OscMarks(st, base) \cup NewMark(sc, b)
    BY <1>1, OscMarksAfter
  <1>5. IsText(t, Len(t)) <=> sc.state = "ground" /\ b # "ESC"
    BY <1>1, TextAfter
  <1>6. Starts(t) = Starts(st) => BoundaryMarks(t, base) = BoundaryMarks(st, base)
    BY Zenon DEF BoundaryMarks
  <1> HIDE DEF r
  <1>7. CASE ~ IsText(t, Len(t))
    <2>1. Taken(t) /\ Starts(t) = Starts(st) /\ IsMatch(0, t)
      BY <1>1, <1>7, NoTextNoMatch
    <2>2. r.bnd = 0 /\ r.marks = sc.marks \cup NewMark(sc, b)
      <3>1. CASE sc.state = "ground"
        <4>1. b = "ESC" /\ NewMark(sc, b) = {}
          BY <1>5, <1>7, <3>1 DEF NewMark
        <4> QED
          BY <1>2, <3>1, <4>1, ByteInGround DEF r
      <3>2. CASE sc.state # "ground"
        BY <1>1, <1>2, <3>2, ByteInSequence DEF r
      <3> QED
        BY <3>1, <3>2
    <2>3. r.marks = MarksIn(t, base)
      BY <1>1, <1>4, <1>6, <2>1, <2>2 DEF MarksIn
    <2> QED
      BY <1>3, <2>1, <2>2, <2>3 DEF HasRead, r
  <1>8. CASE IsText(t, Len(t))
    <2>1. sc.state = "ground" /\ b # "ESC" /\ NewMark(sc, b) = {}
      BY <1>5, <1>8 DEF NewMark
    <2>2. OscMarks(t, base) = OscMarks(st, base)
      BY <1>4, <2>1
    <2>3. /\ r.state = "ground"
          /\ q = N => r.bnd = 0 /\ r.marks = sc.marks \cup {BoundaryMark((sc.pos + 1) - q, sc.pos + 1)}
          /\ q # N => r.bnd = q /\ r.marks = sc.marks
      BY <1>2, <2>1, ByteInGround DEF r, N
    <2>4. /\ Taken(t)
          /\ q = N => Starts(t) = Starts(st) \cup {new} /\ IsMatch(0, t)
          /\ q # N => Starts(t) = Starts(st) /\ IsMatch(q, t)
      BY <1>1, <1>8, MatchAfter
    <2> HIDE DEF q
    <2>5. CASE q = N
      <3> DEFINE mark(i) == BoundaryMark(base + i - 1, base + i + N - 1)
      <3>1. BoundaryMarks(t, base) = {mark(i) : i \in Starts(t)}
            /\ BoundaryMarks(st, base) = {mark(i) : i \in Starts(st)}
        BY Zenon DEF BoundaryMarks, N
      <3>2. base + new - 1 = (sc.pos + 1) - N /\ base + new + N - 1 = sc.pos + 1
        BY <1>2
      <3>3. mark(new) = BoundaryMark((sc.pos + 1) - q, sc.pos + 1)
        BY <2>5, <3>2
      <3> HIDE DEF mark, new
      <3>4. BoundaryMarks(t, base) = BoundaryMarks(st, base) \cup {mark(new)}
        BY <2>4, <2>5, <3>1
      <3>5. r.marks = MarksIn(t, base)
        BY <1>1, <2>2, <2>3, <2>5, <3>3, <3>4 DEF MarksIn
      <3> QED
        BY <1>3, <2>3, <2>4, <2>5, <3>5 DEF HasRead, r
    <2>6. CASE q # N
      <3>1. r.marks = MarksIn(t, base)
        BY <1>1, <1>6, <2>2, <2>3, <2>4, <2>6 DEF MarksIn
      <3> QED
        BY <1>3, <2>3, <2>4, <2>6, <3>1 DEF HasRead, r
    <2> QED
      BY <2>5, <2>6
  <1> QED
    BY <1>7, <1>8
(***************************************************************************)
(* A scanner that begins at base has read nothing.                           *)
(***************************************************************************)
LEMMA FreshScanner ==
  ASSUME NEW base \in Nat
  PROVE  HasRead(NewScanner(base), <<>>, base)
  <1> DEFINE sc == NewScanner(base)
  <1>1. /\ sc.state = "ground" /\ sc.pos = base /\ sc.markStart = 0 /\ sc.bnd = 0 /\ sc.marks = {}
        /\ IsScanner(sc)
    BY DEF NewScanner, IsScanner
  <1> HIDE DEF sc
  <1>2. Len(<<>>) = 0 /\ ~ AtEsc(<<>>) /\ NoOsc(<<>>, Len(<<>>) + 1)
    BY DEF AtEsc, NoOsc, OscOpen
  <1>3. InSequence(sc, <<>>, base)
    BY <1>1, <1>2 DEF InSequence
  <1>4. OscMarks(<<>>, base) = {}
    <2>1. Closed(<<>>) = {}
      BY <1>2 DEF Closed
    <2> QED
      BY <2>1 DEF OscMarks
  <1>5. BoundaryMarks(<<>>, base) = {}
    BY NoBytes DEF BoundaryMarks
  <1>6. sc.marks = MarksIn(<<>>, base)
    BY <1>1, <1>4, <1>5 DEF MarksIn
  <1> QED
    BY <1>1, <1>3, <1>6, NoBytes DEF HasRead, sc

(***************************************************************************)
(* A stretch of the log that ends a byte later has grown by that byte.       *)
(***************************************************************************)
LEMMA StretchGrows ==
  ASSUME NEW log \in Seq(Byte), NEW base \in Nat, NEW e \in Nat, base <= e, e + 1 <= Len(log)
  PROVE  Grown(SubSeq(log, base + 1, e + 1), SubSeq(log, base + 1, e), log[e + 1])
  <1> DEFINE l == base + 1
             t == SubSeq(log, l, e + 1)
             st == SubSeq(log, l, e)
  <1>1. /\ Len(log) \in Nat /\ l \in Int /\ e + 1 \in Int /\ l <= e + 1 /\ e \in Int
        /\ \A k \in l..(e + 1) : k \in 1..Len(log)
        /\ \A k \in l..e : k \in 1..Len(log)
        /\ e + 1 \in 1..Len(log)
    BY LenProperties
  <1>2. (\A k \in l..(e + 1) : log[k] \in Byte) /\ (\A k \in l..e : log[k] \in Byte) /\ log[e + 1] \in Byte
    BY <1>1, ElementOfSeq
  <1> HIDE DEF l
  <1>3. t \in Seq(Byte) /\ Len(t) = (e + 1) - l + 1 /\ \A k \in 1..((e + 1) - l + 1) : t[k] = log[l + k - 1]
    BY <1>1, <1>2, SubSeqProperties
  <1>4. /\ st \in Seq(Byte) /\ Len(st) = IF l <= e THEN e - l + 1 ELSE 0
        /\ \A k \in 1..(e - l + 1) : st[k] = log[l + k - 1]
    BY <1>1, <1>2, SubSeqProperties
  <1>5. Len(st) = e - l + 1
    BY <1>1, <1>4
  <1> HIDE DEF t, st
  <1>6. Len(t) = Len(st) + 1 /\ t[Len(t)] = log[e + 1] /\ \A k \in 1..Len(st) : t[k] = st[k]
    <2>1. Len(t) = Len(st) + 1 /\ l + Len(t) - 1 = e + 1 /\ Len(t) \in 1..((e + 1) - l + 1)
      BY <1>1, <1>3, <1>5
    <2>2. \A k \in 1..Len(st) : k \in 1..((e + 1) - l + 1) /\ k \in 1..(e - l + 1)
      BY <1>1, <1>5
    <2> QED
      BY <1>3, <1>4, <2>1, <2>2
  <1> QED
    BY <1>2, <1>3, <1>4, <1>6, Zenon DEF Grown, t, st, l

\* f holds the scanner after each of the first m bytes of a chunk.
Fed(f, sc, chunk, m) == f = [k \in 0..m |-> IF k = 0 THEN sc ELSE ScanByte(f[k - 1], chunk[k])]

(***************************************************************************)
(* There is such a function: the recursion over a chunk is well founded.     *)
(***************************************************************************)
LEMMA FedExists ==
  ASSUME NEW sc, NEW chunk, NEW m \in Nat
  PROVE  \E f : Fed(f, sc, chunk, m)
  <1> DEFINE Bad == {k \in Nat : ~ \E f : Fed(f, sc, chunk, k)}
  <1> SUFFICES ASSUME Bad # {} PROVE FALSE
    OBVIOUS
  <1>1. PICK k \in Bad : \A j \in Bad : k <= j
    <2>1. Bad \subseteq Nat
      OBVIOUS
    <2> HIDE DEF Bad
    <2> QED
      BY <2>1, LeastExists, Zenon
  <1>2. k \in Nat /\ ~ \E f : Fed(f, sc, chunk, k)
    BY <1>1
  <1>3. CASE k = 0
    <2> DEFINE g == [x \in 0..0 |-> sc]
    <2>1. g = [x \in 0..0 |-> IF x = 0 THEN sc ELSE ScanByte(g[x - 1], chunk[x])]
      <3>1. \A x \in 0..0 : x = 0
        OBVIOUS
      <3> QED
        BY <3>1
    <2>2. Fed(g, sc, chunk, k)
      BY <1>3, <2>1, Zenon DEF Fed
    <2> QED
      BY <1>2, <2>2
  <1>4. CASE k # 0
    <2>1. k - 1 \in Nat /\ k - 1 \notin Bad
      BY <1>1, <1>2, <1>4
    <2>2. PICK f : Fed(f, sc, chunk, k - 1)
      BY <2>1
    <2> DEFINE g == [x \in 0..k |-> IF x < k THEN f[x] ELSE ScanByte(f[k - 1], chunk[k])]
               h == [x \in 0..k |-> IF x = 0 THEN sc ELSE ScanByte(g[x - 1], chunk[x])]
    <2>3. \A x \in 0..(k - 1) : f[x] = IF x = 0 THEN sc ELSE ScanByte(f[x - 1], chunk[x])
      <3>1. f = [x \in 0..(k - 1) |-> IF x = 0 THEN sc ELSE ScanByte(f[x - 1], chunk[x])]
        BY <2>2, Zenon DEF Fed
      <3> QED
        BY <3>1
    <2>4. \A x \in 0..k : g[x] = h[x]
      <3> SUFFICES ASSUME NEW x \in 0..k PROVE g[x] = h[x]
        OBVIOUS
      <3>1. h[x] = IF x = 0 THEN sc ELSE ScanByte(g[x - 1], chunk[x])
        OBVIOUS
      <3>2. CASE x = 0
        <4>1. x < k /\ x \in 0..(k - 1) /\ g[x] = f[x]
          BY <1>2, <1>4, <3>2
        <4> QED
          BY <2>3, <3>1, <3>2, <4>1
      <3>3. CASE x # 0
        <4>1. x - 1 \in 0..k /\ x - 1 < k
          BY <1>2, <3>3
        <4>2. h[x] = ScanByte(f[x - 1], chunk[x])
          BY <3>1, <3>3, <4>1
        <4>3. CASE x < k
          <5>1. x \in 0..(k - 1) /\ g[x] = f[x]
            BY <1>2, <4>3
          <5> QED
            BY <2>3, <3>3, <4>2, <5>1
        <4>4. CASE ~ (x < k)
          <5>1. x = k /\ g[x] = ScanByte(f[k - 1], chunk[k])
            BY <1>2, <4>4
          <5> QED
            BY <4>2, <5>1
        <4> QED
          BY <4>3, <4>4
      <3> QED
        BY <3>2, <3>3
    <2>5. g = h
      BY <2>4
    <2>6. Fed(g, sc, chunk, k)
      BY <2>5, Zenon DEF Fed
    <2> QED
      BY <1>2, <2>6
  <1> QED
    BY <1>3, <1>4

(***************************************************************************)
(* A read: what a scanner fed the next bytes of the log then knows.          *)
(***************************************************************************)
LEMMA ScanReads ==
  ASSUME NEW log \in Seq(Byte), NEW base \in Nat, NEW a \in Nat, base <= a,
         NEW size \in Nat, a + size <= Len(log),
         NEW sc, HasRead(sc, SubSeq(log, base + 1, a), base)
  PROVE  HasRead(Scan(sc, SubSeq(log, a + 1, a + size)), SubSeq(log, base + 1, a + size), base)
  <1> DEFINE chunk == SubSeq(log, a + 1, a + size)
             m == Len(chunk)
             f == CHOOSE g : Fed(g, sc, chunk, m)
             known(k) == HasRead(f[k], SubSeq(log, base + 1, a + k), base)
             Bad == {k \in 0..size : ~ known(k)}
  <1>1. m = size /\ \A k \in 1..size : chunk[k] = log[a + k]
    <2> DEFINE l == a + 1
               e == a + size
    <2>1. l \in Int /\ e \in Int /\ \A k \in l..e : k \in 1..Len(log)
      BY LenProperties
    <2>2. \A k \in l..e : log[k] \in Byte
      BY <2>1, ElementOfSeq
    <2>3. e - l + 1 = size /\ (IF l <= e THEN e - l + 1 ELSE 0) = size /\ \A k \in 1..size : l + k - 1 = a + k
      OBVIOUS
    <2> HIDE DEF l, e
    <2>4. Len(SubSeq(log, l, e)) = size /\ \A k \in 1..size : SubSeq(log, l, e)[k] = log[l + k - 1]
      BY <2>1, <2>2, <2>3, SubSeqProperties
    <2> QED
      BY <2>3, <2>4 DEF l, e
  <1>2. Scan(sc, chunk) = f[m]
    BY Zenon DEF Scan, Fed
  <1>3. Fed(f, sc, chunk, m)
    BY <1>1, FedExists, Zenon
  <1> HIDE DEF chunk, m, f
  <1>4. \A k \in 0..size : f[k] = IF k = 0 THEN sc ELSE ScanByte(f[k - 1], chunk[k])
    <2>1. f = [k \in 0..size |-> IF k = 0 THEN sc ELSE ScanByte(f[k - 1], chunk[k])]
      BY <1>1, <1>3, Zenon DEF Fed
    <2> QED
      BY <2>1
  <1>5. Bad = {}
    <2> SUFFICES ASSUME Bad # {} PROVE FALSE
      OBVIOUS
    <2>1. PICK k \in Bad : \A j \in Bad : k <= j
      <3>1. Bad \subseteq Nat
        OBVIOUS
      <3> HIDE DEF Bad
      <3> QED
        BY <3>1, LeastExists, Zenon
    <2>2. k \in 0..size /\ ~ known(k)
      BY <2>1
    <2>3. CASE k = 0
      <3>1. f[k] = sc /\ a + k = a
        BY <1>4, <2>2, <2>3
      <3> QED
        BY <2>2, <3>1
    <2>4. CASE k # 0
      <3> DEFINE p == k - 1
      <3>1. p \in 0..size /\ p \notin Bad /\ a + p \in Nat /\ base <= a + p /\ (a + p) + 1 <= Len(log)
            /\ (a + p) + 1 = a + k /\ k \in 1..size
        BY <2>1, <2>2, <2>4, LenProperties
      <3>2. known(p)
        BY <3>1
      <3>3. f[k] = ScanByte(f[p], log[a + k])
        BY <1>1, <1>4, <2>2, <2>4, <3>1
      <3> HIDE DEF p
      <3>4. Grown(SubSeq(log, base + 1, (a + p) + 1), SubSeq(log, base + 1, a + p), log[(a + p) + 1])
        BY <3>1, StretchGrows
      <3>5. HasRead(ScanByte(f[p], log[a + k]), SubSeq(log, base + 1, a + k), base)
        BY <3>1, <3>2, <3>4, ByteStep
      <3> QED
        BY <2>2, <3>3, <3>5
    <2> QED
      BY <2>3, <2>4
  <1>6. size \in 0..size
    OBVIOUS
  <1>7. known(size)
    BY <1>5, <1>6
  <1> QED
    BY <1>1, <1>2, <1>7 DEF chunk

-----------------------------------------------------------------------------
(* The followers of the log. *)

\* The stretch of the log a follower has read.
ReadBy(f) == SubSeq(raw, from[f] + 1, scanner[f].pos)
KnowsLog(f) ==
    /\ scanner[f].pos \in Nat /\ from[f] <= scanner[f].pos /\ scanner[f].pos <= Len(raw)
    /\ HasRead(scanner[f], ReadBy(f), from[f])

(***************************************************************************)
(* The inductive invariant: a follower's scanner has read its stretch.  That *)
(* it knows the marks of it does not survive a read on its own: what the     *)
(* next byte completes depends on the sequence and the match under way.      *)
(***************************************************************************)
FollowInv ==
    /\ raw \in Seq(Byte) /\ written \in 0..MaxPieces
    /\ from \in [Followers -> Nat] /\ DOMAIN scanner = Followers
    /\ \A f \in Followers : from[f] <= Len(raw)
    /\ \A f \in Followers : Begun(f) => KnowsLog(f)

(***************************************************************************)
(* What a follower has read stays when the program writes.                   *)
(***************************************************************************)
LEMMA ReadStays ==
  ASSUME NEW s \in Seq(Byte), NEW p \in Seq(Byte), NEW m \in Nat, NEW n \in Nat, n <= Len(s)
  PROVE  SubSeq(s \o p, m + 1, n) = SubSeq(s, m + 1, n)
  <1>1. CASE n < m + 1
    <2>1. m + 1 \in Int /\ n \in Int
      OBVIOUS
    <2> QED
      BY <1>1, <2>1, SubSeqEmpty
  <1>2. CASE n >= m + 1
    <2>1. m + 1 \in 1..Len(s) /\ n \in 1..Len(s)
      BY <1>2, LenProperties
    <2> QED
      BY <2>1, SubSeqOfConcat1
  <1> QED
    BY <1>1, <1>2

LEMMA FollowInvInit == FollowInit => FollowInv
  <1> SUFFICES ASSUME FollowInit PROVE FollowInv
    OBVIOUS
  <1>1. raw \in Seq(Byte) /\ Len(raw) = 0
    BY EmptySeq DEF FollowInit
  <1>2. \A f \in Followers : ~ Begun(f)
    BY DEF FollowInit, Begun
  <1>3. written \in 0..MaxPieces
    BY FollowerAssumption DEF FollowInit
  <1>4. from \in [Followers -> Nat] /\ DOMAIN scanner = Followers /\ \A f \in Followers : from[f] <= 0
    BY DEF FollowInit
  <1> QED
    BY <1>1, <1>2, <1>3, <1>4 DEF FollowInv

(***************************************************************************)
(* A write leaves what everyone read as it was.                              *)
(***************************************************************************)
LEMMA WriteKeepsFollowInv ==
  ASSUME FollowInv, WriteOutput PROVE FollowInv'
  <1>1. PICK p \in Pieces : raw' = raw \o p
    BY DEF WriteOutput, Logged
  <1>2. p \in Seq(Byte) /\ raw \in Seq(Byte)
    BY FollowerAssumption DEF FollowInv, Byte
  <1>3. raw' \in Seq(Byte) /\ Len(raw') = Len(raw) + Len(p) /\ Len(raw) \in Nat /\ Len(p) \in Nat
    BY <1>1, <1>2, ConcatProperties, LenProperties
  <1>4. from' = from /\ scanner' = scanner /\ written' \in 0..MaxPieces
    BY FollowerAssumption DEF WriteOutput, Logged, FollowInv
  <1>5. ASSUME NEW f \in Followers, Begun(f)' PROVE KnowsLog(f)'
    <2>1. Begun(f)
      BY <1>4, <1>5 DEF Begun
    <2>2. KnowsLog(f) /\ from[f] \in Nat
      BY <2>1 DEF FollowInv
    <2>3. scanner[f].pos \in Nat /\ scanner[f].pos <= Len(raw) /\ from[f] <= scanner[f].pos
          /\ HasRead(scanner[f], ReadBy(f), from[f])
      BY <2>2 DEF KnowsLog
    <2>4. ReadBy(f)' = ReadBy(f)
      BY <1>1, <1>2, <1>4, <2>2, <2>3, ReadStays DEF ReadBy
    <2>5. scanner[f].pos <= Len(raw')
      BY <1>3, <2>3
    <2> QED
      BY <1>4, <2>3, <2>4, <2>5 DEF KnowsLog
  <1>6. \A f \in Followers : from'[f] <= Len(raw')
    BY <1>3, <1>4 DEF FollowInv
  <1> QED
    BY <1>3, <1>4, <1>5, <1>6 DEF FollowInv

(***************************************************************************)
(* A follower that begins has read nothing.                                  *)
(***************************************************************************)
LEMMA StartKeepsFollowInv ==
  ASSUME FollowInv, NEW f \in Followers, NEW base \in 0..Len(raw), StartAt(f, base)
  PROVE  FollowInv'
  <1>1. /\ raw' = raw /\ written' = written /\ raw \in Seq(Byte) /\ Len(raw) \in Nat
        /\ from' = [from EXCEPT ![f] = base] /\ scanner' = [scanner EXCEPT ![f] = NewScanner(base)]
        /\ from \in [Followers -> Nat] /\ DOMAIN scanner = Followers
    BY LenProperties DEF StartAt, FollowInv
  <1>2. base \in Nat /\ base <= Len(raw)
    BY <1>1
  <1>3. /\ from' \in [Followers -> Nat] /\ DOMAIN scanner' = Followers
        /\ from'[f] = base /\ scanner'[f] = NewScanner(base)
        /\ \A g \in Followers \ {f} : from'[g] = from[g] /\ scanner'[g] = scanner[g]
    BY <1>1, <1>2
  <1>4. ASSUME NEW g \in Followers, g # f, Begun(g)' PROVE KnowsLog(g)'
    <2>1. Begun(g)
      BY <1>3, <1>4 DEF Begun
    <2> QED
      BY <1>1, <1>3, <1>4, <2>1 DEF FollowInv, KnowsLog, ReadBy
  <1>5. KnowsLog(f)'
    <2>1. NewScanner(base).pos = base
      BY DEF NewScanner
    <2>2. base < base + 1 /\ base \in Int /\ base + 1 \in Int
      BY <1>2
    <2>3. SubSeq(raw, base + 1, base) = <<>>
      BY <2>2, SubSeqEmpty
    <2>4. HasRead(NewScanner(base), SubSeq(raw, base + 1, base), base)
      BY <1>2, <2>3, FreshScanner
    <2> QED
      BY <1>1, <1>2, <1>3, <2>1, <2>4 DEF KnowsLog, ReadBy
  <1>6. \A g \in Followers : from'[g] <= Len(raw')
    BY <1>1, <1>2, <1>3 DEF FollowInv
  <1> QED
    BY <1>1, <1>3, <1>4, <1>5, <1>6 DEF FollowInv

(***************************************************************************)
(* A read: the follower knows the longer stretch (ScanReads).                *)
(***************************************************************************)
LEMMA ReadOnKeepsFollowInv ==
  ASSUME FollowInv, NEW f \in Followers, NEW size \in 1..Len(raw), ReadOn(f, size)
  PROVE  FollowInv'
  <1> DEFINE a == scanner[f].pos
             base == from[f]
             sc == Scan(scanner[f], SubSeq(raw, a + 1, a + size))
  <1>1. /\ raw' = raw /\ written' = written /\ from' = from /\ raw \in Seq(Byte) /\ Len(raw) \in Nat
        /\ scanner' = [scanner EXCEPT ![f] = sc] /\ Begun(f) /\ size <= Len(raw) - a
        /\ from \in [Followers -> Nat] /\ DOMAIN scanner = Followers
    BY LenProperties DEF ReadOn, FollowInv
  <1>2. KnowsLog(f) /\ base \in Nat
    BY <1>1 DEF FollowInv
  <1>3. a \in Nat /\ base <= a /\ HasRead(scanner[f], SubSeq(raw, base + 1, a), base)
    BY <1>2 DEF KnowsLog, ReadBy
  <1>4. size \in Nat /\ a + size <= Len(raw) /\ a + size \in Nat /\ base <= a + size
    BY <1>1, <1>2, <1>3
  <1>5. HasRead(sc, SubSeq(raw, base + 1, a + size), base)
    BY <1>1, <1>2, <1>3, <1>4, ScanReads
  <1>6. scanner'[f] = sc /\ DOMAIN scanner' = Followers
        /\ \A g \in Followers \ {f} : scanner'[g] = scanner[g]
    BY <1>1
  <1> HIDE DEF sc
  <1>7. sc.pos = a + size
    <2>1. sc.pos = base + Len(SubSeq(raw, base + 1, a + size))
      BY <1>5 DEF HasRead, InSequence
    <2> DEFINE l == base + 1
               e == a + size
    <2>2. l \in Int /\ e \in Int /\ \A k \in l..e : k \in 1..Len(raw)
      BY <1>1, <1>2, <1>4
    <2>3. \A k \in l..e : raw[k] \in Byte
      BY <1>1, <2>2, ElementOfSeq
    <2> HIDE DEF l, e
    <2>4. Len(SubSeq(raw, l, e)) = IF l <= e THEN e - l + 1 ELSE 0
      BY <2>2, <2>3, SubSeqProperties
    <2>5. e = a + size /\ l <= e /\ e - l + 1 = e - base /\ e \in Int
      BY <1>1, <1>2, <1>3, <1>4 DEF l, e
    <2>6. base + Len(SubSeq(raw, l, e)) = a + size
      BY <1>2, <2>4, <2>5
    <2> QED
      BY <2>1, <2>6 DEF l, e
  <1>8. KnowsLog(f)'
    BY <1>1, <1>4, <1>5, <1>6, <1>7 DEF KnowsLog, ReadBy
  <1>9. ASSUME NEW g \in Followers, g # f, Begun(g)' PROVE KnowsLog(g)'
    <2>1. Begun(g)
      BY <1>6, <1>9 DEF Begun
    <2> QED
      BY <1>1, <1>6, <1>9, <2>1 DEF FollowInv, KnowsLog, ReadBy
  <1> QED
    BY <1>1, <1>6, <1>8, <1>9 DEF FollowInv

LEMMA FollowInvHolds == FollowSpec => []FollowInv
  <1>1. ASSUME FollowInv, [FollowNext]_followVars PROVE FollowInv'
    <2>1. CASE WriteOutput
      BY <1>1, <2>1, WriteKeepsFollowInv
    <2>2. CASE \E f \in Followers, base \in 0..Len(raw) : StartAt(f, base)
      BY <1>1, <2>2, StartKeepsFollowInv
    <2>3. CASE \E f \in Followers, size \in 1..Len(raw) : ReadOn(f, size)
      BY <1>1, <2>3, ReadOnKeepsFollowInv
    <2>4. CASE UNCHANGED followVars
      BY <1>1, <2>4 DEF followVars, FollowInv, KnowsLog, ReadBy, Begun
    <2> QED
      BY <1>1, <2>1, <2>2, <2>3, <2>4 DEF FollowNext
  <1> QED
    BY <1>1, FollowInvInit, PTL DEF FollowSpec

(***************************************************************************)
(* A follower stays within the log, behind where it began and in a state the *)
(* scanner has (scanner.go, wait.go).                                        *)
(***************************************************************************)
THEOREM FollowTypeCorrect == FollowSpec => []FollowTypeOK
  <1>1. FollowInv => FollowTypeOK
    <2> SUFFICES ASSUME FollowInv PROVE FollowTypeOK
      OBVIOUS
    <2>1. raw \in Seq(STRING) /\ written \in 0..MaxPieces /\ DOMAIN scanner = Followers
      BY Zenon DEF FollowInv, Byte
    <2>2. Len(raw) \in Nat
      BY <2>1, LenProperties
    <2>3. from \in [Followers -> 0..Len(raw)]
      BY <2>2 DEF FollowInv
    <2>4. ASSUME NEW f \in Followers, Begun(f)
          PROVE  scanner[f].pos \in from[f]..Len(raw) /\ scanner[f].state \in {"ground", "esc", "osc", "oscEsc"}
      <3>1. from[f] \in Nat /\ KnowsLog(f)
        BY <2>4 DEF FollowInv
      <3>2. scanner[f].state \in {"ground", "esc", "osc", "oscEsc"}
        BY <3>1 DEF KnowsLog, HasRead, InSequence
      <3> QED
        BY <2>2, <3>1, <3>2 DEF KnowsLog
    <2> QED
      BY <2>1, <2>3, <2>4 DEF FollowTypeOK
  <1> QED
    BY <1>1, FollowInvHolds, PTL

(***************************************************************************)
(* However the reads cut the log, a follower knows the marks of the stretch  *)
(* it read, and no other (Scanner.Feed).                                     *)
(***************************************************************************)
THEOREM FollowersKnowTheLog == FollowSpec => []EveryMarkIsFound
  <1>1. FollowInv => EveryMarkIsFound
    BY DEF FollowInv, KnowsLog, HasRead, ReadBy, EveryMarkIsFound
  <1> QED
    BY <1>1, FollowInvHolds, PTL

(***************************************************************************)
(* The offsets of a mark are those its OSC starts and ends at.               *)
(***************************************************************************)
LEMMA MarkOfIs ==
  ASSUME NEW p, NEW start, NEW end, NEW x \in MarkOf(p, start, end)
  PROVE  x.start = start /\ x.end = end
  <1> DEFINE named(k) == [kind |-> k, exit |-> ExitFrom(Split(p, {";"})), start |-> start, end |-> end]
  <1>1. MarkOf(p, start, end) \subseteq {named(Split(p, {";"})[2][1]), named("sentinel")}
    BY Zenon DEF MarkOf
  <1>2. \A k : named(k).start = start /\ named(k).end = end
    OBVIOUS
  <1> HIDE DEF named
  <1> QED
    BY <1>1, <1>2

\* The streams s, from offset b on, and u, from offset c on, are of one log.
SameLog(s, b, u, c) ==
    /\ s \in Seq(Byte) /\ u \in Seq(Byte) /\ b \in Nat /\ c \in Nat
    /\ \A k \in 1..Len(s) : (b - c) + k \in 1..Len(u) => u[(b - c) + k] = s[k]

(***************************************************************************)
(* An OSC that one stream of the log holds is in every other that reaches    *)
(* from its start to its end, with the same mark.                            *)
(***************************************************************************)
LEMMA SameOsc ==
  ASSUME NEW s, NEW b, NEW u, NEW c, SameLog(s, b, u, c),
         NEW i \in Nat, NEW j \in Nat, j <= Len(s), Closes(s, i, j),
         1 <= (b - c) + i,
         (b - c) + (IF s[j] = "BEL" THEN j ELSE j + 1) <= Len(u)
  PROVE  /\ (b - c) + i \in 1..Len(u) /\ (b - c) + j \in 1..Len(u)
         /\ Closes(u, (b - c) + i, (b - c) + j)
         /\ OscMark(u, c, (b - c) + i, (b - c) + j) = OscMark(s, b, i, j)
  <1> DEFINE d == b - c
             v == d + i
             w == d + j
  <1>1. /\ d \in Int /\ Len(s) \in Nat /\ Len(u) \in Nat /\ b \in Nat /\ c \in Nat
        /\ s \in Seq(Byte) /\ u \in Seq(Byte)
        /\ \A k \in 1..Len(s) : d + k \in 1..Len(u) => u[d + k] = s[k]
    BY LenProperties DEF SameLog
  <1>2. /\ i \in 1..(j - 2) /\ s[i] = "ESC" /\ s[i + 1] = "]" /\ j - (i + 2) <= PayloadCap
        /\ \A k \in (i + 2)..(j - 1) : s[k] \notin {"ESC", "BEL"}
    BY DEF Closes, OscOpen
  <1>3. (s[j] = "BEL") \/ (s[j] = "ESC" /\ j < Len(s) /\ s[j + 1] = "\\")
    BY DEF Closes
  <1>4. 1 <= d + i /\ d + (IF s[j] = "BEL" THEN j ELSE j + 1) <= Len(u)
    OBVIOUS
  <1> HIDE DEF d
  <1>5. /\ v \in Int /\ w \in Int /\ v \in 1..(w - 2) /\ w - (v + 2) <= PayloadCap /\ w <= Len(u)
    <2>1. w - (v + 2) = j - (i + 2)
      BY <1>1
    <2> QED
      BY <1>1, <1>2, <1>3, <1>4, <2>1
  <1>6. \A k \in i..j : u[d + k] = s[k]
    BY <1>1, <1>2, <1>5
  <1>7. u[v] = "ESC" /\ u[v + 1] = "]" /\ u[w] = s[j]
    <2>1. i \in i..j /\ i + 1 \in i..j /\ j \in i..j /\ d + (i + 1) = v + 1
      BY <1>1, <1>2
    <2>2. u[d + i] = s[i] /\ u[d + (i + 1)] = s[i + 1] /\ u[d + j] = s[j]
      BY <1>6, <2>1
    <2> QED
      BY <1>2, <2>1, <2>2
  <1>8. \A k \in (v + 2)..(w - 1) : u[k] \notin {"ESC", "BEL"}
    <2> SUFFICES ASSUME NEW k \in (v + 2)..(w - 1) PROVE u[k] \notin {"ESC", "BEL"}
      OBVIOUS
    <2>1. k - d \in (i + 2)..(j - 1) /\ k - d \in i..j /\ d + (k - d) = k
      BY <1>1, <1>2
    <2>2. u[k] = s[k - d]
      BY <1>6, <2>1
    <2> QED
      BY <1>2, <2>1, <2>2
  <1>9. OscOpen(u, v, w)
    BY <1>5, <1>7, <1>8 DEF OscOpen
  <1>10. s[j] # "BEL" => u[w] = "ESC" /\ w < Len(u) /\ u[w + 1] = "\\"
    <2> SUFFICES ASSUME s[j] # "BEL" PROVE u[w] = "ESC" /\ w < Len(u) /\ u[w + 1] = "\\"
      OBVIOUS
    <2>1. s[j] = "ESC" /\ j < Len(s) /\ s[j + 1] = "\\" /\ d + (j + 1) <= Len(u) /\ d + (j + 1) = w + 1
      BY <1>1, <1>3, <1>4
    <2>2. j + 1 \in 1..Len(s) /\ d + (j + 1) \in 1..Len(u) /\ w < Len(u)
      BY <1>1, <1>4, <1>5, <2>1
    <2>3. u[w + 1] = "\\"
      BY <1>1, <2>1, <2>2
    <2> QED
      BY <1>7, <2>1, <2>2, <2>3
  <1>11. Closes(u, v, w)
    BY <1>7, <1>9, <1>10 DEF Closes
  <1>12. SubSeq(u, v + 2, w - 1) = SubSeq(s, i + 2, j - 1)
    <2> DEFINE n == j - i - 2
    <2>1. (w - 1) - (v + 2) + 1 = (j - 1) - (i + 2) + 1 /\ i + 2 \in Int /\ j - 1 \in Int /\ v + 2 \in Int /\ w - 1 \in Int
      BY <1>1
    <2>2. SubSeq(u, v + 2, w - 1) = [k \in 1..((w - 1) - (v + 2) + 1) |-> u[(v + 2) + k - 1]]
      BY <1>1, <1>5
    <2>3. SubSeq(s, i + 2, j - 1) = [k \in 1..((j - 1) - (i + 2) + 1) |-> s[(i + 2) + k - 1]]
      BY <1>1, <1>2
    <2>4. ASSUME NEW k \in 1..((j - 1) - (i + 2) + 1) PROVE u[(v + 2) + k - 1] = s[(i + 2) + k - 1]
      <3>1. (i + 2) + k - 1 \in i..j /\ d + ((i + 2) + k - 1) = (v + 2) + k - 1
        BY <1>1, <1>2
      <3> QED
        BY <1>6, <3>1
    <2> QED
      BY <2>1, <2>2, <2>3, <2>4
  <1>13. c + v - 1 = b + i - 1 /\ c + w = b + j /\ c + (w + 1) = b + (j + 1)
    BY <1>1 DEF d
  <1>14. c + (IF u[w] = "BEL" THEN w ELSE w + 1) = b + (IF s[j] = "BEL" THEN j ELSE j + 1)
    BY <1>7, <1>13
  <1>15. OscMark(u, c, v, w) = OscMark(s, b, i, j)
    BY <1>12, <1>13, <1>14, Zenon DEF OscMark
  <1>16. v \in 1..Len(u) /\ w \in 1..Len(u)
    BY <1>1, <1>5
  <1> QED
    BY <1>11, <1>15, <1>16 DEF d

(***************************************************************************)
(* What two followers read are streams of one log.                           *)
(***************************************************************************)
LEMMA ReadIs ==
  ASSUME FollowInv, NEW f \in Followers, Begun(f)
  PROVE  /\ from[f] \in Nat /\ scanner[f].pos = from[f] + Len(ReadBy(f))
         /\ ReadBy(f) \in Seq(Byte)
         /\ \A k \in 1..Len(ReadBy(f)) : ReadBy(f)[k] = raw[from[f] + k]
  <1>1. KnowsLog(f) /\ from[f] \in Nat /\ raw \in Seq(Byte)
    BY DEF FollowInv
  <1>2. /\ scanner[f].pos \in Nat /\ scanner[f].pos <= Len(raw) /\ Len(raw) \in Nat
        /\ scanner[f].pos = from[f] + Len(ReadBy(f))
    BY <1>1, LenProperties DEF KnowsLog, HasRead, InSequence
  <1> DEFINE l == from[f] + 1
             e == scanner[f].pos
  <1>3. l \in Int /\ e \in Int /\ \A k \in l..e : k \in 1..Len(raw)
    BY <1>1, <1>2
  <1>4. \A k \in l..e : raw[k] \in Byte
    BY <1>1, <1>3, ElementOfSeq
  <1> HIDE DEF l, e
  <1>5. /\ SubSeq(raw, l, e) \in Seq(Byte)
        /\ Len(SubSeq(raw, l, e)) = IF l <= e THEN e - l + 1 ELSE 0
        /\ \A k \in 1..(e - l + 1) : SubSeq(raw, l, e)[k] = raw[l + k - 1]
    BY <1>3, <1>4, SubSeqProperties
  <1>6. ReadBy(f) = SubSeq(raw, l, e)
    BY Zenon DEF ReadBy, l, e
  <1>7. ASSUME NEW k \in 1..Len(ReadBy(f)) PROVE ReadBy(f)[k] = raw[from[f] + k]
    <2>1. k \in 1..(e - l + 1)
      BY <1>3, <1>5, <1>6
    <2>2. l + k - 1 = from[f] + k
      BY <1>1, <2>1 DEF l
    <2> QED
      BY <1>5, <1>6, <2>1, <2>2
  <1> QED
    BY <1>1, <1>2, <1>5, <1>6, <1>7

(***************************************************************************)
(* Whoever reads an OSC whole finds the mark in it, wherever it began.       *)
(***************************************************************************)
THEOREM FollowersAgreeAlways == FollowSpec => []FollowersAgree
  <1>1. FollowInv => FollowersAgree
    <2> SUFFICES ASSUME FollowInv,
                        NEW f \in Followers, NEW g \in Followers, Begun(f), Begun(g),
                        NEW m \in scanner[f].marks, m.kind # "boundary",
                        from[g] <= m.start, m.end <= scanner[g].pos
                 PROVE  m \in scanner[g].marks
      BY DEF FollowersAgree
    <2> DEFINE s == ReadBy(f)
               u == ReadBy(g)
               b == from[f]
               c == from[g]
               d == b - c
    <2>1. /\ b \in Nat /\ s \in Seq(Byte) /\ \A k \in 1..Len(s) : s[k] = raw[b + k]
      BY ReadIs
    <2>2. /\ c \in Nat /\ u \in Seq(Byte) /\ scanner[g].pos = c + Len(u)
          /\ \A k \in 1..Len(u) : u[k] = raw[c + k]
      BY ReadIs
    <2>3. scanner[f].marks = MarksIn(s, b) /\ scanner[g].marks = MarksIn(u, c)
      BY DEF FollowInv, KnowsLog, HasRead
    <2>4. Len(s) \in Nat /\ Len(u) \in Nat
      BY <2>1, <2>2, LenProperties
    <2> HIDE DEF s, u, b, c
    <2>5. SameLog(s, b, u, c)
      <3>1. ASSUME NEW k \in 1..Len(s), d + k \in 1..Len(u) PROVE u[d + k] = s[k]
        <4>1. c + (d + k) = b + k
          BY <2>1, <2>2
        <4>2. u[d + k] = raw[c + (d + k)]
          BY <2>2, <3>1
        <4> QED
          BY <2>1, <4>1, <4>2
      <3> QED
        BY <2>1, <2>2, <3>1 DEF SameLog
    <2>6. m \in OscMarks(s, b)
      <3>1. \A x \in BoundaryMarks(s, b) : x.kind = "boundary"
        BY DEF BoundaryMarks, BoundaryMark
      <3> QED
        BY <2>3, <3>1 DEF MarksIn
    <2>7. PICK i, j \in 1..Len(s) : Closes(s, i, j) /\ m \in OscMark(s, b, i, j)
      BY <2>6, OscMarksAre
    <2>8. m.start = b + i - 1 /\ m.end = b + (IF s[j] = "BEL" THEN j ELSE j + 1)
      <3> DEFINE start == b + i - 1
                 end == b + (IF s[j] = "BEL" THEN j ELSE j + 1)
                 p == SubSeq(s, i + 2, j - 1)
      <3>1. m \in MarkOf(p, start, end)
        BY <2>7, Zenon DEF OscMark
      <3> HIDE DEF start, end, p
      <3>2. m.start = start /\ m.end = end
        BY <3>1, MarkOfIs
      <3> QED
        BY <3>2, Zenon DEF start, end
    <2>9. i \in Nat /\ j \in Nat /\ j <= Len(s) /\ 1 <= d + i
      BY <2>1, <2>2, <2>4, <2>7, <2>8 DEF c
    <2>10. d + (IF s[j] = "BEL" THEN j ELSE j + 1) <= Len(u)
      BY <2>1, <2>2, <2>4, <2>7, <2>8
    <2>11. /\ d + i \in 1..Len(u) /\ d + j \in 1..Len(u) /\ Closes(u, d + i, d + j)
           /\ OscMark(u, c, d + i, d + j) = OscMark(s, b, i, j)
      BY <2>5, <2>7, <2>9, <2>10, SameOsc
    <2>12. m \in OscMarks(u, c)
      BY <2>7, <2>11, OscMarksAre
    <2> QED
      BY <2>3, <2>12 DEF MarksIn
  <1> QED
    BY <1>1, FollowInvHolds, PTL

(***************************************************************************)
(* Whoever follows the log goes by the marks it holds.                       *)
(***************************************************************************)
THEOREM FollowersReadRight == FollowSpec => []MarksAreRight
  BY FollowersKnowTheLog, FollowersAgreeAlways, PTL DEF MarksAreRight

=============================================================================
