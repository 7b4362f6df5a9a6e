-------------------------- MODULE McpServer_proofs --------------------------
(***************************************************************************)
(* The MCP server keeps its promises for any number of calls, ids and        *)
(* workers and any capacities of its two queues.                             *)
(*                                                                           *)
(* None of what is claimed is inductive.  That an id names the call it is in *)
(* flight for needs that no call is in two places of the pool at once, or    *)
(* the first of its results would free the id of the second; and that a call *)
(* is answered once needs that what is in the pool has no answer yet.        *)
(***************************************************************************)
EXTENDS McpServer, TLAPS

----------------------------------------------------------------------------
\* The invariant

Pcs == {"idle", "start", "wait", "term", "deliver", "over"}
Ends == {"none", "exit", "terminated"}
Result == [call : Calls, answer : BOOLEAN]
Job == [pc : Pcs, call : Calls \cup {None}, answer : BOOLEAN]
Child == [leader : BOOLEAN, group : BOOLEAN, end : Ends]

Typed ==
    /\ state \in {"new", "initialized", "ready"}
    /\ serving \in {"loop", "stopping", "returned"}
    /\ inflight \in [Ids -> Calls \cup {None}]
    /\ cancelled \subseteq sent /\ sent \subseteq Calls
    /\ jobs \in Seq(Calls)
    /\ completions \in Seq(Result) /\ Len(completions) <= MaxCompletions
    /\ worker \in [Workers -> Job]
    /\ child \in [Calls -> Child]
    /\ replies \in [Calls -> Nat]

\* A worker that has a call; one that is over may still name the last.
Holding(w) == worker[w].pc \notin {"idle", "over"}
Holds ==
    \A w \in Workers :
        /\ worker[w].pc = "idle" => worker[w].call = None
        /\ Holding(w) => worker[w].call \in Calls

\* No call is in the pool twice.
Once ==
    /\ \A j, k \in 1..Len(jobs) : jobs[j] = jobs[k] => j = k
    /\ \A j, k \in 1..Len(completions) : completions[j].call = completions[k].call => j = k
    /\ \A v, w \in Workers :
          Holding(v) /\ Holding(w) /\ worker[v].call = worker[w].call => v = w
    /\ \A j \in 1..Len(jobs), k \in 1..Len(completions) : jobs[j] # completions[k].call
    /\ \A w \in Workers :
          Holding(w) => /\ \A j \in 1..Len(jobs) : jobs[j] # worker[w].call
                        /\ \A k \in 1..Len(completions) : completions[k].call # worker[w].call

\* What is in flight was sent, under its id.
Known == \A i \in Ids : inflight[i] # None => inflight[i] \in sent /\ IdOf[inflight[i]] = i

\* What is in the pool or has not come yet has no answer.
Unanswered ==
    \A c \in Calls :
        /\ InPool(c) => c \in sent /\ replies[c] = 0
        /\ c \notin sent => replies[c] = 0

\* Workers leave when the loop has ended, and have left when Serve returns.
Leaving ==
    /\ serving = "loop" => \A w \in Workers : worker[w].pc # "over"
    /\ serving = "returned" => \A w \in Workers : worker[w].pc = "over"

\* A subprocess has the worker that runs it; none of a killed group lives.
Reaped ==
    \A c \in Calls :
        /\ child[c].leader => \E w \in Workers : worker[w].call = c /\ worker[w].pc \in {"wait", "term"}
        /\ child[c].end = "terminated" => ~child[c].leader /\ ~child[c].group

PoolInv ==
    Typed /\ Holds /\ Once /\ Known /\ Unanswered /\ Leaving /\ Reaped /\ IdNamesItsCall

----------------------------------------------------------------------------
\* Helpers

\* The first of a sequence is taken off: what is left are the others, in order.
LEMMA TailIs ==
  ASSUME NEW S, NEW q \in Seq(S), q # <<>>
  PROVE  /\ Len(q) \in Nat /\ Len(q) >= 1 /\ Head(q) = q[1] /\ q[1] \in S
         /\ Tail(q) \in Seq(S) /\ Len(Tail(q)) = Len(q) - 1
         /\ \A k \in 1..Len(Tail(q)) : k + 1 \in 1..Len(q) /\ Tail(q)[k] = q[k + 1]
         /\ \A j \in 1..Len(q) : j # 1 => j - 1 \in 1..Len(Tail(q)) /\ Tail(q)[j - 1] = q[j]
  OBVIOUS

\* One more at the end of a sequence.
LEMMA AppendIs ==
  ASSUME NEW S, NEW q \in Seq(S), NEW e \in S
  PROVE  /\ Len(q) \in Nat /\ Append(q, e) \in Seq(S) /\ Len(Append(q, e)) = Len(q) + 1
         /\ \A k \in 1..Len(q) : k \in 1..(Len(q) + 1) /\ Append(q, e)[k] = q[k]
         /\ Len(q) + 1 \in 1..(Len(q) + 1) /\ Append(q, e)[Len(q) + 1] = e
         /\ \A k \in 1..(Len(q) + 1) : k \in 1..Len(q) \/ k = Len(q) + 1
  OBVIOUS

\* The three places of a call: the queue, the way to the loop, a worker
\* (server.go's jobs and completions, and worker).
Queued(c) == \E k \in 1..Len(jobs) : jobs[k] = c
Coming(c) == \E k \in 1..Len(completions) : completions[k].call = c
Held(c) == \E w \in Workers : Holding(w) /\ worker[w].call = c

\* Idle workers hold no call.
LEMMA PoolIs ==
  Holds => \A c \in Calls : InPool(c) <=> Queued(c) \/ Coming(c) \/ Held(c)
  BY McpAssumption DEF Holds, InPool, Queued, Coming, Held, Holding

\* The same in the next state.
LEMMA PoolWillBe ==
  Holds' => \A c \in Calls : InPool(c)' <=> Queued(c)' \/ Coming(c)' \/ Held(c)'
  BY McpAssumption DEF Holds, InPool, Queued, Coming, Held, Holding

\* Nothing moves if no queue changes and every worker keeps its call.
SamePlaces ==
    /\ jobs' = jobs /\ completions' = completions
    /\ \A w \in Workers : (Holding(w)' <=> Holding(w)) /\ worker'[w].call = worker[w].call

\* Steps of a worker between taking a call and delivering its result, and steps
\* of the loop that take no message into the pool, leave the pool as it is.
LEMMA PlacesKept ==
  ASSUME SamePlaces, Holds, Holds', Once
  PROVE  Once' /\ \A c \in Calls : InPool(c)' <=> InPool(c)
  <1>1. Once'
    BY DEF SamePlaces, Once
  <1>2. ASSUME NEW c \in Calls
        PROVE  InPool(c)' <=> InPool(c)
    <2>1. Queued(c)' <=> Queued(c)
      BY DEF SamePlaces, Queued
    <2>2. Coming(c)' <=> Coming(c)
      BY DEF SamePlaces, Coming
    <2>3. Held(c)' <=> Held(c)
      BY DEF SamePlaces, Held
    <2> QED
      BY <2>1, <2>2, <2>3, PoolIs, PoolWillBe
  <1> QED
    BY <1>1, <1>2

\* With the pool as it was, what is in flight and what is answered may change
\* for calls that are not in it only.
LEMMA BookKept ==
  ASSUME PoolInv, SamePlaces, Holds', inflight' = inflight, serving' = "loop" => serving = "loop",
         sent \subseteq sent', sent' \subseteq Calls,
         \A c \in Calls : replies'[c] # replies[c] => c \notin sent /\ c \in sent'
  PROVE  Once' /\ Known' /\ Unanswered' /\ IdNamesItsCall'
  <1>1. Once' /\ \A c \in Calls : InPool(c)' <=> InPool(c)
    BY PlacesKept DEF PoolInv
  <1>2. Known'
    BY DEF PoolInv, Known
  <1>3. Unanswered'
    BY <1>1 DEF PoolInv, Unanswered
  <1>4. IdNamesItsCall'
    BY <1>1 DEF PoolInv, IdNamesItsCall
  <1> QED
    BY <1>1, <1>2, <1>3, <1>4

\* A server that has just started has no calls.
LEMMA InitPool == Init => PoolInv
  <1> SUFFICES ASSUME Init PROVE PoolInv
    OBVIOUS
  <1> USE McpAssumption DEF Init
  <1>1. Typed
    <2>1. worker \in [Workers -> Job]
      BY DEF Idle, Job, Pcs
    <2>2. child \in [Calls -> Child]
      BY DEF NoChild, Child, Ends
    <2>3. jobs \in Seq(Calls) /\ completions \in Seq(Result) /\ Len(completions) <= MaxCompletions
      OBVIOUS
    <2> QED
      BY <2>1, <2>2, <2>3 DEF Typed
  <1>2. \A w \in Workers : worker[w] = Idle /\ ~Holding(w)
    BY DEF Idle, Holding
  <1>3. Holds
    BY <1>2 DEF Holds, Idle
  <1>4. Once
    BY <1>2 DEF Once
  <1>5. \A c \in Calls : ~InPool(c)
    <2>1. ASSUME NEW c \in Calls
          PROVE  ~Queued(c) /\ ~Coming(c)
      BY DEF Queued, Coming
    <2>2. ASSUME NEW c \in Calls
          PROVE  ~Held(c)
      BY <1>2 DEF Held
    <2> QED
      BY <1>3, <2>1, <2>2, PoolIs
  <1>6. Known /\ Unanswered /\ IdNamesItsCall
    BY <1>5 DEF Known, Unanswered, IdNamesItsCall
  <1>7. Leaving /\ Reaped
    BY <1>2 DEF Leaving, Reaped, Idle, NoChild
  <1> QED
    BY <1>1, <1>3, <1>4, <1>6, <1>7 DEF PoolInv

----------------------------------------------------------------------------
\* The loop

\* Steps of the loop that leave the pool alone: the handshake, what is refused,
\* a cancellation, and the end (server.go).
Outside ==
    \/ Initialize \/ Initialized \/ Stop \/ Return
    \/ \E c \in Calls : Reject(c) \/ Duplicate(c) \/ TooMany(c)
    \/ \E i \in Ids : Cancel(i)

\* Such a step keeps the invariant: a message that is refused has never been in
\* the pool, and a cancellation only marks a call.
LEMMA OutsideInv == PoolInv /\ Outside => PoolInv'
  <1> SUFFICES ASSUME PoolInv, Outside PROVE PoolInv'
    OBVIOUS
  <1>1. /\ UNCHANGED poolVars
        /\ inflight' = inflight
        /\ serving' = "loop" => serving = "loop"
        /\ sent \subseteq sent' /\ sent' \subseteq Calls
        /\ state' \in {"new", "initialized", "ready"}
        /\ serving' \in {"loop", "stopping", "returned"}
    BY DEF PoolInv, Typed, Outside, Initialize, Initialized, Stop, Return, Reject, Duplicate, TooMany,
           Cancel, Receive, Respond, poolVars
  <1>2. cancelled' \subseteq sent'
    <2>1. CASE \E i \in Ids : Cancel(i)
      BY <2>1 DEF PoolInv, Typed, Known, Cancel
    <2>2. CASE ~\E i \in Ids : Cancel(i)
      <3>1. cancelled' = cancelled
        BY <2>2 DEF Outside, Initialize, Initialized, Stop, Return, Reject, Duplicate, TooMany
      <3> QED
        BY <1>1, <3>1 DEF PoolInv, Typed
    <2> QED
      BY <2>1, <2>2
  <1>3. /\ replies' \in [Calls -> Nat]
        /\ \A c \in Calls : replies'[c] # replies[c] => c \notin sent /\ c \in sent'
    <2>1. CASE replies' = replies
      BY <2>1 DEF PoolInv, Typed
    <2>2. CASE \E c \in Calls : Receive(c) /\ Respond(c)
      <3>1. PICK c \in Calls : Receive(c) /\ Respond(c)
        BY <2>2
      <3> QED
        BY <3>1 DEF PoolInv, Typed, Receive, Respond
    <2> QED
      BY <2>1, <2>2 DEF Outside, Initialize, Initialized, Stop, Return, Reject, Duplicate, TooMany, Cancel
  <1>4. Typed'
    BY <1>1, <1>2, <1>3 DEF PoolInv, Typed, poolVars
  <1>5. Holds' /\ SamePlaces /\ Reaped'
    BY <1>1 DEF PoolInv, Holds, SamePlaces, Holding, Reaped, poolVars
  <1>6. Once' /\ Known' /\ Unanswered' /\ IdNamesItsCall'
    BY <1>1, <1>3, <1>5, BookKept
  <1>7. Leaving'
    <2>1. serving' = "returned" => \A w \in Workers : worker[w].pc = "over"
      BY DEF PoolInv, Leaving, Outside, Initialize, Initialized, Stop, Return, Reject, Duplicate, TooMany,
             Cancel, Receive
    <2> QED
      BY <1>1, <2>1 DEF PoolInv, Leaving, poolVars
  <1> QED
    BY <1>4, <1>5, <1>6, <1>7 DEF PoolInv

\* A call that is taken was in no place of the pool, and its id was free.
LEMMA EnqueueInv ==
  ASSUME PoolInv, NEW c \in Calls, Enqueue(c)
  PROVE  PoolInv'
  <1>1. /\ c \notin sent /\ sent' = sent \cup {c} /\ serving = "loop" /\ serving' = "loop"
        /\ inflight[IdOf[c]] = None /\ inflight' = [inflight EXCEPT ![IdOf[c]] = c]
        /\ jobs' = Append(jobs, c)
        /\ UNCHANGED <<state, cancelled, replies, completions, worker, child>>
    BY DEF Enqueue, Receive
  <1>2. IdOf[c] \in Ids /\ inflight \in [Ids -> Calls \cup {None}] /\ c # None
    BY McpAssumption DEF PoolInv, Typed
  <1>3. /\ Len(jobs) \in Nat /\ jobs' \in Seq(Calls) /\ Len(jobs') = Len(jobs) + 1
        /\ \A k \in 1..Len(jobs) : k \in 1..(Len(jobs) + 1) /\ jobs'[k] = jobs[k]
        /\ Len(jobs) + 1 \in 1..(Len(jobs) + 1) /\ jobs'[Len(jobs) + 1] = c
        /\ \A k \in 1..(Len(jobs) + 1) : k \in 1..Len(jobs) \/ k = Len(jobs) + 1
    BY <1>1, AppendIs DEF PoolInv, Typed
  <1>4. Typed'
    BY <1>1, <1>2, <1>3 DEF PoolInv, Typed
  <1>5. Holds'
    BY <1>1 DEF PoolInv, Holds, Holding
  <1>6. ~Queued(c) /\ ~Coming(c) /\ ~Held(c)
    BY <1>1, PoolIs DEF PoolInv, Unanswered
  <1>7. Once'
    <2>1. \A j, k \in 1..Len(jobs') : jobs'[j] = jobs'[k] => j = k
      BY <1>3, <1>6 DEF PoolInv, Once, Queued
    <2>2. \A j \in 1..Len(jobs'), k \in 1..Len(completions) : jobs'[j] # completions[k].call
      BY <1>3, <1>6 DEF PoolInv, Once, Coming
    <2>3. \A w \in Workers : Holding(w) => \A j \in 1..Len(jobs') : jobs'[j] # worker[w].call
      BY <1>3, <1>6 DEF PoolInv, Once, Held
    <2> QED
      BY <1>1, <2>1, <2>2, <2>3 DEF PoolInv, Once, Holding
  <1>8. \A x \in Calls : InPool(x)' <=> InPool(x) \/ x = c
    <2>1. ASSUME NEW x \in Calls
          PROVE  Queued(x)' <=> Queued(x) \/ x = c
      BY <1>3 DEF Queued
    <2>2. \A x \in Calls : (Coming(x)' <=> Coming(x)) /\ (Held(x)' <=> Held(x))
      BY <1>1 DEF Coming, Held, Holding
    <2> QED
      BY <1>5, <2>1, <2>2, PoolIs, PoolWillBe DEF PoolInv
  <1>9. Known'
    BY <1>1, <1>2 DEF PoolInv, Known
  <1>10. Unanswered'
    BY <1>1, <1>8 DEF PoolInv, Unanswered
  <1>11. IdNamesItsCall'
    <2> SUFFICES ASSUME NEW x \in Calls
                 PROVE  InPool(x)' <=> inflight'[IdOf[x]] = x
      BY DEF IdNamesItsCall
    <2>1. IdOf[x] \in Ids /\ x # None /\ (InPool(x) <=> inflight[IdOf[x]] = x)
      BY <1>1, McpAssumption DEF PoolInv, IdNamesItsCall
    <2>2. inflight'[IdOf[x]] = IF IdOf[x] = IdOf[c] THEN c ELSE inflight[IdOf[x]]
      BY <1>1, <1>2, <2>1
    <2> QED
      BY <1>1, <1>8, <2>1, <2>2
  <1>12. Leaving' /\ Reaped'
    BY <1>1 DEF PoolInv, Leaving, Reaped
  <1> QED
    BY <1>4, <1>5, <1>7, <1>9, <1>10, <1>11, <1>12 DEF PoolInv

\* The first result on the way to the loop is of the call that its id is in
\* flight for, and of no other in the pool (complete).
LEMMA ResultIsTheCalls ==
  ASSUME PoolInv, serving = "loop", completions # <<>>
  PROVE  LET c == Head(completions).call
         IN  /\ c \in Calls /\ c \in sent /\ replies[c] = 0
             /\ IdOf[c] \in Ids /\ inflight[IdOf[c]] = c /\ inflight[IdOf[c]] # None
             /\ ~Queued(c) /\ ~Held(c)
             /\ \A k \in 1..Len(completions) : k # 1 => completions[k].call # c
  <1> DEFINE c == Head(completions).call
  <1>1. /\ Len(completions) \in Nat /\ Len(completions) >= 1
        /\ c = completions[1].call /\ completions[1] \in Result
    BY TailIs DEF PoolInv, Typed
  <1>2. c \in Calls /\ c # None /\ IdOf[c] \in Ids
    BY <1>1, McpAssumption DEF Result
  <1>3. Coming(c)
    BY <1>1 DEF Coming
  <1>4. InPool(c)
    BY <1>2, <1>3, PoolIs DEF PoolInv
  <1>5. c \in sent /\ replies[c] = 0 /\ inflight[IdOf[c]] = c
    BY <1>2, <1>4 DEF PoolInv, Unanswered, IdNamesItsCall
  <1>6. ~Queued(c) /\ ~Held(c)
    BY <1>1 DEF PoolInv, Once, Queued, Held
  <1>7. \A k \in 1..Len(completions) : k # 1 => completions[k].call # c
    BY <1>1 DEF PoolInv, Once
  <1> QED
    BY <1>2, <1>5, <1>6, <1>7

\* A result that arrives takes its call out of the pool and frees its id, and
\* no other's.
LEMMA CompleteInv ==
  ASSUME PoolInv, Complete
  PROVE  PoolInv'
  <1> DEFINE c == Head(completions).call
  <1>1. /\ serving = "loop" /\ serving' = "loop" /\ completions # <<>>
        /\ inflight' = [inflight EXCEPT ![IdOf[c]] = None]
        /\ replies' = replies \/ replies' = [replies EXCEPT ![c] = @ + 1]
        /\ completions' = Tail(completions)
        /\ UNCHANGED <<state, cancelled, sent, jobs, worker, child>>
    BY DEF Complete, Respond
  <1>2. /\ c \in Calls /\ c \in sent /\ replies[c] = 0
        /\ IdOf[c] \in Ids /\ inflight[IdOf[c]] = c
        /\ ~Queued(c) /\ ~Held(c)
        /\ \A k \in 1..Len(completions) : k # 1 => completions[k].call # c
    BY <1>1, ResultIsTheCalls
  <1>3. /\ Len(completions) \in Nat /\ completions' \in Seq(Result)
        /\ Len(completions') = Len(completions) - 1
        /\ \A k \in 1..Len(completions') :
              k + 1 \in 1..Len(completions) /\ completions'[k] = completions[k + 1]
        /\ \A j \in 1..Len(completions) :
              j # 1 => j - 1 \in 1..Len(completions') /\ completions'[j - 1] = completions[j]
        /\ completions[1].call = c
    BY <1>1, TailIs DEF PoolInv, Typed
  <1> HIDE DEF c
  <1>4. Typed'
    <2>1. inflight' \in [Ids -> Calls \cup {None}] /\ replies' \in [Calls -> Nat]
      BY <1>1, <1>2 DEF PoolInv, Typed
    <2>2. Len(completions') <= MaxCompletions
      BY <1>3, McpAssumption DEF PoolInv, Typed
    <2> QED
      BY <1>1, <1>3, <2>1, <2>2 DEF PoolInv, Typed
  <1>5. Holds'
    BY <1>1 DEF PoolInv, Holds, Holding
  <1>6. Once'
    <2>1. \A j, k \in 1..Len(completions') : completions'[j].call = completions'[k].call => j = k
      <3> SUFFICES ASSUME NEW j \in 1..Len(completions'), NEW k \in 1..Len(completions'),
                          completions'[j].call = completions'[k].call
                   PROVE  j = k
        OBVIOUS
      <3>1. j + 1 = k + 1
        BY <1>3 DEF PoolInv, Once
      <3> QED
        BY <3>1
    <2>2. \A j \in 1..Len(jobs), k \in 1..Len(completions') : jobs[j] # completions'[k].call
      BY <1>3 DEF PoolInv, Once
    <2>3. \A w \in Workers :
              Holding(w) => \A k \in 1..Len(completions') : completions'[k].call # worker[w].call
      BY <1>3 DEF PoolInv, Once
    <2> QED
      BY <1>1, <2>1, <2>2, <2>3 DEF PoolInv, Once, Holding
  <1>7. \A x \in Calls : InPool(x)' <=> InPool(x) /\ x # c
    <2>1. ASSUME NEW x \in Calls
          PROVE  Coming(x)' <=> Coming(x) /\ x # c
      <3>1. ASSUME Coming(x)'
            PROVE  Coming(x) /\ x # c
        <4>1. PICK k \in 1..Len(completions') : completions'[k].call = x
          BY <3>1 DEF Coming
        <4>2. k + 1 \in 1..Len(completions) /\ completions[k + 1].call = x /\ k + 1 # 1
          BY <1>3, <4>1
        <4> QED
          BY <1>2, <4>2 DEF Coming
      <3>2. ASSUME Coming(x), x # c
            PROVE  Coming(x)'
        <4>1. PICK k \in 1..Len(completions) : completions[k].call = x
          BY <3>2 DEF Coming
        <4>2. k - 1 \in 1..Len(completions') /\ completions'[k - 1].call = x
          BY <1>3, <3>2, <4>1
        <4> QED
          BY <4>2 DEF Coming
      <3> QED
        BY <3>1, <3>2
    <2>2. \A x \in Calls : (Queued(x)' <=> Queued(x)) /\ (Held(x)' <=> Held(x))
      BY <1>1 DEF Queued, Held, Holding
    <2> QED
      BY <1>2, <1>5, <2>1, <2>2, PoolIs, PoolWillBe DEF PoolInv
  <1>8. Known'
    BY <1>1, <1>2 DEF PoolInv, Known, Typed
  <1>9. Unanswered'
    <2>1. \A x \in Calls : x # c => replies'[x] = replies[x]
      BY <1>1, <1>2 DEF PoolInv, Typed
    <2> QED
      BY <1>1, <1>2, <1>7, <2>1 DEF PoolInv, Unanswered
  <1>10. IdNamesItsCall'
    <2> SUFFICES ASSUME NEW x \in Calls
                 PROVE  InPool(x)' <=> inflight'[IdOf[x]] = x
      BY DEF IdNamesItsCall
    <2>1. IdOf[x] \in Ids /\ x # None /\ (InPool(x) <=> inflight[IdOf[x]] = x)
      BY <1>1, McpAssumption DEF PoolInv, IdNamesItsCall
    <2>2. inflight'[IdOf[x]] = IF IdOf[x] = IdOf[c] THEN None ELSE inflight[IdOf[x]]
      BY <1>1, <1>2, <2>1 DEF PoolInv, Typed
    <2> QED
      BY <1>2, <1>7, <2>1, <2>2
  <1>11. Leaving' /\ Reaped'
    BY <1>1 DEF PoolInv, Leaving, Reaped
  <1> QED
    BY <1>4, <1>5, <1>6, <1>8, <1>9, <1>10, <1>11 DEF PoolInv

----------------------------------------------------------------------------
\* The workers

\* A step that moves no call leaves the book of calls as it is; what is left to
\* show of it concerns the subprocesses.
LEMMA InPlaceInv ==
  ASSUME PoolInv, UNCHANGED <<loopVars, jobs, completions>>,
         worker' \in [Workers -> Job], child' \in [Calls -> Child],
         \A v \in Workers : /\ worker'[v].call = worker[v].call
                            /\ Holding(v)' <=> Holding(v)
                            /\ worker'[v].pc = "over" => worker[v].pc = "over" \/ serving # "loop"
                            /\ worker[v].pc = "over" => worker'[v].pc = "over",
         Reaped'
  PROVE  PoolInv'
  <1>1. UNCHANGED <<state, serving, inflight, cancelled, sent, replies, jobs, completions>>
    BY DEF loopVars
  <1>2. Typed'
    BY <1>1 DEF PoolInv, Typed
  <1>3. Holds' /\ SamePlaces
    <2>1. ASSUME NEW v \in Workers, worker'[v].pc = "idle"
          PROVE  worker'[v].call = None
      <3>1. ~Holding(v)'
        BY <2>1 DEF Holding
      <3>2. worker[v].pc = "idle"
        BY <2>1, <3>1 DEF Holding
      <3> QED
        BY <3>2 DEF PoolInv, Holds
    <2>2. ASSUME NEW v \in Workers, Holding(v)'
          PROVE  worker'[v].call \in Calls
      BY <2>2 DEF PoolInv, Holds
    <2> QED
      BY <1>1, <2>1, <2>2 DEF Holds, SamePlaces
  <1>4. Once' /\ Known' /\ Unanswered' /\ IdNamesItsCall'
    BY <1>1, <1>3, BookKept DEF PoolInv, Typed
  <1>5. Leaving'
    BY <1>1 DEF PoolInv, Leaving
  <1> QED
    BY <1>2, <1>3, <1>4, <1>5 DEF PoolInv

\* A worker that moves on with its call keeps it.
LEMMA MovesOn ==
  ASSUME Typed, NEW w \in Workers, NEW l \in Pcs \ {"idle", "over"}, NEW b \in BOOLEAN, Holding(w),
         worker' = [worker EXCEPT ![w].pc = l, ![w].answer = b]
  PROVE  /\ worker' \in [Workers -> Job]
         /\ worker'[w].pc = l
         /\ \A v \in Workers : /\ worker'[v].call = worker[v].call
                               /\ v # w => worker'[v] = worker[v]
                               /\ Holding(v)' <=> Holding(v)
                               /\ worker'[v].pc = "over" => worker[v].pc = "over"
                               /\ worker[v].pc = "over" => worker'[v].pc = "over"
  <1>1. /\ worker'[w] = [pc |-> l, call |-> worker[w].call, answer |-> b]
        /\ \A v \in Workers : v # w => worker'[v] = worker[v]
        /\ worker' \in [Workers -> Job]
    BY DEF Typed, Job
  <1> QED
    BY <1>1 DEF Holding

\* WGoto is such a move.
LEMMA GotoIs ==
  ASSUME Typed, NEW w \in Workers, NEW l, WGoto(w, l)
  PROVE  worker[w].answer \in BOOLEAN
         /\ worker' = [worker EXCEPT ![w].pc = l, ![w].answer = worker[w].answer]
  BY DEF Typed, Job, WGoto

\* A subprocess starts for a call that is not cancelled, and its worker waits
\* for it (execute).
LEMMA ExecuteInv ==
  ASSUME PoolInv, NEW w \in Workers, Execute(w)
  PROVE  PoolInv'
  <1> DEFINE c == worker[w].call
  <1>1. /\ worker[w].pc = "start" /\ Holding(w) /\ c \in Calls /\ Typed
        /\ UNCHANGED <<loopVars, jobs, completions>>
    BY DEF PoolInv, Holds, Holding, Execute
  <1>2. CASE WGoto(w, "deliver") /\ UNCHANGED child
    <2>1. "deliver" \in Pcs \ {"idle", "over"}
      BY DEF Pcs
    <2>2. worker' = [worker EXCEPT ![w].pc = "deliver", ![w].answer = worker[w].answer]
          /\ worker[w].answer \in BOOLEAN
      BY <1>1, <1>2, GotoIs
    <2>3. /\ worker' \in [Workers -> Job]
          /\ \A v \in Workers : /\ worker'[v].call = worker[v].call
                                /\ v # w => worker'[v] = worker[v]
                                /\ Holding(v)' <=> Holding(v)
                                /\ worker'[v].pc = "over" => worker[v].pc = "over"
                                /\ worker[v].pc = "over" => worker'[v].pc = "over"
      BY <1>1, <2>1, <2>2, MovesOn
    <2>4. Reaped'
      BY <1>1, <1>2, <2>3 DEF PoolInv, Reaped
    <2> QED
      BY <1>1, <1>2, <2>3, <2>4, InPlaceInv DEF Typed
  <1>3. CASE /\ worker' = [worker EXCEPT ![w].pc = "deliver", ![w].answer = TRUE]
             /\ UNCHANGED child
    <2>1. "deliver" \in Pcs \ {"idle", "over"}
      BY DEF Pcs
    <2>3. /\ worker' \in [Workers -> Job]
          /\ \A v \in Workers : /\ worker'[v].call = worker[v].call
                                /\ v # w => worker'[v] = worker[v]
                                /\ Holding(v)' <=> Holding(v)
                                /\ worker'[v].pc = "over" => worker[v].pc = "over"
                                /\ worker[v].pc = "over" => worker'[v].pc = "over"
      BY <1>1, <1>3, <2>1, MovesOn
    <2>4. Reaped'
      BY <1>1, <1>3, <2>3 DEF PoolInv, Reaped
    <2> QED
      BY <1>1, <1>3, <2>3, <2>4, InPlaceInv DEF Typed
  <1>4. CASE /\ WGoto(w, "wait")
             /\ child' = [child EXCEPT ![c] = [leader |-> TRUE, group |-> FALSE, end |-> "none"]]
    <2>1. "wait" \in Pcs \ {"idle", "over"}
      BY DEF Pcs
    <2>2. worker' = [worker EXCEPT ![w].pc = "wait", ![w].answer = worker[w].answer]
          /\ worker[w].answer \in BOOLEAN
      BY <1>1, <1>4, GotoIs
    <2>3. /\ worker' \in [Workers -> Job]
          /\ worker'[w].pc = "wait"
          /\ \A v \in Workers : /\ worker'[v].call = worker[v].call
                                /\ v # w => worker'[v] = worker[v]
                                /\ Holding(v)' <=> Holding(v)
                                /\ worker'[v].pc = "over" => worker[v].pc = "over"
                                /\ worker[v].pc = "over" => worker'[v].pc = "over"
      BY <1>1, <2>1, <2>2, MovesOn
    <2>4. /\ child' \in [Calls -> Child]
          /\ child'[c].leader /\ child'[c].end = "none"
          /\ \A x \in Calls : x # c => child'[x] = child[x]
      BY <1>1, <1>4 DEF Typed, Child, Ends
    <2>5. Reaped'
      BY <1>1, <2>3, <2>4 DEF PoolInv, Reaped
    <2> QED
      BY <1>1, <2>3, <2>4, <2>5, InPlaceInv
  <1> QED
    BY <1>2, <1>3, <1>4 DEF Execute

\* A call that ended, or whose group was killed, has no leader any more when
\* its worker goes on to deliver (executor.go).
LEMMA EndedInv ==
  ASSUME PoolInv, NEW w \in Workers, worker[w].pc \in {"wait", "term"}, Finished(w),
         UNCHANGED <<loopVars, jobs, completions>>,
         NEW r \in Child, ~r.leader, ~r.group,
         child' = [child EXCEPT ![worker[w].call] = r]
  PROVE  PoolInv'
  <1> DEFINE c == worker[w].call
  <1>1. Holding(w) /\ c \in Calls /\ Typed
    BY DEF PoolInv, Holds, Holding
  <1>2. "deliver" \in Pcs \ {"idle", "over"} /\ (~Done(worker[w].call)) \in BOOLEAN
    BY DEF Pcs
  <1>3. /\ worker' \in [Workers -> Job]
        /\ \A v \in Workers : /\ worker'[v].call = worker[v].call
                              /\ v # w => worker'[v] = worker[v]
                              /\ Holding(v)' <=> Holding(v)
                              /\ worker'[v].pc = "over" => worker[v].pc = "over"
                              /\ worker[v].pc = "over" => worker'[v].pc = "over"
    BY <1>1, <1>2, MovesOn DEF Finished
  <1>4. /\ child' \in [Calls -> Child]
        /\ ~child'[c].leader /\ ~child'[c].group
        /\ \A x \in Calls : x # c => child'[x] = child[x]
    BY <1>1 DEF Typed
  <1> HIDE DEF c
  <1>5. Reaped'
    <2>1. ASSUME NEW x \in Calls, child'[x].leader
          PROVE  \E v \in Workers : worker'[v].call = x /\ worker'[v].pc \in {"wait", "term"}
      <3>1. x # c /\ child[x].leader
        BY <1>4, <2>1
      <3>2. PICK v \in Workers : worker[v].call = x /\ worker[v].pc \in {"wait", "term"}
        BY <3>1 DEF PoolInv, Reaped
      <3>3. v # w
        BY <3>1, <3>2 DEF c
      <3> QED
        BY <1>3, <3>2, <3>3
    <2>2. \A x \in Calls : child'[x].end = "terminated" => ~child'[x].leader /\ ~child'[x].group
      BY <1>4 DEF PoolInv, Reaped
    <2> QED
      BY <2>1, <2>2 DEF Reaped
  <1> QED
    BY <1>3, <1>4, <1>5, InPlaceInv

\* SIGTERM leaves the call with its worker, which waits for the grace period.
LEMMA TerminateInv ==
  ASSUME PoolInv, NEW w \in Workers, Terminate(w)
  PROVE  PoolInv'
  <1>1. /\ worker[w].pc = "wait" /\ Holding(w) /\ Typed /\ WGoto(w, "term")
        /\ UNCHANGED <<loopVars, jobs, completions, child>>
    BY DEF PoolInv, Holding, Terminate
  <1>2. "term" \in Pcs \ {"idle", "over"}
    BY DEF Pcs
  <1>3. worker' = [worker EXCEPT ![w].pc = "term", ![w].answer = worker[w].answer]
        /\ worker[w].answer \in BOOLEAN
    BY <1>1, GotoIs
  <1>4. /\ worker' \in [Workers -> Job]
        /\ worker'[w].pc = "term"
        /\ \A v \in Workers : /\ worker'[v].call = worker[v].call
                              /\ v # w => worker'[v] = worker[v]
                              /\ Holding(v)' <=> Holding(v)
                              /\ worker'[v].pc = "over" => worker[v].pc = "over"
                              /\ worker[v].pc = "over" => worker'[v].pc = "over"
    BY <1>1, <1>2, <1>3, MovesOn
  <1>5. Reaped'
    BY <1>1, <1>4 DEF PoolInv, Reaped
  <1> QED
    BY <1>1, <1>4, <1>5, InPlaceInv DEF Typed

\* A worker without a job leaves when the loop has ended.
LEMMA LeavePoolInv ==
  ASSUME PoolInv, NEW w \in Workers, LeavePool(w)
  PROVE  PoolInv'
  <1>1. /\ worker[w].pc = "idle" /\ serving # "loop" /\ Typed
        /\ worker' = [worker EXCEPT ![w].pc = "over"]
        /\ UNCHANGED <<loopVars, jobs, completions, child>>
    BY DEF PoolInv, LeavePool, WGoto
  <1>2. /\ worker'[w] = [pc |-> "over", call |-> worker[w].call, answer |-> worker[w].answer]
        /\ \A v \in Workers : v # w => worker'[v] = worker[v]
        /\ worker' \in [Workers -> Job]
    BY <1>1 DEF Typed, Job, Pcs
  <1>3. Reaped'
    BY <1>1, <1>2 DEF PoolInv, Reaped
  <1>4. \A v \in Workers : /\ worker'[v].call = worker[v].call
                           /\ Holding(v)' <=> Holding(v)
                           /\ worker'[v].pc = "over" => worker[v].pc = "over" \/ serving # "loop"
                           /\ worker[v].pc = "over" => worker'[v].pc = "over"
    BY <1>1, <1>2 DEF Holding
  <1>5. child' \in [Calls -> Child]
    BY <1>1 DEF Typed
  <1> QED
    BY <1>1, <1>2, <1>3, <1>4, <1>5, InPlaceInv

\* The first of the queue goes to a worker that had none.
LEMMA TakeJobInv ==
  ASSUME PoolInv, NEW w \in Workers, TakeJob(w)
  PROVE  PoolInv'
  <1> DEFINE c == Head(jobs)
  <1>1. /\ worker[w].pc = "idle" /\ jobs # <<>> /\ Typed /\ Holds /\ Once
        /\ worker' = [worker EXCEPT ![w] = [pc |-> "start", call |-> c, answer |-> FALSE]]
        /\ jobs' = Tail(jobs)
        /\ UNCHANGED <<state, serving, inflight, cancelled, sent, replies, completions, child>>
    BY DEF PoolInv, TakeJob, loopVars
  <1>2. /\ Len(jobs) \in Nat /\ Len(jobs) >= 1 /\ c = jobs[1] /\ c \in Calls
        /\ jobs' \in Seq(Calls) /\ Len(jobs') = Len(jobs) - 1
        /\ \A k \in 1..Len(jobs') : k + 1 \in 1..Len(jobs) /\ jobs'[k] = jobs[k + 1]
        /\ \A j \in 1..Len(jobs) : j # 1 => j - 1 \in 1..Len(jobs') /\ jobs'[j - 1] = jobs[j]
    BY <1>1, TailIs DEF Typed
  <1> HIDE DEF c
  <1>3. /\ worker' \in [Workers -> Job]
        /\ worker'[w].pc = "start" /\ worker'[w].call = c
        /\ \A v \in Workers : v # w => worker'[v] = worker[v]
    BY <1>1, <1>2 DEF Typed, Job, Pcs
  <1>4. Typed'
    BY <1>1, <1>2, <1>3 DEF Typed
  <1>5. Holds'
    <2>1. ASSUME NEW v \in Workers
          PROVE  (worker'[v].pc = "idle" => worker'[v].call = None)
                 /\ (Holding(v)' => worker'[v].call \in Calls)
      <3>1. CASE v = w
        BY <1>2, <1>3, <3>1
      <3>2. CASE v # w
        BY <1>1, <1>3, <3>2 DEF Holds, Holding
      <3> QED
        BY <3>1, <3>2
    <2> QED
      BY <2>1 DEF Holds
  <1>6. /\ Holding(w)' /\ ~Holding(w)
        /\ \A v \in Workers : v # w => (Holding(v)' <=> Holding(v))
    BY <1>1, <1>3 DEF Holding
  <1>7. /\ \A v \in Workers : Holding(v) => worker[v].call # c
        /\ \A k \in 1..Len(completions) : completions[k].call # c
        /\ \A j \in 1..Len(jobs') : jobs'[j] # c
    <2>1. 1 \in 1..Len(jobs)
      BY <1>2
    <2>2. \A v \in Workers : Holding(v) => worker[v].call # c
      BY <1>1, <1>2, <2>1 DEF Once
    <2>3. \A k \in 1..Len(completions) : completions[k].call # c
      BY <1>1, <1>2, <2>1 DEF Once
    <2>4. ASSUME NEW j \in 1..Len(jobs'), jobs'[j] = c
          PROVE  FALSE
      <3>1. j + 1 \in 1..Len(jobs) /\ jobs[j + 1] = jobs[1] /\ j + 1 # 1
        BY <1>2, <2>4
      <3> QED
        BY <1>1, <2>1, <3>1 DEF Once
    <2> QED
      BY <2>2, <2>3, <2>4
  <1>8. Once'
    <2>1. \A j, k \in 1..Len(jobs') : jobs'[j] = jobs'[k] => j = k
      <3> SUFFICES ASSUME NEW j \in 1..Len(jobs'), NEW k \in 1..Len(jobs'), jobs'[j] = jobs'[k]
                   PROVE  j = k
        OBVIOUS
      <3>1. j + 1 = k + 1
        BY <1>1, <1>2 DEF Once
      <3> QED
        BY <3>1
    <2>2. \A j, k \in 1..Len(completions) : completions[j].call = completions[k].call => j = k
      BY <1>1 DEF Once
    <2>3. \A u, v \in Workers :
              Holding(u)' /\ Holding(v)' /\ worker'[u].call = worker'[v].call => u = v
      BY <1>1, <1>3, <1>6, <1>7 DEF Once
    <2>4. \A j \in 1..Len(jobs'), k \in 1..Len(completions) : jobs'[j] # completions[k].call
      BY <1>1, <1>2 DEF Once
    <2>5. ASSUME NEW v \in Workers, Holding(v)'
          PROVE  /\ \A j \in 1..Len(jobs') : jobs'[j] # worker'[v].call
                 /\ \A k \in 1..Len(completions) : completions[k].call # worker'[v].call
      <3>1. CASE v = w
        BY <1>3, <1>7, <3>1
      <3>2. CASE v # w
        BY <1>1, <1>2, <1>3, <1>6, <2>5, <3>2 DEF Once
      <3> QED
        BY <3>1, <3>2
    <2> QED
      BY <1>1, <2>1, <2>2, <2>3, <2>4, <2>5 DEF Once
  <1>9. \A x \in Calls : InPool(x)' <=> InPool(x)
    <2>1. ASSUME NEW x \in Calls
          PROVE  Queued(x) <=> Queued(x)' \/ x = c
      <3>1. ASSUME Queued(x), x # c
            PROVE  Queued(x)'
        <4>1. PICK j \in 1..Len(jobs) : jobs[j] = x
          BY <3>1 DEF Queued
        <4>2. j - 1 \in 1..Len(jobs') /\ jobs'[j - 1] = x
          BY <1>2, <3>1, <4>1
        <4> QED
          BY <4>2 DEF Queued
      <3>2. ASSUME Queued(x)'
            PROVE  Queued(x)
        <4>1. PICK k \in 1..Len(jobs') : jobs'[k] = x
          BY <3>2 DEF Queued
        <4> QED
          BY <1>2, <4>1 DEF Queued
      <3>3. x = c => Queued(x)
        BY <1>2 DEF Queued
      <3> QED
        BY <3>1, <3>2, <3>3
    <2>2. ASSUME NEW x \in Calls
          PROVE  Held(x)' <=> Held(x) \/ x = c
      BY <1>3, <1>6 DEF Held
    <2>3. \A x \in Calls : Coming(x)' <=> Coming(x)
      BY <1>1 DEF Coming
    <2> QED
      BY <1>1, <1>5, <2>1, <2>2, <2>3, PoolIs, PoolWillBe
  <1>10. Known' /\ Unanswered' /\ IdNamesItsCall'
    BY <1>1, <1>9 DEF PoolInv, Known, Unanswered, IdNamesItsCall
  <1>11. Leaving'
    <2>1. \A v \in Workers : worker'[v].pc = "over" => worker[v].pc = "over"
      BY <1>3
    <2>2. serving # "returned"
      BY <1>1 DEF PoolInv, Leaving
    <2> QED
      BY <1>1, <2>1, <2>2 DEF PoolInv, Leaving
  <1>12. Reaped'
    BY <1>1, <1>3 DEF PoolInv, Reaped
  <1> QED
    BY <1>4, <1>5, <1>8, <1>10, <1>11, <1>12 DEF PoolInv

\* A result goes to the loop, and its worker has no call any more.
LEMMA DeliverInv ==
  ASSUME PoolInv, NEW w \in Workers, Deliver(w)
  PROVE  PoolInv'
  <1> DEFINE c == worker[w].call
             r == [call |-> c, answer |-> worker[w].answer]
             n == Len(completions)
  <1>1. /\ worker[w].pc = "deliver" /\ n < MaxCompletions /\ Typed /\ Holds /\ Once
        /\ completions' = Append(completions, r)
        /\ worker' = [worker EXCEPT ![w] = Idle]
        /\ UNCHANGED <<state, serving, inflight, cancelled, sent, replies, jobs, child>>
    BY DEF PoolInv, Deliver, loopVars
  <1>2. Holding(w) /\ c \in Calls /\ r \in Result /\ r.call = c
    BY <1>1 DEF Holding, Holds, Typed, Job, Result
  <1> HIDE DEF r
  <1>3. /\ n \in Nat /\ completions' \in Seq(Result) /\ Len(completions') = n + 1
        /\ \A k \in 1..n : k \in 1..(n + 1) /\ completions'[k] = completions[k]
        /\ n + 1 \in 1..(n + 1) /\ completions'[n + 1] = r
        /\ \A k \in 1..(n + 1) : k \in 1..n \/ k = n + 1
    BY <1>1, <1>2, AppendIs DEF Typed
  <1>4. /\ worker' \in [Workers -> Job]
        /\ worker'[w].pc = "idle" /\ worker'[w].call = None
        /\ \A v \in Workers : v # w => worker'[v] = worker[v]
    BY <1>1 DEF Typed, Job, Pcs, Idle
  <1>5. Typed'
    BY <1>1, <1>3, <1>4, McpAssumption DEF Typed
  <1>6. ~Holding(w)' /\ \A v \in Workers : v # w => (Holding(v)' <=> Holding(v))
    BY <1>4 DEF Holding
  <1>7. Holds'
    BY <1>1, <1>4, <1>6 DEF Holds
  <1>8. /\ \A v \in Workers : Holding(v)' => v # w /\ Holding(v) /\ worker'[v].call # c
        /\ \A k \in 1..n : completions[k].call # c
        /\ \A j \in 1..Len(jobs) : jobs[j] # c
    BY <1>1, <1>2, <1>4, <1>6 DEF Once
  <1> HIDE DEF n, c
  <1>9. Once'
    <2>0. n = Len(completions)
      BY DEF n
    <2>1. \A j, k \in 1..(n + 1) : completions'[j].call = completions'[k].call => j = k
      BY <1>1, <1>2, <1>3, <1>8, <2>0 DEF Once
    <2>2. \A j \in 1..Len(jobs), k \in 1..(n + 1) : jobs[j] # completions'[k].call
      BY <1>1, <1>2, <1>3, <1>8, <2>0 DEF Once
    <2>3. \A u, v \in Workers :
              Holding(u)' /\ Holding(v)' /\ worker'[u].call = worker'[v].call => u = v
      BY <1>1, <1>4, <1>8 DEF Once
    <2>4. ASSUME NEW v \in Workers, Holding(v)'
          PROVE  /\ \A j \in 1..Len(jobs) : jobs[j] # worker'[v].call
                 /\ \A k \in 1..(n + 1) : completions'[k].call # worker'[v].call
      <3>1. v # w /\ Holding(v) /\ worker'[v] = worker[v] /\ worker'[v].call # c
        BY <1>4, <1>8, <2>4
      <3>2. \A j \in 1..Len(jobs) : jobs[j] # worker'[v].call
        BY <1>1, <3>1 DEF Once
      <3>3. \A k \in 1..n : completions[k].call # worker'[v].call
        BY <1>1, <2>0, <3>1 DEF Once
      <3> QED
        BY <1>2, <1>3, <3>1, <3>2, <3>3
    <2> QED
      BY <1>1, <1>3, <2>1, <2>2, <2>3, <2>4 DEF Once
  <1>10. \A x \in Calls : InPool(x)' <=> InPool(x)
    <2>1. ASSUME NEW x \in Calls
          PROVE  Coming(x)' <=> Coming(x) \/ x = c
      BY <1>2, <1>3 DEF Coming, n
    <2>2. ASSUME NEW x \in Calls
          PROVE  Held(x) <=> Held(x)' \/ x = c
      BY <1>2, <1>4, <1>6 DEF Held, c
    <2>3. \A x \in Calls : Queued(x)' <=> Queued(x)
      BY <1>1 DEF Queued
    <2> QED
      BY <1>1, <1>7, <2>1, <2>2, <2>3, PoolIs, PoolWillBe
  <1>11. Known' /\ Unanswered' /\ IdNamesItsCall'
    BY <1>1, <1>10 DEF PoolInv, Known, Unanswered, IdNamesItsCall
  <1>12. Leaving' /\ Reaped'
    <2>1. \A v \in Workers : worker'[v].pc = "over" => worker[v].pc = "over"
      BY <1>4
    <2>2. serving # "returned"
      BY <1>1 DEF PoolInv, Leaving
    <2>3. Reaped'
      BY <1>1, <1>4 DEF PoolInv, Reaped
    <2> QED
      BY <1>1, <2>1, <2>2, <2>3 DEF PoolInv, Leaving
  <1> QED
    BY <1>5, <1>7, <1>9, <1>11, <1>12 DEF PoolInv

\* A result that nobody takes any more is dropped with its worker.
LEMMA DiscardInv ==
  ASSUME PoolInv, NEW w \in Workers, Discard(w)
  PROVE  PoolInv'
  <1>1. /\ worker[w].pc = "deliver" /\ serving # "loop" /\ Typed /\ Holds /\ Once
        /\ worker' = [worker EXCEPT ![w].pc = "over"]
        /\ UNCHANGED <<state, serving, inflight, cancelled, sent, replies, jobs, completions, child>>
    BY DEF PoolInv, Discard, WGoto, loopVars
  <1>2. /\ worker'[w].pc = "over"
        /\ \A v \in Workers : v # w => worker'[v] = worker[v]
        /\ worker' \in [Workers -> Job]
    BY <1>1 DEF Typed, Job, Pcs
  <1>3. Typed'
    BY <1>1, <1>2 DEF Typed
  <1>4. \A v \in Workers : Holding(v)' => Holding(v) /\ worker'[v] = worker[v]
    BY <1>2 DEF Holding
  <1>5. Holds'
    BY <1>1, <1>2, <1>4 DEF Holds
  <1>6. Once'
    BY <1>1, <1>4 DEF Once
  <1>7. \A x \in Calls : InPool(x)' => InPool(x)
    <2>1. \A x \in Calls : Held(x)' => Held(x)
      BY <1>4 DEF Held
    <2>2. \A x \in Calls : (Queued(x)' <=> Queued(x)) /\ (Coming(x)' <=> Coming(x))
      BY <1>1 DEF Queued, Coming
    <2> QED
      BY <1>1, <1>5, <2>1, <2>2, PoolIs, PoolWillBe
  <1>8. Known' /\ Unanswered' /\ IdNamesItsCall'
    BY <1>1, <1>7 DEF PoolInv, Known, Unanswered, IdNamesItsCall
  <1>9. Leaving' /\ Reaped'
    BY <1>1, <1>2 DEF PoolInv, Leaving, Reaped
  <1> QED
    BY <1>3, <1>5, <1>6, <1>8, <1>9 DEF PoolInv

----------------------------------------------------------------------------
\* The subprocesses

\* A subprocess forks or exits: nobody's place in the pool changes, and none of
\* a killed group is left to do either.
LEMMA ChildInv ==
  ASSUME PoolInv, NEW c \in Calls, ChildForks(c) \/ ChildExits(c)
  PROVE  PoolInv'
  <1>1. Typed /\ child[c].leader /\ UNCHANGED <<loopVars, jobs, completions, worker>>
    BY DEF PoolInv, ChildForks, ChildExits
  <1>2. /\ child' \in [Calls -> Child]
        /\ child'[c].end = child[c].end
        /\ \A x \in Calls : x # c => child'[x] = child[x]
    <2>1. CASE ChildForks(c)
      <3>1. child' = [child EXCEPT ![c].group = TRUE]
        BY <2>1 DEF ChildForks
      <3> QED
        BY <1>1, <3>1 DEF Typed, Child
    <2>2. CASE ChildExits(c)
      <3>1. child' = [child EXCEPT ![c].leader = FALSE]
        BY <2>2 DEF ChildExits
      <3> QED
        BY <1>1, <3>1 DEF Typed, Child
    <2> QED
      BY <2>1, <2>2
  <1>3. Reaped'
    BY <1>1, <1>2 DEF PoolInv, Reaped
  <1>4. worker' \in [Workers -> Job]
    BY <1>1 DEF Typed
  <1>5. \A v \in Workers : worker'[v].call = worker[v].call /\ (Holding(v)' <=> Holding(v))
                           /\ worker'[v].pc = worker[v].pc
    BY <1>1 DEF Holding
  <1> QED
    BY <1>1, <1>2, <1>3, <1>4, <1>5, InPlaceInv

----------------------------------------------------------------------------
\* Theorems

\* Every step keeps the invariant.
LEMMA PoolStep == PoolInv /\ [Next]_vars => PoolInv'
  <1> SUFFICES ASSUME PoolInv, [Next]_vars PROVE PoolInv'
    OBVIOUS
  <1>1. CASE Outside
    BY <1>1, OutsideInv
  <1>2. CASE \E c \in Calls : Enqueue(c)
    BY <1>2, EnqueueInv
  <1>3. CASE Complete
    BY <1>3, CompleteInv
  <1>4. ASSUME NEW w \in Workers, Work(w)
        PROVE  PoolInv'
    <2>1. CASE TakeJob(w)
      BY <2>1, TakeJobInv
    <2>2. CASE LeavePool(w)
      BY <2>2, LeavePoolInv
    <2>3. CASE Execute(w)
      BY <2>3, ExecuteInv
    <2>4. CASE ChildDone(w)
      <3> DEFINE gone == [NoChild EXCEPT !.end = "exit"]
      <3>1. NoChild \in Child /\ ~NoChild.leader /\ ~NoChild.group /\ "exit" \in Ends
        BY DEF NoChild, Child, Ends
      <3>2. gone \in Child /\ ~gone.leader /\ ~gone.group
        BY <3>1 DEF Child
      <3>3. child' = [child EXCEPT ![worker[w].call] = gone]
        BY <2>4 DEF ChildDone
      <3> HIDE DEF gone
      <3> QED
        BY <2>4, <3>2, <3>3, EndedInv DEF ChildDone
    <2>5. CASE KillGroup(w)
      <3> DEFINE killed == [leader |-> FALSE, group |-> FALSE, end |-> "terminated"]
      <3>1. killed \in Child /\ ~killed.leader /\ ~killed.group
        BY DEF Child, Ends
      <3>2. child' = [child EXCEPT ![worker[w].call] = killed]
        BY <2>5 DEF KillGroup
      <3> HIDE DEF killed
      <3> QED
        BY <2>5, <3>1, <3>2, EndedInv DEF KillGroup
    <2>6. CASE Deliver(w)
      BY <2>6, DeliverInv
    <2>7. CASE Discard(w)
      BY <2>7, DiscardInv
    <2> QED
      BY <1>4, <2>1, <2>2, <2>3, <2>4, <2>5, <2>6, <2>7 DEF Work
  <1>5. CASE \E w \in Workers : Terminate(w)
    BY <1>5, TerminateInv
  <1>6. CASE \E c \in Calls : ChildForks(c) \/ ChildExits(c)
    BY <1>6, ChildInv
  <1>7. CASE UNCHANGED vars
    <2>1. UNCHANGED <<state, serving, inflight, cancelled, sent, replies, jobs, completions, worker, child>>
      BY <1>7 DEF vars, loopVars, poolVars
    <2>2. \A w \in Workers : Holding(w)' <=> Holding(w)
      BY <2>1 DEF Holding
    <2>3. Typed' /\ Holds' /\ SamePlaces
      BY <2>1, <2>2 DEF PoolInv, Typed, Holds, SamePlaces
    <2>4. Once' /\ Known' /\ Unanswered' /\ IdNamesItsCall'
      BY <2>1, <2>3, BookKept DEF PoolInv, Typed
    <2>5. Leaving' /\ Reaped'
      BY <2>1 DEF PoolInv, Leaving, Reaped
    <2> QED
      BY <2>3, <2>4, <2>5 DEF PoolInv
  <1> QED
    BY <1>1, <1>2, <1>3, <1>4, <1>5, <1>6, <1>7 DEF Next, Message, Outside

\* The queue, the workers and the way back hold each call once, under its own
\* id, however messages, results, cancellations and the end interleave
\* (mcpserver/server.go).
THEOREM PoolInvariant == Spec => []PoolInv
  <1>1. Init => PoolInv
    BY InitPool
  <1>2. PoolInv /\ [Next]_vars => PoolInv'
    BY PoolStep
  <1> QED
    BY <1>1, <1>2, PTL DEF Spec

\* Every variable keeps its type, and the results on their way do not outgrow
\* their channel.
THEOREM TypeCorrect == Spec => []TypeOK
  <1>1. PoolInv => TypeOK
    BY DEF PoolInv, Typed, TypeOK, Job, Pcs
  <1> QED
    BY <1>1, PoolInvariant, PTL

\* An id names the call that is queued, run or on its way under it, so that a
\* cancellation reaches the call it means (server.go:143).
THEOREM IdsNameCalls == Spec => []IdNamesItsCall
  <1>1. PoolInv => IdNamesItsCall
    BY DEF PoolInv
  <1> QED
    BY <1>1, PoolInvariant, PTL

\* The group of a terminated call is gone, and no call runs when Serve has
\* returned (executor.go:45-47).
THEOREM NobodySurvives == Spec => []NothingSurvives
  <1>1. PoolInv => NothingSurvives
    BY DEF PoolInv, Reaped, Leaving, NothingSurvives
  <1> QED
    BY <1>1, PoolInvariant, PTL

\* A call is answered once at most, and never after its cancellation was taken
\* (server.go:172).
THEOREM CallsAreAnsweredOnce == Spec => AnsweredOnce
  <1>1. PoolInv /\ [Next]_vars => [\A c \in Calls : replies'[c] # replies[c] =>
                                        /\ replies[c] = 0 /\ replies'[c] = 1
                                        /\ c \notin cancelled]_vars
    <2> SUFFICES ASSUME PoolInv, [Next]_vars
                 PROVE  \A c \in Calls : replies'[c] # replies[c] =>
                            replies[c] = 0 /\ replies'[c] = 1 /\ c \notin cancelled
      OBVIOUS
    <2>0. Typed /\ cancelled \subseteq sent /\ replies \in [Calls -> Nat]
      BY DEF PoolInv, Typed
    <2>1. CASE \E c \in Calls : Receive(c) /\ Respond(c)
      <3>1. PICK c \in Calls : Receive(c) /\ Respond(c)
        BY <2>1
      <3>2. c \notin sent /\ replies[c] = 0
        BY <3>1 DEF Receive, PoolInv, Unanswered
      <3>3. replies'[c] = 1 /\ \A x \in Calls : x # c => replies'[x] = replies[x]
        BY <2>0, <3>1, <3>2 DEF Respond
      <3> QED
        BY <2>0, <3>2, <3>3
    <2>2. CASE Complete
      <3> DEFINE c == Head(completions).call
      <3>1. serving = "loop" /\ completions # <<>>
        BY <2>2 DEF Complete
      <3>2. c \in Calls /\ replies[c] = 0 /\ inflight[IdOf[c]] = c
        BY <3>1, ResultIsTheCalls
      <3>3. \/ replies' = replies
            \/ inflight[IdOf[c]] \notin cancelled /\ Respond(c)
        BY <2>2 DEF Complete
      <3> HIDE DEF c
      <3>4. CASE replies' = replies
        BY <3>4
      <3>5. CASE inflight[IdOf[c]] \notin cancelled /\ Respond(c)
        <4>1. replies'[c] = 1 /\ \A x \in Calls : x # c => replies'[x] = replies[x]
          BY <2>0, <3>2, <3>5 DEF Respond
        <4> QED
          BY <3>2, <3>5, <4>1
      <3> QED
        BY <3>3, <3>4, <3>5
    <2>3. CASE replies' = replies
      BY <2>3
    <2> QED
      <3>1. CASE UNCHANGED vars
        BY <2>3, <3>1 DEF vars, loopVars
      <3>2. CASE Message
        BY <2>1, <2>3, <3>2 DEF Message, Initialize, Initialized, Reject, Duplicate, Enqueue, TooMany, Cancel
      <3>3. CASE ~Message /\ ~Complete /\ Next
        <4>1. replies' = replies
          BY <3>3 DEF Next, Stop, Return, Work, TakeJob, LeavePool, Execute, ChildDone, KillGroup, Deliver,
                      Discard, Terminate, ChildForks, ChildExits, loopVars
        <4> QED
          BY <2>3, <4>1
      <3> QED
        BY <2>2, <3>1, <3>2, <3>3
  <1> QED
    BY <1>1, PoolInvariant, PTL DEF Spec, AnsweredOnce
=============================================================================
