----------------------------- MODULE McpServer ------------------------------
(***************************************************************************)
(* The MCP server (internal/mcpserver): one loop that takes messages from      *)
(* stdin and results from a pool of workers, a bounded queue between them,     *)
(* cancellation, and the subprocesses that the workers run and reap.          *)
(*                                                                          *)
(* A call is a tools/call request; several may carry one id.  The client is   *)
(* free: it sends any message at any time, and closes stdin when it likes.    *)
(***************************************************************************)
EXTENDS Naturals, Sequences

CONSTANTS
    Calls,
    Ids,
    IdOf,           \* [Calls -> Ids]
    Workers,        \* maxConcurrentToolCalls of them
    MaxQueued,      \* maxQueuedToolCalls
    MaxCompletions, \* the capacity of the completions channel
    None

ASSUME McpAssumption ==
    /\ IdOf \in [Calls -> Ids] /\ None \notin Calls
    /\ MaxQueued \in Nat /\ MaxCompletions \in Nat

VARIABLES
    state,          \* "new", "initialized", "ready"
    serving,        \* Serve: "loop", "stopping" (deferred shutdown), "returned"
    inflight,       \* [Ids -> the call under way, or None]
    cancelled,      \* calls whose context is cancelled by their client
    jobs,           \* calls waiting for a worker
    completions,    \* [call, answer] on the way to the loop
    worker,         \* [Workers -> [pc, call, answer]]
    child,          \* [Calls -> [leader, group, end]]: the subprocess, whether anybody
                    \* else lives in its group, and how it came to end
    sent,           \* calls the client has sent
    replies         \* [Calls -> how many responses were written]

poolVars == <<jobs, completions, worker, child>>
loopVars == <<state, serving, inflight, cancelled, sent, replies>>
vars == <<loopVars, poolVars>>

Idle == [pc |-> "idle", call |-> None, answer |-> FALSE]
NoChild == [leader |-> FALSE, group |-> FALSE, end |-> "none"]

Init ==
    /\ state = "new" /\ serving = "loop"
    /\ inflight = [i \in Ids |-> None] /\ cancelled = {}
    /\ jobs = <<>> /\ completions = <<>>
    /\ worker = [w \in Workers |-> Idle]
    /\ child = [c \in Calls |-> NoChild]
    /\ sent = {} /\ replies = [c \in Calls |-> 0]

\* ctx.Err: the call's own context, or the one of the whole connection.
Done(c) == c \in cancelled \/ serving # "loop"

Respond(c) == replies' = [replies EXCEPT ![c] = @ + 1]

-----------------------------------------------------------------------------
(* The loop: messages *)

Initialize ==
    /\ serving = "loop" /\ state = "new"
    /\ state' = "initialized"
    /\ UNCHANGED <<serving, inflight, cancelled, sent, replies, poolVars>>

Initialized ==
    /\ serving = "loop" /\ state = "initialized"
    /\ state' = "ready"
    /\ UNCHANGED <<serving, inflight, cancelled, sent, replies, poolVars>>

Receive(c) == serving = "loop" /\ c \notin sent /\ sent' = sent \cup {c}

\* Before the handshake is complete, or with arguments no tool takes.
Reject(c) ==
    /\ Receive(c) /\ Respond(c)
    /\ UNCHANGED <<state, serving, inflight, cancelled, poolVars>>

Duplicate(c) ==
    /\ Receive(c) /\ state = "ready" /\ inflight[IdOf[c]] # None
    /\ Respond(c)
    /\ UNCHANGED <<state, serving, inflight, cancelled, poolVars>>

\* Slip: an id that is in flight is taken again.
EnqueueAgain(c) ==
    /\ Receive(c) /\ state = "ready"
    /\ Len(jobs) < MaxQueued
    /\ jobs' = Append(jobs, c) /\ inflight' = [inflight EXCEPT ![IdOf[c]] = c]
    /\ UNCHANGED <<state, serving, cancelled, replies, completions, worker, child>>

Enqueue(c) ==
    /\ Receive(c) /\ state = "ready" /\ inflight[IdOf[c]] = None
    /\ Len(jobs) < MaxQueued
    /\ jobs' = Append(jobs, c) /\ inflight' = [inflight EXCEPT ![IdOf[c]] = c]
    /\ UNCHANGED <<state, serving, cancelled, replies, completions, worker, child>>

TooMany(c) ==
    /\ Receive(c) /\ state = "ready" /\ inflight[IdOf[c]] = None
    /\ Len(jobs) >= MaxQueued
    /\ Respond(c)
    /\ UNCHANGED <<state, serving, inflight, cancelled, poolVars>>

Cancel(i) ==
    /\ serving = "loop" /\ inflight[i] # None
    /\ cancelled' = cancelled \cup {inflight[i]}
    /\ UNCHANGED <<state, serving, inflight, sent, replies, poolVars>>

(* The loop: results *)

\* Slip: what a cancelled call came to is told all the same.
CompleteAnyway ==
    /\ serving = "loop" /\ completions # <<>>
    /\ LET done == Head(completions)
           id == IdOf[done.call]
       IN  /\ inflight' = [inflight EXCEPT ![id] = None]
           /\ IF inflight[id] # None /\ done.answer THEN Respond(done.call) ELSE UNCHANGED replies
    /\ completions' = Tail(completions)
    /\ UNCHANGED <<state, serving, cancelled, sent, jobs, worker, child>>

Complete ==
    /\ serving = "loop" /\ completions # <<>>
    /\ LET done == Head(completions)
           id == IdOf[done.call]
       IN  /\ inflight' = [inflight EXCEPT ![id] = None]
           /\ IF inflight[id] # None /\ inflight[id] \notin cancelled /\ done.answer
              THEN Respond(done.call) ELSE UNCHANGED replies
    /\ completions' = Tail(completions)
    /\ UNCHANGED <<state, serving, cancelled, sent, jobs, worker, child>>

\* stdin ends, a message is too long, stdout fails, or the command is interrupted.
Stop ==
    /\ serving = "loop"
    /\ serving' = "stopping"
    /\ UNCHANGED <<state, inflight, cancelled, sent, replies, poolVars>>

\* shutdown waits for the workers.
Return ==
    /\ serving = "stopping" /\ \A w \in Workers : worker[w].pc = "over"
    /\ serving' = "returned"
    /\ UNCHANGED <<state, inflight, cancelled, sent, replies, poolVars>>

-----------------------------------------------------------------------------
(* A worker *)

WGoto(w, l) == worker' = [worker EXCEPT ![w].pc = l]

\* Which of the idle workers takes a job makes no difference.
FirstIdle == CHOOSE w \in Workers : worker[w].pc = "idle"

TakeJob(w) ==
    /\ worker[w].pc = "idle" /\ jobs # <<>> /\ w = FirstIdle
    /\ worker' = [worker EXCEPT ![w] = [pc |-> "start", call |-> Head(jobs), answer |-> FALSE]]
    /\ jobs' = Tail(jobs)
    /\ UNCHANGED <<loopVars, completions, child>>

LeavePool(w) ==
    /\ worker[w].pc = "idle" /\ serving # "loop"
    /\ WGoto(w, "over")
    /\ UNCHANGED <<loopVars, jobs, completions, child>>

\* Not for a call that was cancelled while it waited.
Execute(w) ==
    /\ worker[w].pc = "start"
    /\ LET c == worker[w].call IN
       IF Done(c) THEN WGoto(w, "deliver") /\ UNCHANGED child
       ELSE \/ /\ WGoto(w, "wait")
               /\ child' = [child EXCEPT ![c] = [leader |-> TRUE, group |-> FALSE, end |-> "none"]]
            \/ /\ worker' = [worker EXCEPT ![w].pc = "deliver", ![w].answer = TRUE]   \* Start failed
               /\ UNCHANGED child
    /\ UNCHANGED <<loopVars, jobs, completions>>

\* The answer is withheld if the call has been cancelled by now.
Finished(w) ==
    worker' = [worker EXCEPT ![w].pc = "deliver", ![w].answer = ~Done(worker[w].call)]

\* What a call that ended by itself leaves behind is its own affair.
ChildDone(w) ==
    /\ worker[w].pc = "wait" /\ ~child[worker[w].call].leader
    /\ Finished(w)
    /\ child' = [child EXCEPT ![worker[w].call] = [NoChild EXCEPT !.end = "exit"]]
    /\ UNCHANGED <<loopVars, jobs, completions>>

\* Slip: a cancelled call runs to its end.
TerminateAtStop(w) ==
    /\ worker[w].pc = "wait" /\ serving # "loop"
    /\ WGoto(w, "term")
    /\ UNCHANGED <<loopVars, jobs, completions, child>>

\* Cancelled, or more output than is kept; SIGTERM goes to the whole group.
Terminate(w) ==
    /\ worker[w].pc = "wait"
    /\ WGoto(w, "term")
    /\ UNCHANGED <<loopVars, jobs, completions, child>>

\* Slip: only the leader is killed.
KillLeader(w) ==
    /\ worker[w].pc = "term"
    /\ child' = [child EXCEPT ![worker[w].call].leader = FALSE,
                              ![worker[w].call].end = "terminated"]
    /\ Finished(w)
    /\ UNCHANGED <<loopVars, jobs, completions>>

(***************************************************************************)
(* SIGKILL to the group once the leader has gone, or has let the grace        *)
(* period pass.                                                              *)
(***************************************************************************)
KillGroup(w) ==
    /\ worker[w].pc = "term"
    /\ child' = [child EXCEPT ![worker[w].call] = [leader |-> FALSE, group |-> FALSE,
                                                   end |-> "terminated"]]
    /\ Finished(w)
    /\ UNCHANGED <<loopVars, jobs, completions>>

Deliver(w) ==
    /\ worker[w].pc = "deliver" /\ Len(completions) < MaxCompletions
    /\ completions' = Append(completions, [call |-> worker[w].call, answer |-> worker[w].answer])
    /\ worker' = [worker EXCEPT ![w] = Idle]
    /\ UNCHANGED <<loopVars, jobs, child>>

\* Slip: a result is delivered whatever happens.
InsistOnDelivery(w) ==
    /\ worker[w].pc = "deliver" /\ serving # "loop" /\ Len(completions) < MaxCompletions
    /\ WGoto(w, "over")
    /\ UNCHANGED <<loopVars, jobs, completions, child>>

\* Nobody takes results any more.
Discard(w) ==
    /\ worker[w].pc = "deliver" /\ serving # "loop"
    /\ WGoto(w, "over")
    /\ UNCHANGED <<loopVars, jobs, completions, child>>

(* A subprocess *)

ChildForks(c) ==
    /\ child[c].leader /\ ~child[c].group
    /\ child' = [child EXCEPT ![c].group = TRUE]
    /\ UNCHANGED <<loopVars, jobs, completions, worker>>

\* On its own or because of SIGTERM.
ChildExits(c) ==
    /\ child[c].leader
    /\ child' = [child EXCEPT ![c].leader = FALSE]
    /\ UNCHANGED <<loopVars, jobs, completions, worker>>

-----------------------------------------------------------------------------
Message ==
    \/ Initialize \/ Initialized
    \/ \E c \in Calls : Reject(c) \/ Duplicate(c) \/ Enqueue(c) \/ TooMany(c)
    \/ \E i \in Ids : Cancel(i)

Cancelling(w) == worker[w].call # None /\ Done(worker[w].call) /\ Terminate(w)

Work(w) ==
    \/ TakeJob(w) \/ LeavePool(w) \/ Execute(w) \/ ChildDone(w) \/ KillGroup(w)
    \/ Deliver(w) \/ Discard(w)

Next ==
    \/ Message \/ Complete \/ Stop \/ Return
    \/ \E w \in Workers : Work(w) \/ Terminate(w)
    \/ \E c \in Calls : ChildForks(c) \/ ChildExits(c)

Spec == Init /\ [][Next]_vars

(***************************************************************************)
(* The loop and the workers run; a cancelled call is noticed.  A subprocess    *)
(* need not end by itself, and nobody has to send or stop anything.           *)
(***************************************************************************)
Fairness ==
    /\ WF_vars(Complete) /\ WF_vars(Return)
    /\ \A w \in Workers : WF_vars(Work(w)) /\ WF_vars(Cancelling(w))

FairSpec == Spec /\ Fairness

-----------------------------------------------------------------------------
TypeOK ==
    /\ state \in {"new", "initialized", "ready"}
    /\ serving \in {"loop", "stopping", "returned"}
    /\ inflight \in [Ids -> Calls \cup {None}]
    /\ cancelled \subseteq sent /\ sent \subseteq Calls
    /\ jobs \in Seq(Calls) /\ Len(completions) <= MaxCompletions
    /\ \A w \in Workers : worker[w].pc \in {"idle", "start", "wait", "term", "deliver", "over"}

(***************************************************************************)
(* A call is answered once at most, and not at all after its cancellation was  *)
(* taken, however far its result had come (server.go:172): once refused it     *)
(* does not run, once run it is answered by the worker that ran it only.       *)
(***************************************************************************)
AnsweredOnce ==
    [][\A c \in Calls : replies'[c] # replies[c] =>
            /\ replies[c] = 0 /\ replies'[c] = 1
            /\ c \notin cancelled]_vars

(***************************************************************************)
(* An id names one call at a time: whatever is queued, run or on its way to    *)
(* the loop is the call that the id is in flight for, so that a cancellation   *)
(* reaches the call it means (server.go:143).                                 *)
(***************************************************************************)
InPool(c) ==
    \/ \E k \in 1..Len(jobs) : jobs[k] = c
    \/ \E k \in 1..Len(completions) : completions[k].call = c
    \/ \E w \in Workers : worker[w].pc # "over" /\ worker[w].call = c

IdNamesItsCall ==
    serving = "loop" => \A c \in Calls : InPool(c) <=> inflight[IdOf[c]] = c

(***************************************************************************)
(* "Context cancellation terminates the whole group, including                *)
(* grandchildren, before returning" (executor.go:45-47); so when the server    *)
(* has returned no call is left running.                                      *)
(***************************************************************************)
NothingSurvives ==
    /\ \A c \in Calls : child[c].end = "terminated" => ~child[c].leader /\ ~child[c].group
    /\ serving = "returned" => \A c \in Calls : ~child[c].leader

RunningCall(c) == \E w \in Workers : worker[w].call = c /\ worker[w].pc # "over"

(***************************************************************************)
(* A call that is taken is answered once its subprocess has ended, unless it   *)
(* is cancelled or the server stops; and one that is cancelled gives its id    *)
(* and its worker back, although its subprocess would have run for ever.      *)
(***************************************************************************)
CallsEnd ==
    \A c \in Calls :
        /\ child[c].end # "none" ~> (replies[c] = 1 \/ Done(c))
        /\ (c \in cancelled /\ RunningCall(c)) ~> (inflight[IdOf[c]] # c \/ serving # "loop")

(***************************************************************************)
(* The server returns once it stops, with results undelivered, the queue full  *)
(* and subprocesses running.                                                  *)
(***************************************************************************)
StopEnds == serving = "stopping" ~> serving = "returned"

=============================================================================
