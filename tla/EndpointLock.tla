---------------------------- MODULE EndpointLock ----------------------------
(***************************************************************************)
(* The endpoint of the built-in multiplexer (internal/muxd): server          *)
(* processes compete for a lock file that its exiting owner unlinks, replace *)
(* each other's socket file, and hand the endpoint over to a successor, while *)
(* clients ping it and spawn servers.                                        *)
(*                                                                          *)
(* A file is an inode: the path names one or none, and a process keeps the   *)
(* one it opened although the path no longer names it.  A lock belongs to    *)
(* the open file and dies with the process.                                  *)
(***************************************************************************)
EXTENDS FiniteSets

CONSTANTS
    Procs,      \* server processes; one that exited may be spawned again
    Clients,    \* commands that call EnsureSession
    Inodes,     \* an inode is reused once no path and no process has it
    Platforms,  \* a subset of {"unix", "windows"}
    None

ASSUME EndpointAssumption ==
    /\ Platforms \subseteq {"unix", "windows"}
    /\ None \notin Procs /\ None \notin Inodes

VARIABLES
    platform,   \* which removeHeldLock and which unlink; it does not change
    path,       \* the inode lockPath names, or None
    fd,         \* [Procs -> the inode its lockFile is open on, or None]
    sock,       \* the process whose socket file is at the socket path, or None
    pc,         \* [Procs -> where Serve is]
    cpc,        \* [Clients -> where EnsureSession is]
    hit         \* [Clients -> the endpoint was taken from under its wait]

serverVars == <<path, fd, sock, pc>>
clientVars == <<cpc, hit>>
vars == <<platform, serverVars, clientVars>>

(***************************************************************************)
(* "start", "opened" and "busy" are acquireEndpointLock's loop; "locked" has *)
(* the lock and not compared the inodes; "owner" has; "bound" removed the    *)
(* stale socket; "serving"; "closing" has set the flag; "draining" closed    *)
(* the listener and waits for the terminals; "cleaned" removed the socket    *)
(* again; "unlinked" the lock file, on Windows having closed it first        *)
(* ("unlinking").                                                            *)
(***************************************************************************)
Owning == {"owner", "bound", "serving", "closing", "draining", "cleaned"}
Holding == Owning \cup {"locked", "unlinked"}
Labels == Holding \cup {"off", "start", "opened", "busy", "unlinking"}

Init ==
    /\ platform \in Platforms
    /\ path = None /\ fd = [p \in Procs |-> None] /\ sock = None
    /\ pc = [p \in Procs |-> "off"]
    /\ cpc = [c \in Clients |-> "idle"] /\ hit = [c \in Clients |-> FALSE]

Goto(p, l) == pc' = [pc EXCEPT ![p] = l]
SetFd(p, i) == fd' = [fd EXCEPT ![p] = i]

Open(i) == {p \in Procs : fd[p] = i}
\* Which unused inode a new file gets makes no difference.
NewInode == CHOOSE i \in Inodes : Open(i) = {}

Locked(i) == \E p \in Open(i) : pc[p] \in Holding

\* Running: a ping is answered by a server that is not shutting down.
Running == sock # None /\ pc[sock] = "serving"

\* The clients that are still waiting for a server are let down.
Disturb == hit' = [c \in Clients |-> hit[c] \/ cpc[c] = "waiting"]

-----------------------------------------------------------------------------
(* acquireEndpointLock *)

OpenLock(p) ==
    /\ pc[p] = "start"
    /\ \/ path # None /\ SetFd(p, path) /\ UNCHANGED path
       \/ \E i \in Inodes :
              /\ path = None /\ Open(i) = {} /\ i = NewInode
              /\ path' = i /\ SetFd(p, i)
    /\ Goto(p, "opened")
    /\ UNCHANGED <<platform, sock, clientVars>>

TryLock(p) ==
    /\ pc[p] = "opened" /\ ~Locked(fd[p])
    /\ Goto(p, "locked")
    /\ UNCHANGED <<platform, path, fd, sock, clientVars>>

WouldBlock(p) ==
    /\ pc[p] = "opened" /\ Locked(fd[p])
    /\ SetFd(p, None) /\ Goto(p, "busy")
    /\ UNCHANGED <<platform, path, sock, clientVars>>

\* Slip: whoever has the lock owns the endpoint.
TrustLock(p) ==
    /\ pc[p] = "locked"
    /\ Goto(p, "owner")
    /\ UNCHANGED <<platform, path, fd, sock, clientVars>>

\* The path still names the file that was locked ...
SameFile(p) ==
    /\ pc[p] = "locked" /\ path = fd[p]
    /\ Goto(p, "owner")
    /\ UNCHANGED <<platform, path, fd, sock, clientVars>>

\* ... or it was unlinked before it was locked: start over.
OtherFile(p) ==
    /\ pc[p] = "locked" /\ path # fd[p]
    /\ SetFd(p, None) /\ Goto(p, "start")
    /\ UNCHANGED <<platform, path, sock, clientVars>>

\* Slip: whoever holds the lock is taken to be healthy.
YieldAtOnce(p) ==
    /\ pc[p] = "busy"
    /\ Goto(p, "off")
    /\ UNCHANGED <<platform, path, fd, sock, clientVars>>

\* Yield at once to a healthy server; otherwise wait for it to go away ...
YieldToRunning(p) ==
    /\ pc[p] = "busy" /\ Running
    /\ Goto(p, "off")
    /\ UNCHANGED <<platform, path, fd, sock, clientVars>>

Retry(p) ==
    /\ pc[p] = "busy" /\ ~Running
    /\ Goto(p, "start")
    /\ UNCHANGED <<platform, path, fd, sock, clientVars>>

\* ... but not longer than lockWait, which the owner's terminals may outlast.
LockWaitOver(p) ==
    /\ pc[p] = "busy" /\ \E q \in Procs : pc[q] = "draining"
    /\ Goto(p, "off") /\ Disturb
    /\ UNCHANGED <<platform, path, fd, sock, cpc>>

-----------------------------------------------------------------------------
(* Serve, once it owns the endpoint *)

RemoveStaleSocket(p) ==
    /\ pc[p] = "owner"
    /\ sock' = None /\ Goto(p, "bound")
    /\ UNCHANGED <<platform, path, fd, clientVars>>

\* Binding to a path where a socket file is fails.
Listen(p) ==
    /\ pc[p] = "bound" /\ sock = None
    /\ sock' = p /\ Goto(p, "serving")
    /\ UNCHANGED <<platform, path, fd, clientVars>>

(***************************************************************************)
(* Idle for 30s, which no client that polls every 20ms allows, or told to by *)
(* kill-server or a signal.                                                  *)
(***************************************************************************)
BeginShutdown(p) ==
    /\ pc[p] = "serving"
    /\ Goto(p, "closing") /\ Disturb
    /\ UNCHANGED <<platform, path, fd, sock, cpc>>

\* Closing a listener unlinks its path, whosever file is there.
CloseListener(p) ==
    /\ pc[p] = "closing"
    /\ sock' = None /\ Goto(p, "draining")
    /\ UNCHANGED <<platform, path, fd, clientVars>>

\* The terminals are drained.
RemoveSocket(p) ==
    /\ pc[p] = "draining"
    /\ sock' = None /\ Goto(p, "cleaned")
    /\ UNCHANGED <<platform, path, fd, clientVars>>

\* removeHeldLock on Unix unlinks the file while it is locked ...
UnlinkHeldLock(p) ==
    /\ pc[p] = "cleaned" /\ platform = "unix"
    /\ path' = None /\ Goto(p, "unlinked")
    /\ UNCHANGED <<platform, fd, sock, clientVars>>

\* ... on Windows it closes it first ...
CloseHeldLock(p) ==
    /\ pc[p] = "cleaned" /\ platform = "windows"
    /\ SetFd(p, None) /\ Goto(p, "unlinking")
    /\ UNCHANGED <<platform, path, sock, clientVars>>

\* ... and can delete it only if nobody has opened it in between.
DeleteClosedLock(p) ==
    /\ pc[p] = "unlinking"
    /\ path' = IF platform = "windows" /\ path # None /\ Open(path) # {} THEN path ELSE None
    /\ Goto(p, "off")
    /\ UNCHANGED <<platform, fd, sock, clientVars>>

\* Slip: the socket is removed last of all.
ExitRemovingSocket(p) ==
    /\ pc[p] = "unlinked"
    /\ SetFd(p, None) /\ Goto(p, "off") /\ sock' = None
    /\ UNCHANGED <<platform, path, clientVars>>

Exit(p) ==
    /\ pc[p] = "unlinked"
    /\ SetFd(p, None) /\ Goto(p, "off")
    /\ UNCHANGED <<platform, path, sock, clientVars>>

\* A killed process leaves its socket and lock files behind.
Crash(p) ==
    /\ pc[p] # "off"
    /\ SetFd(p, None) /\ Goto(p, "off") /\ Disturb
    /\ UNCHANGED <<platform, path, sock, cpc>>

-----------------------------------------------------------------------------
(* EnsureSession *)

SetClient(c, l) == cpc' = [cpc EXCEPT ![c] = l]

PingFirst(c) ==
    /\ cpc[c] = "idle" /\ Running
    /\ SetClient(c, "ready")
    /\ UNCHANGED <<platform, serverVars, hit>>

SpawnServer(c, p) ==
    /\ cpc[c] = "idle" /\ ~Running
    /\ pc[p] = "off" /\ Goto(p, "start")
    /\ SetClient(c, "waiting") /\ hit' = [hit EXCEPT ![c] = FALSE]
    /\ UNCHANGED <<platform, path, fd, sock>>

PingAgain(c) ==
    /\ cpc[c] = "waiting" /\ Running
    /\ SetClient(c, "ready")
    /\ UNCHANGED <<platform, serverVars, hit>>

\* startWait is over; it is long enough unless something went wrong.
StartWaitOver(c) ==
    /\ cpc[c] = "waiting" /\ hit[c]
    /\ SetClient(c, "idle")
    /\ UNCHANGED <<platform, serverVars, hit>>

NextCommand(c) ==
    /\ cpc[c] = "ready"
    /\ SetClient(c, "idle")
    /\ UNCHANGED <<platform, serverVars, hit>>

-----------------------------------------------------------------------------
Acquire(p) ==
    \/ OpenLock(p) \/ TryLock(p) \/ WouldBlock(p) \/ SameFile(p) \/ OtherFile(p)
    \/ YieldToRunning(p) \/ Retry(p)

Serve(p) == RemoveStaleSocket(p) \/ Listen(p)

Shutdown(p) ==
    \/ CloseListener(p) \/ RemoveSocket(p)
    \/ UnlinkHeldLock(p) \/ CloseHeldLock(p) \/ DeleteClosedLock(p) \/ Exit(p)

Next ==
    \/ \E p \in Procs :
           \/ Acquire(p) \/ LockWaitOver(p) \/ Serve(p) \/ BeginShutdown(p) \/ Shutdown(p)
           \/ Crash(p)
    \/ \E c \in Clients :
           \/ PingFirst(c) \/ PingAgain(c) \/ StartWaitOver(c) \/ NextCommand(c)
           \/ \E p \in Procs : SpawnServer(c, p)

(***************************************************************************)
(* A process that runs keeps running, a waiting client keeps polling.        *)
(* Nobody has to shut a server down, to crash or to issue another command.   *)
(***************************************************************************)
Fairness ==
    /\ \A p \in Procs : WF_vars(Acquire(p)) /\ WF_vars(Serve(p)) /\ WF_vars(Shutdown(p))
    /\ \A c \in Clients : WF_vars(PingAgain(c))

Spec == Init /\ [][Next]_vars

FairSpec == Spec /\ Fairness

-----------------------------------------------------------------------------
TypeOK ==
    /\ platform \in Platforms
    /\ path \in Inodes \cup {None}
    /\ fd \in [Procs -> Inodes \cup {None}]
    /\ sock \in Procs \cup {None}
    /\ pc \in [Procs -> Labels]
    /\ cpc \in [Clients -> {"idle", "waiting", "ready"}]
    /\ hit \in [Clients -> BOOLEAN]

(***************************************************************************)
(* One server per endpoint (server.go:144-146): two processes are never both *)
(* past acquireEndpointLock, although the file they lock is unlinked by one  *)
(* and recreated by the other.                                               *)
(***************************************************************************)
OneOwner == \A p, q \in Procs : pc[p] \in Owning /\ pc[q] \in Owning => p = q

(***************************************************************************)
(* The lock file at the path is the owner's for as long as it owns the       *)
(* endpoint: nobody removes it, and it removes nobody else's.                *)
(***************************************************************************)
OwnerHasPath == \A p \in Procs : pc[p] \in Owning => path = fd[p]

(***************************************************************************)
(* A server that serves can be reached: the socket file is its own, in spite *)
(* of every process that removes the path by name.                           *)
(***************************************************************************)
ServingIsReachable == \A p \in Procs : pc[p] = "serving" => sock = p

(***************************************************************************)
(* A bind never meets a socket file another process has put there since the  *)
(* stale one was removed (server.go:146, "cannot both listen").              *)
(***************************************************************************)
ListenSucceeds == \A p \in Procs : pc[p] = "bound" => sock = None

\* Both: from the bind on, the path is the owner's.
SocketIsTheOwners == ServingIsReachable /\ ListenSucceeds

(***************************************************************************)
(* A client that spawned a server gets one, "so a create that races a        *)
(* kill-server gets a fresh server instead of none" (server.go:195), unless  *)
(* a server crashes or is told to stop, or outlasts lockWait, meanwhile.     *)
(***************************************************************************)
SpawnedIsServed == \A c \in Clients : cpc[c] = "waiting" ~> (cpc[c] = "ready" \/ hit[c])

(***************************************************************************)
(* The whole of it: however starters, clients, shutdowns and crashes         *)
(* interleave on the two files, the endpoint behaves like one that has an    *)
(* owner at a time (server.go:144-146).                                      *)
(***************************************************************************)
Owners == {p \in Procs : pc[p] \in Owning}
Answering == {p \in Procs : p = sock /\ pc[p] = "serving"}
Promise == INSTANCE Endpoint WITH owner <- Owners, server <- Answering
ImplementsEndpoint == Promise!Spec
=============================================================================
