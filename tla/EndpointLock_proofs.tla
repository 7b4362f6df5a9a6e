------------------------ MODULE EndpointLock_proofs ------------------------
(***************************************************************************)
(* Mutual exclusion and reachability of the endpoint for any number of       *)
(* server processes, clients and inodes, on both platforms.                  *)
(***************************************************************************)
EXTENDS EndpointLock, TLAPS

\* An open file is locked by one process at most.
OneHolder ==
    \A p, q \in Procs :
        pc[p] \in Holding /\ pc[q] \in Holding /\ fd[p] = fd[q] => p = q

\* Whoever has the lock, or is about to try it, has the file open.
HolderHasFile == \A p \in Procs : pc[p] \in Holding \cup {"opened"} => fd[p] # None

\* Only Windows removes the lock file after having closed it.
ClosedOnWindows == \A p \in Procs : pc[p] = "unlinking" => platform = "windows"

(***************************************************************************)
(* Mutual exclusion alone is not inductive: that a rival cannot pass the     *)
(* inode comparison follows from the owner's file being at the path and      *)
(* locked by nobody else.                                                    *)
(***************************************************************************)
Rest == OneHolder /\ HolderHasFile /\ ClosedOnWindows /\ OwnerHasPath

LockInv == TypeOK /\ Rest

(***************************************************************************)
(* Two owners have the same file, the one at the path, and one holder.       *)
(***************************************************************************)
LEMMA OwnerIsUnique == LockInv => OneOwner
  BY DEF LockInv, Rest, OneHolder, OwnerHasPath, OneOwner, Holding

(***************************************************************************)
(* Nothing is open and nobody runs in the beginning.                         *)
(***************************************************************************)
LEMMA InitLockInv == Init => LockInv
  <1> SUFFICES ASSUME Init PROVE LockInv
    OBVIOUS
  <1>1. TypeOK
    BY DEF Init, TypeOK, Labels
  <1>2. Rest
    BY DEF Init, Rest, OneHolder, HolderHasFile, ClosedOnWindows, OwnerHasPath, Holding, Owning
  <1> QED
    BY <1>1, <1>2 DEF LockInv

(***************************************************************************)
(* Every step keeps the types.                                               *)
(***************************************************************************)
LEMMA NextTypeOK == TypeOK /\ [Next]_vars => TypeOK'
  <1> SUFFICES ASSUME TypeOK, [Next]_vars PROVE TypeOK'
    OBVIOUS
  <1> USE DEF TypeOK, Labels, Holding, Owning, Goto, SetFd, serverVars, clientVars
  <1>1. ASSUME NEW p \in Procs, Acquire(p) PROVE TypeOK'
    BY <1>1 DEF Acquire, OpenLock, TryLock, WouldBlock, SameFile, OtherFile, YieldToRunning, Retry
  <1>2. ASSUME NEW p \in Procs, LockWaitOver(p) \/ Serve(p) \/ BeginShutdown(p) \/ Crash(p)
        PROVE TypeOK'
    BY <1>2 DEF LockWaitOver, Serve, RemoveStaleSocket, Listen, BeginShutdown, Crash, Disturb
  <1>3. ASSUME NEW p \in Procs, Shutdown(p) PROVE TypeOK'
    BY <1>3 DEF Shutdown, CloseListener, RemoveSocket, UnlinkHeldLock, CloseHeldLock,
                DeleteClosedLock, Exit
  <1>4. ASSUME NEW c \in Clients,
               PingFirst(c) \/ PingAgain(c) \/ StartWaitOver(c) \/ NextCommand(c)
        PROVE TypeOK'
    BY <1>4 DEF PingFirst, PingAgain, StartWaitOver, NextCommand, SetClient
  <1>5. ASSUME NEW c \in Clients, NEW p \in Procs, SpawnServer(c, p) PROVE TypeOK'
    BY <1>5 DEF SpawnServer, SetClient
  <1>6. CASE UNCHANGED vars
    BY <1>6 DEF vars
  <1> QED
    BY <1>1, <1>2, <1>3, <1>4, <1>5, <1>6 DEF Next

-----------------------------------------------------------------------------
(* The conjuncts of Rest, for one process p that takes a step. *)

(***************************************************************************)
(* A step that leaves files and the path alone, and gives p no lock it did   *)
(* not have and no ownership it did not have, keeps them.                    *)
(***************************************************************************)
LEMMA LabelStep ==
  ASSUME TypeOK, Rest, NEW p \in Procs, NEW l \in Labels \ {"opened", "unlinking"},
         UNCHANGED <<platform, path, fd>>, pc' = [pc EXCEPT ![p] = l],
         l \in Holding => pc[p] \in Holding,
         l \in Owning => pc[p] \in Owning
  PROVE  Rest'
  BY DEF TypeOK, Rest, OneHolder, HolderHasFile, ClosedOnWindows, OwnerHasPath

(***************************************************************************)
(* A process that lets go of its file keeps them.                            *)
(***************************************************************************)
LEMMA CloseStep ==
  ASSUME TypeOK, Rest, NEW p \in Procs, NEW l \in (Labels \ Holding) \ {"opened"},
         UNCHANGED <<platform, path>>, l = "unlinking" => platform = "windows",
         fd' = [fd EXCEPT ![p] = None], pc' = [pc EXCEPT ![p] = l]
  PROVE  Rest'
  <1>1. \A q \in Procs : pc'[q] \in Holding \cup {"opened"} =>
            q # p /\ pc'[q] = pc[q] /\ fd'[q] = fd[q]
    BY DEF TypeOK
  <1>2. \A q \in Procs : pc'[q] \in Owning => pc'[q] \in Holding
    BY DEF Holding
  <1>3. ClosedOnWindows'
    BY DEF TypeOK, Rest, ClosedOnWindows
  <1> QED
    BY <1>1, <1>2, <1>3 DEF Rest, OneHolder, HolderHasFile, OwnerHasPath, Holding

(***************************************************************************)
(* Opening the lock file gives no lock; a new one is created only when the   *)
(* path names none, which no owner allows.                                   *)
(***************************************************************************)
LEMMA OpenStep ==
  ASSUME TypeOK, Rest, NEW p \in Procs, OpenLock(p)
  PROVE  Rest'
  <1>1. pc' = [pc EXCEPT ![p] = "opened"]
    BY DEF OpenLock, Goto
  <1>2. \A q \in Procs : pc'[q] \in Holding => q # p /\ pc'[q] = pc[q] /\ fd'[q] = fd[q]
    BY <1>1 DEF TypeOK, Holding, Owning, OpenLock, SetFd
  <1>3. fd'[p] # None /\ \A q \in Procs : q # p => fd'[q] = fd[q] /\ pc'[q] = pc[q]
    BY <1>1, EndpointAssumption DEF TypeOK, OpenLock, SetFd
  <1>4. path # None => UNCHANGED path
    BY DEF OpenLock
  <1>5. path = None => \A q \in Procs : pc[q] \notin Owning
    BY DEF Rest, HolderHasFile, OwnerHasPath, Holding
  <1>6. HolderHasFile'
    BY <1>1, <1>3 DEF Rest, HolderHasFile
  <1>7. ClosedOnWindows'
    BY <1>1 DEF TypeOK, Rest, ClosedOnWindows, OpenLock
  <1> QED
    BY <1>2, <1>4, <1>5, <1>6, <1>7 DEF Rest, OneHolder, OwnerHasPath, Holding

(***************************************************************************)
(* The lock is granted when no other process has it on this file.            *)
(***************************************************************************)
LEMMA LockStep ==
  ASSUME TypeOK, Rest, NEW p \in Procs, TryLock(p)
  PROVE  Rest'
  <1>1. pc' = [pc EXCEPT ![p] = "locked"] /\ UNCHANGED <<platform, path, fd>>
    BY DEF TryLock, Goto
  <1>2. \A q \in Procs : fd[q] = fd[p] => pc[q] \notin Holding
    BY DEF TryLock, Locked, Open
  <1>3. fd[p] # None
    BY DEF TryLock, Rest, HolderHasFile
  <1> QED
    BY <1>1, <1>2, <1>3
       DEF TypeOK, Rest, OneHolder, HolderHasFile, ClosedOnWindows, OwnerHasPath, Owning, Holding

(***************************************************************************)
(* The inode comparison is what makes the holder of a lock the owner.        *)
(***************************************************************************)
LEMMA OwnStep ==
  ASSUME TypeOK, Rest, NEW p \in Procs, SameFile(p)
  PROVE  Rest'
  BY DEF SameFile, Goto, TypeOK, Rest, OneHolder, HolderHasFile, ClosedOnWindows, OwnerHasPath,
         Owning, Holding

(***************************************************************************)
(* The owner unlinks its own file, and there is no other owner to lose one.  *)
(***************************************************************************)
LEMMA UnlinkStep ==
  ASSUME TypeOK, Rest, NEW p \in Procs, UnlinkHeldLock(p)
  PROVE  Rest'
  <1>1. pc' = [pc EXCEPT ![p] = "unlinked"] /\ UNCHANGED <<platform, fd>> /\ pc[p] = "cleaned"
    BY DEF UnlinkHeldLock, Goto
  <1>2. \A q \in Procs : pc[q] \in Owning => q = p
    BY <1>1, OwnerIsUnique DEF LockInv, OneOwner, Owning
  <1>3. \A q \in Procs : pc'[q] \notin Owning
    BY <1>1, <1>2 DEF TypeOK, Owning
  <1>4. \A q \in Procs : pc'[q] \in Holding => pc[q] \in Holding
    BY <1>1 DEF TypeOK, Holding, Owning
  <1> QED
    BY <1>1, <1>3, <1>4 DEF TypeOK, Rest, OneHolder, HolderHasFile, ClosedOnWindows, OwnerHasPath

(***************************************************************************)
(* On Windows a file that somebody has opened, as an owner has, stays.       *)
(***************************************************************************)
LEMMA DeleteStep ==
  ASSUME TypeOK, Rest, NEW p \in Procs, DeleteClosedLock(p)
  PROVE  Rest'
  <1>1. pc' = [pc EXCEPT ![p] = "off"] /\ UNCHANGED <<platform, fd>>
    BY DEF DeleteClosedLock, Goto
  <1>2. \A q \in Procs : pc'[q] \in Holding \cup {"opened", "unlinking"} =>
            q # p /\ pc'[q] = pc[q]
    BY <1>1 DEF TypeOK, Holding, Owning
  <1>3. ASSUME NEW q \in Procs, pc'[q] \in Owning PROVE path' = fd'[q]
    <2>1. pc[q] \in Owning /\ path = fd[q] /\ fd[q] # None
      BY <1>2, <1>3 DEF Rest, OwnerHasPath, HolderHasFile, Holding
    <2>2. Open(path) # {} /\ platform = "windows"
      BY <2>1 DEF Open, Rest, ClosedOnWindows, DeleteClosedLock
    <2> QED
      BY <1>1, <2>1, <2>2 DEF DeleteClosedLock
  <1> QED
    BY <1>1, <1>2, <1>3 DEF Rest, OneHolder, HolderHasFile, ClosedOnWindows, OwnerHasPath

-----------------------------------------------------------------------------
(***************************************************************************)
(* No step takes the invariant away.                                         *)
(***************************************************************************)
LEMMA NextLockInv == LockInv /\ [Next]_vars => LockInv'
  <1> SUFFICES ASSUME LockInv, [Next]_vars PROVE LockInv'
    OBVIOUS
  <1>0. TypeOK /\ Rest
    BY DEF LockInv
  <1>t. TypeOK'
    BY <1>0, NextTypeOK
  <1> USE DEF Labels, Holding, Owning, Goto, SetFd
  <1>1. ASSUME NEW p \in Procs, Acquire(p) PROVE Rest'
    <2>1. CASE OpenLock(p)
      BY <1>0, <2>1, OpenStep
    <2>2. CASE TryLock(p)
      BY <1>0, <2>2, LockStep
    <2>3. CASE WouldBlock(p)
      BY <1>0, <2>3, CloseStep DEF WouldBlock
    <2>4. CASE SameFile(p)
      BY <1>0, <2>4, OwnStep
    <2>5. CASE OtherFile(p)
      BY <1>0, <2>5, CloseStep DEF OtherFile
    <2>6. CASE YieldToRunning(p)
      BY <1>0, <2>6, LabelStep DEF YieldToRunning
    <2>7. CASE Retry(p)
      BY <1>0, <2>7, LabelStep DEF Retry
    <2> QED
      BY <1>1, <2>1, <2>2, <2>3, <2>4, <2>5, <2>6, <2>7 DEF Acquire
  <1>2. ASSUME NEW p \in Procs, LockWaitOver(p) PROVE Rest'
    BY <1>0, <1>2, LabelStep DEF LockWaitOver
  <1>3. ASSUME NEW p \in Procs, Serve(p) PROVE Rest'
    BY <1>0, <1>3, LabelStep DEF Serve, RemoveStaleSocket, Listen
  <1>4. ASSUME NEW p \in Procs, BeginShutdown(p) PROVE Rest'
    BY <1>0, <1>4, LabelStep DEF BeginShutdown
  <1>5. ASSUME NEW p \in Procs, Shutdown(p) PROVE Rest'
    <2>1. CASE CloseListener(p) \/ RemoveSocket(p)
      BY <1>0, <2>1, LabelStep DEF CloseListener, RemoveSocket
    <2>2. CASE UnlinkHeldLock(p)
      BY <1>0, <2>2, UnlinkStep
    <2>3. CASE CloseHeldLock(p)
      BY <1>0, <2>3, CloseStep DEF CloseHeldLock
    <2>4. CASE DeleteClosedLock(p)
      BY <1>0, <2>4, DeleteStep
    <2>5. CASE Exit(p)
      BY <1>0, <2>5, CloseStep DEF Exit
    <2> QED
      BY <1>5, <2>1, <2>2, <2>3, <2>4, <2>5 DEF Shutdown
  <1>6. ASSUME NEW p \in Procs, Crash(p) PROVE Rest'
    BY <1>0, <1>6, CloseStep DEF Crash
  <1>7. ASSUME NEW c \in Clients,
               PingFirst(c) \/ PingAgain(c) \/ StartWaitOver(c) \/ NextCommand(c)
        PROVE Rest'
    BY <1>0, <1>7 DEF PingFirst, PingAgain, StartWaitOver, NextCommand, serverVars, Rest, OneHolder,
                HolderHasFile, ClosedOnWindows, OwnerHasPath
  <1>8. ASSUME NEW c \in Clients, NEW p \in Procs, SpawnServer(c, p) PROVE Rest'
    BY <1>0, <1>8, LabelStep DEF SpawnServer
  <1>9. ASSUME UNCHANGED vars PROVE Rest'
    BY <1>0, <1>9 DEF vars, serverVars, Rest, OneHolder, HolderHasFile, ClosedOnWindows, OwnerHasPath
  <1> QED
    BY <1>t, <1>1, <1>2, <1>3, <1>4, <1>5, <1>6, <1>7, <1>8, <1>9 DEF Next, LockInv

(***************************************************************************)
(* Only an owner touches the socket file, so it is where the owner needs it. *)
(***************************************************************************)
LEMMA NextSocketInv == LockInv /\ SocketIsTheOwners /\ [Next]_vars => SocketIsTheOwners'
  <1> SUFFICES ASSUME LockInv, SocketIsTheOwners, [Next]_vars PROVE SocketIsTheOwners'
    OBVIOUS
  <1> USE DEF SocketIsTheOwners, ServingIsReachable, ListenSucceeds, Labels, Goto
  <1>0. OneOwner /\ TypeOK
    BY OwnerIsUnique DEF LockInv
  <1>1. ASSUME NEW p \in Procs, RemoveStaleSocket(p) \/ CloseListener(p) \/ RemoveSocket(p)
        PROVE SocketIsTheOwners'
    <2>1. \A q \in Procs \ {p} : pc'[q] \notin Owning
      BY <1>0, <1>1 DEF OneOwner, Owning, TypeOK, RemoveStaleSocket, CloseListener, RemoveSocket
    <2> QED
      BY <1>0, <1>1, <2>1 DEF Owning, TypeOK, RemoveStaleSocket, CloseListener, RemoveSocket
  <1>2. ASSUME NEW p \in Procs, Listen(p) PROVE SocketIsTheOwners'
    <2>1. \A q \in Procs \ {p} : pc'[q] \notin Owning
      BY <1>0, <1>2 DEF OneOwner, Owning, TypeOK, Listen
    <2> QED
      BY <1>0, <1>2, <2>1 DEF Owning, TypeOK, Listen
  <1>3. ASSUME NEW p \in Procs, Acquire(p) \/ LockWaitOver(p) \/ BeginShutdown(p) \/ Crash(p)
        PROVE SocketIsTheOwners'
    BY <1>0, <1>3 DEF TypeOK, Acquire, OpenLock, TryLock, WouldBlock, SameFile, OtherFile,
                YieldToRunning, Retry, LockWaitOver, BeginShutdown, Crash
  <1>4. ASSUME NEW p \in Procs,
               UnlinkHeldLock(p) \/ CloseHeldLock(p) \/ DeleteClosedLock(p) \/ Exit(p)
        PROVE SocketIsTheOwners'
    BY <1>0, <1>4 DEF TypeOK, UnlinkHeldLock, CloseHeldLock, DeleteClosedLock, Exit
  <1>5. ASSUME NEW c \in Clients,
               PingFirst(c) \/ PingAgain(c) \/ StartWaitOver(c) \/ NextCommand(c)
        PROVE SocketIsTheOwners'
    BY <1>5 DEF PingFirst, PingAgain, StartWaitOver, NextCommand, serverVars
  <1>6. ASSUME NEW c \in Clients, NEW p \in Procs, SpawnServer(c, p) PROVE SocketIsTheOwners'
    BY <1>0, <1>6 DEF TypeOK, SpawnServer
  <1>7. CASE UNCHANGED vars
    BY <1>7 DEF vars, serverVars
  <1> QED
    BY <1>1, <1>2, <1>3, <1>4, <1>5, <1>6, <1>7 DEF Next, Serve, Shutdown

-----------------------------------------------------------------------------
(***************************************************************************)
(* The lock invariant holds in every reachable state: the types are right,   *)
(* a lock has one holder, and the owner's lock file is the one at the path.  *)
(***************************************************************************)
THEOREM LockInvariant == Spec => []LockInv
  <1>1. Init => LockInv
    BY InitLockInv
  <1>2. LockInv /\ [Next]_vars => LockInv'
    BY NextLockInv
  <1> QED
    BY <1>1, <1>2, PTL DEF Spec

(***************************************************************************)
(* Every variable keeps its type.                                            *)
(***************************************************************************)
THEOREM TypeCorrect == Spec => []TypeOK
  <1>1. LockInv => TypeOK
    BY DEF LockInv
  <1> QED
    BY <1>1, LockInvariant, PTL

(***************************************************************************)
(* One server per endpoint (server.go:144-146), however many race for it.    *)
(***************************************************************************)
THEOREM MutualExclusion == Spec => []OneOwner
  BY OwnerIsUnique, LockInvariant, PTL

(***************************************************************************)
(* Nobody removes the lock file of a server that owns the endpoint           *)
(* (server.go:186-188).                                                      *)
(***************************************************************************)
THEOREM LockFileStays == Spec => []OwnerHasPath
  <1>1. LockInv => OwnerHasPath
    BY DEF LockInv, Rest
  <1> QED
    BY <1>1, LockInvariant, PTL

(***************************************************************************)
(* A server that serves is the one its clients reach, and no bind meets a    *)
(* leftover socket file (server.go:155-157).                                 *)
(***************************************************************************)
THEOREM SocketInvariant == Spec => []SocketIsTheOwners
  <1>1. Init => SocketIsTheOwners
    BY DEF Init, SocketIsTheOwners, ServingIsReachable, ListenSucceeds
  <1>2. LockInv /\ SocketIsTheOwners /\ [Next]_vars => SocketIsTheOwners'
    BY NextSocketInv
  <1> QED
    BY <1>1, <1>2, LockInvariant, PTL DEF Spec

-----------------------------------------------------------------------------
(* Refinement.  An owner is alone, and is the process behind the socket. *)

(***************************************************************************)
(* What the abstract owner and server are, wherever the invariants hold.     *)
(***************************************************************************)
LEMMA OwnerView ==
  ASSUME LockInv, SocketIsTheOwners
  PROVE  /\ \A p \in Procs : pc[p] \in Owning => Owners = {p}
         /\ \A p \in Procs : pc[p] = "serving" => Answering = {p}
         /\ \A p \in Procs : pc[p] \in Owning \ {"serving"} => Answering = {}
  BY OwnerIsUnique DEF OneOwner, SocketIsTheOwners, ServingIsReachable, Owning, Owners, Answering

(***************************************************************************)
(* A step of a process that owns the endpoint neither before nor after it    *)
(* shows nothing.                                                            *)
(***************************************************************************)
LEMMA HiddenStep ==
  ASSUME TypeOK, NEW p \in Procs, NEW l \in Labels \ Owning,
         pc[p] \notin Owning, pc' = [pc EXCEPT ![p] = l], UNCHANGED sock
  PROVE  UNCHANGED <<Owners, Answering>>
  <1>1. \A q \in Procs : (pc'[q] \in Owning <=> pc[q] \in Owning)
                      /\ (pc'[q] = "serving" <=> pc[q] = "serving")
    BY DEF TypeOK, Owning
  <1> QED
    BY <1>1 DEF Owners, Answering

(***************************************************************************)
(* Every step of the detailed system is one of the abstract endpoint, or     *)
(* changes nothing of it.                                                    *)
(***************************************************************************)
LEMMA NextRefines ==
  ASSUME LockInv, SocketIsTheOwners, LockInv', SocketIsTheOwners', [Next]_vars
  PROVE  [Promise!Next]_<<Owners, Answering>>
  <1>1. TypeOK /\ TypeOK'
    BY DEF LockInv
  <1>2. /\ \A p \in Procs : pc[p] \in Owning => Owners = {p}
        /\ \A p \in Procs : pc[p] = "serving" => Answering = {p}
        /\ \A p \in Procs : pc[p] \in Owning \ {"serving"} => Answering = {}
    BY OwnerView
  <1>3. /\ \A p \in Procs : pc'[p] \in Owning => Owners' = {p}
        /\ \A p \in Procs : pc'[p] = "serving" => Answering' = {p}
        /\ \A p \in Procs : pc'[p] \in Owning \ {"serving"} => Answering' = {}
    <2>1. OneOwner'
      BY DEF LockInv, Rest, OneHolder, OwnerHasPath, OneOwner, Holding
    <2>2. ServingIsReachable'
      BY DEF SocketIsTheOwners
    <2> QED
      BY <2>1, <2>2 DEF OneOwner, ServingIsReachable, Owning, Owners, Answering
  <1>4. Answering \subseteq Owners /\ Answering' \subseteq Owners'
    BY DEF Owning, Owners, Answering
  <1>5. ASSUME NEW p \in Procs, NEW l \in Labels \ Owning,
               pc[p] \notin Owning, Goto(p, l), UNCHANGED sock
        PROVE  [Promise!Next]_<<Owners, Answering>>
    BY <1>1, <1>5, HiddenStep DEF Goto, Owners, Answering
  <1>6. ASSUME NEW p \in Procs, NEW l \in Labels \ Owning, pc[p] \in Owning, Goto(p, l)
        PROVE  [Promise!Next]_<<Owners, Answering>>
    <2>1. /\ \A q \in Procs : pc[q] \in Owning => q = p
          /\ \A q \in Procs : pc'[q] = IF q = p THEN l ELSE pc[q]
      BY <1>1, <1>6, OwnerIsUnique DEF TypeOK, Goto, OneOwner
    <2>2. Owners = {p} /\ Owners' = {}
      BY <1>6, <2>1 DEF Owners
    <2> QED
      BY <2>2, <1>4 DEF Promise!Next, Promise!Leave, Owners, Answering
  <1>7. ASSUME NEW p \in Procs, Acquire(p) PROVE [Promise!Next]_<<Owners, Answering>>
    <2>1. CASE SameFile(p)
      <3>1. Owners = {} /\ Owners' = {p} /\ Answering = {} /\ Answering' = {}
        <4>1. pc[p] = "locked" /\ pc'[p] = "owner" /\ \A q \in Procs : q # p => pc'[q] = pc[q]
          BY <1>1, <2>1 DEF SameFile, Goto, TypeOK
        <4>2. Owners' = {p} /\ Answering' = {}
          <5>1. pc'[p] \in Owning /\ pc'[p] \in Owning \ {"serving"}
            BY <4>1 DEF Owning
          <5> QED
            BY <1>7, <1>3, <5>1, Zenon
        <4>3. \A q \in Procs : pc[q] \notin Owning
          BY <4>1, <4>2 DEF Owning, Owners
        <4> QED
          BY <1>4, <4>2, <4>3 DEF Owners
      <3> QED
        BY <3>1 DEF Promise!Next, Promise!Take, Owners, Answering
    <2>2. CASE OpenLock(p) \/ TryLock(p) \/ WouldBlock(p) \/ OtherFile(p) \/ YieldToRunning(p)
               \/ Retry(p)
      BY <2>2, <1>5 DEF OpenLock, TryLock, WouldBlock, OtherFile, YieldToRunning, Retry, Labels,
                        Holding, Owning
    <2> QED
      BY <1>7, <2>1, <2>2 DEF Acquire
  <1>8. ASSUME NEW p \in Procs, LockWaitOver(p) PROVE [Promise!Next]_<<Owners, Answering>>
    BY <1>8, <1>5 DEF LockWaitOver, Labels, Owning
  <1>9. ASSUME NEW p \in Procs, RemoveStaleSocket(p) \/ CloseListener(p) \/ RemoveSocket(p)
        PROVE  [Promise!Next]_<<Owners, Answering>>
    <2>1. /\ pc[p] \in Owning \ {"serving"} /\ pc[p] \in Owning
          /\ pc'[p] \in Owning \ {"serving"} /\ pc'[p] \in Owning
      BY <1>1, <1>9 DEF TypeOK, RemoveStaleSocket, CloseListener, RemoveSocket, Goto, Owning
    <2> QED
      BY <1>9, <1>2, <1>3, <2>1, Zenon
  <1>10. ASSUME NEW p \in Procs, Listen(p) PROVE [Promise!Next]_<<Owners, Answering>>
    <2>1. /\ pc[p] \in Owning \ {"serving"} /\ pc[p] \in Owning
          /\ pc'[p] = "serving" /\ pc'[p] \in Owning
      BY <1>1, <1>10 DEF TypeOK, Listen, Goto, Owning
    <2>2. Owners = {p} /\ Owners' = {p} /\ Answering = {} /\ Answering' = {p}
      BY <1>10, <1>2, <1>3, <2>1, Zenon
    <2> QED
      BY <2>2 DEF Promise!Next, Promise!Listen, Owners, Answering
  <1>11. ASSUME NEW p \in Procs, BeginShutdown(p) PROVE [Promise!Next]_<<Owners, Answering>>
    <2>1. /\ pc[p] = "serving" /\ pc[p] \in Owning
          /\ pc'[p] \in Owning \ {"serving"} /\ pc'[p] \in Owning
      BY <1>1, <1>11 DEF TypeOK, BeginShutdown, Goto, Owning
    <2>2. Owners = {p} /\ Owners' = {p} /\ Answering = {p} /\ Answering' = {}
      BY <1>11, <1>2, <1>3, <2>1, Zenon
    <2> QED
      BY <2>2 DEF Promise!Next, Promise!Stop, Owners, Answering
  <1>12. ASSUME NEW p \in Procs, UnlinkHeldLock(p) \/ CloseHeldLock(p)
        PROVE  [Promise!Next]_<<Owners, Answering>>
    BY <1>12, <1>6 DEF UnlinkHeldLock, CloseHeldLock, Labels, Holding, Owning
  <1>13. ASSUME NEW p \in Procs, DeleteClosedLock(p) \/ Exit(p)
        PROVE  [Promise!Next]_<<Owners, Answering>>
    BY <1>13, <1>5 DEF DeleteClosedLock, Exit, Labels, Holding, Owning
  <1>14. ASSUME NEW p \in Procs, Crash(p) PROVE [Promise!Next]_<<Owners, Answering>>
    <2>1. "off" \in Labels \ Owning /\ Goto(p, "off") /\ UNCHANGED sock
      BY <1>14 DEF Crash, Labels, Owning
    <2> QED
      BY <2>1, <1>5, <1>6
  <1>15. ASSUME NEW c \in Clients, NEW p \in Procs, SpawnServer(c, p)
        PROVE  [Promise!Next]_<<Owners, Answering>>
    BY <1>15, <1>5 DEF SpawnServer, Labels, Owning
  <1>16. ASSUME UNCHANGED <<pc, sock>> PROVE [Promise!Next]_<<Owners, Answering>>
    BY <1>16 DEF Owners, Answering
  <1>17. ASSUME NEW c \in Clients,
                PingFirst(c) \/ PingAgain(c) \/ StartWaitOver(c) \/ NextCommand(c)
         PROVE  UNCHANGED <<pc, sock>>
    BY <1>17 DEF PingFirst, PingAgain, StartWaitOver, NextCommand, serverVars
  <1>18. UNCHANGED vars => UNCHANGED <<pc, sock>>
    BY DEF vars, serverVars
  <1> QED
    BY <1>7, <1>8, <1>9, <1>10, <1>11, <1>12, <1>13, <1>14, <1>15, <1>16, <1>17, <1>18
       DEF Next, Serve, Shutdown

(***************************************************************************)
(* The endpoint that processes and two files make is the abstract one: it    *)
(* has an owner at a time, and answers from the owner only (server.go:144-   *)
(* 146).                                                                     *)
(***************************************************************************)
THEOREM Refinement == Spec => ImplementsEndpoint
  <1>1. Init => Promise!Init
    BY DEF Init, Promise!Init, Owning, Owners, Answering
  <1>2. LockInv /\ SocketIsTheOwners /\ LockInv' /\ SocketIsTheOwners' /\ [Next]_vars =>
            [Promise!Next]_<<Owners, Answering>>
    BY NextRefines
  <1> QED
    BY <1>1, <1>2, LockInvariant, SocketInvariant, PTL DEF Spec, ImplementsEndpoint, Promise!Spec
=============================================================================
