------------------------------ MODULE Endpoint ------------------------------
(***************************************************************************)
(* What the endpoint of the built-in multiplexer promises (server.go:144-    *)
(* 146): it has no owner or one, an owner answers clients only from the time *)
(* it listens until it begins to shut down, and the next owner comes when    *)
(* the last has gone.  EndpointLock implements it with a lock file, a socket *)
(* file and processes that may die at any time.                              *)
(***************************************************************************)
CONSTANT Procs

VARIABLES
    owner,      \* the process that owns the endpoint, as a set of at most one
    server      \* the process whose answers clients get, likewise

Init == owner = {} /\ server = {}

Take(p) == owner = {} /\ owner' = {p} /\ UNCHANGED server

Listen(p) == owner = {p} /\ server = {} /\ server' = {p} /\ UNCHANGED owner

Stop == server # {} /\ server' = {} /\ UNCHANGED owner

\* Given up in good order, or by a crash.
Leave == owner # {} /\ owner' = {} /\ server' = {}

Next == Stop \/ Leave \/ \E p \in Procs : Take(p) \/ Listen(p)

Spec == Init /\ [][Next]_<<owner, server>>
=============================================================================
