--------------------------- MODULE MC_EndpointLock ---------------------------
(* Two clients and three server processes: an owner, its successor and a rival. *)
EXTENDS EndpointLock

=============================================================================
