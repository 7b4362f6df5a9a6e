---------------------------- MODULE MC_McpServer ----------------------------
(* A small instance of McpServer for TLC: the first two calls share an id. *)
EXTENDS McpServer

CONSTANTS c1, c2, c3, i1, i2

SharedIds == [c \in {c1, c2, c3} |-> IF c = c3 THEN i2 ELSE i1]

=============================================================================
