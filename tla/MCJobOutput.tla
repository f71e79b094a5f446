---------------------------- MODULE MCJobOutput ----------------------------
(* A job of two files, an upload of each. *)
EXTENDS JobOutput

MCPutOutput == [p1 |-> "a", p2 |-> "b"]
=============================================================================
