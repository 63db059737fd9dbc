------------------------------- MODULE MCPipe -------------------------------
(* An instance of the pipe for TLC: a writer and a reader.                  *)
EXTENDS PipeProps, TLC

CONSTANTS p1, p2

MCEnds == p1 :> {"w"} @@ p2 :> {"r"}
=============================================================================
