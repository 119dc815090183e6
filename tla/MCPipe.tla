------------------------------- MODULE MCPipe -------------------------------
(* Instances of Pipe for TLC.                                              *)
EXTENDS Pipe, TLC

\* Pipe does not tell processes apart.
AlikeProc == Permutations(Proc)
=============================================================================
