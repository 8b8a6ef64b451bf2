----------------------------- MODULE MCPipeNet -----------------------------
(* Instances of PipeNet for TLC; packet processors are alike. *)
EXTENDS PipeNet, TLC

Alike == Permutations(PPs)
=============================================================================
