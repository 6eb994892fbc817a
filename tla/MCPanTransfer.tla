---------------------------- MODULE MCPanTransfer ---------------------------
(* The transfer tasks for TLC: the requests that idle callers serve and the *)
(* slots that runs take are chosen, so no symmetry is declared and the      *)
(* liveness property is checked in the same run.                            *)
EXTENDS PanTransfer

=============================================================================
