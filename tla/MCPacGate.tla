----------------------------- MODULE MCPacGate ------------------------------
(* The PAC gate with interchangeable ports. *)
EXTENDS PacGate, TLC

PortSymmetry == Permutations(Ports)
=============================================================================
