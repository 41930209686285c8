-------------------------- MODULE MCCancellation ---------------------------
EXTENDS Cancellation

(* Two nodes, a plain one and a Loop, and an operator no node uses.         *)
MCProgram == <<[op |-> "Relu", body |-> <<>>], [op |-> "Loop", body |-> <<"Add", "Custom">>]>>
MCOp == {"Relu", "Loop", "Add", "Custom", "Unused"}
MCProvided == MCOp \ {"Custom"}
=============================================================================
