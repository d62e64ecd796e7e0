------------------------- MODULE MCMachineOrchestrator -------------------------
(***************************************************************************)
(* Instances of MachineOrchestrator for TLC: one node, which is what the   *)
(* workers compete for, bound at the start and with two kernels to restart *)
(* it between, or unbound and with one.  A handle is the node's, or one    *)
(* that a worker still holds.  Insert chooses a handle, so they are not    *)
(* symmetric.                                                              *)
(***************************************************************************)
EXTENDS MachineOrchestrator

CONSTANTS n1, xray, singbox, h1, h2, push

MCNodes == {n1}
MCHandles == {h1, h2}
MCKernels == {xray, singbox}
MCOneKernel == {xray}
MCSyncs == {push}
MCEmpty == {[n \in MCNodes |-> None]}
MCBound == {[n \in MCNodes |-> xray]}
=============================================================================
