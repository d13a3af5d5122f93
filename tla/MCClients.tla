------------------------------ MODULE MCClients ------------------------------
(***************************************************************************)
(* The clients of the memory manager, on the machines of Machines.         *)
(***************************************************************************)
EXTENDS FrameClients, Machines

MCRequestSizes == 0..3
=============================================================================
