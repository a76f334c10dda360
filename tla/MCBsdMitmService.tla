-------------------------- MODULE MCBsdMitmService --------------------------
(***************************************************************************)
(* BsdMitmService for TLC: the threads of the IPC server are alike.        *)
(***************************************************************************)
EXTENDS BsdMitmService, TLC

ThreadSymmetry == Permutations(Threads)
=============================================================================
