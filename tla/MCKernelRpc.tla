---------------------------- MODULE MCKernelRpc ----------------------------
(***************************************************************************)
(* Values for the constants of KernelRpc.                                  *)
(***************************************************************************)
EXTENDS KernelRpc

MCOne == {1}
MCTwo == {1, 2}
MCTwoServers == {"process", "memory"}

\* All stubs of the servers running, and one that asks and waits.
MCAll == {s \in AllStubs : s.server \in Servers}
MCCaller == {schedule}
=============================================================================
