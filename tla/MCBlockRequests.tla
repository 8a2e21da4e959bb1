-------------------------- MODULE MCBlockRequests --------------------------
(***************************************************************************)
(* Values for the constants of BlockRequests.                              *)
(***************************************************************************)
EXTENDS BlockRequests

MCRequests == {"r1", "r2"}
=============================================================================
