--------------------------- MODULE MCLocalMemory ---------------------------
(***************************************************************************)
(* Values for the constants of LocalMemory.                                *)
(***************************************************************************)
EXTENDS LocalMemory

MCSlots == 0 .. 2
MCAddresses == {<<0, 0>>, <<1, 0>>, <<1, 1>>}
MCLowPages == {1}
MCPages == 2 .. 7
=============================================================================
