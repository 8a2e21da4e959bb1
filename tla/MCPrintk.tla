------------------------------ MODULE MCPrintk ------------------------------
(***************************************************************************)
(* Values for the constants of Printk.                                     *)
(***************************************************************************)
EXTENDS Printk

MCTwo == {1, 2}
MCOne == {1}

MCTexts == {<<"a">>, <<"b", NL>>}
MCStrays == {<<"a", "b", "b", "a">>}
MCLevels == {3, 7}
=============================================================================
