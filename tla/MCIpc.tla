------------------------------- MODULE MCIpc -------------------------------
(***************************************************************************)
(* Values for the constants of Ipc: port 0 is never in use, port 1 is      *)
(* reserved (const.h: 0x0001-0x00FF), the others are dynamic.  Slot 0 is   *)
(* the kernel task, whose pid is TASK_ID_KERNEL.                           *)
(***************************************************************************)
EXTENDS Ipc

CONSTANTS cap_system, cap_low

MCUsers == {1, 2}
MCThreeUsers == {1, 2, 3}
MCPidIsSlot == [t \in Slots |-> t]

\* Task 2 lacks the low capability.
MCTaskCaps == [t \in Slots |-> IF t = 2 THEN {cap_system} ELSE {cap_low, cap_system}]
MCSystem == {cap_system}
MCLow == {cap_low}
MCNothing == {{}}

MCAnyone == [p \in Ports |-> Slots]

\* Slot 1 is the one client of every port and slot 2 the one server.
MCOnly1 == [p \in Ports |-> {1}]
MCOnly2 == [p \in Ports |-> {2}]
=============================================================================
