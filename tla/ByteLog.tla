------------------------------ MODULE ByteLog ------------------------------
(***************************************************************************)
(* What the reader of a log is promised: the newest Capacity bytes of what *)
(* was written since the log was cleared, oldest first.                    *)
(***************************************************************************)
EXTENDS Integers, Sequences

CONSTANTS Texts, Capacity

VARIABLE log

Newest(s) == SubSeq(s, IF Len(s) > Capacity THEN Len(s) - Capacity + 1 ELSE 1, Len(s))

Init == log = <<>>

Write == \E text \in Texts : log' = Newest(log \o text)

Clear == log' = <<>>

Spec == Init /\ [][Write \/ Clear]_log

\* A log that nobody can clear.
LastingSpec == Init /\ [][Write]_log
=============================================================================
