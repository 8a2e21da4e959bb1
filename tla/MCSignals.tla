----------------------------- MODULE MCSignals -----------------------------
(* One task that is killed and handles signals, and one that only kills: signal 1, *)
(* SIGKILL and SIGCHLD in the order of their numbers (SIGHUP 1, SIGKILL 9,          *)
(* SIGCHLD 17).                                                                     *)
EXTENDS Signals

MCTasks == {1, 2}
MCVictims == {1}
=============================================================================
