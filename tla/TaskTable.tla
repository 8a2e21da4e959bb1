----------------------------- MODULE TaskTable -----------------------------
(***************************************************************************)
(* kernel/fork.c and kernel/exit.c: task[], and the calls fork, exit and   *)
(* waitpid, as they run when the process server has answered -EINVAL or    *)
(* -ECHILD, or when a send or a receive has failed.  Of these calls the    *)
(* server answers only MSG_EXIT_DO_EXIT with success, and even then it     *)
(* changes its own table alone.  (That the results arrive is taken as      *)
(* given: send_reply sends a header without them.)                         *)
(*                                                                         *)
(* A call is a step from one request to the next: other tasks run while it *)
(* waits.  Each request is taken to get its own answer (see KernelRpc).    *)
(* schedule() comes back to its caller, also to a zombie, which goes on;   *)
(* a task that has left task[] is not resumed.  state is followed only     *)
(* where fork and waitpid read it: "running" stands for whatever is none   *)
(* of the other values.                                                    *)
(***************************************************************************)
EXTENDS Integers, FiniteSets, FiniteSetsExt, Functions

CONSTANTS
  NR_TASKS,   \* slots of task[]; slot 0 is the idle task, which makes no calls
  Pages,      \* pages that get_free_page has for task_structs
  Servers,    \* processes that main() forks before init
  MaxForks    \* a bound: last_pid is not followed to where it wraps

ASSUME TaskAssumption ==
  /\ NR_TASKS \in Nat \ {0, 1} /\ Pages \in Nat \ {0}
  /\ Servers \in Nat \ {0} /\ MaxForks \in Nat

Structs == 1 .. Pages
NoStruct == 0
Slots == 1 .. NR_TASKS - 1
Pids == 0 .. Servers + 1 + MaxForks
Any == -1     \* the pid with which waitpid looks for any child

VARIABLES
  task,         \* slot -> struct
  p,            \* the contents of the structs: pid, father, state, has exit_code been set
  used,         \* the pages that get_free_page has given out for a struct
  last_pid,
  call,         \* struct -> where its system call is, and its locals
  overlapped,   \* history: a fork began before another had taken its pid
  panicked      \* "trying to release non-existent task"

vars == <<task, p, used, last_pid, call, overlapped, panicked>>

\* "user", or what the task waits for.
Places == {"user", "find", "copy", "mem", "exit", "orphan", "dead", "wait",
           "release", "sleep"}
Call == [at : Places, slot : 0 .. NR_TASKS - 1, s : Structs \cup {NoStruct},
         pid : Pids \cup {Any}]
InUser == [at |-> "user", slot |-> 0, s |-> NoStruct, pid |-> Any]

\* What get_free_page returns is zero: state is TASK_RUNNING, pid, father, pgrp and
\* exit_code are 0.
Zero == [pid |-> 0, father |-> 0, state |-> "running", exited |-> FALSE]

\* After main() has forked init: sched_init has emptied task[] of the servers.
Init ==
  /\ task = [i \in Slots |-> IF i = 1 THEN Pages ELSE NoStruct]
  /\ p = [s \in Structs |-> IF s = Pages THEN [Zero EXCEPT !.pid = Servers + 1] ELSE Zero]
  /\ used = {Pages}
  /\ last_pid = Servers + 1
  /\ call = [s \in Structs |-> InUser]
  /\ overlapped = FALSE /\ panicked = FALSE

-----------------------------------------------------------------------------

Tasks == {task[i] : i \in Slots} \ {NoStruct}
Waits(t, place) == ~panicked /\ t \in Tasks /\ call[t].at = place
\* In user mode; not so the child of a fork that is not done.
Runs(t) == Waits(t, "user") /\ p[t].state # "uninterruptible" /\ p[t].pid # 0

Goes(t, c) == call' = [call EXCEPT ![t] = c]
Returns(t) == Goes(t, InUser)

\* free_page.  A page is zeroed when it is next given out; here already now.
FreePage(s, t, c) ==
  /\ used' = used \ {s}
  /\ p' = [p EXCEPT ![s] = Zero]
  /\ call' = [call EXCEPT ![s] = InUser, ![t] = c]

\* fork.c:449 counts last_pid up, fork.c:343 takes it: t is between the two.
Forking(t) == call[t].at \in {"find", "copy"}

-----------------------------------------------------------------------------
(* fork: find_empty_process, copy_process, copy_mem.                       *)

\* find_empty_process up to its request
FindEmpty_pastEnd(t) ==
  LET empty == {i \in Slots : task[i] = NoStruct} \cup {NR_TASKS}
  IN /\ last_pid' = IF empty = {} THEN last_pid ELSE last_pid + 1
     /\ Goes(t, [InUser EXCEPT !.at = "find", !.slot = IF empty = {} THEN 0 ELSE Min(empty)])
FindEmpty_orZombie(t) ==
  LET empty == {i \in Slots : task[i] = NoStruct \/ p[task[i]].state = "zombie"}
  IN /\ last_pid' = IF empty = {} THEN last_pid ELSE last_pid + 1
     /\ Goes(t, [InUser EXCEPT !.at = "find", !.slot = IF empty = {} THEN 0 ELSE Min(empty)])
FindEmpty(t) ==
  LET empty == {i \in Slots : task[i] = NoStruct}
  IN /\ last_pid' = IF empty = {} THEN last_pid ELSE last_pid + 1
     /\ Goes(t, [InUser EXCEPT !.at = "find", !.slot = IF empty = {} THEN 0 ELSE Min(empty)])

Fork(t) ==
  /\ Runs(t) /\ last_pid < Servers + 1 + MaxForks
  /\ FindEmpty(t)
  /\ overlapped' = (overlapped \/ \E u \in Tasks : Forking(u))
  /\ UNCHANGED <<task, p, used, panicked>>

\* -EAGAIN from find_empty_process, or from a copy_process without a page
NoRoom(t) ==
  /\ Waits(t, "find")
  /\ call[t].slot = 0 \/ used = Structs
  /\ Returns(t)
  /\ UNCHANGED <<task, p, used, last_pid, overlapped, panicked>>

\* The slot is found, copy_process takes a page and asks in its turn.
TakeSlot(t) ==
  /\ Waits(t, "find") /\ call[t].slot # 0
  /\ LET s == Max(Structs \ used)
     IN /\ used # Structs
        /\ used' = used \cup {s}
        /\ p' = [p EXCEPT ![s] = Zero]
        /\ task' = [task EXCEPT ![call[t].slot] = s]
        /\ Goes(t, [call[t] EXCEPT !.at = "copy", !.s = s])
  /\ UNCHANGED <<last_pid, overlapped, panicked>>

\* ... and, its request having failed, fills the struct in and goes into copy_mem.
FillStruct(t) ==
  /\ Waits(t, "copy")
  /\ p' = [p EXCEPT ![call[t].s] =
             [Zero EXCEPT !.pid = last_pid, !.father = p[t].pid, !.state = "uninterruptible"]]
  /\ Goes(t, [call[t] EXCEPT !.at = "mem"])
  /\ UNCHANGED <<task, used, last_pid, overlapped, panicked>>

ForkDone(t) ==
  /\ Waits(t, "mem")
  /\ p' = [p EXCEPT ![call[t].s].state = "running"]
  /\ Returns(t)
  /\ UNCHANGED <<task, used, last_pid, overlapped, panicked>>

\* copy_page_tables has run out of memory.
ForkUndone(t) ==
  /\ Waits(t, "mem")
  /\ task' = [task EXCEPT ![call[t].slot] = NoStruct]
  /\ FreePage(call[t].s, t, InUser)
  /\ UNCHANGED <<last_pid, overlapped, panicked>>

-----------------------------------------------------------------------------
(* do_exit.                                                                *)

Exit(t) ==
  /\ Runs(t)
  /\ Goes(t, [InUser EXCEPT !.at = "exit"])
  /\ UNCHANGED <<task, p, used, last_pid, overlapped, panicked>>

\* do_exit returns to its caller: the process server has answered 0, or schedule()
\* has come back to the zombie.
ExitReturns(t) ==
  /\ Waits(t, "exit") \/ Waits(t, "dead")
  /\ Returns(t)
  /\ UNCHANGED <<task, p, used, last_pid, overlapped, panicked>>

\* The state in which sys_ipc_send and sys_ipc_receive sleep, and waitpid, is what
\* stays: a task that waits in one of them is no zombie any more.
Blocks(t) ==
  /\ t \in Tasks /\ ~panicked /\ call[t].at # "user"
  /\ p[t].state = "zombie"
  /\ p' = [p EXCEPT ![t].state = "interruptible"]
  /\ UNCHANGED <<task, used, last_pid, call, overlapped, panicked>>

\* The children in these slots get the father 1 ...
Adopt(ss) ==
  [s \in Structs |-> IF s \in ss THEN [p[s] EXCEPT !.father = 1] ELSE p[s]]

\* ... in a loop over task[], from the slot "from", that stops in the send_sig to
\* task[1] for each zombie.  At its end the task is a zombie itself.
GiveAway(t, from) ==
  LET children == {i \in from .. NR_TASKS - 1 :
                     task[i] # NoStruct /\ p[task[i]].father = p[t].pid}
      zombies == {i \in children : p[task[i]].state = "zombie"}
      asks == zombies # {} /\ task[1] # NoStruct
      seen == IF asks THEN {i \in children : i <= Min(zombies)} ELSE children
      adopted == Adopt({task[i] : i \in seen})
  IN IF asks
       THEN /\ p' = adopted
            /\ Goes(t, [InUser EXCEPT !.at = "orphan", !.slot = Min(zombies)])
       ELSE /\ p' = [adopted EXCEPT ![t].state = "zombie", ![t].exited = TRUE]
            /\ Goes(t, [InUser EXCEPT !.at = "dead"])

ExitHere(t) ==
  /\ Waits(t, "exit")
  /\ GiveAway(t, 1)
  /\ UNCHANGED <<task, used, last_pid, overlapped, panicked>>

\* send_sig has sent SIGCHLD, and the loop goes on.
OrphanTold(t) ==
  /\ Waits(t, "orphan")
  /\ GiveAway(t, call[t].slot + 1)
  /\ UNCHANGED <<task, used, last_pid, overlapped, panicked>>

-----------------------------------------------------------------------------
(* sys_waitpid and release.                                                *)

Waitpid(t, pid) ==
  /\ Runs(t)
  /\ Goes(t, [InUser EXCEPT !.at = "wait", !.pid = pid])
  /\ UNCHANGED <<task, p, used, last_pid, overlapped, panicked>>

Sought_anyFather(t, pid) ==
  {i \in Slots : task[i] \notin {NoStruct, t} /\ pid \in {Any, p[task[i]].pid}}
Sought(t, pid) ==
  {i \in Slots : /\ task[i] \notin {NoStruct, t}
                 /\ p[task[i]].father = p[t].pid
                 /\ pid \in {Any, p[task[i]].pid}}

\* repeat: up to the next request or schedule()
Look_firstOnly(t, hang) ==
  LET sought == Sought(t, call[t].pid)
      zombies == {i \in sought : i = Max(sought) /\ p[task[i]].state = "zombie"}
  IN IF zombies # {}
       THEN Goes(t, [InUser EXCEPT !.at = "release", !.s = task[Max(zombies)]])
       ELSE IF sought # {} /\ hang
              THEN Goes(t, [call[t] EXCEPT !.at = "sleep"])
              ELSE Returns(t)
Look(t, hang) ==
  LET sought == Sought(t, call[t].pid)
      zombies == {i \in sought : p[task[i]].state = "zombie"}
  IN IF zombies # {}
       THEN Goes(t, [InUser EXCEPT !.at = "release", !.s = task[Max(zombies)]])
       ELSE IF sought # {} /\ hang
              THEN Goes(t, [call[t] EXCEPT !.at = "sleep"])
              ELSE Returns(t)

WaitHere(t) ==
  /\ Waits(t, "wait")
  /\ \E hang \in BOOLEAN : Look(t, hang)
  /\ UNCHANGED <<task, p, used, last_pid, overlapped, panicked>>

\* schedule() has come back: once more ...
Slept(t) ==
  /\ Waits(t, "sleep")
  /\ Look(t, TRUE)
  /\ UNCHANGED <<task, p, used, last_pid, overlapped, panicked>>

\* ... or, with a signal other than SIGCHLD pending, -EINTR.
Interrupted(t) ==
  /\ Waits(t, "sleep")
  /\ Returns(t)
  /\ UNCHANGED <<task, p, used, last_pid, overlapped, panicked>>

\* release, its message sent: what *p was before that is looked for in task[].
Release_keepsSlot(t) ==
  /\ Waits(t, "release")
  /\ IF call[t].s \in Tasks
       THEN /\ FreePage(call[t].s, t, InUser)
            /\ UNCHANGED <<task, panicked>>
       ELSE panicked' = TRUE /\ UNCHANGED <<task, used, p, call>>
  /\ UNCHANGED <<last_pid, overlapped>>
Release(t) ==
  /\ Waits(t, "release")
  /\ IF call[t].s \in Tasks
       THEN /\ task' = [task EXCEPT ![Min({i \in Slots : task[i] = call[t].s})] = NoStruct]
            /\ FreePage(call[t].s, t, InUser)
            /\ UNCHANGED panicked
       ELSE panicked' = TRUE /\ UNCHANGED <<task, used, p, call>>
  /\ UNCHANGED <<last_pid, overlapped>>

-----------------------------------------------------------------------------

\* A task in user mode makes a call ...
Calls(t) ==
  \/ Fork(t) \/ Exit(t)
  \/ \E pid \in {Any} \cup {p[s].pid : s \in {u \in Tasks : p[u].father = p[t].pid}} : Waitpid(t, pid)

\* ... and one in the kernel goes on.
GoesOn(t) ==
  \/ NoRoom(t) \/ TakeSlot(t) \/ FillStruct(t) \/ ForkDone(t) \/ ForkUndone(t)
  \/ ExitHere(t) \/ OrphanTold(t) \/ ExitReturns(t) \/ Blocks(t)
  \/ WaitHere(t) \/ Slept(t) \/ Interrupted(t) \/ Release(t)

Next == \E t \in Structs : Calls(t) \/ GoesOn(t)

Spec == Init /\ [][Next]_vars

\* A waitpid goes on: its request to the process server ends, and schedule(),
\* which that server answers without a choice, comes back.  No signal is needed.
FairSpec == Spec /\ \A t \in Structs : WF_vars(WaitHere(t) \/ Slept(t))

-----------------------------------------------------------------------------
(* Properties. *)

\* The types of the variables: whatever calls overlap, a slot holds a struct or none,
\* and every pid is one that MaxForks forks can give out.
TypeOK ==
  /\ task \in [Slots -> Structs \cup {NoStruct}]
  /\ p \in [Structs -> [pid : Pids, father : Pids,
                        state : {"running", "uninterruptible", "interruptible", "zombie"},
                        exited : BOOLEAN]]
  /\ used \subseteq Structs
  /\ last_pid \in Pids
  /\ call \in [Structs -> Call]
  /\ overlapped \in BOOLEAN /\ panicked \in BOOLEAN

\* As long as forks do not overlap before they have their pids, the pages in use are
\* those of the tasks in the slots, each in one: none is lost, none given back under
\* a slot; and an unfinished fork still has the slot and the page it took.
SlotsAreAllocated ==
  ~overlapped =>
    /\ Tasks = used
    /\ \A i, j \in Slots : task[i] = task[j] /\ task[i] # NoStruct => i = j
    /\ \A t \in Tasks : call[t].at \in {"copy", "mem"} =>
         call[t].s # NoStruct /\ task[call[t].slot] = call[t].s

\* release looks for its task after a request: as long as forks do not overlap,
\* nobody else has released it meanwhile.
NoPanic == ~overlapped => ~panicked

\* As long as forks do not overlap, a task leaves its slot only when its father
\* releases it after its exit, or when the fork that made it fails; so it is although
\* an exited task may go on, fork, wait for children of its own and exit again.
OnlyTheDeadLeave ==
  [][\A i \in Slots :
       task[i] # NoStruct /\ task'[i] # task[i] /\ ~overlapped =>
         /\ task'[i] = NoStruct
         /\ \E t \in Tasks :
              /\ call[t].s = task[i]
              /\ \/ call[t].at = "mem"
                 \/ /\ call[t].at = "release"
                    /\ p[task[i]].exited /\ p[task[i]].father = p[t].pid]_vars

\* A task waits, among others, for a child that has exited.
WaitsForDead(t) ==
  /\ t \in Tasks /\ call[t].at \in {"wait", "sleep"}
  /\ \E i \in Sought(t, call[t].pid) : p[task[i]].state = "zombie"

\* Although nobody wakes the father up (tell_father is not answered), a waitpid
\* ends if a child it is for has become a zombie, without waiting for a signal.
WaitEnds ==
  \A t \in Structs : WaitsForDead(t) ~> ~WaitsForDead(t) \/ panicked

=============================================================================
