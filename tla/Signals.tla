------------------------------ MODULE Signals ------------------------------
(***************************************************************************)
(* kernel/signal.c, send_sig and sys_kill of kernel/exit.c, and the end of *)
(* kernel/system_call.s: masks, actions and the delivery of signals.       *)
(*                                                                         *)
(* The signal server answers the requests of signal.c with -EINVAL, but    *)
(* send_reply sends a header without the result, so whether the caller     *)
(* finds a failure in it is left open.  In do_signal the answer alone      *)
(* counts, whatever it says.  Neither fills in the action that sigaction   *)
(* is asked for; what the user sees of old values is left out.             *)
(***************************************************************************)
EXTENDS Integers, FiniteSets

CONSTANTS
  Tasks,      \* the slots of task[] but the idle task's
  Victims,    \* the tasks that are killed, and that use signal.c
  NSIG,       \* signals are 1 .. NSIG
  SIGKILL, SIGCHLD

ASSUME SignalAssumption ==
  /\ Tasks \subseteq Nat \ {0} /\ IsFiniteSet(Tasks) /\ Victims \subseteq Tasks
  /\ NSIG \in Nat \ {0} /\ SIGKILL \in 1 .. NSIG
  /\ SIGCHLD \in (1 .. NSIG) \ {SIGKILL}

Signums == 1 .. NSIG

\* sa_handler: NULL, the 1 that do_signal_local takes for "ignore" (SIG_IGN is
\* another number), or the address of a function.
Handlers == {"NULL", "1", "function"}
\* struct sigaction: SA_ONESHOT and SA_NOMASK are only ever set together.
Action == [handler : Handlers, nomask : BOOLEAN, mask : SUBSET Signums]
NoAction == [handler |-> "NULL", nomask |-> FALSE, mask |-> {}]

VARIABLES
  signal,       \* task -> pending signals
  blocked,      \* task -> blocked signals
  sigaction,    \* task -> signal -> action
  at,           \* task -> where it is
  catches       \* history: how often the handler of a signal has been set up
                \* since sys_signal installed it, up to 2

vars == <<signal, blocked, sigaction, at, catches>>

\* In user mode; about to return to it; in do_signal(signr); in sys_kill, waiting
\* in send_sig for its request about one of the slots it goes through; dead.
Place == [in : {"user", "return", "dead"}]
         \cup [in : {"do_signal"}, signr : Signums]
         \cup [in : {"send_sig"}, sig : Signums, p : Tasks, more : SUBSET Tasks]
User == [in |-> "user"]
Return == [in |-> "return"]
Dead == [in |-> "dead"]

\* The types of the variables; signals are those of the table.
TypeOK ==
  /\ signal \in [Tasks -> SUBSET Signums]
  /\ blocked \in [Tasks -> SUBSET Signums]
  /\ sigaction \in [Tasks -> [Signums -> Action]]
  /\ at \in [Tasks -> Place]
  /\ catches \in [Tasks -> [Signums -> 0 .. 2]]

Init ==
  /\ signal = [t \in Tasks |-> {}]
  /\ blocked = [t \in Tasks |-> {}]
  /\ sigaction = [t \in Tasks |-> [s \in Signums |-> NoAction]]
  /\ at = [t \in Tasks |-> User]
  /\ catches = [t \in Tasks |-> [s \in Signums |-> 0]]

Goes(t, place) == at' = [at EXCEPT ![t] = place]
Runs(t) == at[t] = User

-----------------------------------------------------------------------------
(* System calls.  Each of the first three waits for an answer before it    *)
(* touches anything, and nobody else touches what it does.                 *)

Settable_kill(newmask) == newmask
Settable(newmask) == newmask \ {SIGKILL}

\* sys_ssetmask; sys_sgetmask changes nothing.
Ssetmask(t) ==
  /\ Runs(t) /\ t \in Victims
  /\ \E newmask \in SUBSET Signums :
       blocked' \in {blocked, [blocked EXCEPT ![t] = Settable(newmask)]}
  /\ Goes(t, Return)
  /\ UNCHANGED <<signal, sigaction, catches>>

Catchable_any == Signums
Catchable == Signums \ {SIGKILL}

\* sys_signal, when its request has failed
Signal(t) ==
  /\ Runs(t) /\ t \in Victims
  /\ \E s \in Catchable, h \in Handlers :
       /\ sigaction' = [sigaction EXCEPT ![t][s] =
                          [handler |-> h, nomask |-> TRUE, mask |-> {}]]
       /\ catches' = [catches EXCEPT ![t][s] = 0]
  /\ Goes(t, Return)
  /\ UNCHANGED <<signal, blocked>>

\* What sys_sigaction stores: the old action, with another mask.
Stored(s, old) ==
  [old EXCEPT !.mask = IF old.nomask THEN {} ELSE @ \cup {s}]

Sigaction(t) ==
  /\ Runs(t) /\ t \in Victims
  /\ \E s \in Catchable :
       sigaction' = [sigaction EXCEPT ![t][s] = Stored(s, @)]
  /\ Goes(t, Return)
  /\ UNCHANGED <<signal, blocked, catches>>

\* send_sig for the last of the slots ps
Asks(t, sig, ps) ==
  \E p \in ps :
    /\ \A q \in ps : q <= p
    /\ Goes(t, [in |-> "send_sig", sig |-> sig, p |-> p, more |-> ps \ {p}])

\* sys_kill, its own request having failed: of one process, or of all (pid -1).
\* No task is in a process group that pid 0 or a negative pid names.
Kill(t) ==
  /\ Runs(t)
  /\ \E sig \in Signums, ps \in {{v} : v \in Victims} \cup {Victims} :
       Asks(t, sig, ps)
  /\ UNCHANGED <<signal, blocked, sigaction, catches>>

\* The request of send_sig has failed (the signal is pending) or not; sys_kill goes
\* on with the slot below.  All tasks run as the superuser.
Pending_shifted(set, sig) == set \cup {sig + 1}
Pending(set, sig) == set \cup {sig}
SendSig(t) ==
  /\ at[t].in = "send_sig"
  /\ signal' \in {signal, [signal EXCEPT ![at[t].p] = Pending(@, at[t].sig)]}
  /\ IF at[t].more = {} THEN Goes(t, Return) ELSE Asks(t, at[t].sig, at[t].more)
  /\ UNCHANGED <<blocked, sigaction, catches>>

-----------------------------------------------------------------------------
(* ret_from_sys_call and do_signal.                                        *)

\* bsfl: the lowest signal that is pending and not blocked
Deliverable_unmasked(t) ==
  {s \in signal[t] : \A r \in signal[t] : s <= r} \ blocked[t]
Deliverable(t) == signal[t] \ blocked[t]

\* Every system call and the timer interrupt end here.
ReturnToUser(t) ==
  /\ at[t] = Return /\ Deliverable(t) = {}
  /\ Goes(t, User)
  /\ UNCHANGED <<signal, blocked, sigaction, catches>>

TakeSignal(t) ==
  /\ at[t] \in {User, Return}
  /\ \E signr \in Deliverable(t) :
       /\ \A r \in Deliverable(t) : signr <= r
       /\ signal' = [signal EXCEPT ![t] = @ \ {signr}]
       /\ Goes(t, IF signr = SIGCHLD /\ sigaction[t][signr].handler = "NULL"
                    THEN User ELSE [in |-> "do_signal", signr |-> signr])
  /\ UNCHANGED <<blocked, sigaction, catches>>

\* The server has answered, and the signal is forgotten.
Answered(t) ==
  /\ at[t].in = "do_signal"
  /\ Goes(t, User)
  /\ UNCHANGED <<signal, blocked, sigaction, catches>>

\* The receive has failed: do_exit, which may come back.
ReceiveFails(t) ==
  /\ at[t].in = "do_signal"
  /\ \E place \in {User, Dead} : Goes(t, place)
  /\ UNCHANGED <<signal, blocked, sigaction, catches>>

\* do_signal_local.  The frame it writes is not one the task returns to: esp and
\* eip are its own copies.
Handled_kept(sa) == sa
Handled(sa) == IF sa.nomask THEN [sa EXCEPT !.handler = "NULL"] ELSE sa
SetUp(t, signr, sa) ==
  /\ sigaction' = [sigaction EXCEPT ![t][signr] = Handled(sa)]
  /\ catches' = [catches EXCEPT ![t][signr] =
                   IF sa.handler = "function" /\ @ < 2 THEN @ + 1 ELSE @]
  /\ blocked' = [blocked EXCEPT ![t] = @ \cup sa.mask]
  /\ Goes(t, User)

\* The send has failed.
SendFails(t) ==
  /\ at[t].in = "do_signal"
  /\ LET signr == at[t].signr
         sa == sigaction[t][signr]
     IN \/ sa.handler = "1" /\ Goes(t, User) /\ UNCHANGED <<blocked, sigaction, catches>>
        \/ sa.handler = "NULL" /\ Goes(t, Dead) /\ UNCHANGED <<blocked, sigaction, catches>>
        \* ... also after a do_exit that comes back
        \/ sa.handler # "1" /\ SetUp(t, signr, sa)
  /\ UNCHANGED signal

\* The dead task is released, and a fork is given its slot and its page, zeroed.
Reborn(t) ==
  /\ at[t] = Dead
  /\ signal' = [signal EXCEPT ![t] = {}]
  /\ blocked' = [blocked EXCEPT ![t] = {}]
  /\ sigaction' = [sigaction EXCEPT ![t] = [s \in Signums |-> NoAction]]
  /\ catches' = [catches EXCEPT ![t] = [s \in Signums |-> 0]]
  /\ Goes(t, User)

-----------------------------------------------------------------------------

DoSignal(t) == Answered(t) \/ ReceiveFails(t) \/ SendFails(t)

Next ==
  \E t \in Tasks :
    \/ Ssetmask(t) \/ Signal(t) \/ Sigaction(t) \/ Kill(t) \/ SendSig(t)
    \/ ReturnToUser(t) \/ TakeSignal(t) \/ DoSignal(t) \/ Reborn(t)

Spec == Init /\ [][Next]_vars

\* Requests are answered, and the timer interrupt leads a task in user mode through
\* ret_from_sys_call: it cannot put that off with system calls, which end there too.
FairSpec ==
  Spec /\ \A t \in Victims :
            WF_vars(TakeSignal(t)) /\ WF_vars(SendSig(t)) /\ WF_vars(DoSignal(t))

-----------------------------------------------------------------------------
(* Properties. *)

\* signal.c:194, "SIGKILL cannot be blocked": neither by ssetmask nor by a mask
\* that a handler brings with it; and nothing catches it.
KillGetsThrough ==
  \A t \in Tasks :
    /\ SIGKILL \notin blocked[t]
    /\ sigaction[t][SIGKILL] = NoAction

\* A handler is one-shot: however often its signal is sent while others are
\* delivered, it is set up once for each sys_signal.
OneShot == \A t \in Tasks, s \in Signums : catches[t][s] <= 1

\* Every signal is taken in its turn, although only one is in each return to user
\* mode: a signal that stays unblocked does not stay pending, unless lower ones keep
\* coming without end.
Waiting(t, s) == at[t] # Dead /\ s \in signal[t] \ blocked[t]
Overtaken(t, s) == \E r \in 1 .. s - 1 : Waiting(t, r)
PendingIsTaken ==
  \A t \in Victims, s \in Signums :
    <>[]~Overtaken(t, s) => [](Waiting(t, s) => <>~Waiting(t, s))

=============================================================================
