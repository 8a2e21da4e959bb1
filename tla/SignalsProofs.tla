--------------------------- MODULE SignalsProofs ---------------------------
(***************************************************************************)
(* What no history of masks, actions, signals and deliveries can bring     *)
(* about, for any tasks and any numbers of the signals.                    *)
(***************************************************************************)
EXTENDS Signals, TLAPS

\* The inductive invariant.  A mask holds its own signal at most, and only where
\* there is no handler; a handler that is installed has not been set up yet.
Sound(s, sa, n) ==
  /\ sa.mask \subseteq {s}
  /\ sa.handler # "NULL" => sa.nomask /\ sa.mask = {}
  /\ sa.handler = "function" => n = 0
  /\ n <= 1
AllSound == \A t \in Tasks, s \in Signums : Sound(s, sigaction[t][s], catches[t][s])
IInv == TypeOK /\ AllSound /\ KillGetsThrough

LEMMA InitHolds == Init => IInv
  BY SignalAssumption DEF SignalAssumption, Init, IInv, TypeOK, Place, User, AllSound, Sound,
     KillGetsThrough, NoAction, Action, Handlers, Signums

\* The part of the state that the properties are about
Settings ==
  /\ blocked \in [Tasks -> SUBSET Signums]
  /\ sigaction \in [Tasks -> [Signums -> Action]]
  /\ catches \in [Tasks -> [Signums -> 0 .. 2]]
  /\ AllSound
  /\ KillGetsThrough

LEMMA Parts ==
  /\ IInv => Settings /\ signal \in [Tasks -> SUBSET Signums] /\ at \in [Tasks -> Place]
  /\ (Settings /\ signal \in [Tasks -> SUBSET Signums] /\ at \in [Tasks -> Place]) => IInv
  BY DEF IInv, Settings, TypeOK

\* The steps that leave masks, actions and history alone.
LEMMA OthersKeep ==
  ASSUME Settings, UNCHANGED <<blocked, sigaction, catches>>
  PROVE  Settings'
  BY DEF Settings, AllSound, KillGetsThrough

LEMMA SsetmaskKeeps ==
  ASSUME Settings, NEW t \in Tasks, Ssetmask(t)
  PROVE  Settings'
<1>1. UNCHANGED <<sigaction, catches>>
  BY DEF Ssetmask
<1>2. PICK newmask \in SUBSET Signums :
        blocked' \in {blocked, [blocked EXCEPT ![t] = newmask \ {SIGKILL}]}
  BY DEF Ssetmask, Settable
<1>3. blocked' \in [Tasks -> SUBSET Signums]
  BY <1>2 DEF Settings
<1>4. \A u \in Tasks : SIGKILL \notin blocked'[u]
  BY <1>2 DEF Settings, KillGetsThrough
<1> QED
  BY <1>1, <1>3, <1>4 DEF Settings, AllSound, KillGetsThrough

\* One action and its history change, those of a signal that may be caught, and
\* the mask of the task to one without SIGKILL.
LEMMA OneChanges ==
  ASSUME Settings, NEW t \in Tasks, NEW s \in Signums, NEW sa \in Action, NEW n \in 0 .. 2,
         Sound(s, sa, n), s = SIGKILL => sa = NoAction,
         sigaction' = [sigaction EXCEPT ![t][s] = sa],
         catches' = [catches EXCEPT ![t][s] = n],
         NEW mask \in SUBSET Signums, SIGKILL \notin mask,
         blocked' = [blocked EXCEPT ![t] = mask]
  PROVE  Settings'
<1>1. /\ blocked' \in [Tasks -> SUBSET Signums]
      /\ sigaction' \in [Tasks -> [Signums -> Action]]
      /\ catches' \in [Tasks -> [Signums -> 0 .. 2]]
  BY DEF Settings
<1>2. sigaction'[t][s] = sa /\ catches'[t][s] = n
  BY DEF Settings
<1>3. \A u \in Tasks, r \in Signums :
        <<u, r>> # <<t, s>> => /\ sigaction'[u][r] = sigaction[u][r]
                               /\ catches'[u][r] = catches[u][r]
  BY DEF Settings
<1>4. AllSound'
  <2> SUFFICES ASSUME NEW u \in Tasks, NEW r \in Signums
               PROVE  Sound(r, sigaction'[u][r], catches'[u][r])
    BY DEF AllSound, Sound
  <2>1. CASE u = t /\ r = s
    BY <2>1, <1>2
  <2>2. CASE ~(u = t /\ r = s)
    BY <2>2, <1>3 DEF Settings, AllSound
  <2> QED
    BY <2>1, <2>2
<1>5. \A u \in Tasks : sigaction'[u][SIGKILL] = NoAction
  <2> SUFFICES ASSUME NEW u \in Tasks
               PROVE  sigaction'[u][SIGKILL] = NoAction
    OBVIOUS
  <2>1. SIGKILL \in Signums
    BY SignalAssumption DEF SignalAssumption, Signums
  <2>2. CASE u = t /\ s = SIGKILL
    BY <2>2, <1>2
  <2>3. CASE ~(u = t /\ s = SIGKILL)
    BY <2>1, <2>3, <1>3 DEF Settings, KillGetsThrough
  <2> QED
    BY <2>2, <2>3
<1>6. \A u \in Tasks : SIGKILL \notin blocked'[u]
  BY DEF Settings, KillGetsThrough
<1> QED
  BY <1>1, <1>4, <1>5, <1>6 DEF Settings, KillGetsThrough

LEMMA SignalKeeps ==
  ASSUME Settings, NEW t \in Tasks, Signal(t)
  PROVE  Settings'
<1>1. PICK s \in Signums \ {SIGKILL}, h \in Handlers :
        /\ sigaction' = [sigaction EXCEPT ![t][s] = [handler |-> h, nomask |-> TRUE, mask |-> {}]]
        /\ catches' = [catches EXCEPT ![t][s] = 0]
  BY DEF Signal, Catchable
<1> DEFINE sa == [handler |-> h, nomask |-> TRUE, mask |-> {}]
<1>2. sa \in Action /\ Sound(s, sa, 0) /\ 0 \in 0 .. 2
  BY DEF Action, Sound
<1>3. /\ blocked' = [blocked EXCEPT ![t] = blocked[t]]
      /\ blocked[t] \in SUBSET Signums /\ SIGKILL \notin blocked[t]
  BY DEF Signal, Settings, KillGetsThrough
<1>4. /\ sigaction' = [sigaction EXCEPT ![t][s] = sa]
      /\ catches' = [catches EXCEPT ![t][s] = 0]
      /\ s # SIGKILL /\ s \in Signums
  BY <1>1
<1> HIDE DEF sa
<1> QED
  BY <1>2, <1>3, <1>4, OneChanges

LEMMA SigactionKeeps ==
  ASSUME Settings, NEW t \in Tasks, Sigaction(t)
  PROVE  Settings'
<1>1. PICK s \in Signums \ {SIGKILL} :
        sigaction' = [sigaction EXCEPT ![t][s] = Stored(s, @)]
  BY DEF Sigaction, Catchable
<1> DEFINE old == sigaction[t][s]
           sa == Stored(s, old)
           n == catches[t][s]
<1>2. old \in Action /\ n \in 0 .. 2 /\ Sound(s, old, n)
  BY DEF Settings, AllSound
<1>3. sa = [handler |-> old.handler, nomask |-> old.nomask,
            mask |-> IF old.nomask THEN {} ELSE old.mask \cup {s}]
  BY <1>2 DEF Stored, Action
<1>4. sa \in Action /\ Sound(s, sa, n)
  BY <1>2, <1>3 DEF Action, Sound
<1>5. sigaction' = [sigaction EXCEPT ![t][s] = sa]
  BY <1>1
<1>6. catches' = [catches EXCEPT ![t][s] = n]
  BY DEF Sigaction, Settings
<1>7. /\ blocked' = [blocked EXCEPT ![t] = blocked[t]]
      /\ blocked[t] \in SUBSET Signums /\ SIGKILL \notin blocked[t]
  BY DEF Sigaction, Settings, KillGetsThrough
<1> HIDE DEF sa, n
<1> QED
  BY <1>2, <1>4, <1>5, <1>6, <1>7, OneChanges

LEMMA SetUpKeeps ==
  ASSUME Settings, NEW t \in Tasks, NEW s \in Signums,
         sigaction[t][s].handler # "1", SetUp(t, s, sigaction[t][s])
  PROVE  Settings'
<1> DEFINE old == sigaction[t][s]
           sa == Handled(old)
           n == IF old.handler = "function" THEN 1 ELSE catches[t][s]
<1>1. old \in Action /\ catches[t][s] \in 0 .. 2 /\ Sound(s, old, catches[t][s])
  BY DEF Settings, AllSound
<1>2. n = IF old.handler = "function" THEN 1 ELSE catches[t][s]
  OBVIOUS
<1>3. sa = [handler |-> IF old.nomask THEN "NULL" ELSE old.handler,
            nomask |-> old.nomask, mask |-> old.mask]
  BY <1>1 DEF Handled, Action
<1>4. sa \in Action /\ n \in 0 .. 2 /\ Sound(s, sa, n)
  BY <1>1, <1>2, <1>3 DEF Action, Handlers, Sound
<1>5. s = SIGKILL => old = NoAction
  BY DEF Settings, KillGetsThrough
<1>6. s = SIGKILL => sa = NoAction
  BY <1>5, <1>3 DEF NoAction
<1>7. old.mask \in SUBSET (Signums \ {SIGKILL})
  BY <1>1, <1>5 DEF Sound, NoAction
<1>8. sigaction' = [sigaction EXCEPT ![t][s] = sa]
  BY DEF SetUp
<1>9. catches' = [catches EXCEPT ![t][s] = n]
  <2>1. (IF old.handler = "function" /\ catches[t][s] < 2
           THEN catches[t][s] + 1 ELSE catches[t][s]) = n
    BY <1>1 DEF Sound
  <2> QED
    BY <2>1 DEF SetUp
<1>10. /\ blocked' = [blocked EXCEPT ![t] = blocked[t] \cup old.mask]
       /\ blocked[t] \cup old.mask \in SUBSET Signums
       /\ SIGKILL \notin blocked[t] \cup old.mask
  BY <1>7 DEF SetUp, Settings, KillGetsThrough
<1> HIDE DEF old, sa, n
<1> QED
  BY <1>4, <1>6, <1>8, <1>9, <1>10, OneChanges

LEMMA SendFailsKeeps ==
  ASSUME Settings, NEW t \in Tasks, SendFails(t), at[t].signr \in Signums
  PROVE  Settings'
  BY OthersKeep, SetUpKeeps DEF SendFails

LEMMA RebornKeeps ==
  ASSUME Settings, NEW t \in Tasks, Reborn(t)
  PROVE  Settings'
<1> DEFINE none == [s \in Signums |-> NoAction]
           zero == [s \in Signums |-> 0]
<1>1. none \in [Signums -> Action] /\ zero \in [Signums -> 0 .. 2]
  BY DEF NoAction, Action, Handlers
<1>2. /\ blocked' = [blocked EXCEPT ![t] = {}]
      /\ sigaction' = [sigaction EXCEPT ![t] = none]
      /\ catches' = [catches EXCEPT ![t] = zero]
  BY DEF Reborn
<1> HIDE DEF none, zero
<1>3. /\ blocked' \in [Tasks -> SUBSET Signums]
      /\ sigaction' \in [Tasks -> [Signums -> Action]]
      /\ catches' \in [Tasks -> [Signums -> 0 .. 2]]
  BY <1>1, <1>2 DEF Settings
<1>4. \A s \in Signums : none[s] = NoAction /\ zero[s] = 0
  BY DEF none, zero
<1>5. \A u \in Tasks :
        /\ sigaction'[u] = (IF u = t THEN none ELSE sigaction[u])
        /\ catches'[u] = (IF u = t THEN zero ELSE catches[u])
        /\ blocked'[u] = (IF u = t THEN {} ELSE blocked[u])
  BY <1>2 DEF Settings
<1>6. \A s \in Signums : Sound(s, NoAction, 0)
  BY DEF Sound, NoAction
<1>7. AllSound'
  <2> SUFFICES ASSUME NEW u \in Tasks, NEW s \in Signums
               PROVE  Sound(s, sigaction'[u][s], catches'[u][s])
    BY DEF AllSound, Sound
  <2>1. CASE u = t
    <3>1. sigaction'[u] = none /\ catches'[u] = zero
      BY <2>1, <1>5
    <3> QED
      BY <3>1, <1>4, <1>6
  <2>2. CASE u # t
    <3>1. sigaction'[u] = sigaction[u] /\ catches'[u] = catches[u]
      BY <2>2, <1>5
    <3> QED
      BY <3>1 DEF Settings, AllSound
  <2> QED
    BY <2>1, <2>2
<1>8. SIGKILL \in Signums
  BY SignalAssumption DEF SignalAssumption, Signums
<1>9. KillGetsThrough'
  BY <1>4, <1>5, <1>8 DEF Settings, KillGetsThrough
<1> QED
  BY <1>3, <1>7, <1>9 DEF Settings

-----------------------------------------------------------------------------
(* The types of the rest: where the tasks are, and what is pending.        *)

Typed == signal \in [Tasks -> SUBSET Signums] /\ at \in [Tasks -> Place]

LEMMA GoesTyped ==
  ASSUME at \in [Tasks -> Place], NEW t \in Tasks, NEW place \in Place, Goes(t, place)
  PROVE  at' \in [Tasks -> Place]
  BY DEF Goes

LEMMA Known == User \in Place /\ Return \in Place /\ Dead \in Place
  BY DEF User, Return, Dead, Place

LEMMA AsksTyped ==
  ASSUME at \in [Tasks -> Place], NEW t \in Tasks, NEW sig \in Signums,
         NEW ps \in SUBSET Tasks, Asks(t, sig, ps)
  PROVE  at' \in [Tasks -> Place]
<1>1. PICK q \in ps :
        Goes(t, [in |-> "send_sig", sig |-> sig, p |-> q, more |-> ps \ {q}])
  BY DEF Asks
<1>2. [in |-> "send_sig", sig |-> sig, p |-> q, more |-> ps \ {q}] \in Place
  BY DEF Place
<1> QED
  BY <1>1, <1>2, GoesTyped

LEMMA SendSigTyped ==
  ASSUME Typed, NEW t \in Tasks, SendSig(t)
  PROVE  Typed'
<1>1. at[t] \in [in : {"send_sig"}, sig : Signums, p : Tasks, more : SUBSET Tasks]
  BY DEF SendSig, Typed, Place
<1>2. signal' \in [Tasks -> SUBSET Signums]
  BY <1>1 DEF SendSig, Pending, Typed
<1>3. at' \in [Tasks -> Place]
  BY <1>1, Known, GoesTyped, AsksTyped DEF SendSig, Typed
<1> QED
  BY <1>2, <1>3 DEF Typed

LEMMA TakeSignalTyped ==
  ASSUME Typed, NEW t \in Tasks, TakeSignal(t)
  PROVE  Typed'
<1>1. PICK signr \in Deliverable(t) :
        /\ signal' = [signal EXCEPT ![t] = @ \ {signr}]
        /\ Goes(t, IF signr = SIGCHLD /\ sigaction[t][signr].handler = "NULL"
                     THEN User ELSE [in |-> "do_signal", signr |-> signr])
  BY DEF TakeSignal
<1>2. signr \in Signums
  BY DEF Deliverable, Typed
<1>3. [in |-> "do_signal", signr |-> signr] \in Place
  BY <1>2 DEF Place
<1>4. at' \in [Tasks -> Place]
  BY <1>1, <1>3, Known, GoesTyped DEF Typed
<1> QED
  BY <1>1, <1>4 DEF Typed

LEMMA NextKeeps == IInv /\ [Next]_vars => IInv'
<1> SUFFICES ASSUME IInv, [Next]_vars
             PROVE  IInv'
  OBVIOUS
<1>0. Settings /\ Typed
  BY Parts DEF Typed
<1> SUFFICES Settings' /\ Typed'
  BY DEF IInv, TypeOK, Settings, Typed
<1>1. CASE UNCHANGED vars
  BY <1>0, <1>1, OthersKeep DEF vars, Typed
<1>2. ASSUME NEW t \in Tasks, Ssetmask(t) PROVE Settings' /\ Typed'
  BY <1>0, <1>2, SsetmaskKeeps, GoesTyped, Known DEF Ssetmask, Typed
<1>3. ASSUME NEW t \in Tasks, Signal(t) PROVE Settings' /\ Typed'
  BY <1>0, <1>3, SignalKeeps, GoesTyped, Known DEF Signal, Typed
<1>4. ASSUME NEW t \in Tasks, Sigaction(t) PROVE Settings' /\ Typed'
  BY <1>0, <1>4, SigactionKeeps, GoesTyped, Known DEF Sigaction, Typed
<1>5. ASSUME NEW t \in Tasks, Kill(t) PROVE Settings' /\ Typed'
  <2>1. PICK sig \in Signums, ps \in {{v} : v \in Victims} \cup {Victims} : Asks(t, sig, ps)
    BY <1>5 DEF Kill
  <2>2. ps \in SUBSET Tasks
    BY SignalAssumption DEF SignalAssumption
  <2> QED
    BY <1>0, <1>5, <2>1, <2>2, AsksTyped, OthersKeep DEF Kill, Typed
<1>6. ASSUME NEW t \in Tasks, SendSig(t) PROVE Settings' /\ Typed'
  BY <1>0, <1>6, SendSigTyped, OthersKeep DEF SendSig
<1>7. ASSUME NEW t \in Tasks, ReturnToUser(t) PROVE Settings' /\ Typed'
  BY <1>0, <1>7, OthersKeep, GoesTyped, Known DEF ReturnToUser, Typed
<1>8. ASSUME NEW t \in Tasks, TakeSignal(t) PROVE Settings' /\ Typed'
  BY <1>0, <1>8, OthersKeep, TakeSignalTyped DEF TakeSignal
<1>9. ASSUME NEW t \in Tasks, Answered(t) \/ ReceiveFails(t) PROVE Settings' /\ Typed'
  BY <1>0, <1>9, OthersKeep, GoesTyped, Known DEF Answered, ReceiveFails, Typed
<1>10. ASSUME NEW t \in Tasks, SendFails(t) PROVE Settings' /\ Typed'
  <2>1. at[t].signr \in Signums
    BY <1>0, <1>10 DEF SendFails, Typed, Place
  <2>2. Typed'
    BY <1>0, <1>10, GoesTyped, Known DEF SendFails, SetUp, Typed
  <2> QED
    BY <1>0, <1>10, <2>1, <2>2, SendFailsKeeps
<1>11. ASSUME NEW t \in Tasks, Reborn(t) PROVE Settings' /\ Typed'
  <2>1. signal' \in [Tasks -> SUBSET Signums]
    BY <1>0, <1>11 DEF Reborn, Typed
  <2>2. at' \in [Tasks -> Place]
    BY <1>0, <1>11, GoesTyped, Known DEF Reborn, Typed
  <2> QED
    BY <1>0, <1>11, <2>1, <2>2, RebornKeeps DEF Typed
<1> QED
  BY <1>1, <1>2, <1>3, <1>4, <1>5, <1>6, <1>7, <1>8, <1>9, <1>10, <1>11 DEF Next, DoSignal

LEMMA Invariance == Spec => []IInv
<1>1. Init => IInv
  BY InitHolds
<1>2. IInv /\ [Next]_vars => IInv'
  BY NextKeeps
<1> QED
  BY <1>1, <1>2, PTL DEF Spec

\* Masks, actions, pending signals and places keep their types, for any numbers.
THEOREM TypeCorrect == Spec => []TypeOK
<1>1. IInv => TypeOK
  BY DEF IInv
<1> QED
  BY <1>1, Invariance, PTL

\* signal.c:194: no task ever blocks or catches SIGKILL, whatever ssetmask, signal,
\* sigaction and the masks of delivered signals did before.
THEOREM KillIsNotBlocked == Spec => []KillGetsThrough
<1>1. IInv => KillGetsThrough
  BY DEF IInv
<1> QED
  BY <1>1, Invariance, PTL

\* signal.c:452: a handler is set up once for each sys_signal, in any interleaving of
\* kills and deliveries.
THEOREM HandlersAreOneShot == Spec => []OneShot
<1>1. IInv => OneShot
  BY DEF IInv, AllSound, Sound, OneShot
<1> QED
  BY <1>1, Invariance, PTL
=============================================================================
