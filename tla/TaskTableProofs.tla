-------------------------- MODULE TaskTableProofs --------------------------
(***************************************************************************)
(* TaskTable for any numbers of slots, pages, servers and forks: its type  *)
(* invariant, the safety invariants, and that only the dead leave.  All    *)
(* of them rest on Tree, what holds between the calls in progress, the     *)
(* slots and the structs as long as forks do not overlap before they have  *)
(* their pids.                                                             *)
(***************************************************************************)
EXTENDS TaskTable, WellFoundedInduction, TLAPS

-----------------------------------------------------------------------------
(* The least and the greatest element. *)

LEMMA MinIsLeast ==
  ASSUME NEW S \in SUBSET Nat, S # {}
  PROVE  Min(S) \in S /\ \A y \in S : Min(S) <= y
<1>1. PICK x \in S : \A y \in S : ~(<<y, x>> \in OpToRel(<, Nat))
  BY NatLessThanWellFounded, WFMin
<1>2. \A m, n \in Nat : m < n => <<m, n>> \in OpToRel(<, Nat)
  BY DEF OpToRel
<1> HIDE DEF OpToRel
<1>3. \A y \in S : x <= y
  <2> TAKE y \in S
  <2>1. ~(y < x)
    BY <1>1, <1>2
  <2> QED
    BY <2>1
<1> QED
  BY <1>3 DEF Min

LEMMA MaxIsGreatest ==
  ASSUME NEW n \in Nat, NEW S \in SUBSET (0 .. n), S # {}
  PROVE  Max(S) \in S /\ \A y \in S : Max(S) >= y
<1> DEFINE T == {n - y : y \in S}
<1>1. T \subseteq Nat /\ T # {}
  <2>1. \A y \in S : y \in 0 .. n /\ n - y \in Nat
    OBVIOUS
  <2>2. PICK y \in S : TRUE
    OBVIOUS
  <2>3. n - y \in T
    OBVIOUS
  <2>4. T \subseteq Nat
    BY <2>1
  <2> QED
    BY <2>3, <2>4
<1>2. PICK m \in T : \A y \in T : m <= y
  <2> HIDE DEF T
  <2> QED
    BY <1>1, MinIsLeast
<1>3. n - m \in S /\ \A y \in S : n - m >= y
  BY <1>2
<1> QED
  BY <1>3 DEF Max
-----------------------------------------------------------------------------
(* Type correctness. *)

States == {"running", "uninterruptible", "interruptible", "zombie"}
Struct == [pid : Pids, father : Pids, state : States, exited : BOOLEAN]

LEMMA Constants ==
  /\ NR_TASKS \in Nat /\ NR_TASKS > 1 /\ Pages \in Nat /\ Servers \in Nat /\ Servers > 0
  /\ MaxForks \in Nat
  /\ Slots \subseteq Nat /\ Slots \subseteq 0 .. NR_TASKS - 1 /\ 0 \notin Slots /\ 1 \in Slots
  /\ NoStruct \notin Structs
  /\ {0, 1, Servers + 1} \subseteq Pids /\ Pids \subseteq Nat /\ Any \notin Pids
BY TaskAssumption DEF Slots, NoStruct, Structs, Pids, Any

LEMMA Records ==
  /\ InUser \in Call /\ Zero \in Struct
  /\ \A r \in Struct, st \in States :
       [r EXCEPT !.state = st] \in Struct /\ [r EXCEPT !.father = 1] \in Struct
  /\ \A r \in Struct : [r EXCEPT !.state = "zombie", !.exited = TRUE] \in Struct
  /\ \A pid, father \in Pids :
       [Zero EXCEPT !.pid = pid, !.father = father, !.state = "uninterruptible"] \in Struct
<1>1. InUser \in Call /\ Zero \in Struct
  BY Constants DEF InUser, Call, Places, NoStruct, Struct, States, Zero
<1>2. \A r \in Struct, st \in States :
       [r EXCEPT !.state = st] \in Struct /\ [r EXCEPT !.father = 1] \in Struct
  BY Constants DEF Struct
<1>3. \A r \in Struct : [r EXCEPT !.state = "zombie", !.exited = TRUE] \in Struct
  BY DEF Struct, States
<1>4. \A pid, father \in Pids :
        [Zero EXCEPT !.pid = pid, !.father = father, !.state = "uninterruptible"] \in Struct
  BY <1>1 DEF Struct, States
<1> QED
  BY <1>1, <1>2, <1>3, <1>4

\* A record of a call with another place, slot or struct is one again.
LEMMA CallRecords ==
  ASSUME NEW c \in Call, NEW at \in Places, NEW i \in 0 .. NR_TASKS - 1,
         NEW s \in Structs \cup {NoStruct}, NEW pid \in Pids \cup {Any}
  PROVE  /\ [c EXCEPT !.at = at] \in Call
         /\ [c EXCEPT !.at = at, !.slot = i] \in Call
         /\ [c EXCEPT !.at = at, !.s = s] \in Call
         /\ [c EXCEPT !.at = at, !.pid = pid] \in Call
BY DEF Call

LEMMA GoesTyped ==
  ASSUME TypeOK, NEW t \in Structs, NEW c \in Call, Goes(t, c)
  PROVE  /\ call' \in [Structs -> Call]
         /\ call'[t] = c /\ \A u \in Structs \ {t} : call'[u] = call[u]
BY DEF TypeOK, Goes

\* What find_empty_process returns.
LEMMA EmptySlot ==
  ASSUME TypeOK, NEW t \in Structs, FindEmpty(t)
  PROVE  \E i \in 0 .. NR_TASKS - 1 :
           /\ Goes(t, [InUser EXCEPT !.at = "find", !.slot = i])
           /\ i # 0 => i \in Slots /\ task[i] = NoStruct /\ last_pid' = last_pid + 1
           /\ i = 0 => last_pid' = last_pid
<1> DEFINE empty == {i \in Slots : task[i] = NoStruct}
<1>1. CASE empty = {}
  <2>1. Goes(t, [InUser EXCEPT !.at = "find", !.slot = 0]) /\ last_pid' = last_pid
    BY <1>1 DEF FindEmpty
  <2>2. 0 \in 0 .. NR_TASKS - 1
    BY Constants
  <2> QED
    BY <2>1, <2>2
<1>2. CASE empty # {}
  <2>1. Min(empty) \in empty
    BY <1>2, MinIsLeast, Constants
  <2>2. /\ Goes(t, [InUser EXCEPT !.at = "find", !.slot = Min(empty)])
        /\ last_pid' = last_pid + 1
    BY <1>2 DEF FindEmpty
  <2>3. Min(empty) # 0 /\ Min(empty) \in 0 .. NR_TASKS - 1
    BY <2>1, Constants
  <2> QED
    BY <2>1, <2>2, <2>3
<1> QED
  BY <1>1, <1>2

\* What waitpid comes to when it looks at the children.
LEMMA Looked ==
  ASSUME TypeOK, NEW t \in Structs, NEW hang, Look(t, hang)
  PROVE  \E c \in Call :
           /\ Goes(t, c)
           /\ c.at \in {"release", "sleep", "user"}
           /\ c.at = "release" =>
                c.s \in Tasks /\ p[c.s].state = "zombie" /\ p[c.s].father = p[t].pid
<1> DEFINE sought == Sought(t, call[t].pid)
           zombies == {i \in sought : p[task[i]].state = "zombie"}
<1>1. CASE zombies # {}
  <2>1. sought \subseteq Slots
    BY DEF Sought
  <2>2. Max(zombies) \in zombies
    <3>1. zombies \in SUBSET (0 .. NR_TASKS - 1) /\ NR_TASKS - 1 \in Nat
      <4>1. zombies \subseteq Slots
        BY <2>1
      <4> HIDE DEF zombies
      <4> QED
        BY <4>1, Constants
    <3> HIDE DEF zombies
    <3> QED
      BY <1>1, <3>1, MaxIsGreatest
  <2> DEFINE s == task[Max(zombies)]
  <2>3. s \in Tasks /\ p[s].state = "zombie" /\ p[s].father = p[t].pid
    BY <2>1, <2>2 DEF Sought, Tasks
  <2>4. s \in Structs
    BY <2>3 DEF Tasks, TypeOK
  <2>5. Goes(t, [InUser EXCEPT !.at = "release", !.s = s])
    BY <1>1 DEF Look
  <2> HIDE DEF s
  <2>6. [InUser EXCEPT !.at = "release", !.s = s] \in Call
    BY <2>4, Records DEF Places, Call
  <2> QED
    BY <2>3, <2>5, <2>6 DEF InUser
<1>2. CASE zombies = {} /\ sought # {} /\ hang
  <2>1. Goes(t, [call[t] EXCEPT !.at = "sleep"])
    BY <1>2 DEF Look
  <2>2. [call[t] EXCEPT !.at = "sleep"] \in Call
    BY DEF TypeOK, Places, Call
  <2> QED
    BY <2>1, <2>2 DEF Call
<1>3. CASE zombies = {} /\ ~(sought # {} /\ hang)
  <2>1. Goes(t, InUser)
    BY <1>3 DEF Look, Returns
  <2> QED
    BY <2>1, Records DEF InUser
<1> QED
  BY <1>1, <1>2, <1>3

\* What do_exit's loop does until it stops: some children of t get the father 1, and
\* nobody else is touched but t at the end.
Adopted(t, c) ==
  /\ \A s \in Structs :
       /\ p'[s].pid = p[s].pid
       /\ s # t => p'[s].state = p[s].state /\ p'[s].exited = p[s].exited
       /\ p'[s].father # p[s].father => p'[s].father = 1 /\ p[s].father = p[t].pid
  /\ \/ c.at = "orphan" /\ p'[t].state = p[t].state /\ p'[t].exited = p[t].exited
     \/ c.at = "dead" /\ p'[t].state = "zombie" /\ p'[t].exited

LEMMA AdoptTyped ==
  ASSUME TypeOK, NEW ss
  PROVE  /\ Adopt(ss) \in [Structs -> Struct]
         /\ \A s \in Structs :
              /\ Adopt(ss)[s].pid = p[s].pid /\ Adopt(ss)[s].state = p[s].state
              /\ Adopt(ss)[s].exited = p[s].exited
              /\ Adopt(ss)[s].father = IF s \in ss THEN 1 ELSE p[s].father
<1>1. p \in [Structs -> Struct]
  BY DEF TypeOK, Struct, States
<1>2. \A s \in Structs : [p[s] EXCEPT !.father = 1] \in Struct
  BY <1>1, Records DEF States
<1>3. Adopt(ss) = [s \in Structs |-> IF s \in ss THEN [p[s] EXCEPT !.father = 1] ELSE p[s]]
  BY DEF Adopt
<1>4. \A s \in Structs : Adopt(ss)[s] = IF s \in ss THEN [p[s] EXCEPT !.father = 1] ELSE p[s]
  BY <1>3
<1>5. Adopt(ss) \in [Structs -> Struct]
  BY <1>1, <1>2, <1>3
<1> QED
  BY <1>1, <1>4, <1>5 DEF Struct

LEMMA Given ==
  ASSUME TypeOK, NEW t \in Structs, NEW from \in Nat \ {0}, GiveAway(t, from)
  PROVE  /\ p' \in [Structs -> Struct]
         /\ \E c \in Call : Goes(t, c) /\ Adopted(t, c)
<1> DEFINE children == {i \in from .. NR_TASKS - 1 :
                          task[i] # NoStruct /\ p[task[i]].father = p[t].pid}
           zombies == {i \in children : p[task[i]].state = "zombie"}
           asks == zombies # {} /\ task[1] # NoStruct
           seen == IF asks THEN {i \in children : i <= Min(zombies)} ELSE children
           ss == {task[i] : i \in seen}
<1>1. children \subseteq Slots /\ zombies \subseteq children
  BY Constants DEF Slots
<1>2. zombies \subseteq Nat /\ seen \subseteq children
  <2>1. zombies \subseteq Nat
    <3> HIDE DEF zombies, children
    <3> QED
      BY <1>1, Constants
  <2>2. seen \subseteq children
    <3> HIDE DEF zombies, children
    <3> QED
      OBVIOUS
  <2> QED
    BY <2>1, <2>2
<1>3. \A s \in ss : s \in Structs /\ p[s].father = p[t].pid
  <2>1. \A i \in children : task[i] \in Structs /\ p[task[i]].father = p[t].pid
    BY <1>1 DEF TypeOK
  <2> HIDE DEF seen, children
  <2> QED
    BY <1>2, <2>1
<1>4. /\ Adopt(ss) \in [Structs -> Struct]
      /\ \A s \in Structs :
           /\ Adopt(ss)[s].pid = p[s].pid /\ Adopt(ss)[s].state = p[s].state
           /\ Adopt(ss)[s].exited = p[s].exited
           /\ Adopt(ss)[s].father = IF s \in ss THEN 1 ELSE p[s].father
  <2> HIDE DEF ss
  <2> QED
    BY AdoptTyped
<1>5. CASE asks
  <2>1. Min(zombies) \in zombies
    <3> HIDE DEF zombies
    <3> QED
      BY <1>2, <1>5, MinIsLeast
  <2>2. p' = Adopt(ss) /\ Goes(t, [InUser EXCEPT !.at = "orphan", !.slot = Min(zombies)])
    BY <1>5 DEF GiveAway
  <2>3. Min(zombies) \in 0 .. NR_TASKS - 1
    <3> HIDE DEF zombies, children
    <3> QED
      BY <1>1, <2>1, Constants
  <2> HIDE DEF ss, zombies, children
  <2>4. PICK c \in Call : c = [InUser EXCEPT !.at = "orphan", !.slot = Min(zombies)]
    BY <2>3, Records DEF Call, Places
  <2>5. c.at = "orphan"
    BY <2>4 DEF InUser
  <2>6. Adopted(t, c)
    BY <1>3, <1>4, <2>2, <2>5 DEF Adopted
  <2> QED
    BY <1>4, <2>2, <2>4, <2>6
<1>6. CASE ~asks
  <2>1. /\ p' = [Adopt(ss) EXCEPT ![t].state = "zombie", ![t].exited = TRUE]
        /\ Goes(t, [InUser EXCEPT !.at = "dead"])
    BY <1>6 DEF GiveAway
  <2> HIDE DEF ss
  <2>2. PICK c \in Call : c = [InUser EXCEPT !.at = "dead"]
    BY Records DEF Call, Places
  <2>3. c.at = "dead"
    BY <2>2 DEF InUser
  <2>4. p' = [s \in Structs |-> IF s = t THEN [Adopt(ss)[t] EXCEPT !.state = "zombie", !.exited = TRUE]
                                        ELSE Adopt(ss)[s]]
    BY <1>4, <2>1
  <2>5. p' \in [Structs -> Struct]
    BY <1>4, <2>4, Records
  <2>6. /\ p'[t].state = "zombie" /\ p'[t].exited
        /\ \A s \in Structs :
             /\ p'[s].pid = p[s].pid /\ p'[s].father = Adopt(ss)[s].father
             /\ s # t => p'[s].state = p[s].state /\ p'[s].exited = p[s].exited
    BY <1>4, <2>4 DEF Struct
  <2>7. Adopted(t, c)
    BY <1>3, <1>4, <2>3, <2>6 DEF Adopted
  <2> QED
    BY <2>1, <2>2, <2>5, <2>7
<1> QED
  BY <1>5, <1>6

LEMMA PageFreed ==
  ASSUME TypeOK, NEW t \in Structs, NEW s, FreePage(s, t, InUser)
  PROVE  /\ used' \subseteq Structs /\ p' \in [Structs -> Struct] /\ call' \in [Structs -> Call]
         /\ used' = used \ {s} /\ (s \in Structs => p'[s] = Zero /\ call'[s] = InUser)
         /\ call'[t] = InUser
         /\ \A u \in Structs : u # s => p'[u] = p[u]
         /\ \A u \in Structs : u # s /\ u # t => call'[u] = call[u]
<1>1. InUser \in Call /\ Zero \in Struct /\ p \in [Structs -> Struct]
  BY Records DEF TypeOK, Struct, States
<1> QED
  BY <1>1 DEF FreePage, TypeOK

\* The struct that copy_process takes was free.
LEMMA Taken ==
  ASSUME TypeOK, NEW t \in Structs, TakeSlot(t)
  PROVE  \E s \in Structs \ used :
           /\ used' = used \cup {s} /\ p' = [p EXCEPT ![s] = Zero]
           /\ task' = [task EXCEPT ![call[t].slot] = s]
           /\ Goes(t, [call[t] EXCEPT !.at = "copy", !.s = s])
<1> DEFINE s == Max(Structs \ used)
<1>1. s \in Structs \ used
  <2>1. Structs \ used # {}
    <3>1. used # Structs
      BY DEF TakeSlot
    <3> QED
      BY <3>1 DEF TypeOK
  <2>2. Structs \ used \in SUBSET (0 .. Pages)
    BY Constants DEF Structs
  <2> QED
    BY <2>1, <2>2, MaxIsGreatest, Constants
<1>2. /\ used' = used \cup {s} /\ p' = [p EXCEPT ![s] = Zero]
      /\ task' = [task EXCEPT ![call[t].slot] = s]
      /\ Goes(t, [call[t] EXCEPT !.at = "copy", !.s = s])
  BY DEF TakeSlot
<1> HIDE DEF s
<1> QED
  BY <1>1, <1>2

\* Where a step of t leaves the places of the calls, it is one of these.
LEMMA Kinds ==
  ASSUME TypeOK, NEW t \in Structs, Calls(t) \/ GoesOn(t)
  PROVE  \/ Fork(t) \/ TakeSlot(t) \/ FillStruct(t) \/ ForkDone(t) \/ ForkUndone(t)
         \/ ExitHere(t) \/ OrphanTold(t) \/ Release(t) \/ Blocks(t)
         \/ /\ t \in Tasks /\ ~panicked
            /\ call[t].at = "user" => Runs(t)
            /\ call[t].at \in {"user", "find", "exit", "dead", "wait", "sleep"}
            /\ UNCHANGED <<task, p, used, last_pid, overlapped, panicked>>
            /\ \E c \in Call :
                 /\ Goes(t, c)
                 /\ c.at \in {"user", "exit", "wait", "release", "sleep"}
                 /\ c.at = "release" =>
                      c.s \in Tasks /\ p[c.s].state = "zombie" /\ p[c.s].father = p[t].pid
<1>1. ASSUME Exit(t)
      PROVE  \E c \in Call : Goes(t, c) /\ c.at = "exit"
  <2>1. [InUser EXCEPT !.at = "exit"] \in Call
    BY Records DEF Call, Places
  <2> QED
    BY <1>1, <2>1 DEF Exit, InUser
<1>2. ASSUME NEW pid \in {Any} \cup {p[s].pid : s \in {u \in Tasks : p[u].father = p[t].pid}},
             Waitpid(t, pid)
      PROVE  \E c \in Call : Goes(t, c) /\ c.at = "wait"
  <2>1. Tasks \subseteq Structs
    BY DEF Tasks, TypeOK
  <2>2. pid \in Pids \cup {Any}
    BY <1>2, <2>1 DEF TypeOK
  <2>3. [InUser EXCEPT !.at = "wait", !.pid = pid] \in Call
    BY <2>2, Records DEF Call, Places
  <2> QED
    BY <1>2, <2>3 DEF Waitpid, InUser
<1>3. ASSUME NoRoom(t) \/ ExitReturns(t) \/ Interrupted(t)
      PROVE  \E c \in Call : Goes(t, c) /\ c.at = "user"
  BY <1>3, Records DEF NoRoom, ExitReturns, Interrupted, Returns, InUser
<1>4. ASSUME WaitHere(t) \/ Slept(t)
      PROVE  \E c \in Call :
               /\ Goes(t, c)
               /\ c.at \in {"release", "sleep", "user"}
               /\ c.at = "release" =>
                    c.s \in Tasks /\ p[c.s].state = "zombie" /\ p[c.s].father = p[t].pid
  <2>1. PICK hang \in BOOLEAN : Look(t, hang)
    BY <1>4 DEF WaitHere, Slept
  <2> QED
    BY <2>1, Looked
<1>5. CASE Exit(t)
  BY <1>1, <1>5 DEF Exit, Runs, Waits
<1>6. ASSUME NEW pid \in {Any} \cup {p[s].pid : s \in {u \in Tasks : p[u].father = p[t].pid}},
             Waitpid(t, pid)
      PROVE  /\ t \in Tasks /\ ~panicked /\ Runs(t) /\ call[t].at = "user"
             /\ UNCHANGED <<task, p, used, last_pid, overlapped, panicked>>
  BY <1>6 DEF Waitpid, Runs, Waits
<1>7. CASE \E pid \in {Any} \cup {p[s].pid : s \in {u \in Tasks : p[u].father = p[t].pid}} :
             Waitpid(t, pid)
  BY <1>2, <1>6, <1>7
<1>8. CASE NoRoom(t) \/ ExitReturns(t) \/ Interrupted(t)
  BY <1>3, <1>8 DEF NoRoom, ExitReturns, Interrupted, Waits
<1>9. CASE WaitHere(t) \/ Slept(t)
  BY <1>4, <1>9 DEF WaitHere, Slept, Waits
<1> QED
  BY <1>5, <1>7, <1>8, <1>9 DEF Calls, GoesOn

\* Every step of a task keeps the types.
LEMMA TypeStep ==
  ASSUME TypeOK, NEW t \in Structs, Calls(t) \/ GoesOn(t)
  PROVE  TypeOK'
<1> DEFINE Pv == /\ task' \in [Slots -> Structs \cup {NoStruct}] /\ p' \in [Structs -> Struct]
                 /\ used' \subseteq Structs /\ last_pid' \in Pids /\ call' \in [Structs -> Call]
                 /\ overlapped' \in BOOLEAN /\ panicked' \in BOOLEAN
<1> SUFFICES Pv
  BY DEF TypeOK, Struct, States
<1>0. /\ task \in [Slots -> Structs \cup {NoStruct}] /\ p \in [Structs -> Struct]
      /\ used \subseteq Structs /\ last_pid \in Pids /\ call \in [Structs -> Call]
      /\ overlapped \in BOOLEAN /\ panicked \in BOOLEAN
  BY DEF TypeOK, Struct, States
<1>1. CASE Fork(t)
  <2>1. PICK i \in 0 .. NR_TASKS - 1 :
          /\ Goes(t, [InUser EXCEPT !.at = "find", !.slot = i])
          /\ last_pid' \in {last_pid, last_pid + 1}
    BY <1>1, EmptySlot DEF Fork
  <2>2. [InUser EXCEPT !.at = "find", !.slot = i] \in Call
    BY Records DEF Call, Places
  <2>3. last_pid' \in Pids
    BY <1>0, <1>1, <2>1, Constants DEF Fork, Pids
  <2> QED
    BY <1>0, <1>1, <2>1, <2>2, <2>3, GoesTyped DEF Fork
<1>2. CASE TakeSlot(t)
  <2>1. PICK s \in Structs \ used :
          /\ used' = used \cup {s} /\ p' = [p EXCEPT ![s] = Zero]
          /\ task' = [task EXCEPT ![call[t].slot] = s]
          /\ Goes(t, [call[t] EXCEPT !.at = "copy", !.s = s])
    BY <1>2, Taken
  <2>2. UNCHANGED <<last_pid, overlapped, panicked>>
    BY <1>2 DEF TakeSlot
  <2>3. [call[t] EXCEPT !.at = "copy", !.s = s] \in Call
    BY <1>0, <2>1 DEF Call, Places
  <2>4. call' \in [Structs -> Call]
    BY <2>1, <2>3, GoesTyped
  <2>5. task' \in [Slots -> Structs \cup {NoStruct}] /\ p' \in [Structs -> Struct]
    BY <1>0, <2>1, Records
  <2> QED
    BY <1>0, <2>1, <2>2, <2>4, <2>5
<1>3. CASE FillStruct(t)
  <2>1. [Zero EXCEPT !.pid = last_pid, !.father = p[t].pid, !.state = "uninterruptible"] \in Struct
    BY <1>0, Records DEF Struct
  <2>2. [call[t] EXCEPT !.at = "mem"] \in Call
    BY <1>0 DEF Call, Places
  <2>3. call' \in [Structs -> Call]
    BY <1>3, <2>2, GoesTyped DEF FillStruct
  <2> QED
    BY <1>0, <1>3, <2>1, <2>3 DEF FillStruct
<1>4. CASE ForkDone(t)
  <2>1. call' \in [Structs -> Call]
    BY <1>4, Records, GoesTyped DEF ForkDone, Returns
  <2>2. \A s \in Structs : [p[s] EXCEPT !.state = "running"] \in Struct
    BY <1>0, Records DEF States
  <2> QED
    BY <1>0, <1>4, <2>1, <2>2 DEF ForkDone
<1>5. CASE ForkUndone(t)
  <2>1. FreePage(call[t].s, t, InUser)
    BY <1>5 DEF ForkUndone
  <2> QED
    BY <1>0, <1>5, <2>1, PageFreed DEF ForkUndone
<1>6. CASE ExitHere(t) \/ OrphanTold(t)
  <2>1. PICK from \in Nat \ {0} : GiveAway(t, from)
    <3>1. call[t].slot + 1 \in Nat \ {0}
      BY <1>0, Constants DEF Call
    <3> QED
      BY <1>6, <3>1 DEF ExitHere, OrphanTold
  <2>2. PICK c \in Call : Goes(t, c)
    BY <2>1, Given
  <2>3. p' \in [Structs -> Struct] /\ call' \in [Structs -> Call]
    BY <2>1, <2>2, Given, GoesTyped
  <2> QED
    BY <1>0, <1>6, <2>3 DEF ExitHere, OrphanTold
<1>7. CASE Release(t)
  <2>1. CASE call[t].s \in Tasks
    <3>1. FreePage(call[t].s, t, InUser)
      BY <1>7, <2>1 DEF Release
    <3>2. task' \in [Slots -> Structs \cup {NoStruct}]
      BY <1>0, <1>7, <2>1 DEF Release
    <3> QED
      BY <1>0, <1>7, <2>1, <3>1, <3>2, PageFreed DEF Release
  <2>2. CASE call[t].s \notin Tasks
    BY <1>0, <1>7, <2>2 DEF Release
  <2> QED
    BY <2>1, <2>2
<1>8. CASE /\ UNCHANGED <<task, p, used, last_pid, overlapped, panicked>>
           /\ \E c \in Call : Goes(t, c)
  BY <1>0, <1>8, GoesTyped
<1>9. CASE Blocks(t)
  <2>1. [p[t] EXCEPT !.state = "interruptible"] \in Struct
    BY <1>0, Records DEF States
  <2> QED
    BY <1>0, <1>9, <2>1 DEF Blocks
<1> HIDE DEF Pv
<1> QED
  BY <1>1, <1>2, <1>3, <1>4, <1>5, <1>6, <1>7, <1>8, <1>9, Kinds

\* task[], the structs and the calls keep their types, whatever forks, exits and
\* waitpids run beside each other.
THEOREM TypeCorrect == Spec => []TypeOK
<1>1. Init => TypeOK
  <2> SUFFICES ASSUME Init PROVE TypeOK
    OBVIOUS
  <2>1. Zero \in Struct /\ [Zero EXCEPT !.pid = Servers + 1] \in Struct /\ InUser \in Call
    BY Records, Constants DEF Struct
  <2>2. Pages \in Structs /\ Servers + 1 \in Pids
    BY TaskAssumption, Constants DEF Structs
  <2> QED
    BY <2>1, <2>2 DEF Init, TypeOK, Struct, States
<1>2. TypeOK /\ [Next]_vars => TypeOK'
  <2>1. TypeOK /\ UNCHANGED vars => TypeOK'
    BY DEF vars, TypeOK
  <2> QED
    BY <2>1, TypeStep DEF Next
<1> QED
  BY <1>1, <1>2, PTL DEF Spec

-----------------------------------------------------------------------------
(* What holds as long as forks do not overlap before they have their pids. *)

\* Each page in use is the struct of one slot; the others are as get_free_page leaves them.
OnePageEach ==
  /\ used = Tasks
  /\ \A i, j \in Slots : task[i] = task[j] /\ task[i] # NoStruct => i = j
  /\ \A s \in Structs \ Tasks : call[s] = InUser /\ p[s] = Zero

\* Who is in a call has a slot and a pid.
Callers == \A t \in Structs : call[t].at # "user" => t \in Tasks /\ p[t].pid # 0

\* Pids are given out in order, after those of the servers.
PidsGrow ==
  /\ last_pid > Servers
  /\ \A s \in Structs : p[s].pid <= last_pid /\ (p[s].pid = 0 \/ p[s].pid > Servers)
  /\ \A s, u \in Structs : s # u /\ p[s].pid # 0 => p[s].pid # p[u].pid

\* The one fork that has no pid yet: its slot is empty until it has taken a page, and
\* last_pid is nobody's.
OneFork ==
  /\ \A t, u \in Structs : Forking(t) /\ Forking(u) => t = u
  /\ \A t \in Structs : call[t].at = "find" /\ call[t].slot # 0 =>
       call[t].slot \in Slots /\ task[call[t].slot] = NoStruct
  /\ \A t \in Structs :
       (call[t].at = "find" /\ call[t].slot # 0) \/ call[t].at = "copy" =>
         \A s \in Structs : p[s].pid < last_pid

HasChild(t) == call[t].at \in {"copy", "mem"}

\* The struct that a fork fills in stays in its slot, makes no call, and is nobody else's.
Children ==
  /\ \A t \in Structs : HasChild(t) =>
       /\ call[t].slot \in Slots /\ call[t].s \in Structs
       /\ task[call[t].slot] = call[t].s
       /\ call[call[t].s] = InUser
       /\ call[t].at = "copy" => p[call[t].s] = Zero
       /\ call[t].at = "mem" =>
            p[call[t].s].state = "uninterruptible" /\ ~p[call[t].s].exited
  /\ \A t, u \in Structs : HasChild(t) /\ HasChild(u) /\ call[t].s = call[u].s => t = u

\* What release frees is a child of its caller that has exited; nobody is its own father.
Fathers ==
  /\ \A t \in Structs : call[t].at = "release" =>
       call[t].s \in Tasks /\ p[call[t].s].exited /\ p[call[t].s].father = p[t].pid
  /\ \A s \in Structs : p[s].state = "zombie" => p[s].exited
  /\ \A s \in Structs : p[s].pid # 0 => p[s].father # p[s].pid

Tree ==
  /\ OnePageEach /\ Callers /\ PidsGrow /\ OneFork /\ Children /\ Fathers
  /\ ~panicked

\* Who makes a step is not the child of a fork that is not done.
LEMMA Acting ==
  ASSUME TypeOK, Tree, NEW t \in Structs, call[t].at = "user" => Runs(t)
  PROVE  /\ t \in Tasks /\ p[t].pid # 0
         /\ \A u \in Structs : HasChild(u) => call[u].s # t
<1>1. t \in Tasks /\ p[t].pid # 0
  <2>1. CASE call[t].at = "user"
    BY <2>1 DEF Runs, Waits
  <2>2. CASE call[t].at # "user"
    BY <2>2 DEF Tree, Callers
  <2> QED
    BY <2>1, <2>2
<1>2. ASSUME NEW u \in Structs, HasChild(u), call[u].s = t
      PROVE  FALSE
  <2>1. call[t].at = "user" /\ (p[t] = Zero \/ p[t].state = "uninterruptible")
    BY <1>2 DEF Tree, Children, HasChild, InUser
  <2> QED
    BY <1>1, <2>1 DEF Runs, Zero
<1> QED
  BY <1>1, <1>2

LEMMA TasksAreStructs ==
  ASSUME TypeOK
  PROVE  /\ Tasks \subseteq Structs
         /\ \A i \in Slots : task[i] # NoStruct => task[i] \in Tasks
         /\ \A s \in Tasks : \E i \in Slots : task[i] = s
BY DEF TypeOK, Tasks

\* A step that moves only the call of t, and not into a fork or out of a loop.
LEMMA TreeCall ==
  ASSUME TypeOK, Tree, NEW t \in Structs, t \in Tasks,
         call[t].at = "user" => Runs(t),
         UNCHANGED <<task, p, used, last_pid, overlapped, panicked>>,
         NEW c \in Call, Goes(t, c),
         c.at \in {"user", "exit", "wait", "release", "sleep"},
         c.at = "release" =>
           c.s \in Tasks /\ p[c.s].exited /\ p[c.s].father = p[t].pid
  PROVE  Tree'
<1>1. /\ p[t].pid # 0
      /\ \A u \in Structs : HasChild(u) => call[u].s # t
  BY Acting
<1>2. /\ call' \in [Structs -> Call] /\ call'[t] = c
      /\ \A u \in Structs : u # t => call'[u] = call[u]
  BY GoesTyped
<1>3. Tasks' = Tasks /\ p' = p /\ task' = task /\ used' = used /\ last_pid' = last_pid
  BY DEF Tasks
<1>4. \A u \in Structs : HasChild(u)' => u # t /\ HasChild(u)
  BY <1>2 DEF HasChild
<1>5. \A u \in Structs : Forking(u)' => u # t /\ Forking(u)
  BY <1>2 DEF Forking
<1>6. OnePageEach'
  BY <1>2, <1>3 DEF Tree, OnePageEach
<1>7. Callers'
  BY <1>1, <1>2, <1>3 DEF Tree, Callers
<1>8. PidsGrow'
  BY <1>3 DEF Tree, PidsGrow
<1>9. OneFork'
  BY <1>2, <1>3, <1>5 DEF Tree, OneFork
<1>10. Children'
  <2>1. \A u \in Structs : HasChild(u)' => u # t /\ call'[u] = call[u] /\ HasChild(u)
    BY <1>2, <1>4
  <2>2. \A u \in Structs : HasChild(u)' => call'[call[u].s] = InUser
    BY <1>1, <1>2, <2>1 DEF Tree, Children
  <2> QED
    BY <1>3, <2>1, <2>2 DEF Tree, Children
<1>11. Fathers'
  <2>1. \A u \in Structs : call'[u].at = "release" =>
          call'[u].s \in Tasks /\ p[call'[u].s].exited /\ p[call'[u].s].father = p[u].pid
    BY <1>2, TasksAreStructs DEF Tree, Fathers
  <2> QED
    BY <1>3, <2>1 DEF Tree, Fathers
<1> QED
  BY <1>6, <1>7, <1>8, <1>9, <1>10, <1>11 DEF Tree

\* fork has found a slot, and nobody else is between its slot and its pid.
LEMMA TreeFork ==
  ASSUME TypeOK, Tree, NEW t \in Structs, Fork(t), ~overlapped'
  PROVE  Tree'
<1>1. Runs(t) /\ call[t].at = "user"
  BY DEF Fork, Runs, Waits
<1>2. /\ t \in Tasks /\ p[t].pid # 0
      /\ \A u \in Structs : HasChild(u) => call[u].s # t
  BY <1>1, Acting
<1>3. PICK i \in 0 .. NR_TASKS - 1 :
        /\ Goes(t, [InUser EXCEPT !.at = "find", !.slot = i])
        /\ i # 0 => i \in Slots /\ task[i] = NoStruct /\ last_pid' = last_pid + 1
        /\ i = 0 => last_pid' = last_pid
  BY EmptySlot DEF Fork
<1>4. PICK c \in Call : c = [InUser EXCEPT !.at = "find", !.slot = i]
  BY Records DEF Call, Places
<1>5. c.at = "find" /\ c.slot = i
  BY <1>4 DEF InUser
<1>6. /\ call' \in [Structs -> Call] /\ call'[t] = c
      /\ \A u \in Structs : u # t => call'[u] = call[u]
  BY <1>3, <1>4, GoesTyped
<1>7. Tasks' = Tasks /\ p' = p /\ task' = task /\ used' = used /\ panicked' = panicked
  BY DEF Fork, Tasks
<1>8. \A u \in Structs : ~Forking(u)
  <2>1. \A u \in Tasks : ~Forking(u)
    BY DEF Fork
  <2> QED
    BY <2>1 DEF Tree, Callers, Forking
<1>9. last_pid \in Nat /\ last_pid' \in Nat /\ last_pid <= last_pid' /\ Servers \in Nat
      /\ \A s \in Structs : p[s].pid \in Nat
  BY <1>3, Constants DEF TypeOK
<1>10. OnePageEach'
  BY <1>2, <1>6, <1>7 DEF Tree, OnePageEach
<1>11. Callers'
  BY <1>2, <1>5, <1>6, <1>7 DEF Tree, Callers
<1>12. PidsGrow'
  BY <1>7, <1>9 DEF Tree, PidsGrow
<1>13. OneFork'
  <2>1. \A u \in Structs : Forking(u)' => u = t
    BY <1>6, <1>8 DEF Forking
  <2>2. i # 0 => \A s \in Structs : p[s].pid < last_pid'
    BY <1>3, <1>9 DEF Tree, PidsGrow
  <2> QED
    BY <1>3, <1>5, <1>6, <1>7, <2>1, <2>2 DEF OneFork, Forking
<1>14. Children'
  <2>1. \A u \in Structs : HasChild(u)' => u # t /\ call'[u] = call[u] /\ HasChild(u)
    BY <1>5, <1>6 DEF HasChild
  <2>2. \A u \in Structs : HasChild(u)' => call'[call[u].s] = InUser
    BY <1>2, <1>6, <2>1 DEF Tree, Children
  <2> QED
    BY <1>7, <2>1, <2>2 DEF Tree, Children
<1>15. Fathers'
  BY <1>5, <1>6, <1>7 DEF Tree, Fathers
<1> QED
  BY <1>7, <1>10, <1>11, <1>12, <1>13, <1>14, <1>15 DEF Tree

\* copy_process has put a free page into the slot.
LEMMA TreeTakeSlot ==
  ASSUME TypeOK, Tree, NEW t \in Structs, TakeSlot(t)
  PROVE  Tree'
<1> DEFINE i == call[t].slot
<1>1. call[t].at = "find" /\ i \in Slots /\ task[i] = NoStruct /\ t \in Tasks
  BY DEF TakeSlot, Waits, Tree, OneFork
<1>2. PICK s \in Structs \ used :
        /\ used' = used \cup {s} /\ p' = [p EXCEPT ![s] = Zero]
        /\ task' = [task EXCEPT ![i] = s]
        /\ Goes(t, [call[t] EXCEPT !.at = "copy", !.s = s])
  BY Taken
<1>3. PICK c \in Call : c = [call[t] EXCEPT !.at = "copy", !.s = s]
  <2>1. call[t] \in Call /\ "copy" \in Places
    BY DEF TypeOK, Places
  <2>2. [call[t] EXCEPT !.at = "copy", !.s = s] \in Call
    BY <2>1 DEF Call
  <2> QED
    BY <2>2
<1>4. c.at = "copy" /\ c.s = s /\ c.slot = i
  BY <1>3 DEF Call, TypeOK
<1>5. /\ call' \in [Structs -> Call] /\ call'[t] = c
      /\ \A u \in Structs : u # t => call'[u] = call[u]
  BY <1>2, <1>3, GoesTyped
<1>6. s \in Structs \ Tasks /\ call[s] = InUser /\ p[s] = Zero /\ s # t /\ s # NoStruct
  BY <1>1, <1>2, Constants DEF Tree, OnePageEach
<1>7. p' = p
  BY <1>2, <1>6 DEF TypeOK
<1> HIDE DEF i
<1>8. /\ task'[i] = s /\ \A j \in Slots : j # i => task'[j] = task[j]
      /\ Tasks' = Tasks \cup {s}
  <2>1. task'[i] = s /\ \A j \in Slots : j # i => task'[j] = task[j]
    BY <1>1, <1>2 DEF TypeOK
  <2>2. Tasks' = {task'[j] : j \in Slots} \ {NoStruct}
    BY DEF Tasks
  <2>3. Tasks = {task[j] : j \in Slots} \ {NoStruct}
    BY DEF Tasks
  <2>4. Tasks' \subseteq Tasks \cup {s}
    BY <2>1, <2>2, <2>3
  <2>5. Tasks \cup {s} \subseteq Tasks'
    <3>1. s \in Tasks'
      BY <1>1, <1>6, <2>1, <2>2
    <3>2. ASSUME NEW u \in Tasks PROVE u \in Tasks'
      <4>1. PICK j \in Slots : u = task[j] /\ u # NoStruct
        BY <2>3
      <4>2. j # i
        BY <1>1, <4>1
      <4> QED
        BY <2>1, <2>2, <4>1, <4>2
    <3> QED
      BY <3>1, <3>2
  <2> QED
    BY <2>1, <2>4, <2>5
<1>9. last_pid' = last_pid /\ panicked' = panicked
  BY DEF TakeSlot
<1>10. OnePageEach'
  <2>1. \A j \in Slots : task[j] # s
    BY <1>6, TasksAreStructs
  <2> QED
    BY <1>1, <1>2, <1>5, <1>6, <1>7, <1>8, <2>1 DEF Tree, OnePageEach
<1>11. Callers'
  BY <1>1, <1>4, <1>5, <1>6, <1>7, <1>8 DEF Tree, Callers
<1>12. PidsGrow'
  BY <1>7, <1>9 DEF Tree, PidsGrow
<1>13. OneFork'
  <2>1. \A u \in Structs : Forking(u)' => u = t
    BY <1>1, <1>5 DEF Forking, Tree, OneFork
  <2>2. \A u \in Structs : p[u].pid < last_pid
    <3>1. call[t].slot # 0
      BY DEF TakeSlot
    <3> QED
      BY <1>1, <3>1 DEF Tree, OneFork
  <2> QED
    BY <1>4, <1>5, <1>7, <1>9, <2>1, <2>2 DEF OneFork, Forking
<1>14. Children'
  <2>1. \A u \in Structs : HasChild(u)' => u = t \/ (u # t /\ call'[u] = call[u] /\ HasChild(u))
    BY <1>5 DEF HasChild
  <2>2. \A u \in Structs : HasChild(u) =>
          /\ call[u].slot # i /\ call[u].s # s /\ call[u].s # t
    <3>1. \A u \in Structs : HasChild(u) => call[u].s # t
      BY <1>1, Acting
    <3>2. \A u \in Structs : HasChild(u) => call[u].s \in Structs /\ task[call[u].slot] = call[u].s
                                         /\ call[u].slot \in Slots
      BY DEF Tree, Children
    <3>3. \A u \in Structs : HasChild(u) => call[u].s \in Tasks
      BY <3>2, TasksAreStructs, Constants
    <3> QED
      BY <1>1, <1>6, <3>1, <3>2, <3>3, Constants
  <2>3. \A u \in Structs : HasChild(u)' /\ u # t =>
          /\ call'[u].slot \in Slots /\ call'[u].s \in Structs
          /\ task'[call'[u].slot] = call'[u].s
          /\ call'[call'[u].s] = InUser
          /\ call'[u].at = "copy" => p'[call'[u].s] = Zero
          /\ call'[u].at = "mem" =>
               p'[call'[u].s].state = "uninterruptible" /\ ~p'[call'[u].s].exited
          /\ call'[u].s # s
    BY <1>5, <1>7, <1>8, <2>1, <2>2 DEF Tree, Children
  <2>4. /\ call'[t].slot \in Slots /\ call'[t].s \in Structs
        /\ task'[call'[t].slot] = call'[t].s /\ call'[call'[t].s] = InUser
        /\ p'[call'[t].s] = Zero /\ call'[t].s = s /\ call'[t].at = "copy"
    BY <1>1, <1>4, <1>5, <1>6, <1>7, <1>8
  <2>5. \A u, v \in Structs : HasChild(u)' /\ HasChild(v)' /\ call'[u].s = call'[v].s => u = v
    BY <2>1, <2>3, <2>4 DEF Tree, Children
  <2>6. \A u \in Structs : HasChild(u)' => 
          /\ call'[u].slot \in Slots /\ call'[u].s \in Structs
          /\ task'[call'[u].slot] = call'[u].s
          /\ call'[call'[u].s] = InUser
          /\ call'[u].at = "copy" => p'[call'[u].s] = Zero
          /\ call'[u].at = "mem" =>
               p'[call'[u].s].state = "uninterruptible" /\ ~p'[call'[u].s].exited
    BY <2>3, <2>4
  <2> QED
    BY <2>5, <2>6 DEF Children
<1>15. Fathers'
  <2>1. \A u \in Structs : call'[u].at = "release" => call'[u] = call[u]
    BY <1>4, <1>5
  <2> QED
    BY <1>7, <1>8, <2>1 DEF Tree, Fathers
<1> QED
  BY <1>9, <1>10, <1>11, <1>12, <1>13, <1>14, <1>15 DEF Tree

\* copy_process fills the struct in, with the pid that is nobody's.
LEMMA TreeFillStruct ==
  ASSUME TypeOK, Tree, NEW t \in Structs, FillStruct(t)
  PROVE  Tree'
<1>1. call[t].at = "copy" /\ t \in Tasks
  BY DEF FillStruct, Waits
<1>2. /\ p[t].pid # 0
      /\ \A u \in Structs : HasChild(u) => call[u].s # t
  BY <1>1, Acting
<1>3. PICK s \in Structs : s = call[t].s
  BY <1>1 DEF Tree, Children, HasChild
<1>4. call[s] = InUser /\ p[s] = Zero /\ s # t
  BY <1>1, <1>2, <1>3 DEF Tree, Children, HasChild
<1>5. PICK r \in Struct :
        r = [Zero EXCEPT !.pid = last_pid, !.father = p[t].pid, !.state = "uninterruptible"]
  BY Records DEF TypeOK
<1>6. r.pid = last_pid /\ r.father = p[t].pid /\ r.state = "uninterruptible" /\ ~r.exited
  BY <1>5 DEF Zero
<1>7. p'[s] = r /\ \A u \in Structs : u # s => p'[u] = p[u]
  BY <1>3, <1>5 DEF FillStruct, TypeOK
<1>8. PICK c \in Call : c = [call[t] EXCEPT !.at = "mem"]
  <2>1. call[t] \in Call /\ "mem" \in Places
    BY DEF TypeOK, Places
  <2>2. [call[t] EXCEPT !.at = "mem"] \in Call
    BY <2>1 DEF Call
  <2> QED
    BY <2>2
<1>9. c.at = "mem" /\ c.s = s /\ c.slot = call[t].slot
  BY <1>3, <1>8 DEF Call, TypeOK
<1>10. /\ call' \in [Structs -> Call] /\ call'[t] = c
       /\ \A u \in Structs : u # t => call'[u] = call[u]
  BY <1>8, GoesTyped DEF FillStruct
<1>11. /\ task' = task /\ used' = used /\ last_pid' = last_pid /\ panicked' = panicked
       /\ Tasks' = Tasks
  BY DEF FillStruct, Tasks
<1>12. \A u \in Structs : p[u].pid < last_pid /\ p[u].pid \in Nat /\ last_pid \in Nat
  BY <1>1, Constants DEF Tree, OneFork, TypeOK
<1>13. s \in Tasks
  BY <1>1, <1>3, TasksAreStructs, Constants DEF Tree, Children, HasChild
<1>14. OnePageEach'
  BY <1>1, <1>4, <1>7, <1>10, <1>11, <1>13 DEF Tree, OnePageEach
<1>15. Callers'
  <2>1. call'[s].at = "user" /\ p'[s].state = "uninterruptible"
    BY <1>4, <1>6, <1>7, <1>10 DEF InUser
  <2> QED
    BY <1>1, <1>2, <1>4, <1>7, <1>9, <1>10, <1>11, <2>1 DEF Tree, Callers
<1>16. PidsGrow'
  <2>1. last_pid > Servers
    BY DEF Tree, PidsGrow
  <2> QED
    BY <1>6, <1>7, <1>11, <1>12, <2>1 DEF Tree, PidsGrow
<1>17. OneFork'
  <2>1. \A u \in Structs : ~Forking(u)'
    BY <1>1, <1>9, <1>10 DEF Forking, Tree, OneFork
  <2> QED
    BY <2>1 DEF OneFork, Forking
<1>18. Children'
  <2>1. \A u \in Structs : HasChild(u)' => HasChild(u) /\ call'[u].s = call[u].s
                              /\ call'[u].slot = call[u].slot /\ call[u].s # t
    BY <1>1, <1>2, <1>3, <1>9, <1>10 DEF HasChild
  <2>2. \A u \in Structs : HasChild(u)' /\ u # t => call'[u] = call[u] /\ call[u].s # s
    BY <1>1, <1>3, <1>10, <2>1 DEF Tree, Children, HasChild
  <2>3. \A u \in Structs : HasChild(u)' =>
          /\ call'[u].at = "copy" => p'[call'[u].s] = Zero
          /\ call'[u].at = "mem" =>
               p'[call'[u].s].state = "uninterruptible" /\ ~p'[call'[u].s].exited
    <3> SUFFICES ASSUME NEW u \in Structs, HasChild(u)'
                 PROVE  /\ call'[u].at = "copy" => p'[call'[u].s] = Zero
                        /\ call'[u].at = "mem" =>
                             p'[call'[u].s].state = "uninterruptible" /\ ~p'[call'[u].s].exited
      OBVIOUS
    <3>1. CASE u = t
      BY <1>6, <1>7, <1>9, <1>10, <3>1
    <3>2. CASE u # t
      BY <1>7, <2>1, <2>2, <3>2 DEF Tree, Children
    <3> QED
      BY <3>1, <3>2
  <2>4. \A u \in Structs : HasChild(u)' =>
          /\ call'[u].slot \in Slots /\ call'[u].s \in Structs
          /\ task'[call'[u].slot] = call'[u].s
          /\ call'[call'[u].s] = InUser
    BY <1>10, <1>11, <2>1 DEF Tree, Children
  <2>5. \A u, v \in Structs : HasChild(u)' /\ HasChild(v)' /\ call'[u].s = call'[v].s => u = v
    BY <2>1 DEF Tree, Children
  <2> QED
    BY <2>3, <2>4, <2>5 DEF Children
<1>19. Fathers'
  <2>1. \A u \in Structs : call'[u].at = "release" =>
          u # s /\ call'[u] = call[u] /\ p'[u] = p[u]
    BY <1>4, <1>7, <1>9, <1>10 DEF InUser
  <2>2. \A u \in Structs : call[u].at = "release" => call[u].s # s
    BY <1>4 DEF Tree, Fathers, Zero
  <2>3. \A u \in Structs : call'[u].at = "release" =>
          call'[u].s \in Tasks' /\ p'[call'[u].s].exited /\ p'[call'[u].s].father = p'[u].pid
    BY <1>7, <1>11, <2>1, <2>2, TasksAreStructs DEF Tree, Fathers
  <2>4. p[t].pid # last_pid
    BY <1>12
  <2> QED
    BY <1>6, <1>7, <2>3, <2>4 DEF Tree, Fathers
<1> QED
  BY <1>11, <1>14, <1>15, <1>16, <1>17, <1>18, <1>19 DEF Tree

\* The fork is done: its struct is a task like the others.
LEMMA TreeForkDone ==
  ASSUME TypeOK, Tree, NEW t \in Structs, ForkDone(t)
  PROVE  Tree'
<1>1. call[t].at = "mem" /\ t \in Tasks
  BY DEF ForkDone, Waits
<1>2. PICK s \in Structs : s = call[t].s
  BY <1>1 DEF Tree, Children, HasChild
<1>3. call[s] = InUser /\ p[s].state = "uninterruptible" /\ ~p[s].exited
  BY <1>1, <1>2 DEF Tree, Children, HasChild
<1>4. /\ call' \in [Structs -> Call] /\ call'[t] = InUser
      /\ \A u \in Structs : u # t => call'[u] = call[u]
  BY Records, GoesTyped DEF ForkDone, Returns
<1>5. /\ p'[s].pid = p[s].pid /\ p'[s].father = p[s].father /\ p'[s].state = "running"
      /\ p'[s].exited = p[s].exited
      /\ \A u \in Structs : u # s => p'[u] = p[u]
  BY <1>2 DEF ForkDone, TypeOK
<1>6. /\ task' = task /\ used' = used /\ last_pid' = last_pid /\ panicked' = panicked
      /\ Tasks' = Tasks
  BY DEF ForkDone, Tasks
<1>7. \A u \in Structs : p'[u].pid = p[u].pid /\ p'[u].father = p[u].father
  BY <1>5
<1>8. InUser.at = "user"
  BY DEF InUser
<1>9. s \in Tasks
  BY <1>1, <1>2, TasksAreStructs, Constants DEF Tree, Children, HasChild
<1>10. OnePageEach'
  BY <1>1, <1>4, <1>5, <1>6, <1>9 DEF Tree, OnePageEach
<1>11. Callers'
  <2>1. call'[s].at = "user" /\ p'[s].state = "running"
    BY <1>3, <1>4, <1>5, <1>8
  <2> QED
    BY <1>1, <1>4, <1>5, <1>6, <1>8, <2>1 DEF Tree, Callers
<1>12. PidsGrow'
  BY <1>6, <1>7 DEF Tree, PidsGrow
<1>13. OneFork'
  <2>1. \A u \in Structs : Forking(u)' => Forking(u)
    BY <1>4, <1>8 DEF Forking
  <2>2. \A u \in Structs : call'[u].at # "user" => call'[u] = call[u]
    BY <1>4, <1>8
  <2> QED
    BY <1>6, <1>7, <2>1, <2>2 DEF Tree, OneFork
<1>14. Children'
  <2>1. \A u \in Structs : HasChild(u)' => u # t /\ call'[u] = call[u] /\ HasChild(u)
    BY <1>4, <1>8 DEF HasChild
  <2>2. \A u \in Structs : HasChild(u)' => call[u].s # s /\ call'[call[u].s] = InUser
    BY <1>1, <1>2, <1>4, <2>1 DEF Tree, Children, HasChild
  <2>3. \A u \in Structs : HasChild(u)' => call[u].s \in Structs /\ p'[call[u].s] = p[call[u].s]
    BY <1>5, <2>1, <2>2 DEF Tree, Children
  <2> QED
    BY <1>6, <2>1, <2>2, <2>3 DEF Tree, Children
<1>15. Fathers'
  <2>1. \A u \in Structs : call'[u].at = "release" => call'[u] = call[u]
    BY <1>4, <1>8
  <2>2. \A u \in Structs : call[u].at = "release" => call[u].s # s
    BY <1>3 DEF Tree, Fathers
  <2>3. \A u \in Structs : call'[u].at = "release" =>
          call'[u].s \in Tasks' /\ p'[call'[u].s].exited /\ p'[call'[u].s].father = p'[u].pid
    BY <1>5, <1>6, <1>7, <2>1, <2>2, TasksAreStructs DEF Tree, Fathers
  <2> QED
    BY <1>5, <1>7, <2>3 DEF Tree, Fathers
<1> QED
  BY <1>6, <1>10, <1>11, <1>12, <1>13, <1>14, <1>15 DEF Tree

\* A struct that nobody else refers to leaves its slot, and its page is free.
LEMMA TreeLeaves ==
  ASSUME TypeOK, Tree, NEW t \in Structs, call[t].at \in {"mem", "release"},
         NEW i \in Slots, NEW s \in Structs, task[i] = s, s # t,
         \A u \in Structs : u # t /\ (HasChild(u) \/ call[u].at = "release") => call[u].s # s,
         \A u \in Structs : HasChild(u) => call[u].s # t,
         task' = [task EXCEPT ![i] = NoStruct], FreePage(s, t, InUser),
         UNCHANGED <<last_pid, panicked>>
  PROVE  Tree'
<1>1. /\ used' = used \ {s} /\ p'[s] = Zero /\ call'[s] = InUser /\ call'[t] = InUser
      /\ \A u \in Structs : u # s => p'[u] = p[u]
      /\ \A u \in Structs : u # s /\ u # t => call'[u] = call[u]
  BY PageFreed
<1>2. task'[i] = NoStruct /\ \A j \in Slots : j # i => task'[j] = task[j]
  BY DEF TypeOK
<1>3. \A j \in Slots : j # i => task[j] # s
  BY Constants DEF Tree, OnePageEach
<1>4. Tasks' = Tasks \ {s}
  <2>1. Tasks' = {task'[j] : j \in Slots} \ {NoStruct}
    BY DEF Tasks
  <2>2. Tasks = {task[j] : j \in Slots} \ {NoStruct}
    BY DEF Tasks
  <2>3. Tasks' \subseteq Tasks \ {s}
    BY <1>2, <1>3, <2>1, <2>2
  <2>4. ASSUME NEW u \in Tasks \ {s} PROVE u \in Tasks'
    <3>1. PICK j \in Slots : u = task[j] /\ u # NoStruct
      BY <2>2
    <3>2. j # i
      BY <3>1, <2>4
    <3> QED
      BY <1>2, <2>1, <3>1, <3>2
  <2> QED
    BY <2>3, <2>4
<1>5. InUser.at = "user" /\ Zero.pid = 0 /\ Zero.father = 0 /\ Zero.state = "running" /\ ~Zero.exited
  BY DEF InUser, Zero
<1>6. \A u \in Structs : call'[u].at # "user" => u # t /\ u # s /\ call'[u] = call[u] /\ p'[u] = p[u]
  BY <1>1, <1>5
<1>7. OnePageEach'
  BY <1>1, <1>2, <1>4 DEF Tree, OnePageEach
<1>8. Callers'
  BY <1>4, <1>6 DEF Tree, Callers
<1>9. PidsGrow'
  <2>1. p'[s].pid = 0 /\ last_pid \in Nat /\ Servers \in Nat
    BY <1>1, <1>5, Constants DEF TypeOK
  <2>2. 0 <= last_pid
    BY <2>1
  <2> QED
    BY <1>1, <2>1, <2>2 DEF Tree, PidsGrow
<1>10. OneFork'
  <2>1. \A u \in Structs : Forking(u)' => Forking(u)
    BY <1>6 DEF Forking
  <2>2. \A j \in Slots : task[j] = NoStruct => task'[j] = NoStruct
    BY <1>2
  <2>3. ASSUME NEW u \in Structs,
               (call'[u].at = "find" /\ call'[u].slot # 0) \/ call'[u].at = "copy",
               NEW v \in Structs
        PROVE  p'[v].pid < last_pid
    <3>1. p[v].pid < last_pid /\ p[s].pid < last_pid
      BY <1>6, <2>3 DEF Tree, OneFork
    <3>2. p[s].pid \in Nat /\ last_pid \in Nat
      BY Constants DEF TypeOK
    <3> QED
      BY <1>1, <1>5, <3>1, <3>2
  <2> QED
    BY <1>6, <2>1, <2>2, <2>3 DEF Tree, OneFork
<1>11. Children'
  <2>1. \A u \in Structs : HasChild(u)' => u # t /\ call'[u] = call[u] /\ HasChild(u)
    BY <1>6 DEF HasChild
  <2>2. \A u \in Structs : HasChild(u)' =>
          /\ call[u].s # s /\ call[u].s # t /\ call[u].s \in Structs
          /\ call[u].slot \in Slots /\ call[u].slot # i
          /\ task[call[u].slot] = call[u].s
    BY <2>1 DEF Tree, Children
  <2>3. \A u \in Structs : HasChild(u)' =>
          /\ task'[call[u].slot] = call[u].s
          /\ p'[call[u].s] = p[call[u].s] /\ call'[call[u].s] = call[call[u].s]
    BY <1>1, <1>2, <2>2
  <2> QED
    BY <2>1, <2>2, <2>3 DEF Tree, Children
<1>12. Fathers'
  <2>1. \A u \in Structs : call'[u].at = "release" => call[u].s # s /\ call[u].s \in Tasks
    BY <1>6 DEF Tree, Fathers
  <2>2. \A u \in Structs : call'[u].at = "release" =>
          call'[u].s \in Tasks' /\ p'[call'[u].s].exited /\ p'[call'[u].s].father = p'[u].pid
    BY <1>1, <1>4, <1>6, <2>1, TasksAreStructs DEF Tree, Fathers
  <2> QED
    BY <1>1, <1>5, <2>2 DEF Tree, Fathers
<1> QED
  BY <1>7, <1>8, <1>9, <1>10, <1>11, <1>12 DEF Tree

LEMMA TreeForkUndone ==
  ASSUME TypeOK, Tree, NEW t \in Structs, ForkUndone(t)
  PROVE  Tree'
<1>1. call[t].at = "mem" /\ t \in Tasks /\ HasChild(t)
  BY DEF ForkUndone, Waits, HasChild
<1>2. PICK i \in Slots, s \in Structs : i = call[t].slot /\ s = call[t].s
  BY <1>1 DEF Tree, Children
<1>3. task[i] = s /\ call[s] = InUser /\ ~p[s].exited
  BY <1>1, <1>2 DEF Tree, Children
<1>4. s # t /\ \A u \in Structs : HasChild(u) => call[u].s # t
  BY <1>1, <1>2, Acting
<1>5. \A u \in Structs : u # t /\ (HasChild(u) \/ call[u].at = "release") => call[u].s # s
  BY <1>1, <1>2, <1>3 DEF Tree, Children, Fathers
<1>6. /\ task' = [task EXCEPT ![i] = NoStruct] /\ FreePage(s, t, InUser)
      /\ UNCHANGED <<last_pid, panicked>>
  BY <1>2 DEF ForkUndone
<1> QED
  BY <1>1, <1>3, <1>4, <1>5, <1>6, TreeLeaves

\* release finds its child, which nobody else has released, and takes it from its slot.
LEMMA Released ==
  ASSUME TypeOK, Tree, NEW t \in Structs, Release(t)
  PROVE  \E i \in Slots, s \in Structs :
           /\ call[t].at = "release" /\ t \in Tasks
           /\ s = call[t].s /\ task[i] = s /\ p[s].exited /\ p[s].father = p[t].pid
           /\ task' = [task EXCEPT ![i] = NoStruct] /\ FreePage(s, t, InUser)
           /\ UNCHANGED <<last_pid, panicked>>
<1>1. call[t].at = "release" /\ t \in Tasks
  BY DEF Release, Waits
<1>2. call[t].s \in Tasks /\ p[call[t].s].exited /\ p[call[t].s].father = p[t].pid
  BY <1>1 DEF Tree, Fathers
<1>3. PICK s \in Structs : s = call[t].s
  BY <1>2, TasksAreStructs
<1> DEFINE I == {j \in Slots : task[j] = s}
<1>4. Min(I) \in I
  <2>1. I # {}
    BY <1>2, <1>3, TasksAreStructs
  <2>2. I \in SUBSET Nat
    BY Constants
  <2> QED
    BY <2>1, <2>2, MinIsLeast
<1>5. /\ task' = [task EXCEPT ![Min(I)] = NoStruct] /\ FreePage(s, t, InUser)
      /\ UNCHANGED <<last_pid, panicked>>
  BY <1>2, <1>3 DEF Release
<1>6. PICK i : i = Min(I)
  OBVIOUS
<1> QED
  BY <1>1, <1>2, <1>3, <1>4, <1>5, <1>6

LEMMA TreeRelease ==
  ASSUME TypeOK, Tree, NEW t \in Structs, Release(t)
  PROVE  Tree'
<1>1. PICK i \in Slots, s \in Structs :
        /\ call[t].at = "release" /\ t \in Tasks
        /\ s = call[t].s /\ task[i] = s /\ p[s].exited /\ p[s].father = p[t].pid
        /\ task' = [task EXCEPT ![i] = NoStruct] /\ FreePage(s, t, InUser)
        /\ UNCHANGED <<last_pid, panicked>>
  BY Released
<1>2. p[t].pid # 0 /\ \A u \in Structs : HasChild(u) => call[u].s # t
  BY <1>1, Acting
<1>3. s # t
  BY <1>1, <1>2 DEF Tree, Fathers
<1>4. \A u \in Structs : HasChild(u) => call[u].s # s
  BY <1>1 DEF Tree, Children, HasChild, Zero
<1>5. \A u \in Structs : u # t /\ call[u].at = "release" => call[u].s # s
  BY <1>1, <1>2 DEF Tree, Fathers, PidsGrow
<1>6. call[t].at \in {"mem", "release"} /\ task[i] = s
  BY <1>1
<1>7. /\ task' = [task EXCEPT ![i] = NoStruct] /\ FreePage(s, t, InUser)
      /\ UNCHANGED <<last_pid, panicked>>
  BY <1>1
<1>8. \A u \in Structs : u # t /\ (HasChild(u) \/ call[u].at = "release") => call[u].s # s
  BY <1>4, <1>5
<1> QED
  BY <1>2, <1>3, <1>6, <1>7, <1>8, TreeLeaves

\* do_exit gives children away, and goes on or ends.
LEMMA TreeGiveAway ==
  ASSUME TypeOK, Tree, NEW t \in Structs, t \in Tasks, call[t].at \in {"exit", "orphan"},
         NEW from \in Nat \ {0}, GiveAway(t, from),
         UNCHANGED <<task, used, last_pid, panicked>>
  PROVE  Tree'
<1>1. PICK c \in Call : Goes(t, c) /\ Adopted(t, c)
  BY Given
<1>2. /\ call' \in [Structs -> Call] /\ call'[t] = c
      /\ \A u \in Structs : u # t => call'[u] = call[u]
  BY <1>1, GoesTyped
<1>3. /\ p[t].pid # 0 /\ \A u \in Structs : HasChild(u) => call[u].s # t
  BY Acting
<1>4. /\ \A s \in Structs :
           /\ p'[s].pid = p[s].pid
           /\ s # t => p'[s].state = p[s].state /\ p'[s].exited = p[s].exited
           /\ p'[s].father # p[s].father => p'[s].father = 1 /\ p[s].father = p[t].pid
      /\ \/ p'[t].state = p[t].state /\ p'[t].exited = p[t].exited
         \/ p'[t].exited
      /\ p' \in [Structs -> Struct] /\ p \in [Structs -> Struct] /\ c.at \in {"orphan", "dead"}
  <2>1. p' \in [Structs -> Struct] /\ p \in [Structs -> Struct]
    BY Given DEF TypeOK, Struct, States
  <2> QED
    BY <1>1, <2>1 DEF Adopted
<1>5. \A s \in Structs : p[s].pid # 1
  BY Constants DEF Tree, PidsGrow
<1>6. Tasks' = Tasks
  BY DEF Tasks
\* Who has never had a father or a call is as it was.
<1>7. ASSUME NEW s \in Structs, s # t, p[s] = Zero PROVE p'[s] = Zero
  <2>1. p[s].father = 0 /\ p[s].father # p[t].pid
    BY <1>3, <1>7 DEF Zero
  <2>2. /\ p'[s].pid = Zero.pid /\ p'[s].father = Zero.father /\ p'[s].state = Zero.state
        /\ p'[s].exited = Zero.exited
    BY <1>4, <1>7, <2>1
  <2>3. p'[s] \in Struct /\ Zero \in Struct
    BY <1>4, Records
  <2> QED
    BY <2>2, <2>3 DEF Struct
<1>8. OnePageEach'
  BY <1>2, <1>6, <1>7 DEF Tree, OnePageEach
<1>9. Callers'
  BY <1>2, <1>3, <1>4, <1>6 DEF Tree, Callers
<1>10. PidsGrow'
  BY <1>4 DEF Tree, PidsGrow
<1>11. OneFork'
  <2>1. \A u \in Structs : call'[u].at \in {"find", "copy"} => call'[u] = call[u] /\ u # t
    BY <1>2, <1>4
  <2>2. \A u \in Structs : Forking(u)' => Forking(u)
    BY <2>1 DEF Forking
  <2> QED
    BY <1>4, <2>1, <2>2 DEF Tree, OneFork
<1>12. Children'
  <2>1. \A u \in Structs : HasChild(u)' => call'[u] = call[u] /\ u # t /\ HasChild(u)
    BY <1>2, <1>4 DEF HasChild
  <2>2. \A u \in Structs : HasChild(u) =>
          /\ call[u].s # t /\ call[u].s \in Structs /\ call'[call[u].s] = InUser
          /\ p'[call[u].s].state = p[call[u].s].state
          /\ p'[call[u].s].exited = p[call[u].s].exited
    BY <1>2, <1>3, <1>4 DEF Tree, Children
  <2>3. \A u \in Structs : HasChild(u)' /\ call[u].at = "copy" => p'[call[u].s] = Zero
    BY <1>7, <2>1, <2>2 DEF Tree, Children
  <2> QED
    BY <2>1, <2>2, <2>3 DEF Tree, Children
<1>13. Fathers'
  <2>1. ASSUME NEW u \in Structs, call'[u].at = "release"
        PROVE  /\ call'[u].s \in Tasks' /\ p'[call'[u].s].exited
               /\ p'[call'[u].s].father = p'[u].pid
    <3>1. u # t /\ call'[u] = call[u]
      BY <1>2, <1>4, <2>1
    <3>2. PICK s \in Tasks : s = call[u].s /\ p[s].exited /\ p[s].father = p[u].pid
      BY <2>1, <3>1 DEF Tree, Fathers
    <3>3. s \in Structs /\ p[u].pid # p[t].pid
      BY <1>3, <3>1, <3>2, TasksAreStructs DEF Tree, PidsGrow
    <3> QED
      BY <1>4, <1>6, <3>1, <3>2, <3>3
  <2>2. \A s \in Structs : p'[s].state = "zombie" => p'[s].exited
    BY <1>4 DEF Tree, Fathers
  <2>3. \A s \in Structs : p'[s].pid # 0 => p'[s].father # p'[s].pid
    BY <1>4, <1>5 DEF Tree, Fathers
  <2> QED
    BY <2>1, <2>2, <2>3 DEF Fathers
<1> QED
  BY <1>8, <1>9, <1>10, <1>11, <1>12, <1>13 DEF Tree

\* A zombie that has to wait is no zombie any more, but has exited.
LEMMA TreeBlocks ==
  ASSUME TypeOK, Tree, NEW t \in Structs, Blocks(t)
  PROVE  Tree'
<1>1. /\ t \in Tasks /\ call[t].at # "user" /\ p[t].state = "zombie"
      /\ UNCHANGED <<task, used, last_pid, call, overlapped, panicked>> /\ Tasks' = Tasks
  BY DEF Blocks, Tasks
<1>2. /\ p'[t].pid = p[t].pid /\ p'[t].father = p[t].father /\ p'[t].exited = p[t].exited
      /\ p'[t].state = "interruptible"
      /\ \A s \in Structs : s # t => p'[s] = p[s]
  BY DEF Blocks, TypeOK
<1>3. \A s \in Structs :
        p'[s].pid = p[s].pid /\ p'[s].father = p[s].father /\ p'[s].exited = p[s].exited
  BY <1>2
<1>4. \A u \in Structs : HasChild(u) => call[u].s # t /\ call[u].s \in Structs
  BY <1>1 DEF Tree, Children, InUser
<1>5. OnePageEach' /\ Callers'
  BY <1>1, <1>2 DEF Tree, OnePageEach, Callers
<1>6. PidsGrow'
  BY <1>1, <1>3 DEF Tree, PidsGrow
<1>7. OneFork'
  BY <1>1, <1>3 DEF Tree, OneFork, Forking
<1>8. Children'
  BY <1>1, <1>2, <1>4 DEF Tree, Children, HasChild
<1>9. Fathers'
  <2>1. \A s \in Structs : p'[s].state = "zombie" => p[s].state = "zombie"
    BY <1>2
  <2> QED
    BY <1>1, <1>3, <2>1, TasksAreStructs DEF Tree, Fathers
<1> QED
  BY <1>1, <1>5, <1>6, <1>7, <1>8, <1>9 DEF Tree

LEMMA TreeStep ==
  ASSUME TypeOK, Tree, NEW t \in Structs, Calls(t) \/ GoesOn(t), ~overlapped'
  PROVE  Tree'
<1>1. CASE Fork(t)
  BY <1>1, TreeFork
<1>2. CASE TakeSlot(t)
  BY <1>2, TreeTakeSlot
<1>3. CASE FillStruct(t)
  BY <1>3, TreeFillStruct
<1>4. CASE ForkDone(t)
  BY <1>4, TreeForkDone
<1>5. CASE ForkUndone(t)
  BY <1>5, TreeForkUndone
<1>6. CASE ExitHere(t)
  <2>1. /\ t \in Tasks /\ call[t].at = "exit" /\ GiveAway(t, 1)
        /\ UNCHANGED <<task, used, last_pid, panicked>>
    BY <1>6 DEF ExitHere, Waits
  <2> QED
    BY <2>1, TreeGiveAway
<1>7. CASE OrphanTold(t)
  <2>1. PICK from : from = call[t].slot + 1
    OBVIOUS
  <2>2. from \in Nat \ {0}
    BY <2>1, Constants DEF TypeOK, Call
  <2>3. /\ t \in Tasks /\ call[t].at = "orphan" /\ GiveAway(t, from)
        /\ UNCHANGED <<task, used, last_pid, panicked>>
    BY <1>7, <2>1 DEF OrphanTold, Waits
  <2> QED
    BY <2>2, <2>3, TreeGiveAway
<1>8. CASE Release(t)
  BY <1>8, TreeRelease
<1>9. CASE Blocks(t)
  BY <1>9, TreeBlocks
<1>10. \A s \in Tasks : p[s].state = "zombie" => p[s].exited
  BY TasksAreStructs DEF Tree, Fathers
<1> QED
  BY <1>1, <1>2, <1>3, <1>4, <1>5, <1>6, <1>7, <1>8, <1>9, <1>10, Kinds, TreeCall

LEMMA TreeInit ==
  ASSUME Init
  PROVE  Tree
<1>1. Pages \in Structs /\ Pages # NoStruct /\ 1 \in Slots /\ Servers + 1 > Servers
      /\ Servers + 1 # 0 /\ Servers + 1 \in Nat
  BY TaskAssumption, Constants DEF Structs
<1>2. \A i \in Slots : task[i] = IF i = 1 THEN Pages ELSE NoStruct
  BY DEF Init
<1>3. Tasks = {Pages}
  BY <1>1, <1>2 DEF Tasks
<1>4. \A s \in Structs : call[s] = InUser /\ call[s].at = "user"
  BY DEF Init, InUser
<1>5. \A s \in Structs : p[s] = IF s = Pages THEN [Zero EXCEPT !.pid = Servers + 1] ELSE Zero
  BY DEF Init
<1>6. /\ \A s \in Structs : p[s].state = "running" /\ p[s].father = 0 /\ ~p[s].exited
      /\ p[Pages].pid = Servers + 1
      /\ \A s \in Structs : s # Pages => p[s] = Zero /\ p[s].pid = 0
  BY <1>1, <1>5 DEF Zero
<1>7. used = {Pages} /\ last_pid = Servers + 1 /\ ~panicked
  BY DEF Init
<1>8. OnePageEach
  BY <1>1, <1>2, <1>3, <1>4, <1>6, <1>7 DEF OnePageEach
<1>9. Callers
  BY <1>4, <1>6 DEF Callers
<1>10. PidsGrow
  BY <1>1, <1>6, <1>7 DEF PidsGrow
<1>11. OneFork /\ Children /\ Fathers
  BY <1>4, <1>6 DEF OneFork, Children, Fathers, Forking, HasChild
<1> QED
  BY <1>7, <1>8, <1>9, <1>10, <1>11 DEF Tree

UntilOverlap == ~overlapped => Tree

\* Nobody takes the mark of an overlap back.
LEMMA OverlapStays ==
  ASSUME TypeOK, NEW t \in Structs, Calls(t) \/ GoesOn(t), ~overlapped'
  PROVE  ~overlapped
BY Kinds DEF Fork, TakeSlot, FillStruct, ForkDone, ForkUndone, ExitHere, OrphanTold, Release, Blocks

LEMMA TreeHolds == Spec => [](TypeOK /\ UntilOverlap)
<1>1. Init => UntilOverlap
  BY TreeInit DEF UntilOverlap
<1>2. TypeOK /\ UntilOverlap /\ [Next]_vars => UntilOverlap'
  <2> SUFFICES ASSUME TypeOK, UntilOverlap, [Next]_vars PROVE UntilOverlap'
    OBVIOUS
  <2>1. CASE UNCHANGED vars
    BY <2>1 DEF vars, UntilOverlap, Tree, OnePageEach, Callers, PidsGrow, OneFork, Children,
                Fathers, Forking, HasChild, Tasks
  <2>2. ASSUME NEW t \in Structs, Calls(t) \/ GoesOn(t)
        PROVE  UntilOverlap'
    BY <2>2, OverlapStays, TreeStep DEF UntilOverlap
  <2> QED
    BY <2>1, <2>2 DEF Next
<1> QED
  BY <1>1, <1>2, TypeCorrect, PTL DEF Spec

-----------------------------------------------------------------------------
(* The properties. *)

\* Unless forks overlap, no page of a task_struct is lost, freed under its slot or put
\* into two slots, and an unfinished fork keeps the slot and the page it took.
THEOREM SlotsKeepTheirPages == Spec => []SlotsAreAllocated
<1>1. TypeOK /\ UntilOverlap => SlotsAreAllocated
  <2> SUFFICES ASSUME TypeOK, Tree PROVE SlotsAreAllocated
    BY DEF UntilOverlap, SlotsAreAllocated
  <2>1. \A t \in Tasks : HasChild(t) => call[t].s # NoStruct /\ task[call[t].slot] = call[t].s
    BY TasksAreStructs, Constants DEF Tree, Children
  <2> QED
    BY <2>1 DEF SlotsAreAllocated, Tree, OnePageEach, HasChild
<1> QED
  BY <1>1, TreeHolds, PTL

\* Unless forks overlap, release finds the task that sys_waitpid found before the
\* request: nobody else has released it.
THEOREM ReleaseFindsItsTask == Spec => []NoPanic
<1>1. UntilOverlap => NoPanic
  BY DEF UntilOverlap, Tree, NoPanic
<1> QED
  BY <1>1, TreeHolds, PTL

\* A slot is emptied by the failure of the fork that filled it, or when the father of its
\* zombie releases it, and by nothing else.
LEMMA Leaving ==
  ASSUME TypeOK, Tree, NEW t \in Structs, Calls(t) \/ GoesOn(t),
         NEW i \in Slots, task[i] # NoStruct, task'[i] # task[i]
  PROVE  /\ task'[i] = NoStruct
         /\ t \in Tasks /\ call[t].s = task[i]
         /\ \/ call[t].at = "mem"
            \/ /\ call[t].at = "release"
               /\ p[task[i]].exited /\ p[task[i]].father = p[t].pid
<1>1. CASE TakeSlot(t)
  <2>1. task[call[t].slot] = NoStruct
    BY <1>1 DEF TakeSlot, Waits, Tree, OneFork
  <2>2. PICK s : task' = [task EXCEPT ![call[t].slot] = s]
    BY <1>1 DEF TakeSlot
  <2> QED
    BY <2>1, <2>2 DEF TypeOK
<1>2. CASE ForkUndone(t)
  <2>1. call[t].at = "mem" /\ t \in Tasks /\ task' = [task EXCEPT ![call[t].slot] = NoStruct]
    BY <1>2 DEF ForkUndone, Waits
  <2>2. task[call[t].slot] = call[t].s
    BY <2>1 DEF Tree, Children, HasChild
  <2> QED
    BY <2>1, <2>2 DEF TypeOK
<1>3. CASE Release(t)
  <2>1. PICK j \in Slots, s \in Structs :
          /\ call[t].at = "release" /\ t \in Tasks
          /\ s = call[t].s /\ task[j] = s /\ p[s].exited /\ p[s].father = p[t].pid
          /\ task' = [task EXCEPT ![j] = NoStruct]
    BY <1>3, Released
  <2> QED
    BY <2>1 DEF TypeOK
<1>4. CASE task' = task
  BY <1>4
<1> QED
  BY <1>1, <1>2, <1>3, <1>4, Kinds DEF Fork, FillStruct, ForkDone, ExitHere, OrphanTold, Blocks

\* Unless forks overlap, a child stays in its slot until its own father reaps it
\* (sys_waitpid), or its fork is undone (copy_process).
THEOREM TasksStayUntilReleased == Spec => OnlyTheDeadLeave
<1> DEFINE Left ==
      \A i \in Slots :
        task[i] # NoStruct /\ task'[i] # task[i] /\ ~overlapped =>
          /\ task'[i] = NoStruct
          /\ \E t \in Tasks :
               /\ call[t].s = task[i]
               /\ \/ call[t].at = "mem"
                  \/ /\ call[t].at = "release"
                     /\ p[task[i]].exited /\ p[task[i]].father = p[t].pid
<1>1. TypeOK /\ UntilOverlap /\ [Next]_vars => [Left]_vars
  <2> SUFFICES ASSUME TypeOK, UntilOverlap, Next PROVE Left
    OBVIOUS
  <2>1. PICK t \in Structs : Calls(t) \/ GoesOn(t)
    BY DEF Next
  <2> QED
    BY <2>1, Leaving DEF UntilOverlap
<1>2. Spec => [][Left]_vars
  BY <1>1, TreeHolds, PTL DEF Spec
<1> QED
  BY <1>2 DEF OnlyTheDeadLeave
=============================================================================
