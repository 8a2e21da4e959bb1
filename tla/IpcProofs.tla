----------------------------- MODULE IpcProofs -----------------------------
(***************************************************************************)
(* Theorems about the IPC core, for any number of tasks, ports, messages   *)
(* and attribute values: the types, that whoever is registered to be woken *)
(* waits with cause, that no message is linked twice or used after it was  *)
(* freed, the order of messages, that a request is answered once, and that *)
(* the ports implement Mailbox.                                            *)
(***************************************************************************)
EXTENDS Ipc, SequenceTheorems, TLAPS

\* A task inside sys_ipc_send or sys_ipc_receive holds a message where the
\* code goes on to use kernel_msg.
HoldsMessage ==
  \A t \in Slots : pc[t] \in {"copied", "send_wait", "wake_send", "deliver"} =>
    hand[t] \in Messages

TypeInv == TypeOK /\ HoldsMessage

\* What the modules' constants are assumed to be, as the steps below use it.
LEMMA Geometry ==
  /\ 0 \in Ports /\ 0 \in Mems
  /\ Dynamic \subseteq Ports /\ Reserved \subseteq Ports
  /\ Slots \subseteq Nat /\ LimitValues \subseteq Nat
  /\ MAX_MSG_QUEUE \in Nat /\ TASK_ID_KERNEL = 0
  /\ SenderPorts \subseteq Ports /\ ReplyPorts \subseteq Ports
  /\ NoTask \notin Slots /\ NoMsg \notin Messages
  /\ 1 \in 1 .. MaxMem + 1
  BY ConstantsAssumption DEF ConstantsAssumption, Ports, Mems, Dynamic, Reserved

\* ipc_init leaves every field with a value of its type.
LEMMA TypeInit == Init => TypeInv
  BY Geometry DEF Init, TypeInv, TypeOK, HoldsMessage, Places

\* The allocations that a sequence of messages names.
LEMMA MemOfQueue ==
  ASSUME NEW q \in Seq(Messages)
  PROVE  MemOf(q) \subseteq Mems
<1>1. ASSUME NEW i \in DOMAIN q  PROVE q[i] \in Messages
  BY <1>1, ElementOfSeq
<1>2. ASSUME NEW m \in Messages PROVE m.mem \in Mems
  BY DEF Messages
<1>3. QED
  BY <1>1, <1>2 DEF MemOf

\* What the end of ipc_deallocate_port leaves of the types.
LEMMA TypeRelease ==
  ASSUME TypeInv, NEW t \in Slots, NEW p \in Ports, WakeSenderAndRelease(t, p) \/ ReleasePort(t, p)
  PROVE  /\ flags' \in [Ports -> {"free", "used"}] /\ owner' \in [Ports -> Nat]
         /\ pc' \in [Slots -> Places] /\ dest' \in [Slots -> Ports]
         /\ woken' \subseteq Slots
         /\ \A u \in Slots : pc'[u] = pc[u] \/ pc'[u] \in {"user", "free_send"}
<1>1. \/ send_wait[p] \in Slots /\ woken' = woken \cup {send_wait[p]}
      \/ woken' = woken
  BY DEF TypeInv, TypeOK, WakeSenderAndRelease, ReleasePort, WakeUp
<1>2. /\ flags' \in {flags, [flags EXCEPT ![p] = "free"]}
      /\ owner' \in {owner, [owner EXCEPT ![p] = 0]}
      /\ \E place \in {"user", "free_send"}, q \in {0, p} : Goto(t, place, q)
  BY DEF WakeSenderAndRelease, ReleasePort
<1>3. PICK place \in {"user", "free_send"}, q \in {0, p} : Goto(t, place, q)
  BY <1>2
<1>4. pc' = [pc EXCEPT ![t] = place] /\ dest' = [dest EXCEPT ![t] = q]
  BY <1>3 DEF Goto
<1>5. place \in Places /\ q \in Ports
  BY Geometry DEF Places
<1>6. /\ pc' \in [Slots -> Places] /\ dest' \in [Slots -> Ports]
      /\ \A u \in Slots : pc'[u] = pc[u] \/ pc'[u] \in {"user", "free_send"}
  BY <1>4, <1>5 DEF TypeInv, TypeOK
<1>7. flags' \in [Ports -> {"free", "used"}] /\ owner' \in [Ports -> Nat]
  <2>1. flags \in [Ports -> {"free", "used"}] /\ owner \in [Ports -> Nat]
    BY DEF TypeInv, TypeOK
  <2>2. flags' = flags \/ flags' = [flags EXCEPT ![p] = "free"]
    BY <1>2
  <2>3. owner' = owner \/ owner' = [owner EXCEPT ![p] = 0]
    BY <1>2
  <2> QED
    BY <2>1, <2>2, <2>3
<1>8. woken' \subseteq Slots
  BY <1>1 DEF TypeInv, TypeOK
<1> QED
  BY <1>6, <1>7, <1>8

\* Allocating, deallocating and setting a port keep the types: ipc_ports[] only
\* gets task slots, empty queues and the attribute values of the call.
LEMMA TypePort ==
  ASSUME TypeInv, NEW t \in Slots, PortStep(t)
  PROVE  TypeInv'
<1> USE Geometry DEF TypeInv, TypeOK, HoldsMessage
<1>1. ASSUME NEW caps \in CapValues, AllocatePort(t, caps)
      PROVE  TypeInv'
  <2>1. PICK p \in Dynamic :
          /\ flags' = [flags EXCEPT ![p] = "used"]
          /\ owner' = [owner EXCEPT ![p] = t]
          /\ required_caps' = [required_caps EXCEPT ![p] = caps]
          /\ queue' = [queue EXCEPT ![p] = <<>>]
          /\ recv_wait' = [recv_wait EXCEPT ![p] = NoTask]
          /\ send_wait' = [send_wait EXCEPT ![p] = NoTask]
    BY <1>1 DEF AllocatePort, EmptyQueue
  <2>2. p \in Ports
    OBVIOUS
  <2>3. UNCHANGED <<max_messages, domain, pending_replies, pc, dest, hand,
                    nonblock, woken, next_mem, freed>>
    BY <1>1 DEF AllocatePort, taskVars
  <2>4. queue' \in [Ports -> Seq(Messages)] /\ owner' \in [Ports -> Nat]
    BY <2>1, <2>2
  <2>5. QED
    BY <2>1, <2>2, <2>3, <2>4
<1>2. ASSUME NEW p \in Ports, DeallocatePort(t, p)
      PROVE  TypeInv'
  <2>1. freed' \subseteq Mems
    BY <1>2, MemOfQueue DEF DeallocatePort
  <2>2. UNCHANGED <<queue, max_messages, recv_wait, send_wait, required_caps,
                    domain, pending_replies, hand, nonblock, next_mem>>
    BY <1>2 DEF DeallocatePort
  <2>3. CASE WakeSenderAndRelease(t, p)
    <3> HIDE DEF TypeInv
    <3>1. /\ flags' \in [Ports -> {"free", "used"}] /\ owner' \in [Ports -> Nat]
          /\ pc' \in [Slots -> Places] /\ dest' \in [Slots -> Ports]
          /\ woken' \subseteq Slots
          /\ \A u \in Slots : pc'[u] = pc[u] \/ pc'[u] \in {"user", "free_send"}
      BY <2>3, TypeRelease
    <3> QED
      BY <2>1, <2>2, <3>1 DEF TypeInv
  <2>4. CASE ~WakeSenderAndRelease(t, p)
    <3>1. /\ recv_wait[p] \in Slots /\ woken' = woken \cup {recv_wait[p]}
          /\ pc' = [pc EXCEPT ![t] = "free_recv"] /\ dest' = [dest EXCEPT ![t] = p]
          /\ UNCHANGED <<flags, owner>>
      BY <1>2, <2>4 DEF DeallocatePort, WakeUp, Goto
    <3> QED
      BY <2>1, <2>2, <3>1 DEF Places
  <2>5. QED
    BY <2>3, <2>4
<1>2a. CASE DeallocateGoesOn(t)
  <2> HIDE DEF TypeInv
  <2>1. /\ UNCHANGED <<queue, max_messages, recv_wait, send_wait, required_caps,
                      domain, pending_replies, hand, nonblock, next_mem, freed>>
        /\ WakeSenderAndRelease(t, dest[t]) \/ ReleasePort(t, dest[t])
        /\ dest[t] \in Ports
    BY <1>2a DEF DeallocateGoesOn, TypeInv
  <2>2. /\ flags' \in [Ports -> {"free", "used"}] /\ owner' \in [Ports -> Nat]
        /\ pc' \in [Slots -> Places] /\ dest' \in [Slots -> Ports]
        /\ woken' \subseteq Slots
        /\ \A u \in Slots : pc'[u] = pc[u] \/ pc'[u] \in {"user", "free_send"}
    BY <2>1, TypeRelease
  <2> QED
    BY <2>1, <2>2 DEF TypeInv
<1>3. ASSUME NEW p \in Ports, NEW v \in LimitValues, SetMaxMessages(t, p, v)
      PROVE  TypeInv'
  BY <1>3 DEF SetMaxMessages, taskVars
<1>4. ASSUME NEW p \in Ports, NEW caps \in CapValues, SetRequiredCaps(t, p, caps)
      PROVE  TypeInv'
  BY <1>4 DEF SetRequiredCaps, taskVars
<1>5. ASSUME NEW p \in Ports, NEW d \in DomainValues, SetDomain(t, p, d)
      PROVE  TypeInv'
  BY <1>5 DEF SetDomain, taskVars
<1>6. QED
  BY <1>1, <1>2, <1>2a, <1>3, <1>4, <1>5 DEF PortStep

\* kernel_msg of a task after ipc_create_message
LEMMA TypeCreate ==
  ASSUME TypeInv, NEW t \in Slots, NEW m \in Messages, Create(t, m)
  PROVE  /\ hand' = [hand EXCEPT ![t] = hand'[t]]
         /\ hand' \in [Slots -> Messages \cup {NoMsg}]
         /\ hand'[t] \in Messages
         /\ pc' = [pc EXCEPT ![t] = "copied"] /\ pc' \in [Slots -> Places]
         /\ next_mem' \in 1 .. MaxMem + 1
<1>1. [m EXCEPT !.mem = next_mem] \in Messages
  <2>1. next_mem \in Mems
    BY ConstantsAssumption DEF ConstantsAssumption, Create, TypeInv, TypeOK, Mems
  <2>2. QED
    BY <2>1 DEF Messages
<1>2. next_mem' \in 1 .. MaxMem + 1
  BY ConstantsAssumption DEF ConstantsAssumption, Create, TypeInv, TypeOK
<1>3. QED
  BY <1>1, <1>2 DEF Create, TypeInv, TypeOK, Places

\* sys_ipc_send keeps the types through all its ways out: what it queues is the
\* message that ipc_create_message made.
LEMMA TypeSend ==
  ASSUME TypeInv, NEW t \in Slots, SendStep(t)
  PROVE  TypeInv'
<1> USE Geometry DEF TypeInv, TypeOK, HoldsMessage
<1>1. ASSUME NEW p \in Ports, NEW from_port \in SenderPorts, NEW back \in ReplyPorts,
             NEW id \in MsgIds,
             NEW flag \in {"none", "request"}, NEW nb \in BOOLEAN,
             SendBegin(t, p, id, from_port, back, flag, nb)
      PROVE  TypeInv'
  <2> DEFINE m == [mem |-> 0, from |-> t, msg_id |-> id, sender |-> from_port,
                   reply_port |-> back, flag |-> flag, answers |-> 0]
  <2>1. m \in Messages
    BY DEF Messages
  <2>2. Create(t, m)
    BY <1>1 DEF SendBegin
  <2>3. /\ dest' = [dest EXCEPT ![t] = p]
        /\ nonblock' = [nonblock EXCEPT ![t] = nb]
        /\ UNCHANGED <<flags, owner, queue, max_messages, recv_wait, send_wait,
                       required_caps, domain, pending_replies, woken, freed>>
    BY <1>1 DEF SendBegin, portVars
  <2> HIDE DEF m
  <2>4. QED
    BY <2>1, <2>2, <2>3, TypeCreate
<1>2. CASE SendCommit(t)
  <2> DEFINE p == dest[t]
  <2>1. hand[t] \in Messages
    BY <1>2 DEF SendCommit
  <2>2. /\ queue' = [queue EXCEPT ![p] = Append(@, hand[t])]
        /\ UNCHANGED <<flags, owner, max_messages, recv_wait, send_wait, required_caps,
                       domain, pending_replies, next_mem, freed>>
    BY <1>2 DEF SendCommit, Enqueue
  <2>3. queue' \in [Ports -> Seq(Messages)]
    BY <2>1, <2>2
  <2>4. CASE ReturnToUser(t) /\ UNCHANGED woken
    BY <2>2, <2>3, <2>4 DEF ReturnToUser, Places
  <2>5. CASE ~(ReturnToUser(t) /\ UNCHANGED woken)
    <3>1. /\ recv_wait[p] \in Slots /\ woken' = woken \cup {recv_wait[p]}
          /\ pc' = [pc EXCEPT ![t] = "wake_recv"] /\ dest' = [dest EXCEPT ![t] = p]
          /\ hand' = [hand EXCEPT ![t] = NoMsg] /\ UNCHANGED nonblock
      BY <1>2, <2>5 DEF SendCommit, WakeUp, Goto
    <3> QED
      BY <2>2, <2>3, <3>1 DEF Places
  <2>6. QED
    BY <2>4, <2>5
<1>2a. CASE ReceiverWoken(t)
  BY <1>2a DEF ReceiverWoken, ReturnToUser, Places
<1>3. CASE SendAgain(t)
  <2>1. freed' \subseteq Mems
    BY <1>3 DEF SendAgain, Messages, Mems
  <2>2. ReturnToUser(t) /\ UNCHANGED <<portVars, pending_replies, woken, next_mem>>
    BY <1>3 DEF SendAgain
  <2>3. QED
    BY <2>1, <2>2 DEF ReturnToUser, portVars, Places
<1>4. CASE SendBlock(t)
  BY <1>4 DEF SendBlock, Places
<1>5. CASE SendRetry(t)
  <2>1. hand[t] \in Messages /\ Create(t, hand[t])
    BY <1>5 DEF SendRetry
  <2>2. UNCHANGED <<portVars, pending_replies, dest, nonblock, woken, freed>>
    BY <1>5 DEF SendRetry
  <2>3. QED
    BY <2>1, <2>2, TypeCreate DEF portVars
<1>6. CASE SendRetryFails(t)
  BY <1>6 DEF SendRetryFails, ReturnToUser, portVars, Places
<1> HIDE DEF TypeInv
<1>7. QED
  BY <1>1, <1>2, <1>2a, <1>3, <1>4, <1>5, <1>6 DEF SendStep

\* ipc_dequeue_message hands on a queued message and wakes a task.
LEMMA TypeDequeue ==
  ASSUME TypeInv, NEW t \in Slots, NEW p \in Ports, Dequeue(t, p)
  PROVE  TypeInv'
<1> USE Geometry DEF TypeInv, TypeOK, HoldsMessage
<1>1. Head(queue[p]) \in Messages /\ Tail(queue[p]) \in Seq(Messages)
  BY HeadTailProperties DEF Dequeue
<1>2. /\ woken' = woken \/ (send_wait[p] \in Slots /\ woken' = woken \cup {send_wait[p]})
      /\ pc' \in {[pc EXCEPT ![t] = "deliver"], [pc EXCEPT ![t] = "wake_send"]}
      /\ dest' = [dest EXCEPT ![t] = p]
  BY DEF Dequeue, WakeUp, Goto
<1>3. QED
  BY <1>1, <1>2 DEF Dequeue, Unlink, Places

\* Blocking in sys_ipc_receive stores the caller in recv_wait of a port.
LEMMA TypeBlockOn ==
  ASSUME TypeInv, NEW t \in Slots, NEW p \in Ports, BlockOn(t, p)
  PROVE  TypeInv'
  BY DEF TypeInv, TypeOK, HoldsMessage, BlockOn, Goto, Places

\* sys_ipc_receive keeps the types: it delivers messages, and what
\* ipc_add_reply links is made of the fields of one.
LEMMA TypeReceive ==
  ASSUME TypeInv, NEW t \in Slots, ReceiveStep(t)
  PROVE  TypeInv'
<1> USE Geometry
<1>1. ASSUME NEW p \in Ports \ {0}, Receive(t, p)
      PROVE  TypeInv'
  BY <1>1, TypeDequeue, TypeBlockOn DEF Receive
<1>2. CASE ReceiveRetry(t)
  <2>1. dest[t] \in Ports
    BY DEF TypeInv, TypeOK
  <2>2. QED
    BY <1>2, <2>1, TypeDequeue, TypeBlockOn DEF ReceiveRetry
<1>3. CASE ReceiveRetryFails(t)
  BY <1>3 DEF TypeInv, TypeOK, HoldsMessage, ReceiveRetryFails, ReturnToUser,
              portVars, Places
<1>4. CASE ReceiveAny(t)
  BY <1>4, TypeDequeue DEF ReceiveAny, AnySource
<1>5. CASE ReceiveAnyEmpty(t)
  BY <1>5 DEF TypeInv, TypeOK, HoldsMessage, ReceiveAnyEmpty, portVars, Places
<1>5a. CASE SenderWoken(t)
  BY <1>5a DEF TypeInv, TypeOK, HoldsMessage, SenderWoken, Places
<1>6. CASE Deliver(t)
  <2> DEFINE m == hand[t]
             entry == [request_id |-> m.msg_id, reply_port |-> m.sender,
                       request |-> m.mem]
  <2>1. m \in Messages
    BY <1>6 DEF Deliver, TypeInv, HoldsMessage
  <2>2. m.mem \in Mems /\ entry \in PendingReply
    BY <2>1 DEF Messages, PendingReply
  <2>3. pending_replies' \in Seq(PendingReply)
    <3>1. pending_replies' = pending_replies \/ pending_replies' = <<entry>> \o pending_replies
      BY <1>6 DEF Deliver
    <3>2. <<entry>> \in Seq(PendingReply)
      BY <2>2
    <3> HIDE DEF entry
    <3>3. <<entry>> \o pending_replies \in Seq(PendingReply)
      BY <3>2, ConcatProperties DEF TypeInv, TypeOK
    <3>4. QED
      BY <3>1, <3>3 DEF TypeInv, TypeOK
  <2>4. /\ freed' = freed \cup {m.mem}
        /\ ReturnToUser(t)
        /\ UNCHANGED <<portVars, woken, next_mem>>
    BY <1>6 DEF Deliver
  <2> HIDE DEF m
  <2>5. QED
    BY <2>2, <2>3, <2>4 DEF TypeInv, TypeOK, HoldsMessage, ReturnToUser, portVars, Places
<1>7. QED
  BY <1>1, <1>2, <1>3, <1>4, <1>5, <1>5a, <1>6 DEF ReceiveStep

\* sys_ipc_reply unlinks an entry, and sends to a port that the entry names.
LEMMA TypeReply ==
  ASSUME TypeInv, NEW t \in Slots, ReplyStep(t)
  PROVE  TypeInv'
<1> USE Geometry
<1>1. PICK id \in MsgIds : Reply(t, id) \/ ReplyFails(t, id)
  BY DEF ReplyStep
<1>2. ASSUME NEW i \in DOMAIN pending_replies
      PROVE  /\ Without(pending_replies, i) \in Seq(PendingReply)
             /\ pending_replies[i] \in PendingReply
  <2>1. /\ SubSeq(pending_replies, 1, i - 1) \in Seq(PendingReply)
        /\ SubSeq(pending_replies, i + 1, Len(pending_replies)) \in Seq(PendingReply)
        /\ pending_replies[i] \in PendingReply
    BY <1>2 DEF TypeInv, TypeOK
  <2>2. QED
    BY <2>1 DEF Without
<1>3. CASE Reply(t, id)
  <2>1. PICK i \in DOMAIN pending_replies :
          LET r == pending_replies[i] IN
          /\ pending_replies' = Without(pending_replies, i)
          /\ Create(t, [mem |-> 0, from |-> t, msg_id |-> id, sender |-> 0,
                        reply_port |-> 0, flag |-> "reply", answers |-> r.request])
          /\ dest' = [dest EXCEPT ![t] = r.reply_port]
          /\ nonblock' = [nonblock EXCEPT ![t] = FALSE]
    BY <1>3 DEF Reply
  <2> DEFINE r == pending_replies[i]
             m == [mem |-> 0, from |-> t, msg_id |-> id, sender |-> 0,
                   reply_port |-> 0, flag |-> "reply", answers |-> r.request]
  <2>2. r.reply_port \in Ports /\ m \in Messages
    BY <1>2 DEF PendingReply, Messages
  <2>3. Create(t, m)
    BY <2>1
  <2>4. UNCHANGED <<portVars, woken, freed>>
    BY <1>3 DEF Reply
  <2>5. /\ pending_replies' \in Seq(PendingReply)
        /\ dest' \in [Slots -> Ports]
        /\ nonblock' \in [Slots -> BOOLEAN]
    BY <1>2, <2>1, <2>2 DEF TypeInv, TypeOK
  <2> HIDE DEF m, r
  <2>6. QED
    BY <2>2, <2>3, <2>4, <2>5, TypeCreate DEF TypeInv, TypeOK, HoldsMessage, portVars
<1>4. CASE ReplyFails(t, id)
  BY <1>2, <1>4 DEF TypeInv, TypeOK, HoldsMessage, ReplyFails, portVars, taskVars
<1>5. QED
  BY <1>1, <1>3, <1>4

\* Every call of the IPC core keeps the types.
LEMMA TypeStep == TypeInv /\ [Next]_vars => TypeInv'
<1> SUFFICES ASSUME TypeInv, [Next]_vars PROVE TypeInv'
  OBVIOUS
<1>1. CASE UNCHANGED vars
  BY <1>1 DEF TypeInv, TypeOK, HoldsMessage, vars, portVars, taskVars
<1>2. CASE Next
  BY <1>2, TypePort, TypeSend, TypeReceive, TypeReply DEF Next
<1>3. QED
  BY <1>1, <1>2

\* Every field of ipc_ports[], every entry of pending_replies and every local
\* of a call keeps a value of its type: in particular every queued message is
\* one that ipc_create_message made, and every reply port is a port.
THEOREM TypeCorrect == Spec => []TypeOK
<1>1. Spec => []TypeInv
  BY TypeInit, TypeStep, PTL DEF Spec
<1>2. TypeInv => TypeOK
  BY DEF TypeInv
<1>3. QED
  BY <1>1, <1>2, PTL

-----------------------------------------------------------------------------
(* Who is registered in a waiter slot waits with cause.                    *)

\* The two halves of WaitersHaveCause for one task, and why a full queue has a
\* message: no port has the limit 0.
ReceiverHasCause(t) ==
  pc[t] = "recv_wait" /\ recv_wait[dest[t]] = t => t \in woken \/ queue[dest[t]] = <<>>
SenderHasCause(t) ==
  pc[t] = "send_wait" /\ send_wait[dest[t]] = t => t \in woken \/ queue[dest[t]] # <<>>
LimitsPositive == \A p \in Ports : max_messages[p] > 0
CauseInv ==
  /\ \A t \in Slots : ReceiverHasCause(t) /\ SenderHasCause(t)
  /\ LimitsPositive

\* A step of t that takes no message and no slot from anybody, and after which t
\* itself does not wait.
Harmless(t) ==
  /\ UNCHANGED <<queue, max_messages>>
  /\ \A p \in Ports : /\ recv_wait'[p] \in {recv_wait[p], NoTask}
                      /\ send_wait'[p] \in {send_wait[p], NoTask}
  /\ \A u \in Slots \ {t} : /\ pc'[u] = pc[u] /\ dest'[u] = dest[u]
                            /\ u \in woken => u \in woken'
  /\ pc'[t] \in {"recv_wait", "send_wait"} =>
       pc'[t] = pc[t] /\ dest'[t] = dest[t] /\ (t \in woken => t \in woken')

LEMMA CauseHarmless ==
  ASSUME TypeInv, CauseInv, NEW t \in Slots, Harmless(t)
  PROVE  CauseInv'
<1>1. \A u \in Slots : u # NoTask /\ dest[u] \in Ports
  BY Geometry DEF TypeInv, TypeOK
<1>2. ASSUME NEW u \in Slots, pc'[u] \in {"recv_wait", "send_wait"}
      PROVE  pc'[u] = pc[u] /\ dest'[u] = dest[u] /\ (u \in woken => u \in woken')
  BY <1>2 DEF Harmless
<1>3. ASSUME NEW u \in Slots PROVE ReceiverHasCause(u)' /\ SenderHasCause(u)'
  BY <1>1, <1>2 DEF Harmless, CauseInv, ReceiverHasCause, SenderHasCause
<1> QED
  BY <1>3 DEF CauseInv, Harmless, LimitsPositive

\* Port calls: a new owner's slots are empty, and the limits that are set positive.
LEMMA CausePort ==
  ASSUME 0 \notin LimitValues, TypeInv, CauseInv, NEW t \in Slots, PortStep(t)
  PROVE  CauseInv'
<1>1. ASSUME NEW caps \in CapValues, AllocatePort(t, caps) PROVE CauseInv'
  <2>1. PICK p \in Dynamic : /\ queue' = [queue EXCEPT ![p] = <<>>]
                             /\ recv_wait' = [recv_wait EXCEPT ![p] = NoTask]
                             /\ send_wait' = [send_wait EXCEPT ![p] = NoTask]
    BY <1>1 DEF AllocatePort, EmptyQueue
  <2>2. UNCHANGED <<pc, dest, woken, max_messages>>
    BY <1>1 DEF AllocatePort, taskVars
  <2> QED
    BY <2>1, <2>2, Geometry
    DEF TypeInv, TypeOK, CauseInv, ReceiverHasCause, SenderHasCause, LimitsPositive
<1>2. ASSUME NEW p \in Ports, DeallocatePort(t, p) PROVE CauseInv'
  <2>1. /\ UNCHANGED <<queue, max_messages, recv_wait, send_wait>> /\ woken \subseteq woken'
        /\ \E place \in {"free_recv", "free_send", "user"} : \E q : Goto(t, place, q)
    BY <1>2 DEF DeallocatePort, WakeSenderAndRelease, ReleasePort, WakeUp
  <2>2. Harmless(t)
    BY <2>1 DEF Harmless, Goto, TypeInv, TypeOK
  <2> QED
    BY <2>2, CauseHarmless
<1>3. CASE DeallocateGoesOn(t)
  <2>1. /\ UNCHANGED <<queue, max_messages, recv_wait, send_wait>> /\ woken \subseteq woken'
        /\ \E place \in {"free_send", "user"} : \E q : Goto(t, place, q)
    BY <1>3 DEF DeallocateGoesOn, WakeSenderAndRelease, ReleasePort, WakeUp
  <2>2. Harmless(t)
    BY <2>1 DEF Harmless, Goto, TypeInv, TypeOK
  <2> QED
    BY <2>2, CauseHarmless
<1>4. ASSUME NEW p \in Ports, NEW v \in LimitValues, SetMaxMessages(t, p, v)
      PROVE  CauseInv'
  <2>1. v \in Nat /\ v > 0
    BY Geometry
  <2>2. max_messages' = [max_messages EXCEPT ![p] = v] /\ LimitsPositive'
    BY <1>4, <2>1 DEF SetMaxMessages, CauseInv, LimitsPositive, TypeInv, TypeOK
  <2> QED
    BY <1>4, <2>2 DEF SetMaxMessages, taskVars, CauseInv, ReceiverHasCause, SenderHasCause
<1>5. ASSUME UNCHANGED <<queue, max_messages, recv_wait, send_wait, taskVars, woken>>
      PROVE  CauseInv'
  BY <1>5 DEF taskVars, CauseInv, ReceiverHasCause, SenderHasCause, LimitsPositive
<1> QED
  BY <1>1, <1>2, <1>3, <1>4, <1>5 DEF PortStep, SetRequiredCaps, SetDomain

\* sys_ipc_send wakes whom recv_wait names before anything can be found in the queue,
\* and registers its caller only beside a message.
LEMMA CauseSend ==
  ASSUME TypeInv, CauseInv, NEW t \in Slots, SendStep(t)
  PROVE  CauseInv'
<1>0. /\ pc \in [Slots -> Places] /\ dest \in [Slots -> Ports]
      /\ queue \in [Ports -> Seq(Messages)] /\ max_messages \in [Ports -> Nat]
      /\ recv_wait \in [Ports -> Slots \cup {NoTask}]
      /\ send_wait \in [Ports -> Slots \cup {NoTask}] /\ NoTask \notin Slots
  BY Geometry DEF TypeInv, TypeOK
<1>1. CASE SendCommit(t)
  <2> DEFINE p == dest[t]
  <2>1. /\ pc[t] = "copied" /\ p \in Ports /\ hand[t] \in Messages
        /\ queue' = [queue EXCEPT ![p] = Append(@, hand[t])]
        /\ UNCHANGED <<max_messages, recv_wait, send_wait>> /\ woken \subseteq woken'
    BY <1>0, <1>1 DEF SendCommit, Enqueue, WakeUp, TypeInv, HoldsMessage
  <2>2. recv_wait[p] # NoTask => recv_wait[p] \in woken'
    BY <1>1 DEF SendCommit, WakeUp
  <2>3. \A u \in Slots : \/ pc'[u] = pc[u] /\ dest'[u] = dest[u]
                         \/ pc'[u] \in {"user", "wake_recv"}
    BY <1>0, <1>1 DEF SendCommit, ReturnToUser, Goto
  <2> HIDE DEF p
  <2>4. queue'[p] # <<>> /\ \A q \in Ports : q # p => queue'[q] = queue[q]
    <3>1. queue'[p] = Append(queue[p], hand[t]) /\ queue[p] \in Seq(Messages)
      BY <1>0, <2>1
    <3>2. queue'[p] # <<>>
      BY <2>1, <3>1
    <3> QED
      BY <1>0, <2>1, <3>2
  <2>5. ASSUME NEW u \in Slots PROVE ReceiverHasCause(u)' /\ SenderHasCause(u)'
    <3>1. ReceiverHasCause(u) /\ SenderHasCause(u) /\ u # NoTask /\ dest[u] \in Ports
      BY <1>0 DEF CauseInv
    <3>2. CASE pc'[u] \in {"user", "wake_recv"}
      BY <3>2 DEF ReceiverHasCause, SenderHasCause
    <3>3. CASE pc'[u] = pc[u] /\ dest'[u] = dest[u]
      BY <2>1, <2>2, <2>4, <3>1, <3>3 DEF ReceiverHasCause, SenderHasCause
    <3> QED
      BY <2>3, <3>2, <3>3
  <2> QED
    BY <2>1, <2>5 DEF CauseInv, LimitsPositive
<1>2. CASE SendBlock(t)
  <2>1. /\ Len(queue[dest[t]]) >= max_messages[dest[t]]
        /\ send_wait' = [send_wait EXCEPT ![dest[t]] = t]
        /\ pc' = [pc EXCEPT ![t] = "send_wait"] /\ woken' = woken \ {t}
        /\ UNCHANGED <<queue, max_messages, recv_wait, dest>>
    BY <1>2 DEF SendBlock, Full
  <2>2. queue[dest[t]] # <<>>
    <3>1. max_messages[dest[t]] > 0 /\ max_messages[dest[t]] \in Nat
      BY <1>0 DEF CauseInv, LimitsPositive
    <3> QED
      BY <1>0, <2>1, <3>1
  <2>3. ASSUME NEW u \in Slots PROVE ReceiverHasCause(u)' /\ SenderHasCause(u)'
    BY <1>0, <2>1, <2>2 DEF CauseInv, ReceiverHasCause, SenderHasCause
  <2> QED
    BY <2>1, <2>3 DEF CauseInv, LimitsPositive
<1>3. CASE ReceiverWoken(t) \/ SendAgain(t) \/ SendRetry(t) \/ SendRetryFails(t)
  <2>1. Harmless(t)
    BY <1>0, <1>3 DEF ReceiverWoken, SendAgain, SendRetry, SendRetryFails, Create,
                      ReturnToUser, portVars, Harmless
  <2> QED
    BY <2>1, CauseHarmless
<1>4. ASSUME NEW p \in Ports, NEW from_port \in SenderPorts, NEW back \in ReplyPorts,
             NEW id \in MsgIds, NEW flag \in {"none", "request"}, NEW nb \in BOOLEAN,
             SendBegin(t, p, id, from_port, back, flag, nb)
      PROVE  CauseInv'
  <2>1. Harmless(t)
    BY <1>0, <1>4 DEF SendBegin, Create, portVars, Harmless
  <2> QED
    BY <2>1, CauseHarmless
<1> QED
  BY <1>1, <1>2, <1>3, <1>4 DEF SendStep

\* Taking a message wakes whom send_wait names, and empties no queue that a registered
\* receiver finds filled.
LEMMA CauseDequeue ==
  ASSUME TypeInv, CauseInv, NEW t \in Slots, NEW p \in Ports, Dequeue(t, p)
  PROVE  CauseInv'
<1>0. /\ pc \in [Slots -> Places] /\ dest \in [Slots -> Ports]
      /\ queue \in [Ports -> Seq(Messages)] /\ NoTask \notin Slots
  BY Geometry DEF TypeInv, TypeOK
<1>1. /\ queue[p] # <<>> /\ queue' = [queue EXCEPT ![p] = Tail(@)]
      /\ UNCHANGED <<max_messages, recv_wait, send_wait>> /\ woken \subseteq woken'
      /\ send_wait[p] # NoTask => send_wait[p] \in woken'
  BY DEF Dequeue, Unlink, WakeUp
<1>2. \A u \in Slots : \/ pc'[u] = pc[u] /\ dest'[u] = dest[u]
                       \/ pc'[u] \in {"deliver", "wake_send"}
  BY <1>0 DEF Dequeue, Goto
<1>3. \A q \in Ports : q # p => queue'[q] = queue[q]
  BY <1>0, <1>1
<1>4. ASSUME NEW u \in Slots PROVE ReceiverHasCause(u)' /\ SenderHasCause(u)'
  <2>1. ReceiverHasCause(u) /\ SenderHasCause(u) /\ u # NoTask /\ dest[u] \in Ports
    BY <1>0 DEF CauseInv
  <2>2. CASE pc'[u] \in {"deliver", "wake_send"}
    BY <2>2 DEF ReceiverHasCause, SenderHasCause
  <2>3. CASE pc'[u] = pc[u] /\ dest'[u] = dest[u]
    BY <1>1, <1>3, <2>1, <2>3 DEF ReceiverHasCause, SenderHasCause
  <2> QED
    BY <1>2, <2>2, <2>3
<1> QED
  BY <1>1, <1>4 DEF CauseInv, LimitsPositive

LEMMA CauseBlockOn ==
  ASSUME TypeInv, CauseInv, NEW t \in Slots, NEW p \in Ports, BlockOn(t, p)
  PROVE  CauseInv'
<1>0. /\ pc \in [Slots -> Places] /\ dest \in [Slots -> Ports]
      /\ recv_wait \in [Ports -> Slots \cup {NoTask}]
  BY DEF TypeInv, TypeOK
<1>1. /\ queue[p] = <<>> /\ recv_wait' = [recv_wait EXCEPT ![p] = t]
      /\ pc' = [pc EXCEPT ![t] = "recv_wait"] /\ dest' = [dest EXCEPT ![t] = p]
      /\ woken' = woken \ {t} /\ UNCHANGED <<queue, max_messages, send_wait>>
  BY DEF BlockOn, Goto
<1>2. ASSUME NEW u \in Slots PROVE ReceiverHasCause(u)' /\ SenderHasCause(u)'
  BY <1>0, <1>1 DEF CauseInv, ReceiverHasCause, SenderHasCause
<1> QED
  BY <1>1, <1>2 DEF CauseInv, LimitsPositive

LEMMA CauseReceive ==
  ASSUME TypeInv, CauseInv, NEW t \in Slots, ReceiveStep(t)
  PROVE  CauseInv'
<1>0. pc \in [Slots -> Places] /\ dest \in [Slots -> Ports]
  BY DEF TypeInv, TypeOK
<1>1. ASSUME NEW p \in Ports \ {0}, Receive(t, p) PROVE CauseInv'
  BY <1>1, CauseDequeue, CauseBlockOn DEF Receive
<1>2. CASE ReceiveRetry(t)
  BY <1>0, <1>2, CauseDequeue, CauseBlockOn DEF ReceiveRetry
<1>3. CASE ReceiveAny(t)
  BY <1>3, CauseDequeue, Geometry DEF ReceiveAny, AnySource
<1>4. CASE ReceiveRetryFails(t) \/ ReceiveAnyEmpty(t) \/ SenderWoken(t) \/ Deliver(t)
  <2>1. Harmless(t)
    BY <1>0, <1>4 DEF ReceiveRetryFails, ReceiveAnyEmpty, SenderWoken, Deliver,
                      ReturnToUser, portVars, Harmless, TypeInv, TypeOK
  <2> QED
    BY <2>1, CauseHarmless
<1> QED
  BY <1>1, <1>2, <1>3, <1>4 DEF ReceiveStep

LEMMA CauseReply ==
  ASSUME TypeInv, CauseInv, NEW t \in Slots, ReplyStep(t)
  PROVE  CauseInv'
<1>1. PICK id \in MsgIds : Reply(t, id) \/ ReplyFails(t, id)
  BY DEF ReplyStep
<1>2. CASE Reply(t, id)
  <2>1. /\ UNCHANGED <<portVars, woken>> /\ pc' = [pc EXCEPT ![t] = "copied"]
        /\ \E p : dest' = [dest EXCEPT ![t] = p]
    BY <1>2 DEF Reply, Create
  <2>2. Harmless(t)
    BY <2>1 DEF portVars, Harmless, TypeInv, TypeOK
  <2> QED
    BY <2>2, CauseHarmless
<1>3. CASE ReplyFails(t, id)
  <2>1. Harmless(t)
    BY <1>3 DEF ReplyFails, portVars, taskVars, Harmless
  <2> QED
    BY <2>1, CauseHarmless
<1> QED
  BY <1>1, <1>2, <1>3

\* However many tasks send to a port and receive from it, and whatever runs while one
\* of them sleeps in the middle of a wake_up(): a receiver that recv_wait still names
\* has been woken when there is a message for it, and a sender that send_wait still
\* names has been woken, or will be by whoever takes the message that is there.  The
\* limits must be positive: the queue of a port with limit 0 is full and empty.
THEOREM SleepersHaveCause ==
  ASSUME MAX_MSG_QUEUE # 0, 0 \notin LimitValues
  PROVE  Spec => []WaitersHaveCause
<1>1. Init => TypeInv /\ CauseInv
  BY TypeInit, Geometry
  DEF Init, CauseInv, ReceiverHasCause, SenderHasCause, LimitsPositive
<1>2. TypeInv /\ CauseInv /\ [Next]_vars => (TypeInv /\ CauseInv)'
  <2> SUFFICES ASSUME TypeInv, CauseInv, [Next]_vars
               PROVE  CauseInv'
    BY TypeStep
  <2>1. CASE UNCHANGED vars
    BY <2>1 DEF vars, portVars, taskVars, CauseInv, ReceiverHasCause, SenderHasCause,
                LimitsPositive
  <2>2. CASE Next
    BY <2>2, CausePort, CauseSend, CauseReceive, CauseReply DEF Next
  <2>3. QED
    BY <2>1, <2>2
<1>3. CauseInv => WaitersHaveCause
  BY DEF CauseInv, WaitersHaveCause, ReceiverHasCause, SenderHasCause
<1>4. QED
  BY <1>1, <1>2, <1>3, PTL DEF Spec

-----------------------------------------------------------------------------
(* Where messages are: linked in a queue, or held by a call.               *)

\* The i-th message linked in the queue of port p
Linked(p, i) == p \in Ports /\ i \in DOMAIN queue[p]

\* A message that a call may still queue or free.  (That of a sender in
\* "send_wait" is forgotten when the call is made again.)
Held(t) == t \in Slots /\ pc[t] \in {"copied", "wake_send", "deliver"}

\* kmalloc has not yet returned what it will return.
FreshMems ==
  /\ \A p, i : Linked(p, i) => queue[p][i].mem < next_mem
  /\ \A t : Held(t) => hand[t].mem < next_mem
  /\ \A m \in freed : m < next_mem

\* A message is linked in one place, or held by one call, and not both; this holds
\* of ports that are not in use as well, for sends may still reach them.
LinkedOnce ==
  \A p, q, i, j : Linked(p, i) /\ Linked(q, j) /\ queue[p][i].mem = queue[q][j].mem
                    => p = q /\ i = j
HeldOnce == \A t, u : Held(t) /\ Held(u) /\ hand[t].mem = hand[u].mem => t = u
HeldNotLinked == \A t, p, i : Held(t) /\ Linked(p, i) => hand[t].mem # queue[p][i].mem

\* What a port in use links, or a sender is about to link, is not freed, unless the
\* owner is in the middle of ipc_deallocate_port.
LiveInUse ==
  \A p, i : Linked(p, i) /\ flags[p] = "used" /\ ~Closing(p)
              => queue[p][i].mem \notin freed
LiveInHand == \A t : Held(t) /\ pc[t] = "copied" => hand[t].mem \notin freed

MemInv ==
  FreshMems /\ LinkedOnce /\ HeldOnce /\ HeldNotLinked /\ LiveInUse /\ LiveInHand

\* The message that a task is sending is its own, and the last of its messages.
LastOfSender ==
  \A t \in Slots :
    /\ pc[t] \in {"copied", "send_wait"} => hand[t].from = t
    /\ pc[t] = "copied" =>
         \A p, i : Linked(p, i) /\ queue[p][i].from = t => queue[p][i].mem < hand[t].mem

\* A reply that is linked, and one that a call has: sent, waiting, or received.
LinkedReply(p, i) == Linked(p, i) /\ queue[p][i].flag = "reply"
Replying(t) == t \in Slots /\ hand[t] # NoMsg /\ hand[t].flag = "reply"

\* A request is spent when it is not on its way to anybody and never will be.
Spent(r) ==
  /\ r \in Mems /\ r < next_mem
  /\ \A p, i : Linked(p, i) => queue[p][i].mem # r
  /\ \A t : Held(t) => hand[t].mem # r

\* Pending requests and those with a reply on its way are spent, and no two of
\* all of these are the same.
PendingSpent == \A i \in DOMAIN pending_replies : Spent(pending_replies[i].request)
PendingOnce ==
  \A i, j \in DOMAIN pending_replies :
    pending_replies[i].request = pending_replies[j].request => i = j
AnsweredSpent ==
  /\ \A p, i : LinkedReply(p, i) => Spent(queue[p][i].answers)
  /\ \A t : Replying(t) => Spent(hand[t].answers)
AnsweredNotPending ==
  \A k \in DOMAIN pending_replies :
    /\ \A p, i : LinkedReply(p, i) => queue[p][i].answers # pending_replies[k].request
    /\ \A t : Replying(t) => hand[t].answers # pending_replies[k].request
RepliesOnce ==
  /\ \A p, q, i, j : LinkedReply(p, i) /\ LinkedReply(q, j)
                       /\ queue[p][i].answers = queue[q][j].answers => p = q /\ i = j
  /\ \A t, u : Replying(t) /\ Replying(u) /\ hand[t].answers = hand[u].answers => t = u
  /\ \A t, p, i : Replying(t) /\ LinkedReply(p, i) => hand[t].answers # queue[p][i].answers

ReplyInv ==
  PendingSpent /\ PendingOnce /\ AnsweredSpent /\ AnsweredNotPending /\ RepliesOnce

-----------------------------------------------------------------------------
(* How the steps change where messages are.                                *)

LEMMA LinkedTyped ==
  ASSUME TypeInv
  PROVE  /\ queue \in [Ports -> Seq(Messages)]
         /\ \A p, i : Linked(p, i) => /\ i \in Nat \ {0} /\ queue[p][i] \in Messages
                                      /\ queue[p][i].mem \in Nat
         /\ \A t : Held(t) => hand[t] \in Messages /\ hand[t].mem \in Nat
         /\ next_mem \in Nat /\ freed \subseteq Nat
<1>1. \A m \in Messages : m.mem \in Nat
  BY ConstantsAssumption DEF ConstantsAssumption, Messages, Mems
<1>2. queue \in [Ports -> Seq(Messages)]
  BY DEF TypeInv, TypeOK
<1>3. ASSUME NEW p, NEW i, Linked(p, i)
      PROVE  i \in Nat \ {0} /\ queue[p][i] \in Messages
  BY <1>2, <1>3 DEF Linked
<1>4. \A t : Held(t) => hand[t] \in Messages
  BY DEF TypeInv, HoldsMessage, Held
<1>5. next_mem \in Nat /\ freed \subseteq Nat
  BY ConstantsAssumption DEF ConstantsAssumption, TypeInv, TypeOK, Mems
<1> QED
  BY <1>1, <1>2, <1>3, <1>4, <1>5

\* ipc_queue_message adds a link behind the others of the port.
LEMMA AppendLinks ==
  ASSUME queue \in [Ports -> Seq(Messages)], NEW p \in Ports, NEW m \in Messages,
         queue' = [queue EXCEPT ![p] = Append(@, m)]
  PROVE  /\ \A q, i : Linked(q, i)' => \/ Linked(q, i) /\ queue'[q][i] = queue[q][i]
                                       \/ /\ q = p /\ i = Len(queue[p]) + 1
                                          /\ queue'[q][i] = m
         /\ \A i : Linked(p, i) => i \in Nat /\ i < Len(queue[p]) + 1
BY DEF Linked

\* ipc_dequeue_message removes the first link: the others move up.
MovesUp(p, q, i) == IF q = p THEN i + 1 ELSE i
LEMMA TailLinks ==
  ASSUME queue \in [Ports -> Seq(Messages)], NEW p \in Ports, queue[p] # <<>>,
         queue' = [queue EXCEPT ![p] = Tail(@)]
  PROVE  /\ \A q, i : Linked(q, i)' => /\ i \in Nat \ {0}
                                       /\ Linked(q, MovesUp(p, q, i))
                                       /\ queue'[q][i] = queue[q][MovesUp(p, q, i)]
         /\ Linked(p, 1) /\ queue[p][1] = Head(queue[p])
BY DEF Linked, MovesUp

\* A port that is being deallocated is so until it is free.
ClosingStays == \A p \in Ports : Closing(p) => Closing(p)' \/ flags'[p] = "free"

\* A step that neither links, frees nor creates a message.
Quiet ==
  /\ UNCHANGED <<flags, queue, next_mem, freed>>
  /\ \A t \in Slots :
       /\ hand'[t] \in {hand[t], NoMsg}
       /\ Held(t)' => Held(t)
       /\ pc'[t] = "copied" => pc[t] = "copied"
       /\ pc'[t] = "send_wait" => pc[t] \in {"copied", "send_wait"}
       /\ pc'[t] \in {"copied", "wake_send", "deliver", "send_wait"} => hand'[t] = hand[t]

\* What every other step is.
Creates(t, m) == /\ m \in Messages /\ Create(t, m)
                 /\ UNCHANGED <<flags, queue, freed>>
Begins(t) == \E m \in Messages :
  m.from = t /\ m.flag # "reply" /\ Creates(t, m) /\ UNCHANGED pending_replies
Retries(t) == pc[t] = "send_wait" /\ Creates(t, hand[t]) /\ UNCHANGED pending_replies
Drops(t) == /\ \E place \in {"user", "wake_recv"} : pc' = [pc EXCEPT ![t] = place]
            /\ hand' = [hand EXCEPT ![t] = NoMsg]
            /\ UNCHANGED <<flags, next_mem>>
Commits(t) == /\ pc[t] = "copied" /\ dest[t] \in Ports /\ Drops(t)
              /\ queue' = [queue EXCEPT ![dest[t]] = Append(@, hand[t])]
              /\ UNCHANGED <<freed, pending_replies>>
Frees(t) == /\ Held(t) /\ Drops(t)
            /\ freed' = freed \cup {hand[t].mem}
            /\ UNCHANGED queue
Takes(t, p) == /\ p \in Ports /\ queue[p] # <<>>
               /\ hand' = [hand EXCEPT ![t] = Head(queue[p])]
               /\ \E place \in {"wake_send", "deliver"} : pc' = [pc EXCEPT ![t] = place]
               /\ queue' = [queue EXCEPT ![p] = Tail(@)]
               /\ UNCHANGED <<flags, next_mem, freed, pending_replies>>
Opens(p) == /\ p \in Ports /\ flags[p] = "free"
            /\ flags' = [flags EXCEPT ![p] = "used"]
            /\ queue' = [queue EXCEPT ![p] = <<>>]
            /\ UNCHANGED <<hand, pc, next_mem, freed, pending_replies>>

\* ipc_deallocate_port: the port is emptied, and is free or about to be; and it
\* is released.  Nobody gets or loses a message meanwhile.
KeepsHands ==
  /\ UNCHANGED <<hand, queue, next_mem, pending_replies>>
  /\ \A u \in Slots : pc'[u] = pc[u] \/ {pc[u], pc'[u]} \subseteq
                                          {"user", "free_recv", "free_send"}
Empties(p) == /\ p \in Ports /\ KeepsHands
              /\ freed' = freed \cup MemOf(queue[p])
              /\ \/ flags' = [flags EXCEPT ![p] = "free"]
                 \/ UNCHANGED flags /\ Closing(p)'
Releases(p) == /\ p \in Ports /\ KeepsHands /\ UNCHANGED freed
               /\ flags' \in {flags, [flags EXCEPT ![p] = "free"]}

\* Every step of a call is of one of these kinds.
Kind(t) ==
  \/ Quiet /\ UNCHANGED pending_replies
  \/ Quiet /\ \E id \in MsgIds : ReplyFails(t, id)
  \/ Begins(t) \/ Retries(t) \/ Commits(t)
  \/ \E id \in MsgIds, m \in Messages : Reply(t, id) /\ Creates(t, m)
  \/ Frees(t) /\ UNCHANGED pending_replies
  \/ Frees(t) /\ Deliver(t)
  \/ \E p \in Ports : Takes(t, p) \/ Opens(p) \/ Empties(p) \/ Releases(p)

LEMMA Kinds ==
  ASSUME TypeInv, NEW t \in Slots,
         PortStep(t) \/ SendStep(t) \/ ReceiveStep(t) \/ ReplyStep(t)
  PROVE  Kind(t)
<1>1. /\ pc \in [Slots -> Places]
      /\ hand \in [Slots -> Messages \cup {NoMsg}] /\ dest \in [Slots -> Ports]
  BY DEF TypeInv, TypeOK
<1>2. CASE PortStep(t)
  <2>1. ASSUME NEW caps \in CapValues, AllocatePort(t, caps)
        PROVE  \E p \in Ports : Opens(p)
    BY <2>1, Geometry DEF AllocatePort, EmptyQueue, Opens, taskVars
  <2>2. ASSUME NEW p \in Ports, DeallocatePort(t, p) PROVE Empties(p)
    <3>1. pc[t] = "user" /\ freed' = freed \cup MemOf(queue[p])
          /\ UNCHANGED <<hand, queue, next_mem, pending_replies>>
      BY <2>2 DEF DeallocatePort
    <3>2. \/ /\ flags' = [flags EXCEPT ![p] = "free"] /\ pc' = [pc EXCEPT ![t] = "user"]
          \/ /\ \E place \in {"free_recv", "free_send"} : pc' = [pc EXCEPT ![t] = place]
             /\ dest' = [dest EXCEPT ![t] = p] /\ UNCHANGED flags
      BY <2>2 DEF DeallocatePort, WakeSenderAndRelease, ReleasePort, Goto
    <3>3. KeepsHands
      BY <1>1, <3>1, <3>2 DEF KeepsHands
    <3>4. flags' = [flags EXCEPT ![p] = "free"] \/ (UNCHANGED flags /\ Closing(p)')
      BY <1>1, <3>2 DEF Closing
    <3> QED
      BY <3>1, <3>3, <3>4 DEF Empties
  <2>2a. CASE DeallocateGoesOn(t)
    <3>1. /\ pc[t] \in {"free_recv", "free_send"} /\ dest[t] \in Ports
          /\ UNCHANGED <<hand, queue, next_mem, pending_replies, freed>>
          /\ flags' \in {flags, [flags EXCEPT ![dest[t]] = "free"]}
          /\ \E place \in {"user", "free_send"} : pc' = [pc EXCEPT ![t] = place]
      BY <1>1, <2>2a DEF DeallocateGoesOn, WakeSenderAndRelease, ReleasePort, Goto
    <3>2. KeepsHands
      BY <1>1, <3>1 DEF KeepsHands
    <3> QED
      BY <3>1, <3>2 DEF Releases, Kind
  <2>3. ASSUME UNCHANGED <<flags, queue, taskVars, pending_replies, next_mem, freed>>
        PROVE  Kind(t)
    BY <2>3 DEF Kind, Quiet, Held, taskVars
  <2> QED
    BY <1>2, <2>1, <2>2, <2>2a, <2>3
    DEF PortStep, SetMaxMessages, SetRequiredCaps, SetDomain, Kind
<1>3. CASE SendStep(t)
  <2>1. ASSUME NEW p \in Ports, NEW from_port \in SenderPorts, NEW back \in ReplyPorts,
               NEW id \in MsgIds, NEW flag \in {"none", "request"}, NEW nb \in BOOLEAN,
               SendBegin(t, p, id, from_port, back, flag, nb)
        PROVE  Begins(t)
    <3> DEFINE m == [mem |-> 0, from |-> t, msg_id |-> id, sender |-> from_port,
                     reply_port |-> back, flag |-> flag, answers |-> 0]
    <3>1. m \in Messages /\ m.from = t /\ m.flag # "reply"
      BY Geometry DEF Messages
    <3>2. Creates(t, m) /\ UNCHANGED pending_replies
      BY <2>1, <3>1 DEF SendBegin, Creates, portVars
    <3> QED
      BY <3>1, <3>2 DEF Begins
  <2>2. CASE SendCommit(t)
    BY <1>1, <2>2
    DEF SendCommit, Commits, Drops, Enqueue, ReturnToUser, Goto, Kind
  <2>3. CASE SendAgain(t)
    BY <2>3 DEF SendAgain, Frees, Held, Drops, ReturnToUser, portVars, Kind
  <2>4. CASE SendBlock(t)
    <3>1. Quiet
      BY <1>1, <2>4 DEF SendBlock, Quiet, Held
    <3> QED
      BY <2>4, <3>1 DEF SendBlock, Kind
  <2>5. CASE SendRetry(t)
    BY <2>5 DEF SendRetry, Retries, Creates, TypeInv, HoldsMessage, portVars, Kind
  <2>6. CASE SendRetryFails(t)
    <3>1. Quiet
      BY <1>1, <2>6 DEF SendRetryFails, ReturnToUser, portVars, Quiet, Held
    <3> QED
      BY <2>6, <3>1 DEF SendRetryFails, Kind
  <2>7. CASE ReceiverWoken(t)
    <3>1. Quiet
      BY <1>1, <2>7 DEF ReceiverWoken, ReturnToUser, Quiet, Held
    <3> QED
      BY <2>7, <3>1 DEF ReceiverWoken, Kind
  <2> QED
    BY <1>3, <2>1, <2>2, <2>3, <2>4, <2>5, <2>6, <2>7 DEF SendStep, Kind
<1>4. CASE ReceiveStep(t)
  <2>1. ASSUME NEW p \in Ports, Dequeue(t, p) PROVE Takes(t, p)
    BY <2>1 DEF Dequeue, Unlink, Goto, Takes
  <2>2. ASSUME NEW p \in Ports, BlockOn(t, p) PROVE Quiet /\ UNCHANGED pending_replies
    BY <1>1, <2>2 DEF BlockOn, Goto, Quiet, Held
  <2>3. CASE ReceiveRetryFails(t) \/ ReceiveAnyEmpty(t)
    <3>1. Quiet
      BY <1>1, <2>3 DEF ReceiveRetryFails, ReceiveAnyEmpty, ReturnToUser, portVars, Quiet,
                        Held
    <3> QED
      BY <2>3, <3>1 DEF ReceiveRetryFails, ReceiveAnyEmpty, Kind
  <2>4. CASE ReceiveAny(t)
    BY <2>1, <2>4, Geometry DEF ReceiveAny, AnySource, Kind
  <2>5. CASE Deliver(t)
    BY <2>5 DEF Deliver, Frees, Held, Drops, ReturnToUser, portVars, Kind
  <2>6. CASE ReceiveRetry(t)
    BY <1>1, <2>1, <2>2, <2>6 DEF ReceiveRetry, Kind
  <2>7. ASSUME NEW p \in Ports \ {0}, Receive(t, p) PROVE Kind(t)
    BY <2>1, <2>2, <2>7 DEF Receive, Kind
  <2>8. CASE SenderWoken(t)
    <3>1. Quiet
      BY <1>1, <2>8 DEF SenderWoken, Quiet, Held
    <3> QED
      BY <2>8, <3>1 DEF SenderWoken, Kind
  <2> QED
    BY <1>4, <2>3, <2>4, <2>5, <2>6, <2>7, <2>8 DEF ReceiveStep
<1>5. CASE ReplyStep(t)
  <2>1. PICK id \in MsgIds : Reply(t, id) \/ ReplyFails(t, id)
    BY <1>5 DEF ReplyStep
  <2>2. CASE Reply(t, id)
    <3>1. PICK i \in DOMAIN pending_replies :
            Create(t, [mem |-> 0, from |-> t, msg_id |-> id, sender |-> 0,
                       reply_port |-> 0, flag |-> "reply",
                       answers |-> pending_replies[i].request])
      BY <2>2 DEF Reply
    <3>2. pending_replies[i] \in PendingReply
      BY DEF TypeInv, TypeOK
    <3>3. [mem |-> 0, from |-> t, msg_id |-> id, sender |-> 0, reply_port |-> 0,
           flag |-> "reply", answers |-> pending_replies[i].request] \in Messages
      BY <3>2, Geometry DEF PendingReply, Messages
    <3>4. UNCHANGED <<flags, queue, freed>>
      BY <2>2 DEF Reply, portVars
    <3> QED
      BY <2>2, <3>1, <3>3, <3>4 DEF Creates, Kind
  <2>3. CASE ReplyFails(t, id)
    <3>1. Quiet
      BY <2>3 DEF ReplyFails, Quiet, Held, portVars, taskVars
    <3> QED
      BY <2>3, <3>1 DEF Kind
  <2> QED
    BY <2>1, <2>2, <2>3
<1> QED
  BY <1>2, <1>3, <1>4, <1>5

\* Only the call that deallocates a port ends its being deallocated.
LEMMA ClosingEnds ==
  ASSUME TypeInv, NEW t \in Slots,
         PortStep(t) \/ SendStep(t) \/ ReceiveStep(t) \/ ReplyStep(t)
  PROVE  ClosingStays
<1>1. pc \in [Slots -> Places] /\ dest \in [Slots -> Ports]
      /\ flags \in [Ports -> {"free", "used"}]
  BY DEF TypeInv, TypeOK
<1>2. CASE DeallocateGoesOn(t)
  <2>1. \/ flags' = [flags EXCEPT ![dest[t]] = "free"]
        \/ pc' = [pc EXCEPT ![t] = "free_send"] /\ dest'[t] = dest[t]
    BY <1>1, <1>2 DEF DeallocateGoesOn, WakeSenderAndRelease, ReleasePort, Goto
  <2>2. \A u \in Slots \ {t} : pc'[u] = pc[u] /\ dest'[u] = dest[u]
    BY <1>1, <1>2 DEF DeallocateGoesOn, WakeSenderAndRelease, ReleasePort, Goto
  <2> QED
    BY <1>1, <2>1, <2>2 DEF ClosingStays, Closing
<1>3. ASSUME pc[t] \notin {"free_recv", "free_send"},
             \A u \in Slots \ {t} : pc'[u] = pc[u] /\ dest'[u] = dest[u]
      PROVE  ClosingStays
  BY <1>3 DEF ClosingStays, Closing
<1>4. ASSUME UNCHANGED <<pc, dest>> PROVE ClosingStays
  BY <1>4 DEF ClosingStays, Closing
<1>5. CASE PortStep(t)
  <2>1. ASSUME NEW p \in Ports, DeallocatePort(t, p) PROVE ClosingStays
    BY <1>1, <1>3, <2>1 DEF DeallocatePort, WakeSenderAndRelease, ReleasePort, Goto
  <2> QED
    BY <1>2, <1>4, <1>5, <2>1
    DEF PortStep, AllocatePort, SetMaxMessages, SetRequiredCaps, SetDomain, taskVars
<1>6. CASE SendStep(t)
  <2>1. ASSUME NEW p \in Ports, NEW from_port \in SenderPorts, NEW back \in ReplyPorts,
               NEW id \in MsgIds, NEW flag \in {"none", "request"}, NEW nb \in BOOLEAN,
               SendBegin(t, p, id, from_port, back, flag, nb)
        PROVE  ClosingStays
    BY <1>1, <1>3, <2>1 DEF SendBegin, Create
  <2>2. CASE SendCommit(t) \/ ReceiverWoken(t) \/ SendAgain(t)
    BY <1>1, <1>3, <2>2 DEF SendCommit, ReceiverWoken, SendAgain, ReturnToUser, Goto
  <2>3. CASE SendBlock(t) \/ SendRetry(t) \/ SendRetryFails(t)
    BY <1>1, <1>3, <2>3 DEF SendBlock, SendRetry, SendRetryFails, Create, ReturnToUser
  <2> QED
    BY <1>6, <2>1, <2>2, <2>3 DEF SendStep
<1>7. CASE ReceiveStep(t)
  <2>1. ASSUME NEW p \in Ports, pc[t] \in {"user", "recv_wait", "any_wait"},
               Dequeue(t, p) \/ BlockOn(t, p)
        PROVE  ClosingStays
    BY <1>1, <1>3, <2>1 DEF Dequeue, BlockOn, Goto
  <2>2. ASSUME NEW p \in Ports \ {0}, Receive(t, p) PROVE ClosingStays
    BY <2>1, <2>2 DEF Receive
  <2>3. CASE ReceiveRetry(t)
    BY <1>1, <2>1, <2>3 DEF ReceiveRetry
  <2>4. CASE ReceiveAny(t)
    BY <2>1, <2>4, Geometry DEF ReceiveAny, AnySource
  <2>5. CASE ReceiveRetryFails(t) \/ ReceiveAnyEmpty(t) \/ SenderWoken(t) \/ Deliver(t)
    BY <1>1, <1>3, <2>5
    DEF ReceiveRetryFails, ReceiveAnyEmpty, SenderWoken, Deliver, ReturnToUser
  <2> QED
    BY <1>7, <2>2, <2>3, <2>4, <2>5 DEF ReceiveStep
<1>8. CASE ReplyStep(t)
  <2>1. PICK id \in MsgIds : Reply(t, id) \/ ReplyFails(t, id)
    BY <1>8 DEF ReplyStep
  <2>2. CASE Reply(t, id)
    BY <1>1, <1>3, <2>2 DEF Reply, Create
  <2>3. CASE ReplyFails(t, id)
    BY <1>4, <2>3 DEF ReplyFails, taskVars
  <2> QED
    BY <2>1, <2>2, <2>3
<1> QED
  BY <1>5, <1>6, <1>7, <1>8

-----------------------------------------------------------------------------
(* No message is in two places, and none is used after it was freed.       *)

\* A port in use that nobody is deallocating was not being deallocated before.
LEMMA StillClosing ==
  ASSUME ClosingStays, NEW p, NEW i, Linked(p, i), flags'[p] = "used", ~Closing(p)'
  PROVE  ~Closing(p)
BY DEF ClosingStays, Linked

LEMMA MemQuiet ==
  ASSUME MemInv, Quiet, ClosingStays
  PROVE  MemInv'
<1>1. \A t : Held(t)' => /\ Held(t) /\ hand'[t] = hand[t]
                         /\ pc'[t] = "copied" => pc[t] = "copied"
  BY DEF Quiet, Held
<1>2. /\ \A p, i : Linked(p, i)' <=> Linked(p, i)
      /\ UNCHANGED <<flags, queue, next_mem, freed>>
  BY DEF Quiet, Linked
<1>3. LiveInUse'
  BY <1>2, StillClosing DEF MemInv, LiveInUse
<1>4. FreshMems'
  BY <1>1, <1>2 DEF MemInv, FreshMems
<1>5. LinkedOnce' /\ HeldOnce' /\ HeldNotLinked'
  BY <1>1, <1>2 DEF MemInv, LinkedOnce, HeldOnce, HeldNotLinked
<1>6. LiveInHand'
  BY <1>1, <1>2 DEF MemInv, LiveInHand
<1> QED
  BY <1>3, <1>4, <1>5, <1>6 DEF MemInv

\* ipc_create_message: the new message has a new address.
LEMMA MemCreates ==
  ASSUME TypeInv, MemInv, ClosingStays, NEW t \in Slots, NEW m, Creates(t, m)
  PROVE  MemInv'
<1>1. /\ \A p, i : Linked(p, i)' <=> Linked(p, i)
      /\ UNCHANGED <<flags, queue, freed>> /\ next_mem' = next_mem + 1
  BY DEF Creates, Create, Linked
<1>2. /\ pc \in [Slots -> Places]
      /\ hand \in [Slots -> Messages \cup {NoMsg}]
  BY DEF TypeInv, TypeOK
<1>3. Held(t)' /\ pc'[t] = "copied" /\ hand'[t].mem = next_mem
  BY <1>2 DEF Creates, Create, Held, Messages
<1>4. \A u : Held(u)' /\ u # t => Held(u) /\ hand'[u] = hand[u] /\ pc'[u] = pc[u]
  BY <1>2 DEF Creates, Create, Held
<1>5. FreshMems'
  BY <1>1, <1>3, <1>4, LinkedTyped DEF MemInv, FreshMems
<1>6. LinkedOnce' /\ LiveInUse'
  BY <1>1, StillClosing DEF MemInv, LinkedOnce, LiveInUse
<1>7. /\ \A u : Held(u) => hand[u].mem # next_mem
      /\ \A p, i : Linked(p, i) => queue[p][i].mem # next_mem
      /\ next_mem \notin freed
  BY LinkedTyped DEF MemInv, FreshMems
<1>8. HeldOnce'
  BY <1>3, <1>4, <1>7 DEF MemInv, HeldOnce
<1>9. HeldNotLinked'
  BY <1>1, <1>3, <1>4, <1>7 DEF MemInv, HeldNotLinked
<1>10. LiveInHand'
  BY <1>1, <1>3, <1>4, <1>7 DEF MemInv, LiveInHand
<1> QED
  BY <1>5, <1>6, <1>8, <1>9, <1>10 DEF MemInv

\* Where messages are after they are linked ...
LEMMA CommitLinks ==
  ASSUME TypeInv, NEW t \in Slots, Commits(t)
  PROVE  LET p == dest[t]
             last == Len(queue[p]) + 1
         IN /\ Held(t) /\ pc[t] = "copied" /\ hand[t] \in Messages /\ last \in Nat
            /\ \A q, i : Linked(q, i)' => \/ Linked(q, i) /\ queue'[q][i] = queue[q][i]
                                          \/ q = p /\ i = last /\ queue'[q][i] = hand[t]
            /\ \A i : Linked(p, i) => i \in Nat /\ i < last
<1> DEFINE p == dest[t]
<1>1. Held(t) /\ pc[t] = "copied" /\ hand[t] \in Messages /\ p \in Ports
  BY LinkedTyped DEF Commits, Held
<1>2. /\ queue \in [Ports -> Seq(Messages)]
      /\ queue' = [queue EXCEPT ![p] = Append(@, hand[t])]
  BY LinkedTyped DEF Commits
<1> HIDE DEF p
<1>3. Len(queue[p]) + 1 \in Nat
  BY <1>1, <1>2
<1>4. /\ \A q, i : Linked(q, i)' => \/ Linked(q, i) /\ queue'[q][i] = queue[q][i]
                                    \/ /\ q = p /\ i = Len(queue[p]) + 1
                                       /\ queue'[q][i] = hand[t]
      /\ \A i : Linked(p, i) => i \in Nat /\ i < Len(queue[p]) + 1
  BY <1>1, <1>2, AppendLinks
<1> QED
  BY <1>1, <1>3, <1>4 DEF p

\* ... and after they are taken.
LEMMA TakeLinks ==
  ASSUME TypeInv, NEW t \in Slots, NEW p, Takes(t, p)
  PROVE  /\ p \in Ports /\ Linked(p, 1)
         /\ UNCHANGED <<flags, next_mem, freed>>
         /\ hand'[t] = queue[p][1] /\ pc'[t] \in {"wake_send", "deliver"}
         /\ \A u \in Slots : u # t => hand'[u] = hand[u] /\ pc'[u] = pc[u]
         /\ \A q, i : Linked(q, i)' => /\ i \in Nat \ {0}
                                       /\ Linked(q, MovesUp(p, q, i))
                                       /\ queue'[q][i] = queue[q][MovesUp(p, q, i)]
<1>1. /\ p \in Ports /\ Linked(p, 1) /\ queue[p][1] = Head(queue[p])
      /\ \A q, i : Linked(q, i)' => /\ i \in Nat \ {0}
                                    /\ Linked(q, MovesUp(p, q, i))
                                    /\ queue'[q][i] = queue[q][MovesUp(p, q, i)]
  BY TailLinks, LinkedTyped DEF Takes
<1>2. PICK place \in {"wake_send", "deliver"} : pc' = [pc EXCEPT ![t] = place]
  BY DEF Takes
<1>3. /\ hand'[t] = Head(queue[p]) /\ pc'[t] \in {"wake_send", "deliver"}
      /\ UNCHANGED <<flags, next_mem, freed>>
      /\ \A u \in Slots : u # t => hand'[u] = hand[u] /\ pc'[u] = pc[u]
  BY <1>2 DEF Takes, TypeInv, TypeOK
<1> QED
  BY <1>1, <1>3

\* A call that returns holds nothing more.
LEMMA DropsHeld ==
  ASSUME TypeInv, NEW t \in Slots, Drops(t)
  PROVE  \A u : Held(u)' => /\ u # t /\ Held(u)
                            /\ hand'[u] = hand[u] /\ pc'[u] = pc[u]
<1>1. PICK place \in {"user", "wake_recv"} : pc' = [pc EXCEPT ![t] = place]
  BY DEF Drops
<1> QED
  BY <1>1 DEF TypeInv, TypeOK, Drops, Held

\* ... and sends nothing more.
LEMMA DropsSends ==
  ASSUME TypeInv, NEW t \in Slots, Drops(t)
  PROVE  \A u \in Slots : pc'[u] \in {"copied", "send_wait"} =>
                             u # t /\ pc'[u] = pc[u] /\ hand'[u] = hand[u]
<1>1. PICK place \in {"user", "wake_recv"} : pc' = [pc EXCEPT ![t] = place]
  BY DEF Drops
<1> QED
  BY <1>1 DEF TypeInv, TypeOK, Drops

\* sys_ipc_send links the message it holds.
LEMMA MemCommits ==
  ASSUME TypeInv, MemInv, ClosingStays, NEW t \in Slots, Commits(t)
  PROVE  MemInv'
<1> DEFINE p == dest[t]
           last == Len(queue[p]) + 1
<1>1. /\ Held(t) /\ pc[t] = "copied" /\ hand[t] \in Messages
      /\ \A q, i : Linked(q, i)' => \/ Linked(q, i) /\ queue'[q][i] = queue[q][i]
                                    \/ q = p /\ i = last /\ queue'[q][i] = hand[t]
  BY CommitLinks
<1>2. UNCHANGED <<flags, next_mem, freed>>
  BY DEF Commits, Drops
<1>3. \A u : Held(u)' => u # t /\ Held(u) /\ hand'[u] = hand[u] /\ pc'[u] = pc[u]
  BY DropsHeld DEF Commits
<1> HIDE DEF p, last
<1>4. FreshMems'
  BY <1>1, <1>2, <1>3 DEF MemInv, FreshMems
<1>5. LinkedOnce'
  BY <1>1 DEF MemInv, LinkedOnce, HeldNotLinked
<1>6. HeldOnce' /\ HeldNotLinked'
  BY <1>1, <1>3 DEF MemInv, HeldOnce, HeldNotLinked
<1>7. LiveInUse'
  <2> SUFFICES ASSUME NEW q, NEW i, Linked(q, i)', flags'[q] = "used", ~Closing(q)'
               PROVE  queue'[q][i].mem \notin freed
    BY <1>2 DEF LiveInUse
  <2>1. ~Closing(q)
    BY DEF ClosingStays, Linked
  <2> QED
    BY <1>1, <1>2, <2>1 DEF MemInv, LiveInUse, LiveInHand
<1>8. LiveInHand'
  BY <1>2, <1>3 DEF MemInv, LiveInHand
<1> QED
  BY <1>4, <1>5, <1>6, <1>7, <1>8 DEF MemInv

\* ipc_free_message of the message that a call holds.
LEMMA MemFrees ==
  ASSUME TypeInv, MemInv, ClosingStays, NEW t \in Slots, Frees(t)
  PROVE  MemInv'
<1>1. Held(t) /\ UNCHANGED <<flags, queue, next_mem>> /\ freed' = freed \cup {hand[t].mem}
  BY DEF Frees, Drops
<1>2. \A u : Held(u)' => u # t /\ Held(u) /\ hand'[u] = hand[u] /\ pc'[u] = pc[u]
  BY DropsHeld DEF Frees
<1>3. \A p, i : Linked(p, i)' <=> Linked(p, i)
  BY <1>1 DEF Linked
<1>4. LiveInUse'
  BY <1>1, <1>3, StillClosing DEF MemInv, HeldNotLinked, LiveInUse
<1> QED
  BY <1>1, <1>2, <1>3, <1>4
  DEF MemInv, FreshMems, LinkedOnce, HeldOnce, HeldNotLinked, LiveInHand

\* sys_ipc_receive unlinks the message it holds from then on.
LEMMA MemTakes ==
  ASSUME TypeInv, MemInv, ClosingStays, NEW t \in Slots, NEW p, Takes(t, p)
  PROVE  MemInv'
<1>1. /\ Linked(p, 1) /\ UNCHANGED <<flags, next_mem, freed>> /\ p \in Ports
      /\ \A q, i : Linked(q, i)' => /\ i \in Nat \ {0}
                                    /\ Linked(q, MovesUp(p, q, i))
                                    /\ queue'[q][i] = queue[q][MovesUp(p, q, i)]
  BY TakeLinks
<1>2. hand'[t] = queue[p][1] /\ pc'[t] # "copied"
  BY TakeLinks
<1>3. \A u : Held(u)' /\ u # t => Held(u) /\ hand'[u] = hand[u] /\ pc'[u] = pc[u]
  BY TakeLinks DEF Held
<1>4. \A q, r, i, j : i \in Nat /\ j \in Nat /\ q = r /\ MovesUp(p, q, i) = MovesUp(p, r, j) => i = j
  BY DEF MovesUp
<1>5. \A q, i : i \in Nat \ {0} => q # p \/ MovesUp(p, q, i) # 1
  BY DEF MovesUp
<1>6. FreshMems'
  BY <1>1, <1>2, <1>3 DEF MemInv, FreshMems
<1>7. LinkedOnce'
  BY <1>1, <1>4 DEF MemInv, LinkedOnce
<1>8. HeldOnce'
  BY <1>1, <1>2, <1>3 DEF MemInv, HeldOnce, HeldNotLinked
<1>9. HeldNotLinked'
  <2>1. ASSUME NEW q, NEW i, Linked(q, i)' PROVE queue'[q][i].mem # queue[p][1].mem
    BY <1>1, <1>5, <2>1 DEF MemInv, LinkedOnce
  <2> QED
    BY <1>1, <1>2, <1>3, <2>1 DEF MemInv, HeldNotLinked
<1>10. LiveInUse'
  <2> SUFFICES ASSUME NEW q, NEW i, Linked(q, i)', flags'[q] = "used", ~Closing(q)'
               PROVE  queue'[q][i].mem \notin freed
    BY <1>1 DEF LiveInUse
  <2>1. ~Closing(q)
    BY DEF ClosingStays, Linked
  <2> QED
    BY <1>1, <2>1 DEF MemInv, LiveInUse
<1>11. LiveInHand'
  BY <1>1, <1>2, <1>3 DEF MemInv, LiveInHand
<1> QED
  BY <1>6, <1>7, <1>8, <1>9, <1>10, <1>11 DEF MemInv

\* ipc_allocate_port drops the links of the free port.
LEMMA MemOpens ==
  ASSUME TypeInv, MemInv, ClosingStays, NEW p, Opens(p)
  PROVE  MemInv'
<1>1. \A q, i : Linked(q, i)' => q # p /\ Linked(q, i) /\ queue'[q][i] = queue[q][i]
  BY LinkedTyped DEF Opens, Linked
<1>2. /\ \A t : Held(t)' <=> Held(t)
      /\ UNCHANGED <<hand, pc, next_mem, freed>>
      /\ \A q \in Ports : q # p => flags'[q] = flags[q]
  BY DEF Opens, Held, TypeInv, TypeOK
<1>3. \A q, i : Linked(q, i) => q \in Ports
  BY DEF Linked
<1>4. LiveInUse'
  BY <1>1, <1>2, <1>3 DEF ClosingStays, MemInv, LiveInUse
<1> QED
  BY <1>1, <1>2, <1>3, <1>4
  DEF MemInv, FreshMems, LinkedOnce, HeldOnce, HeldNotLinked, LiveInHand

\* Nobody gets or loses a message in ipc_deallocate_port.
LEMMA HandsKept ==
  ASSUME KeepsHands
  PROVE  /\ \A q, i : Linked(q, i)' <=> Linked(q, i)
         /\ \A u : Held(u)' <=> Held(u)
         /\ \A u \in Slots : \A place \in {"copied", "send_wait", "deliver"} :
              pc'[u] = place <=> pc[u] = place
         /\ UNCHANGED <<hand, queue, next_mem, pending_replies>>
<1>1. UNCHANGED <<hand, queue, next_mem, pending_replies>>
  BY DEF KeepsHands
<1>2. \A u \in Slots : \A place \in {"copied", "wake_send", "send_wait", "deliver"} :
        pc'[u] = place <=> pc[u] = place
  BY DEF KeepsHands
<1> QED
  BY <1>1, <1>2 DEF Linked, Held

\* ipc_deallocate_port frees what the port links, and nothing else links it.
LEMMA MemEmpties ==
  ASSUME TypeInv, MemInv, ClosingStays, NEW p, Empties(p)
  PROVE  MemInv'
<1>1. /\ \A q, i : Linked(q, i)' <=> Linked(q, i)
      /\ \A u : Held(u)' <=> Held(u)
      /\ \A u : Held(u) => (pc'[u] = "copied" <=> pc[u] = "copied")
      /\ UNCHANGED <<hand, queue, next_mem>>
  BY HandsKept DEF Empties, Held
<1>2. freed' = freed \cup {queue[p][i].mem : i \in DOMAIN queue[p]}
  BY DEF Empties, MemOf
<1>3. /\ flags'[p] = "free" \/ Closing(p)'
      /\ p \in Ports
      /\ \A q \in Ports : q # p => flags'[q] = flags[q]
  BY DEF Empties, TypeInv, TypeOK
<1>4. \A m \in freed' \ freed : \E i : Linked(p, i) /\ m = queue[p][i].mem
  BY <1>2, <1>3 DEF Linked
<1>5. \A q, i : Linked(q, i) => q \in Ports
  BY DEF Linked
<1>6. FreshMems'
  BY <1>1, <1>4 DEF MemInv, FreshMems
<1>7. LinkedOnce' /\ HeldOnce' /\ HeldNotLinked'
  BY <1>1 DEF MemInv, LinkedOnce, HeldOnce, HeldNotLinked
<1>8. LiveInUse'
  <2> SUFFICES ASSUME NEW q, NEW i, Linked(q, i)', flags'[q] = "used", ~Closing(q)'
               PROVE  queue[q][i].mem \notin freed'
    BY <1>1 DEF LiveInUse
  <2>1. q # p /\ q \in Ports /\ Linked(q, i)
    BY <1>1, <1>3, <1>5
  <2>2. flags[q] = "used" /\ ~Closing(q)
    BY <1>3, <2>1 DEF ClosingStays
  <2> QED
    BY <1>4, <2>1, <2>2 DEF MemInv, LinkedOnce, LiveInUse
<1>9. LiveInHand'
  BY <1>1, <1>4 DEF MemInv, HeldNotLinked, LiveInHand
<1> QED
  BY <1>6, <1>7, <1>8, <1>9 DEF MemInv

\* ... and when it ends the port is free.
LEMMA MemReleases ==
  ASSUME TypeInv, MemInv, ClosingStays, NEW p, Releases(p)
  PROVE  MemInv'
<1>1. /\ \A q, i : Linked(q, i)' <=> Linked(q, i)
      /\ \A u : Held(u)' <=> Held(u)
      /\ \A u : Held(u) => (pc'[u] = "copied" <=> pc[u] = "copied")
      /\ UNCHANGED <<hand, queue, next_mem, freed>>
  BY HandsKept DEF Releases, Held
<1>2. \A q \in Ports : flags'[q] = "used" => flags[q] = "used"
  BY DEF Releases, TypeInv, TypeOK
<1>3. LiveInUse'
  BY <1>1, <1>2, StillClosing DEF MemInv, LiveInUse, Linked
<1> QED
  BY <1>1, <1>3 DEF MemInv, FreshMems, LinkedOnce, HeldOnce, HeldNotLinked, LiveInHand

LEMMA MemInit == Init => MemInv
<1> SUFFICES ASSUME Init PROVE MemInv
  OBVIOUS
<1>1. \A p, i : ~Linked(p, i)
  BY DEF Init, Linked
<1>2. (\A t : ~Held(t)) /\ freed = {}
  BY DEF Init, Held
<1> QED
  BY <1>1, <1>2
  DEF MemInv, FreshMems, LinkedOnce, HeldOnce, HeldNotLinked, LiveInUse, LiveInHand

LEMMA MemStep == TypeInv /\ MemInv /\ [Next]_vars => MemInv'
<1> SUFFICES ASSUME TypeInv, MemInv, [Next]_vars PROVE MemInv'
  OBVIOUS
<1>1. CASE UNCHANGED vars
  <2>1. Quiet
    BY <1>1 DEF Quiet, Held, vars, portVars, taskVars
  <2>2. ClosingStays
    BY <1>1 DEF ClosingStays, Closing, vars, taskVars
  <2> QED
    BY <2>1, <2>2, MemQuiet
<1>2. CASE Next
  <2>1. PICK t \in Slots : Kind(t) /\ ClosingStays
    BY <1>2, Kinds, ClosingEnds DEF Next
  <2>2. CASE Quiet
    BY <2>1, <2>2, MemQuiet
  <2>3. ASSUME NEW m, Creates(t, m) PROVE MemInv'
    BY <2>1, <2>3, MemCreates
  <2>4. CASE Commits(t) \/ Frees(t)
    BY <2>1, <2>4, MemCommits, MemFrees
  <2>5. ASSUME NEW p \in Ports, Takes(t, p) \/ Opens(p) \/ Empties(p) \/ Releases(p)
        PROVE  MemInv'
    BY <2>1, <2>5, MemTakes, MemOpens, MemEmpties, MemReleases
  <2> QED
    BY <2>1, <2>2, <2>3, <2>4, <2>5 DEF Kind, Begins, Retries
<1> QED
  BY <1>1, <1>2

\* Whatever is sent, received, freed, allocated and deallocated, in any order and
\* with other tasks in between: a port in use that is not being deallocated links no
\* freed message, no message twice, and none of another such port.
THEOREM QueuesAreLive == Spec => []LiveQueues
<1>1. MemInv => LiveQueues
  <2> SUFFICES ASSUME MemInv, NEW p \in Ports, flags[p] = "used", ~Closing(p)
               PROVE  /\ MemOf(queue[p]) \cap freed = {}
                      /\ \A i, j \in DOMAIN queue[p] :
                           queue[p][i].mem = queue[p][j].mem => i = j
                      /\ \A q \in Ports : q # p =>
                           MemOf(queue[q]) \cap MemOf(queue[p]) = {}
    BY DEF LiveQueues
  <2>1. \A q \in Ports : \A i \in DOMAIN queue[q] : Linked(q, i)
    BY DEF Linked
  <2>2. \A q \in Ports : \A m \in MemOf(queue[q]) :
          \E i \in DOMAIN queue[q] : m = queue[q][i].mem
    BY DEF MemOf
  <2> QED
    BY <2>1, <2>2 DEF MemInv, LinkedOnce, LiveInUse
<1> QED
  BY <1>1, TypeInit, TypeStep, MemInit, MemStep, PTL DEF Spec

-----------------------------------------------------------------------------
(* The order of the messages of a sender.                                  *)

\* The messages of one task in one queue are in the order of their addresses.
LinkedInOrder ==
  \A p, i, j :
    Linked(p, i) /\ Linked(p, j) /\ i < j /\ queue[p][i].from = queue[p][j].from
      => queue[p][i].mem < queue[p][j].mem

OrderInv == LinkedInOrder /\ LastOfSender

\* Steps that link nothing and after which nobody sends who did not send before.
LEMMA OrderKept ==
  ASSUME OrderInv,
         \A p, i : Linked(p, i)' => Linked(p, i) /\ queue'[p][i] = queue[p][i],
         \A u \in Slots : pc'[u] \in {"copied", "send_wait"} =>
           /\ pc[u] \in {"copied", "send_wait"} /\ hand'[u] = hand[u]
           /\ pc'[u] = "copied" => pc[u] = "copied"
  PROVE  OrderInv'
BY DEF OrderInv, LinkedInOrder, LastOfSender

\* A new message is younger than all that are linked.
LEMMA OrderCreates ==
  ASSUME TypeInv, MemInv, OrderInv, NEW t \in Slots, NEW m, Creates(t, m), m.from = t
  PROVE  OrderInv'
<1>1. \A p, i : Linked(p, i)' <=> Linked(p, i)
  BY DEF Creates, Linked
<1>2. UNCHANGED queue
  BY DEF Creates
<1>3. hand'[t].from = t /\ hand'[t].mem = next_mem
  BY DEF Creates, Create, TypeInv, TypeOK, Messages
<1>4. \A u \in Slots : u # t => pc'[u] = pc[u] /\ hand'[u] = hand[u]
  BY DEF Creates, Create, TypeInv, TypeOK
<1>5. \A p, i : Linked(p, i) => queue[p][i].mem < next_mem
  BY DEF MemInv, FreshMems
<1> QED
  BY <1>1, <1>2, <1>3, <1>4, <1>5 DEF OrderInv, LinkedInOrder, LastOfSender

\* It is linked behind the older ones.
LEMMA OrderCommits ==
  ASSUME TypeInv, OrderInv, NEW t \in Slots, Commits(t)
  PROVE  OrderInv'
<1> DEFINE p == dest[t]
           last == Len(queue[p]) + 1
<1>1. /\ hand[t].from = t /\ last \in Nat
      /\ \A q, i : Linked(q, i)' => \/ Linked(q, i) /\ queue'[q][i] = queue[q][i]
                                    \/ q = p /\ i = last /\ queue'[q][i] = hand[t]
      /\ \A i : Linked(p, i) => i \in Nat /\ i < last
  BY CommitLinks DEF OrderInv, LastOfSender
<1>2. pc[t] = "copied"
  BY DEF Commits
<1> HIDE DEF p, last
<1>3. LinkedInOrder'
  BY <1>1, <1>2 DEF OrderInv, LinkedInOrder, LastOfSender
<1>4. \A u \in Slots : pc'[u] \in {"copied", "send_wait"} =>
                         u # t /\ pc'[u] = pc[u] /\ hand'[u] = hand[u]
  BY DropsSends DEF Commits
<1>5. LastOfSender'
  BY <1>1, <1>2, <1>4 DEF OrderInv, LastOfSender
<1> QED
  BY <1>3, <1>5 DEF OrderInv

\* Taking the first leaves the others in order.
LEMMA OrderTakes ==
  ASSUME TypeInv, OrderInv, NEW t \in Slots, NEW p, Takes(t, p)
  PROVE  OrderInv'
<1>1. \A q, i : Linked(q, i)' => /\ i \in Nat \ {0}
                                 /\ Linked(q, MovesUp(p, q, i))
                                 /\ queue'[q][i] = queue[q][MovesUp(p, q, i)]
  BY TakeLinks
<1>2. \A q, i, j : i \in Nat /\ j \in Nat /\ i < j => MovesUp(p, q, i) < MovesUp(p, q, j)
  BY DEF MovesUp
<1>3. LinkedInOrder'
  BY <1>1, <1>2 DEF OrderInv, LinkedInOrder
<1>4. \A u \in Slots : pc'[u] \in {"copied", "send_wait"} =>
                         u # t /\ pc'[u] = pc[u] /\ hand'[u] = hand[u]
  BY TakeLinks
<1>5. LastOfSender'
  BY <1>1, <1>4 DEF OrderInv, LastOfSender
<1> QED
  BY <1>3, <1>5 DEF OrderInv

\* sys_ipc_reply sends a message of its own.
LEMMA ReplyFrom ==
  ASSUME TypeInv, NEW t \in Slots, NEW id, Reply(t, id), NEW m, Creates(t, m)
  PROVE  hand'[t].from = t
BY DEF Reply, Create, TypeInv, TypeOK

LEMMA OrderStep == TypeInv /\ MemInv /\ OrderInv /\ [Next]_vars => OrderInv'
<1> SUFFICES ASSUME TypeInv, MemInv, OrderInv, [Next]_vars PROVE OrderInv'
  OBVIOUS
<1>1. CASE UNCHANGED vars
  BY <1>1, OrderKept DEF vars, portVars, taskVars, Linked
<1>2. CASE Next
  <2>1. PICK t \in Slots : Kind(t)
    BY <1>2, Kinds DEF Next
  <2>2. CASE Quiet
    BY <2>2, OrderKept DEF Quiet, Linked
  <2>3. CASE Begins(t)
    BY <2>3, OrderCreates DEF Begins
  <2>4. CASE Retries(t)
    BY <2>4, OrderCreates DEF Retries, OrderInv, LastOfSender
  <2>5. CASE Commits(t)
    BY <2>5, OrderCommits
  <2>6. ASSUME NEW id \in MsgIds, NEW m \in Messages, Reply(t, id), Creates(t, m)
        PROVE  OrderInv'
    <3>1. hand'[t].from = m.from
      BY <2>6 DEF Creates, Create, TypeInv, TypeOK, Messages
    <3> QED
      BY <2>6, <3>1, ReplyFrom, OrderCreates
  <2>7. CASE Frees(t)
    <3>1. \A p, i : Linked(p, i)' <=> Linked(p, i)
      BY <2>7 DEF Frees, Linked
    <3>2. \A u \in Slots : pc'[u] \in {"copied", "send_wait"} =>
                             pc'[u] = pc[u] /\ hand'[u] = hand[u]
      BY <2>7, DropsSends DEF Frees
    <3> QED
      BY <2>7, <3>1, <3>2, OrderKept DEF Frees
  <2>8. ASSUME NEW p \in Ports, Takes(t, p) PROVE OrderInv'
    BY <2>8, OrderTakes
  <2>9. ASSUME NEW p \in Ports, Opens(p) PROVE OrderInv'
    <3>1. \A q, i : Linked(q, i)' => Linked(q, i) /\ queue'[q][i] = queue[q][i]
      BY <2>9, LinkedTyped DEF Opens, Linked
    <3> QED
      BY <2>9, <3>1, OrderKept DEF Opens
  <2>10. ASSUME NEW p \in Ports, KeepsHands PROVE OrderInv'
    BY <2>10, HandsKept, OrderKept
  <2> QED
    BY <2>1, <2>2, <2>3, <2>4, <2>5, <2>6, <2>7, <2>8, <2>9, <2>10
    DEF Kind, Empties, Releases
<1> QED
  BY <1>1, <1>2

\* Through blocking, retries and reallocation of the port, the messages of one task
\* stay in the order in which it sent them.
THEOREM OrderIsKept == Spec => []SendOrderKept
<1>1. Init => OrderInv
  <2> SUFFICES ASSUME Init PROVE OrderInv
    OBVIOUS
  <2>1. \A p, i : ~Linked(p, i)
    BY DEF Init, Linked
  <2>2. \A t \in Slots : pc[t] = "user"
    BY DEF Init
  <2>3. LinkedInOrder
    BY <2>1 DEF LinkedInOrder
  <2>4. LastOfSender
    BY <2>2 DEF LastOfSender
  <2> QED
    BY <2>3, <2>4 DEF OrderInv
<1>2. OrderInv => SendOrderKept
  <2> SUFFICES ASSUME OrderInv, NEW p \in Ports,
                      NEW i \in DOMAIN queue[p], NEW j \in DOMAIN queue[p],
                      i < j, queue[p][i].from = queue[p][j].from
               PROVE  queue[p][i].mem < queue[p][j].mem
    BY DEF SendOrderKept
  <2>1. Linked(p, i) /\ Linked(p, j)
    BY DEF Linked
  <2> QED
    BY <2>1 DEF OrderInv, LinkedInOrder
<1> QED
  BY <1>1, <1>2, TypeInit, TypeStep, MemInit, MemStep, OrderStep, PTL DEF Spec

-----------------------------------------------------------------------------
(* A request is answered once.                                             *)

\* The message of a request that was delivered never comes back.
LEMMA SpentStays ==
  ASSUME TypeInv, NEW t \in Slots, Kind(t), NEW r, Spent(r)
  PROVE  Spent(r)'
<1>1. r \in Nat
  BY ConstantsAssumption DEF ConstantsAssumption, Spent, Mems
<1>2. /\ pc \in [Slots -> Places]
      /\ hand \in [Slots -> Messages \cup {NoMsg}]
      /\ queue \in [Ports -> Seq(Messages)] /\ next_mem \in Nat
  BY LinkedTyped DEF TypeInv, TypeOK
<1>3. CASE Quiet
  BY <1>3 DEF Quiet, Spent, Linked, Held
<1>4. ASSUME NEW m, Creates(t, m) PROVE Spent(r)'
  <2>1. /\ next_mem' = next_mem + 1 /\ UNCHANGED queue /\ hand'[t].mem = next_mem
        /\ \A u : Held(u)' /\ u # t => Held(u) /\ hand'[u] = hand[u]
    BY <1>2, <1>4 DEF Creates, Create, Held, Messages
  <2> QED
    BY <1>1, <1>2, <2>1 DEF Spent, Linked
<1>5. CASE Commits(t)
  <2>1. UNCHANGED next_mem
    BY <1>5 DEF Commits, Drops
  <2>2. /\ Held(t)
        /\ \A q, i : Linked(q, i)' => \/ Linked(q, i) /\ queue'[q][i] = queue[q][i]
                                      \/ queue'[q][i] = hand[t]
    BY <1>5, CommitLinks
  <2>3. \A u : Held(u)' => Held(u) /\ hand'[u] = hand[u]
    BY <1>5, DropsHeld DEF Commits
  <2> QED
    BY <2>1, <2>2, <2>3 DEF Spent
<1>6. CASE Frees(t)
  <2>1. \A u : Held(u)' => Held(u) /\ hand'[u] = hand[u]
    BY <1>6, DropsHeld DEF Frees
  <2> QED
    BY <1>6, <2>1 DEF Frees, Drops, Spent, Linked
<1>7. ASSUME NEW p \in Ports, Takes(t, p) PROVE Spent(r)'
  <2>1. /\ Linked(p, 1) /\ hand'[t] = queue[p][1] /\ UNCHANGED next_mem
        /\ \A q, i : Linked(q, i)' => /\ Linked(q, MovesUp(p, q, i))
                                      /\ queue'[q][i] = queue[q][MovesUp(p, q, i)]
    BY <1>7, TakeLinks
  <2>2. \A u : Held(u)' /\ u # t => Held(u) /\ hand'[u] = hand[u]
    BY <1>7, TakeLinks DEF Held
  <2> QED
    BY <2>1, <2>2 DEF Spent
<1>8. ASSUME NEW p \in Ports, Opens(p) PROVE Spent(r)'
  <2>1. \A q, i : Linked(q, i)' => Linked(q, i) /\ queue'[q][i] = queue[q][i]
    BY <1>2, <1>8 DEF Opens, Linked
  <2> QED
    BY <1>8, <2>1 DEF Opens, Spent, Held
<1>9. ASSUME KeepsHands PROVE Spent(r)'
  BY <1>9, HandsKept DEF Spent
<1> QED
  BY <1>3, <1>4, <1>5, <1>6, <1>7, <1>8, <1>9
  DEF Kind, Begins, Retries, Empties, Releases

\* ipc_find_reply and the unlinking: what remains is the other entries.
Gap(i, j) == IF j < i THEN j ELSE j + 1
LEMMA WithoutEntries ==
  ASSUME NEW S, NEW s \in Seq(S), NEW i \in DOMAIN s
  PROVE  /\ Without(s, i) \in Seq(S)
         /\ \A j \in DOMAIN Without(s, i) :
              j \in Nat /\ Gap(i, j) \in DOMAIN s \ {i} /\ Without(s, i)[j] = s[Gap(i, j)]
<1> DEFINE a == SubSeq(s, 1, i - 1)
           b == SubSeq(s, i + 1, Len(s))
           n == Len(s)
<1>1. /\ a \in Seq(S) /\ Len(a) = i - 1 /\ \A j \in 1 .. i - 1 : a[j] = s[j]
      /\ b \in Seq(S) /\ Len(b) = n - i /\ \A j \in 1 .. n - i : b[j] = s[i + j]
  OBVIOUS
<1>2. Without(s, i) = a \o b
  BY DEF Without
<1>3. i \in 1 .. n /\ n \in Nat /\ DOMAIN s = 1 .. n
  OBVIOUS
<1> HIDE DEF a, b, n
<1>4. a \o b \in Seq(S) /\ Len(a \o b) = n - 1
  <2>1. a \o b \in Seq(S) /\ Len(a \o b) = Len(a) + Len(b)
    BY <1>1, ConcatProperties
  <2> QED
    BY <1>1, <1>3, <2>1
<1>5. DOMAIN (a \o b) = 1 .. n - 1
  BY <1>4, LenProperties
<1>6. ASSUME NEW j \in 1 .. n - 1
      PROVE  Gap(i, j) \in 1 .. n /\ Gap(i, j) # i /\ (a \o b)[j] = s[Gap(i, j)]
  <2>1. j \in 1 .. Len(a) + Len(b)
    BY <1>1, <1>3
  <2>2. (a \o b)[j] = IF j <= Len(a) THEN a[j] ELSE b[j - Len(a)]
    BY <1>1, <2>1, ConcatProperties
  <2>3. CASE j < i
    <3>1. j <= Len(a) /\ j \in 1 .. i - 1
      BY <1>1, <1>3, <2>3
    <3>2. (a \o b)[j] = s[j]
      BY <1>1, <2>2, <3>1
    <3> QED
      BY <1>3, <2>3, <3>2 DEF Gap
  <2>4. CASE ~(j < i)
    <3>1. ~(j <= Len(a)) /\ j - Len(a) \in 1 .. n - i /\ i + (j - Len(a)) = j + 1
      BY <1>1, <1>3, <2>4
    <3>2. (a \o b)[j] = s[j + 1]
      BY <1>1, <2>2, <3>1
    <3> QED
      BY <1>3, <2>4, <3>2 DEF Gap
  <2> QED
    BY <2>3, <2>4
<1>7. \A j \in 1 .. n - 1 : j \in Nat
  BY <1>3
<1>8. \A j \in DOMAIN Without(s, i) :
        j \in Nat /\ Gap(i, j) \in DOMAIN s \ {i} /\ Without(s, i)[j] = s[Gap(i, j)]
  <2> SUFFICES ASSUME NEW j \in 1 .. n - 1
               PROVE  j \in Nat /\ Gap(i, j) \in 1 .. n \ {i} /\ (a \o b)[j] = s[Gap(i, j)]
    BY <1>2, <1>3, <1>5
  <2> QED
    BY <1>6, <1>7
<1> QED
  BY <1>2, <1>4, <1>8

\* A step after which all replies are where they were, or gone.
RepliesStay ==
  /\ \A p, i : LinkedReply(p, i)' => LinkedReply(p, i) /\ queue'[p][i] = queue[p][i]
  /\ \A u : Replying(u)' => Replying(u) /\ hand'[u].answers = hand[u].answers

LEMMA ReplyStays ==
  ASSUME ReplyInv, RepliesStay, \A r : Spent(r) => Spent(r)'
  PROVE  /\ RepliesOnce' /\ AnsweredSpent'
         /\ UNCHANGED pending_replies => ReplyInv'
BY DEF ReplyInv, RepliesStay, PendingSpent, PendingOnce, AnsweredSpent,
       AnsweredNotPending, RepliesOnce

\* A step that leaves the replies alone and adds nothing to the pending ones.
LEMMA QuietReplies ==
  ASSUME TypeInv, NEW t \in Slots,
         \/ Quiet \/ Begins(t) \/ Retries(t) \/ Frees(t)
         \/ KeepsHands \/ \E p \in Ports : Opens(p)
  PROVE  RepliesStay
<1>1. hand \in [Slots -> Messages \cup {NoMsg}] /\ queue \in [Ports -> Seq(Messages)]
  BY DEF TypeInv, TypeOK
<1>2. CASE Quiet
  BY <1>2 DEF Quiet, RepliesStay, LinkedReply, Linked, Replying
<1>3. ASSUME NEW m \in Messages, Creates(t, m),
             m.flag # "reply" \/ (Replying(t) /\ m.answers = hand[t].answers)
      PROVE  RepliesStay
  <2>1. /\ UNCHANGED queue /\ \A u \in Slots : u # t => hand'[u] = hand[u]
        /\ hand'[t].flag = m.flag /\ hand'[t].answers = m.answers
    BY <1>1, <1>3 DEF Creates, Create, Messages
  <2> QED
    BY <1>3, <2>1 DEF RepliesStay, LinkedReply, Linked, Replying
<1>4. CASE Retries(t)
  <2>1. hand[t] \in Messages /\ hand[t] # NoMsg /\ Creates(t, hand[t])
    BY <1>4, Geometry DEF Retries, Creates
  <2> QED
    BY <1>3, <2>1 DEF Replying
<1>5. CASE Frees(t)
  <2>1. UNCHANGED queue /\ \A u \in Slots : hand'[u] \in {hand[u], NoMsg}
    BY <1>1, <1>5 DEF Frees, Drops
  <2> QED
    BY <2>1 DEF RepliesStay, LinkedReply, Linked, Replying
<1>6. ASSUME NEW p \in Ports, Opens(p) PROVE RepliesStay
  <2>1. \A q, i : Linked(q, i)' => Linked(q, i) /\ queue'[q][i] = queue[q][i]
    BY <1>1, <1>6 DEF Opens, Linked
  <2> QED
    BY <1>6, <2>1 DEF Opens, RepliesStay, LinkedReply, Replying
<1>7. CASE KeepsHands
  BY <1>7 DEF KeepsHands, RepliesStay, LinkedReply, Linked, Replying
<1> QED
  BY <1>2, <1>3, <1>4, <1>5, <1>6, <1>7 DEF Begins

\* A reply moves from the call to the queue ...
LEMMA ReplyCommits ==
  ASSUME TypeInv, ReplyInv, NEW t \in Slots, Commits(t), \A r : Spent(r) => Spent(r)'
  PROVE  ReplyInv'
<1> DEFINE p == dest[t]
           last == Len(queue[p]) + 1
<1>1. \A q, i : LinkedReply(q, i)' => \/ LinkedReply(q, i) /\ queue'[q][i] = queue[q][i]
                                      \/ /\ q = p /\ i = last /\ queue'[q][i] = hand[t]
                                         /\ Replying(t)
  BY CommitLinks, Geometry DEF LinkedReply, Replying
<1>2. \A u : Replying(u)' => u # t /\ Replying(u) /\ hand'[u] = hand[u]
  BY DEF TypeInv, TypeOK, Commits, Drops, Replying
<1>3. UNCHANGED pending_replies
  BY DEF Commits
<1> HIDE DEF p, last
<1>4. RepliesOnce'
  BY <1>1, <1>2 DEF ReplyInv, RepliesOnce
<1>5. AnsweredSpent'
  BY <1>1, <1>2 DEF ReplyInv, AnsweredSpent
<1>6. AnsweredNotPending'
  BY <1>1, <1>2, <1>3 DEF ReplyInv, AnsweredNotPending
<1>7. PendingSpent' /\ PendingOnce'
  BY <1>3 DEF ReplyInv, PendingSpent, PendingOnce
<1> QED
  BY <1>4, <1>5, <1>6, <1>7 DEF ReplyInv

\* ... and from the queue to another call.
LEMMA ReplyTakes ==
  ASSUME TypeInv, ReplyInv, NEW t \in Slots, NEW p, Takes(t, p),
         \A r : Spent(r) => Spent(r)'
  PROVE  ReplyInv'
<1>1. \A q, i : LinkedReply(q, i)' => /\ i \in Nat \ {0}
                                      /\ LinkedReply(q, MovesUp(p, q, i))
                                      /\ queue'[q][i] = queue[q][MovesUp(p, q, i)]
  BY TakeLinks DEF LinkedReply
<1>2. Linked(p, 1) /\ hand'[t] = queue[p][1]
  BY TakeLinks
<1>3. \A u : Replying(u)' => \/ u = t /\ LinkedReply(p, 1) /\ hand'[u] = queue[p][1]
                             \/ u # t /\ Replying(u) /\ hand'[u] = hand[u]
  BY <1>2, TakeLinks DEF Replying, LinkedReply
<1>4. UNCHANGED pending_replies
  BY DEF Takes
<1>5. \A q, r, i, j : /\ i \in Nat /\ j \in Nat
                      /\ q = r /\ MovesUp(p, q, i) = MovesUp(p, r, j)
                      => i = j
  BY DEF MovesUp
<1>6. \A q, i : i \in Nat \ {0} => q # p \/ MovesUp(p, q, i) # 1
  BY DEF MovesUp
<1>7. RepliesOnce'
  <2>1. \A q, r, i, j : /\ LinkedReply(q, i)' /\ LinkedReply(r, j)'
                        /\ queue'[q][i].answers = queue'[r][j].answers
                        => q = r /\ i = j
    BY <1>1, <1>5 DEF ReplyInv, RepliesOnce
  <2>2. \A u, q, i : Replying(u)' /\ LinkedReply(q, i)' =>
                       hand'[u].answers # queue'[q][i].answers
    BY <1>1, <1>3, <1>6 DEF ReplyInv, RepliesOnce
  <2>3. \A u, v : Replying(u)' /\ Replying(v)' /\ hand'[u].answers = hand'[v].answers
                    => u = v
    BY <1>3 DEF ReplyInv, RepliesOnce
  <2> QED
    BY <2>1, <2>2, <2>3 DEF RepliesOnce
<1>8. AnsweredSpent'
  BY <1>1, <1>3 DEF ReplyInv, AnsweredSpent
<1>9. AnsweredNotPending'
  BY <1>1, <1>3, <1>4 DEF ReplyInv, AnsweredNotPending
<1>10. PendingSpent' /\ PendingOnce'
  BY <1>4 DEF ReplyInv, PendingSpent, PendingOnce
<1> QED
  BY <1>7, <1>8, <1>9, <1>10 DEF ReplyInv

\* The entry that was found leaves the list, the others stay.
LEMMA EntryGoes ==
  ASSUME TypeInv, ReplyInv, NEW i \in DOMAIN pending_replies,
         pending_replies' = Without(pending_replies, i), \A r : Spent(r) => Spent(r)'
  PROVE  /\ PendingSpent' /\ PendingOnce'
         /\ \A j \in DOMAIN pending_replies' :
              \E k \in DOMAIN pending_replies :
                k # i /\ pending_replies'[j] = pending_replies[k]
<1>1. pending_replies \in Seq(PendingReply) /\ i \in Nat
  BY DEF TypeInv, TypeOK
<1>2. \A j \in DOMAIN pending_replies' :
        /\ j \in Nat /\ Gap(i, j) \in DOMAIN pending_replies \ {i}
        /\ pending_replies'[j] = pending_replies[Gap(i, j)]
  BY <1>1, WithoutEntries
<1>3. \A j, k \in Nat : Gap(i, j) = Gap(i, k) => j = k
  BY <1>1 DEF Gap
<1>4. PendingSpent'
  BY <1>2 DEF ReplyInv, PendingSpent
<1>5. PendingOnce'
  BY <1>2, <1>3 DEF ReplyInv, PendingOnce
<1> QED
  BY <1>2, <1>4, <1>5

\* sys_ipc_reply whose send fails: the entry is gone.
LEMMA ReplyGoes ==
  ASSUME TypeInv, ReplyInv, NEW t \in Slots, NEW id, ReplyFails(t, id), Quiet,
         \A r : Spent(r) => Spent(r)'
  PROVE  ReplyInv'
<1>1. RepliesStay
  BY QuietReplies
<1>2. PICK i \in DOMAIN pending_replies : pending_replies' = Without(pending_replies, i)
  BY DEF ReplyFails
<1>3. /\ PendingSpent' /\ PendingOnce'
      /\ \A j \in DOMAIN pending_replies' :
           \E k \in DOMAIN pending_replies : pending_replies'[j] = pending_replies[k]
  BY <1>2, EntryGoes
<1>4. AnsweredNotPending'
  BY <1>1, <1>3 DEF ReplyInv, AnsweredNotPending, RepliesStay
<1> QED
  BY <1>1, <1>3, <1>4, ReplyStays DEF ReplyInv

\* sys_ipc_reply: the request that was pending has a reply on its way.
LEMMA ReplyBegins ==
  ASSUME TypeInv, ReplyInv, NEW t \in Slots, NEW id, Reply(t, id), NEW m, Creates(t, m),
         \A r : Spent(r) => Spent(r)'
  PROVE  ReplyInv'
<1>1. PICK i \in DOMAIN pending_replies :
        /\ pending_replies' = Without(pending_replies, i)
        /\ Create(t, [mem |-> 0, from |-> t, msg_id |-> id, sender |-> 0,
                      reply_port |-> 0, flag |-> "reply",
                      answers |-> pending_replies[i].request])
  BY DEF Reply
<1> DEFINE r == pending_replies[i].request
<1> HIDE DEF r
<1>2. hand'[t].answers = r /\ \A u \in Slots : u # t => hand'[u] = hand[u]
  BY <1>1 DEF TypeInv, TypeOK, Create, r
<1>3. \A u : Replying(u)' => u = t \/ (Replying(u) /\ hand'[u] = hand[u])
  BY <1>2 DEF Replying
<1>4. \A q, j : LinkedReply(q, j)' => LinkedReply(q, j) /\ queue'[q][j] = queue[q][j]
  BY DEF Creates, LinkedReply, Linked
<1>5. /\ PendingSpent' /\ PendingOnce'
      /\ \A j \in DOMAIN pending_replies' :
           \E k \in DOMAIN pending_replies :
             k # i /\ pending_replies'[j] = pending_replies[k]
  BY <1>1, EntryGoes
<1>6. Spent(r)
  BY DEF ReplyInv, PendingSpent, r
<1>7. /\ \A q, j : LinkedReply(q, j) => queue[q][j].answers # r
      /\ \A u : Replying(u) => hand[u].answers # r
  BY DEF ReplyInv, AnsweredNotPending, r
<1>8. \A k \in DOMAIN pending_replies : k # i => pending_replies[k].request # r
  BY DEF ReplyInv, PendingOnce, r
<1>9. AnsweredSpent'
  BY <1>2, <1>3, <1>4, <1>6 DEF ReplyInv, AnsweredSpent
<1>10. AnsweredNotPending'
  <2> SUFFICES ASSUME NEW j \in DOMAIN pending_replies'
               PROVE  /\ \A q, k : LinkedReply(q, k)' =>
                           queue'[q][k].answers # pending_replies'[j].request
                      /\ \A u : Replying(u)' => hand'[u].answers # pending_replies'[j].request
    BY DEF AnsweredNotPending
  <2>1. PICK k \in DOMAIN pending_replies : k # i /\ pending_replies'[j] = pending_replies[k]
    BY <1>5
  <2> QED
    BY <1>2, <1>3, <1>4, <1>8, <2>1 DEF ReplyInv, AnsweredNotPending
<1>11. RepliesOnce'
  BY <1>2, <1>3, <1>4, <1>7 DEF ReplyInv, RepliesOnce
<1> QED
  BY <1>5, <1>9, <1>10, <1>11 DEF ReplyInv

\* ipc_add_reply: a request becomes pending when it is delivered.
LEMMA ReplyDelivers ==
  ASSUME TypeInv, MemInv, ReplyInv, NEW t \in Slots, Frees(t), Deliver(t),
         \A r : Spent(r) => Spent(r)'
  PROVE  ReplyInv'
<1>1. RepliesStay
  BY QuietReplies
<1>2. CASE UNCHANGED pending_replies
  BY <1>1, <1>2, ReplyStays
<1>3. CASE ~ UNCHANGED pending_replies
  <2>0. hand[t] \in Messages /\ hand[t].mem \in Mems
    BY LinkedTyped DEF Frees, Messages
  <2> PICK r \in Mems : r = hand[t].mem
    BY <2>0
  <2> DEFINE e == [request_id |-> hand[t].msg_id, reply_port |-> hand[t].sender,
                   request |-> r]
  <2>1. pending_replies' = <<e>> \o pending_replies /\ Held(t)
    BY <1>3 DEF Deliver, Frees
  <2>2. pending_replies \in Seq(PendingReply) /\ e.request = r
    BY DEF TypeInv, TypeOK
  <2> HIDE DEF e
  <2>3. ASSUME NEW j \in DOMAIN pending_replies'
        PROVE  \/ j = 1 /\ pending_replies'[j].request = r
               \/ /\ j \in Nat \ {0, 1} /\ j - 1 \in DOMAIN pending_replies
                  /\ pending_replies'[j] = pending_replies[j - 1]
    <3>1. /\ DOMAIN pending_replies' = 1 .. Len(pending_replies) + 1
          /\ pending_replies'[j] = IF j <= 1 THEN e ELSE pending_replies[j - 1]
      BY <2>1, <2>2, <2>3
    <3> QED
      BY <2>2, <2>3, <3>1
  <2>4. Spent(r)'
    <3>1. r \in Mems /\ r < next_mem /\ UNCHANGED <<queue, next_mem>>
      BY <2>1, LinkedTyped DEF Messages, MemInv, FreshMems, Frees, Drops
    <3>2. \A u : Held(u)' => u # t /\ Held(u) /\ hand'[u] = hand[u]
      BY DropsHeld DEF Frees
    <3>3. \A p, i : Linked(p, i)' => Linked(p, i) /\ queue'[p][i].mem # r
      BY <2>1, <3>1 DEF Linked, MemInv, HeldNotLinked
    <3>4. \A u : Held(u)' => hand'[u].mem # r
      BY <2>1, <3>2 DEF MemInv, HeldOnce
    <3> QED
      BY <3>1, <3>3, <3>4 DEF Spent
  <2>5. \A s : Spent(s) => s # r
    BY <2>1 DEF Spent
  <2>6. PendingSpent'
    BY <2>3, <2>4 DEF ReplyInv, PendingSpent
  <2>7. PendingOnce'
    BY <2>3, <2>5 DEF ReplyInv, PendingSpent, PendingOnce
  <2>8. AnsweredNotPending'
    BY <1>1, <2>3, <2>5 DEF ReplyInv, AnsweredSpent, AnsweredNotPending, RepliesStay
  <2> QED
    BY <1>1, <2>6, <2>7, <2>8, ReplyStays DEF ReplyInv
<1> QED
  BY <1>2, <1>3

LEMMA ReplyInit == Init => ReplyInv
<1> SUFFICES ASSUME Init PROVE ReplyInv
  OBVIOUS
<1>1. (\A p, i : ~LinkedReply(p, i)) /\ (\A t : ~Replying(t))
  BY DEF Init, Linked, LinkedReply, Replying
<1>2. DOMAIN pending_replies = {}
  BY DEF Init
<1> QED
  BY <1>1, <1>2 DEF ReplyInv, PendingSpent, PendingOnce, AnsweredSpent,
                    AnsweredNotPending, RepliesOnce

LEMMA ReplyInvStep == TypeInv /\ MemInv /\ ReplyInv /\ [Next]_vars => ReplyInv'
<1> SUFFICES ASSUME TypeInv, MemInv, ReplyInv, [Next]_vars PROVE ReplyInv'
  OBVIOUS
<1>1. CASE UNCHANGED vars
  BY <1>1 DEF vars, portVars, taskVars, ReplyInv, PendingSpent, PendingOnce,
              AnsweredSpent, AnsweredNotPending, RepliesOnce, LinkedReply, Replying,
              Spent, Linked, Held
<1>2. CASE Next
  <2>1. PICK t \in Slots : Kind(t)
    BY <1>2, Kinds DEF Next
  <2>2. \A r : Spent(r) => Spent(r)'
    BY <2>1, SpentStays
  <2>3. CASE /\ UNCHANGED pending_replies
             /\ \/ Quiet \/ Begins(t) \/ Retries(t) \/ Frees(t)
                \/ KeepsHands \/ \E p \in Ports : Opens(p)
    BY <2>2, <2>3, QuietReplies, ReplyStays
  <2>4. CASE Commits(t)
    BY <2>2, <2>4, ReplyCommits
  <2>5. ASSUME NEW p \in Ports, Takes(t, p) PROVE ReplyInv'
    BY <2>2, <2>5, ReplyTakes
  <2>6. ASSUME NEW id \in MsgIds, Quiet, ReplyFails(t, id) PROVE ReplyInv'
    BY <2>2, <2>6, ReplyGoes
  <2>7. ASSUME NEW id \in MsgIds, NEW m \in Messages, Reply(t, id), Creates(t, m)
        PROVE  ReplyInv'
    BY <2>2, <2>7, ReplyBegins
  <2>8. CASE Frees(t) /\ Deliver(t)
    BY <2>2, <2>8, ReplyDelivers
  <2> QED
    BY <2>1, <2>3, <2>4, <2>5, <2>6, <2>7, <2>8
    DEF Kind, Begins, Retries, Opens, Empties, Releases, KeepsHands
<1> QED
  BY <1>1, <1>2

\* While a reply to a request is on its way, in a queue or in a call, the request is
\* not pending, and no second reply to it is on its way: whatever fails in between.
THEOREM RequestsAreAnsweredOnce == Spec => []OneReplyPerRequest
<1>1. ReplyInv => OneReplyPerRequest
  <2> SUFFICES ASSUME ReplyInv PROVE OneReplyPerRequest
    OBVIOUS
  <2>1. ASSUME NEW m \in LiveReplies
        PROVE  \/ \E p, i : LinkedReply(p, i) /\ m = queue[p][i]
               \/ \E t : Replying(t) /\ m = hand[t]
    <3>1. m # NoMsg /\ m.flag = "reply"
      BY DEF LiveReplies
    <3>2. \/ m \in UNION {{queue[p][i] : i \in DOMAIN queue[p]} :
                            p \in {q \in Ports : flags[q] = "used"}}
          \/ m \in {hand[t] : t \in Slots}
      BY DEF LiveReplies
    <3>3. ASSUME m \in UNION {{queue[p][i] : i \in DOMAIN queue[p]} :
                                p \in {q \in Ports : flags[q] = "used"}}
          PROVE  \E p \in Ports : \E i \in DOMAIN queue[p] : m = queue[p][i]
      BY <3>3
    <3>4. \/ \E p \in Ports : \E i \in DOMAIN queue[p] : m = queue[p][i]
          \/ \E t \in Slots : m = hand[t]
      BY <3>2, <3>3
    <3> QED
      BY <3>1, <3>4 DEF LinkedReply, Linked, Replying
  <2>2. \A m \in LiveReplies, i \in DOMAIN pending_replies :
          m.answers # pending_replies[i].request
    BY <2>1 DEF ReplyInv, AnsweredNotPending
  <2>3. \A m, n \in LiveReplies : m.answers = n.answers => m = n
    BY <2>1 DEF ReplyInv, RepliesOnce
  <2> QED
    BY <2>2, <2>3 DEF OneReplyPerRequest
<1> QED
  BY <1>1, TypeInit, TypeStep, MemInit, MemStep, ReplyInit, ReplyInvStep, PTL DEF Spec

-----------------------------------------------------------------------------
(* The ports implement the mailboxes.                                      *)

\* What the mapping of INSTANCE Mailbox shows of the ports.
OpenPorts == {p \in Ports : flags[p] = "used"}
Boxes == [p \in Ports |-> IF flags[p] = "used" THEN queue[p] ELSE <<>>]

\* The steps of sys_ipc_port_allocate and sys_ipc_port_deallocate ...
LEMMA OpensMailbox ==
  ASSUME TypeInv, NEW p, Opens(p)
  PROVE  Mail!Open(p)
<1>1. /\ p \in Ports /\ flags[p] = "free" /\ flags'[p] = "used" /\ queue'[p] = <<>>
      /\ \A q \in Ports : q # p => flags'[q] = flags[q] /\ queue'[q] = queue[q]
  BY LinkedTyped DEF Opens, TypeInv, TypeOK
<1>2. OpenPorts' = OpenPorts \cup {p} /\ p \notin OpenPorts
  BY <1>1 DEF OpenPorts
<1>3. Boxes' = Boxes
  BY <1>1 DEF Boxes
<1> QED
  BY <1>2, <1>3 DEF Mail!Open, OpenPorts, Boxes

LEMMA ClosesMailbox ==
  ASSUME TypeInv, NEW p \in Ports, UNCHANGED queue,
         flags' \in {flags, [flags EXCEPT ![p] = "free"]}
  PROVE  Mail!Close(p) \/ UNCHANGED <<OpenPorts, Boxes>>
<1>1. CASE UNCHANGED flags \/ flags[p] # "used"
  <2>1. \A q \in Ports : flags'[q] = "used" <=> flags[q] = "used"
    BY <1>1 DEF TypeInv, TypeOK
  <2> QED
    BY <2>1 DEF OpenPorts, Boxes
<1>2. CASE flags[p] = "used" /\ flags' = [flags EXCEPT ![p] = "free"]
  <2>1. flags'[p] = "free" /\ \A q \in Ports : q # p => flags'[q] = flags[q]
    BY <1>2 DEF TypeInv, TypeOK
  <2>2. OpenPorts' = OpenPorts \ {p} /\ p \in OpenPorts
    BY <1>2, <2>1 DEF OpenPorts
  <2>3. Boxes' = [Boxes EXCEPT ![p] = <<>>]
    BY <2>1 DEF Boxes
  <2> QED
    BY <2>2, <2>3 DEF Mail!Close, OpenPorts, Boxes
<1> QED
  BY <1>1, <1>2

\* ... the linking, by sys_ipc_send, of a message that is nowhere else: into a port in
\* use, or into a free one, where nobody sees it ...
LEMMA PutsIntoMailbox ==
  ASSUME TypeInv, MemInv, NEW t \in Slots, Commits(t)
  PROVE  (\E p \in Ports : Mail!Put(p)) \/ UNCHANGED <<OpenPorts, Boxes>>
<1> DEFINE p == dest[t]
           m == hand[t]
<1>1. /\ p \in Ports /\ m \in Messages /\ Held(t) /\ UNCHANGED flags
      /\ queue' = [queue EXCEPT ![p] = Append(@, m)]
  BY CommitLinks DEF Commits, Drops
<1>2. queue \in [Ports -> Seq(Messages)]
  BY LinkedTyped
<1>3. OpenPorts' = OpenPorts
  BY <1>1 DEF OpenPorts
<1>4. \A q, i : Linked(q, i) => queue[q][i] # m
  BY <1>1 DEF MemInv, HeldNotLinked
<1> HIDE DEF p, m
<1>5. CASE flags[p] = "used"
  <2>1. Boxes' = [Boxes EXCEPT ![p] = Append(@, m)]
    BY <1>1, <1>2, <1>5 DEF Boxes
  <2>2. m \in {Boxes'[p][i] : i \in DOMAIN Boxes'[p]}
    <3>1. Boxes'[p] = Append(queue[p], m) /\ queue[p] \in Seq(Messages)
      BY <1>1, <1>2, <1>5 DEF Boxes
    <3>2. /\ Len(queue[p]) + 1 \in DOMAIN Append(queue[p], m)
          /\ Append(queue[p], m)[Len(queue[p]) + 1] = m
      BY <3>1, <1>1
    <3> QED
      BY <3>1, <3>2
  <2>3. \A q \in Ports : m \notin {Boxes[q][i] : i \in DOMAIN Boxes[q]}
    BY <1>4 DEF Boxes, Linked
  <2>4. p \in OpenPorts
    BY <1>1, <1>5 DEF OpenPorts
  <2> QED
    BY <1>1, <1>3, <2>1, <2>2, <2>3, <2>4 DEF Mail!Put, Mail!Contents, OpenPorts, Boxes
<1>6. CASE flags[p] # "used"
  BY <1>1, <1>2, <1>3, <1>6 DEF Boxes
<1> QED
  BY <1>5, <1>6

\* ... and the unlinking of the first message by sys_ipc_receive.
LEMMA TakesFromMailbox ==
  ASSUME TypeInv, NEW t \in Slots, NEW p, Takes(t, p)
  PROVE  Mail!Take(p) \/ UNCHANGED <<OpenPorts, Boxes>>
<1>1. /\ p \in Ports /\ queue[p] # <<>> /\ UNCHANGED flags
      /\ queue' = [queue EXCEPT ![p] = Tail(@)]
      /\ queue \in [Ports -> Seq(Messages)]
  BY LinkedTyped DEF Takes
<1>2. OpenPorts' = OpenPorts
  BY <1>1 DEF OpenPorts
<1>3. CASE flags[p] = "used"
  <2>1. p \in OpenPorts /\ Boxes[p] # <<>> /\ Boxes' = [Boxes EXCEPT ![p] = Tail(@)]
    BY <1>1, <1>3 DEF OpenPorts, Boxes
  <2> QED
    BY <1>2, <2>1 DEF Mail!Take, OpenPorts, Boxes
<1>4. CASE flags[p] # "used"
  BY <1>1, <1>2, <1>4 DEF Boxes
<1> QED
  BY <1>3, <1>4

LEMMA MailboxStep ==
  TypeInv /\ MemInv /\ [Next]_vars => Mail!Next \/ UNCHANGED <<OpenPorts, Boxes>>
<1> SUFFICES ASSUME TypeInv, MemInv, [Next]_vars
             PROVE  Mail!Next \/ UNCHANGED <<OpenPorts, Boxes>>
  OBVIOUS
<1>1. ASSUME UNCHANGED <<flags, queue>> PROVE UNCHANGED <<OpenPorts, Boxes>>
  BY <1>1 DEF OpenPorts, Boxes
<1>2. CASE UNCHANGED vars
  BY <1>1, <1>2 DEF vars, portVars
<1>3. CASE Next
  <2>1. PICK t \in Slots : Kind(t)
    BY <1>3, Kinds DEF Next
  <2>2. ASSUME \/ Quiet \/ Begins(t) \/ Retries(t) \/ Frees(t)
               \/ \E id \in MsgIds, m \in Messages : Reply(t, id) /\ Creates(t, m)
        PROVE  UNCHANGED <<OpenPorts, Boxes>>
    BY <1>1, <2>2 DEF Quiet, Begins, Retries, Creates, Frees, Drops
  <2>3. CASE Commits(t)
    BY <2>3, PutsIntoMailbox DEF Mail!Next
  <2>4. ASSUME NEW p \in Ports, Takes(t, p) \/ Opens(p)
        PROVE  Mail!Next \/ UNCHANGED <<OpenPorts, Boxes>>
    BY <2>4, TakesFromMailbox, OpensMailbox DEF Mail!Next
  <2>5. ASSUME NEW p \in Ports, Empties(p) \/ Releases(p)
        PROVE  Mail!Next \/ UNCHANGED <<OpenPorts, Boxes>>
    BY <2>5, ClosesMailbox DEF Empties, Releases, KeepsHands, Mail!Next
  <2> QED
    BY <2>1, <2>2, <2>3, <2>4, <2>5 DEF Kind
<1> QED
  BY <1>2, <1>3

\* A port in use is a FIFO mailbox: it opens empty, gains one new message at a time,
\* loses the oldest or, when it closes, all; nothing else that the core does is seen.
THEOREM PortsAreMailboxes == Spec => ImplementsMailbox
<1>1. Init => Mail!Init
  BY Geometry DEF Init, Mail!Init
<1>2. TypeInv /\ MemInv /\ [Next]_vars => [Mail!Next]_<<OpenPorts, Boxes>>
  BY MailboxStep
<1> QED
  BY <1>1, <1>2, TypeInit, TypeStep, MemInit, MemStep, PTL
  DEF Spec, ImplementsMailbox, Mail!Spec, OpenPorts, Boxes

=============================================================================
