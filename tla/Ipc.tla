-------------------------------- MODULE Ipc --------------------------------
(***************************************************************************)
(* The IPC core of the microkernel, kernel/ipc.c: ports, their message     *)
(* queues and waiter slots, and the list of pending replies.               *)
(*                                                                         *)
(* A task is named by its slot in task[], the value schedule() stores in   *)
(* kernel_state->current_task.  A system call runs without preemption      *)
(* (do_timer reschedules user mode only), so a task can be interleaved     *)
(* with others only where it calls schedule() and where a copy to or from  *)
(* user space can fault; pc[t] names the places in between:                *)
(*   "user"      not in an IPC call                                        *)
(*   "copied"    sys_ipc_send has validated the port and copied the        *)
(*               message into the kernel, and has not yet done cli()       *)
(*   "send_wait" in schedule(), the queue was full                         *)
(*   "recv_wait" in schedule(), the queue of the named port was empty      *)
(*   "any_wait"  in schedule(), receiving from port 0 ("any")              *)
(*   "deliver"   sys_ipc_receive has dequeued, and copies to user space    *)
(*   "wake_recv", "wake_send"  in the wake_up() of ipc_wakeup_receiver, of *)
(*               ipc_wakeup_sender                                         *)
(*   "free_recv", "free_send"  in one of the wake_up()s of                 *)
(*               ipc_deallocate_port                                       *)
(*   "wild"      it dereferenced an uninitialised pointer                  *)
(* wake_up() is itself a system call that sends to the process server and  *)
(* may sleep, so other tasks run between it and the next statement; what   *)
(* it does to the process server's port is not followed.                   *)
(* schedule() may return to a blocked task at any time: nothing in it      *)
(* looks at task->state, so the model has spurious resumptions, and        *)
(* records in woken who was sent a wake_up() since it last blocked.        *)
(* A kernel message is named by its allocation, mem; kmalloc'ed addresses  *)
(* are never reused in the model, so freed is what was given to kfree.     *)
(***************************************************************************)
EXTENDS Integers, Sequences, FiniteSets

CONSTANTS
  Slots,               \* the task slots in use
  Pid,                 \* the pid of the task in each slot
  TaskCaps,            \* the capabilities of the task in each slot
  LowCaps,             \* the capabilities in the nibble 0x0F of caps
  CAP_SYSTEM,          \* the capabilities required by the reserved ports
  MAX_PORTS, PORT_RESERVED_START, PORT_RESERVED_END, PORT_DYNAMIC_START,
  MAX_MSG_QUEUE, TASK_ID_KERNEL,
  MsgIds, SenderPorts, \* the values of a header's msg_id and sender_port
  ReplyPorts,          \* ... and of its reply_port
  LimitValues,         \* what tasks give to sys_ipc_port_set, attribute 1
  CapValues,           \* ... attribute 2, and to sys_ipc_port_allocate
  DomainValues,        \* ... attribute 3
  Senders, Receivers,  \* the slots that send to, and name in a receive, a port
  MaxMem,              \* bound on the number of messages ever allocated
  NoTask, NoMsg        \* NULL

Ports == 0 .. MAX_PORTS - 1
Reserved == PORT_RESERVED_START .. PORT_RESERVED_END
Dynamic == PORT_DYNAMIC_START .. MAX_PORTS - 1

Mems == 0 .. MaxMem    \* 0 is NULL
Messages == [mem : Mems, from : Slots, msg_id : MsgIds, sender : Ports,
             reply_port : Ports, flag : {"none", "request", "reply"},
             answers : Mems]
PendingReply == [request_id : MsgIds, reply_port : Ports, request : Mems]

ASSUME ConstantsAssumption ==
  /\ Slots \subseteq Nat
  /\ TASK_ID_KERNEL = 0
  /\ Pid \in [Slots -> Nat]
  /\ MAX_PORTS \in Nat /\ MaxMem \in Nat
  /\ MAX_MSG_QUEUE \in Nat
  /\ PORT_RESERVED_START \in Nat \ {0} /\ PORT_RESERVED_END \in Nat
  /\ PORT_DYNAMIC_START \in Nat
  /\ PORT_RESERVED_END < PORT_DYNAMIC_START
  /\ PORT_RESERVED_END < MAX_PORTS
  /\ LimitValues \subseteq Nat
  /\ SenderPorts \subseteq Ports /\ ReplyPorts \subseteq Ports
  /\ Senders \in [Ports -> SUBSET Slots]
  /\ Receivers \in [Ports -> SUBSET Slots]
  /\ NoTask \notin Slots
  /\ NoMsg \notin Messages

VARIABLES
  flags, owner, queue, max_messages, recv_wait, send_wait, required_caps,
  domain,            \* the fields of ipc_ports[]
  pending_replies,   \* the list, most recent first
  pc, dest, hand,    \* of each task: place, port argument, kernel_msg
  nonblock,          \* of each task: MSG_FLAG_NONBLOCK is set in its call
  woken,             \* blocked tasks named in a wake_up() since they blocked
  next_mem, freed    \* kmalloc and kfree of struct ipc_message

portVars == <<flags, owner, queue, max_messages, recv_wait, send_wait,
              required_caps, domain>>
taskVars == <<pc, dest, hand, nonblock>>
vars == <<portVars, pending_replies, taskVars, woken, next_mem, freed>>

-----------------------------------------------------------------------------
(* Ports. *)

\* ipc_init
Init ==
  /\ flags = [p \in Ports |-> IF p \in Reserved THEN "used" ELSE "free"]
  /\ owner = [p \in Ports |-> IF p \in Reserved THEN TASK_ID_KERNEL ELSE 0]
  /\ queue = [p \in Ports |-> <<>>]
  /\ max_messages = [p \in Ports |-> MAX_MSG_QUEUE]
  /\ recv_wait = [p \in Ports |-> NoTask]
  /\ send_wait = [p \in Ports |-> NoTask]
  /\ required_caps = [p \in Ports |-> IF p \in Reserved THEN CAP_SYSTEM ELSE {}]
  /\ domain = [p \in Ports |-> {}]
  /\ pending_replies = <<>>
  /\ pc = [t \in Slots |-> "user"]
  /\ dest = [t \in Slots |-> 0]
  /\ hand = [t \in Slots |-> NoMsg]
  /\ nonblock = [t \in Slots |-> FALSE]
  /\ woken = {}
  /\ next_mem = 1
  /\ freed = {}

\* port_validate_access
MayAccess(t, p) ==
  /\ flags[p] = "used"
  /\ \/ Pid[t] = TASK_ID_KERNEL
     \/ /\ required_caps[p] \subseteq TaskCaps[t]
        /\ domain[p] \in {{}, TaskCaps[t] \cap LowCaps}

\* The queue reset of ipc_allocate_port
EmptyQueue_kept(p) == queue
EmptyQueue(p) == [queue EXCEPT ![p] = <<>>]

\* ipc_allocate_port: the first free dynamic port.  max_messages and domain
\* keep what the port's last owner set.
AllocatePort(t, caps) ==
  /\ pc[t] = "user"
  /\ \E p \in Dynamic :
       /\ flags[p] = "free"
       /\ \A q \in Dynamic : q < p => flags[q] # "free"
       /\ flags' = [flags EXCEPT ![p] = "used"]
       /\ owner' = [owner EXCEPT ![p] = t]
       /\ required_caps' = [required_caps EXCEPT ![p] = caps]
       /\ queue' = EmptyQueue(p)
       /\ recv_wait' = [recv_wait EXCEPT ![p] = NoTask]
       /\ send_wait' = [send_wait EXCEPT ![p] = NoTask]
  /\ UNCHANGED <<max_messages, domain, pending_replies, taskVars, woken,
                 next_mem, freed>>

MemOf(q) == {q[i].mem : i \in DOMAIN q}

\* wake_up() of the task that a waiter slot names
WakeUp_forgotten(w) == UNCHANGED woken
WakeUp(w) == woken' = woken \cup {w}

\* Task t goes on to a place in a call on port p.
Goto(t, place, p) ==
  /\ pc' = [pc EXCEPT ![t] = place]
  /\ dest' = [dest EXCEPT ![t] = p]

\* The last two assignments of ipc_deallocate_port
ReleasePort(t, p) ==
  /\ flags' = [flags EXCEPT ![p] = "free"]
  /\ owner' = [owner EXCEPT ![p] = 0]
  /\ Goto(t, "user", 0)
  /\ UNCHANGED woken

\* ipc_deallocate_port after the wake_up() of recv_wait
WakeSenderAndRelease_untested(t, p) ==
  /\ WakeUp(send_wait[p])
  /\ Goto(t, "free_send", p)
  /\ UNCHANGED <<flags, owner>>
WakeSenderAndRelease(t, p) ==
  \/ /\ send_wait[p] # NoTask
     /\ WakeUp(send_wait[p])
     /\ Goto(t, "free_send", p)
     /\ UNCHANGED <<flags, owner>>
  \/ /\ send_wait[p] = NoTask
     /\ ReleasePort(t, p)

MayDeallocate(t, p) == flags[p] = "used" /\ owner[p] = t

\* ipc_deallocate_port: queue_head and the waiter slots are left as they are,
\* and the port is in use until the wake_up()s have returned.
DeallocatePort(t, p) ==
  /\ pc[t] = "user"
  /\ MayDeallocate(t, p)
  /\ freed' = freed \cup MemOf(queue[p])
  /\ \/ /\ recv_wait[p] # NoTask
        /\ WakeUp(recv_wait[p])
        /\ Goto(t, "free_recv", p)
        /\ UNCHANGED <<flags, owner>>
     \/ /\ recv_wait[p] = NoTask
        /\ WakeSenderAndRelease(t, p)
  /\ UNCHANGED <<queue, max_messages, recv_wait, send_wait, required_caps,
                 domain, pending_replies, hand, nonblock, next_mem>>

DeallocateGoesOn(t) ==
  /\ \/ pc[t] = "free_recv" /\ WakeSenderAndRelease(t, dest[t])
     \/ pc[t] = "free_send" /\ ReleasePort(t, dest[t])
  /\ UNCHANGED <<queue, max_messages, recv_wait, send_wait, required_caps,
                 domain, pending_replies, hand, nonblock, next_mem, freed>>

\* sys_ipc_port_set.  There is no test of flags: slot 0 owns the free ports.
SetMaxMessages(t, p, v) ==
  /\ pc[t] = "user"
  /\ owner[p] = t
  /\ max_messages' = [max_messages EXCEPT ![p] = v]
  /\ UNCHANGED <<flags, owner, queue, recv_wait, send_wait, required_caps,
                 domain, pending_replies, taskVars, woken, next_mem, freed>>

SetRequiredCaps(t, p, caps) ==
  /\ pc[t] = "user"
  /\ owner[p] = t
  /\ required_caps' = [required_caps EXCEPT ![p] = caps]
  /\ UNCHANGED <<flags, owner, queue, max_messages, recv_wait, send_wait,
                 domain, pending_replies, taskVars, woken, next_mem, freed>>

SetDomain(t, p, d) ==
  /\ pc[t] = "user"
  /\ owner[p] = t
  /\ domain' = [domain EXCEPT ![p] = d]
  /\ UNCHANGED <<flags, owner, queue, max_messages, recv_wait, send_wait,
                 required_caps, pending_replies, taskVars, woken, next_mem,
                 freed>>

-----------------------------------------------------------------------------
(* Sending. *)

\* ipc_create_message: a new kernel message with the contents of m.
Create(t, m) ==
  /\ next_mem <= MaxMem
  /\ next_mem' = next_mem + 1
  /\ hand' = [hand EXCEPT ![t] = [m EXCEPT !.mem = next_mem]]
  /\ pc' = [pc EXCEPT ![t] = "copied"]

ReturnToUser(t) ==
  /\ pc' = [pc EXCEPT ![t] = "user"]
  /\ dest' = [dest EXCEPT ![t] = 0]
  /\ hand' = [hand EXCEPT ![t] = NoMsg]
  /\ nonblock' = [nonblock EXCEPT ![t] = FALSE]

\* sys_ipc_send up to cli(): validate, copy the header, create the message.
SendBegin(t, p, id, from_port, back, flag, nb) ==
  /\ pc[t] = "user"
  /\ t \in Senders[p]
  /\ MayAccess(t, p)
  /\ Create(t, [mem |-> 0, from |-> t, msg_id |-> id, sender |-> from_port,
                reply_port |-> back, flag |-> flag, answers |-> 0])
  /\ dest' = [dest EXCEPT ![t] = p]
  /\ nonblock' = [nonblock EXCEPT ![t] = nb]
  /\ UNCHANGED <<portVars, pending_replies, woken, freed>>

\* ipc_queue_message
Enqueue_atHead(p, m) == queue' = [queue EXCEPT ![p] = <<m>> \o @]
Enqueue(p, m) == queue' = [queue EXCEPT ![p] = Append(@, m)]

Full(p) == Len(queue[p]) >= max_messages[p]

\* sys_ipc_send after cli(), with room.  The flags of the port are not tested
\* again.
SendCommit(t) ==
  LET p == dest[t] IN
  /\ pc[t] = "copied"
  /\ ~Full(p)
  /\ Enqueue(p, hand[t])
  /\ \/ /\ recv_wait[p] = NoTask
        /\ ReturnToUser(t)
        /\ UNCHANGED woken
     \/ /\ recv_wait[p] # NoTask
        /\ WakeUp(recv_wait[p])
        /\ Goto(t, "wake_recv", p)
        /\ hand' = [hand EXCEPT ![t] = NoMsg]
        /\ UNCHANGED nonblock
  /\ UNCHANGED <<flags, owner, max_messages, recv_wait, send_wait,
                 required_caps, domain, pending_replies, next_mem, freed>>

\* ipc_wakeup_receiver, when wake_up() has returned: whoever is in the slot by
\* now loses its place.
ReceiverWoken(t) ==
  /\ pc[t] = "wake_recv"
  /\ recv_wait' = [recv_wait EXCEPT ![dest[t]] = NoTask]
  /\ ReturnToUser(t)
  /\ UNCHANGED <<flags, owner, queue, max_messages, send_wait, required_caps,
                 domain, pending_replies, woken, next_mem, freed>>

\* ... full, MSG_FLAG_NONBLOCK: -EAGAIN
SendAgain(t) ==
  /\ pc[t] = "copied"
  /\ Full(dest[t])
  /\ nonblock[t]
  /\ freed' = freed \cup {hand[t].mem}
  /\ ReturnToUser(t)
  /\ UNCHANGED <<portVars, pending_replies, woken, next_mem>>

\* ... full, blocking: take the one send_wait slot and call schedule().
SendBlock(t) ==
  /\ pc[t] = "copied"
  /\ Full(dest[t])
  /\ ~nonblock[t]
  /\ send_wait' = [send_wait EXCEPT ![dest[t]] = t]
  /\ pc' = [pc EXCEPT ![t] = "send_wait"]
  /\ woken' = woken \ {t}
  /\ UNCHANGED <<flags, owner, queue, max_messages, recv_wait, required_caps,
                 domain, pending_replies, dest, hand, nonblock, next_mem, freed>>

\* schedule() returned: sys_ipc_send calls itself with the same arguments and
\* creates the message anew (the first copy is never freed) ...
SendRetry(t) ==
  /\ pc[t] = "send_wait"
  /\ MayAccess(t, dest[t])
  /\ Create(t, hand[t])
  /\ UNCHANGED <<portVars, pending_replies, dest, nonblock, woken, freed>>

\* ... or fails: -EPERM, or -ENOMEM from kmalloc
SendRetryFails(t) ==
  /\ pc[t] = "send_wait"
  /\ ReturnToUser(t)
  /\ UNCHANGED <<portVars, pending_replies, woken, next_mem, freed>>

-----------------------------------------------------------------------------
(* Receiving. *)

\* ipc_dequeue_message
Unlink_last(p) == queue' = [queue EXCEPT ![p] = SubSeq(@, 1, Len(@) - 1)]
Unlink(p) == queue' = [queue EXCEPT ![p] = Tail(@)]

\* A message is taken from port p, with cli(); dest[t] is now its receiver.
Dequeue(t, p) ==
  /\ queue[p] # <<>>
  /\ hand' = [hand EXCEPT ![t] = Head(queue[p])]
  /\ Unlink(p)
  /\ \/ /\ send_wait[p] = NoTask
        /\ Goto(t, "deliver", p)
        /\ UNCHANGED woken
     \/ /\ send_wait[p] # NoTask
        /\ WakeUp(send_wait[p])
        /\ Goto(t, "wake_send", p)
  /\ UNCHANGED <<flags, owner, max_messages, recv_wait, send_wait,
                 required_caps, domain, pending_replies, nonblock, next_mem,
                 freed>>

\* ipc_wakeup_sender, when wake_up() has returned
SenderWoken(t) ==
  /\ pc[t] = "wake_send"
  /\ send_wait' = [send_wait EXCEPT ![dest[t]] = NoTask]
  /\ pc' = [pc EXCEPT ![t] = "deliver"]
  /\ UNCHANGED <<flags, owner, queue, max_messages, recv_wait, required_caps,
                 domain, pending_replies, dest, hand, nonblock, woken,
                 next_mem, freed>>

\* Take the one recv_wait slot of p and call schedule().
BlockOn(t, p) ==
  /\ queue[p] = <<>>
  /\ recv_wait' = [recv_wait EXCEPT ![p] = t]
  /\ Goto(t, "recv_wait", p)
  /\ woken' = woken \ {t}
  /\ UNCHANGED <<flags, owner, queue, max_messages, send_wait, required_caps,
                 domain, pending_replies, hand, nonblock, next_mem, freed>>

\* sys_ipc_receive from a port by its name; what fails at once (-EPERM,
\* -EAGAIN) changes nothing.
Receive(t, p) ==
  /\ pc[t] = "user"
  /\ t \in Receivers[p]
  /\ MayAccess(t, p)
  /\ Dequeue(t, p) \/ BlockOn(t, p)

\* schedule() returned: sys_ipc_receive calls itself.
ReceiveRetry(t) ==
  /\ pc[t] = "recv_wait"
  /\ MayAccess(t, dest[t])
  /\ Dequeue(t, dest[t]) \/ BlockOn(t, dest[t])

ReceiveRetryFails(t) ==
  /\ pc[t] = "recv_wait"
  /\ ~MayAccess(t, dest[t])
  /\ ReturnToUser(t)
  /\ UNCHANGED <<portVars, pending_replies, woken, next_mem, freed>>

\* The ports that the loop of sys_ipc_receive(0) stops at: it compares the
\* owner, a slot, with a pid, and does not test the flags.
AnySource(t) == {p \in Dynamic : owner[p] = Pid[t] /\ queue[p] # <<>>}

\* sys_ipc_receive from port 0
ReceiveAny(t) ==
  /\ pc[t] \in {"user", "any_wait"}
  /\ \E p \in AnySource(t) :
       /\ \A q \in AnySource(t) : p <= q
       /\ Dequeue(t, p)

\* ... no source: kernel_msg was never assigned.  When it happens to be NULL
\* the call blocks (or returns -EAGAIN, no change), registered nowhere;
\* otherwise it goes on with src_port = NULL.
ReceiveAnyEmpty(t) ==
  /\ pc[t] \in {"user", "any_wait"}
  /\ AnySource(t) = {}
  /\ \/ pc' = [pc EXCEPT ![t] = "any_wait"] /\ woken' = woken \ {t}
     \/ pc' = [pc EXCEPT ![t] = "wild"] /\ UNCHANGED woken
  /\ UNCHANGED <<portVars, pending_replies, dest, hand, nonblock, next_mem,
                 freed>>

\* The end of sys_ipc_receive: copy out (-ENOSPC loses the message as well),
\* ipc_add_reply of a request, whose kmalloc may fail unnoticed, and
\* ipc_free_message.
Deliver(t) ==
  LET m == hand[t] IN
  /\ pc[t] = "deliver"
  /\ \/ /\ m.flag = "request"
        /\ pending_replies' = <<[request_id |-> m.msg_id, reply_port |-> m.sender,
                                 request |-> m.mem]>> \o pending_replies
     \/ UNCHANGED pending_replies
  /\ freed' = freed \cup {m.mem}
  /\ ReturnToUser(t)
  /\ UNCHANGED <<portVars, woken, next_mem>>

-----------------------------------------------------------------------------
(* Replying. *)

\* ipc_find_reply: the place of the most recent entry with this id
IsFound(id, i) ==
  /\ i \in DOMAIN pending_replies
  /\ pending_replies[i].request_id = id
  /\ \A j \in 1 .. i - 1 : pending_replies[j].request_id # id

Without_kept(s, i) == s
Without(s, i) == SubSeq(s, 1, i - 1) \o SubSeq(s, i + 1, Len(s))

\* sys_ipc_reply: unlink the entry, then sys_ipc_send to its port ...
Reply(t, id) ==
  /\ pc[t] = "user"
  /\ \E i \in DOMAIN pending_replies :
       LET r == pending_replies[i] IN
       /\ IsFound(id, i)
       /\ pending_replies' = Without(pending_replies, i)
       /\ t \in Senders[r.reply_port]
       /\ MayAccess(t, r.reply_port)
       /\ Create(t, [mem |-> 0, from |-> t, msg_id |-> id, sender |-> 0,
                     reply_port |-> 0, flag |-> "reply",
                     answers |-> r.request])
       /\ dest' = [dest EXCEPT ![t] = r.reply_port]
       /\ nonblock' = [nonblock EXCEPT ![t] = FALSE]
  /\ UNCHANGED <<portVars, woken, freed>>

\* ... which may fail (-EPERM, -ENOMEM): the entry is freed all the same.
ReplyFails(t, id) ==
  /\ pc[t] = "user"
  /\ \E i \in DOMAIN pending_replies :
       /\ IsFound(id, i)
       /\ pending_replies' = Without(pending_replies, i)
  /\ UNCHANGED <<portVars, taskVars, woken, next_mem, freed>>

-----------------------------------------------------------------------------

PortStep(t) ==
  \/ \E caps \in CapValues : AllocatePort(t, caps)
  \/ \E p \in Ports :
       \/ DeallocatePort(t, p)
       \/ \E v \in LimitValues : SetMaxMessages(t, p, v)
       \/ \E caps \in CapValues : SetRequiredCaps(t, p, caps)
       \/ \E d \in DomainValues : SetDomain(t, p, d)
  \/ DeallocateGoesOn(t)

SendStep(t) ==
  \/ \E p \in Ports, from_port \in SenderPorts, back \in ReplyPorts, id \in MsgIds,
        flag \in {"none", "request"}, nb \in BOOLEAN :
          SendBegin(t, p, id, from_port, back, flag, nb)
  \/ SendCommit(t)
  \/ ReceiverWoken(t)
  \/ SendAgain(t)
  \/ SendBlock(t)
  \/ SendRetry(t)
  \/ SendRetryFails(t)

ReceiveStep(t) ==
  \/ \E p \in Ports \ {0} : Receive(t, p)
  \/ ReceiveRetry(t)
  \/ ReceiveRetryFails(t)
  \/ ReceiveAny(t)
  \/ ReceiveAnyEmpty(t)
  \/ SenderWoken(t)
  \/ Deliver(t)

ReplyStep(t) == \E id \in MsgIds : Reply(t, id) \/ ReplyFails(t, id)

Next == \E t \in Slots :
          PortStep(t) \/ SendStep(t) \/ ReceiveStep(t) \/ ReplyStep(t)

Spec == Init /\ [][Next]_vars

-----------------------------------------------------------------------------
(* Properties. *)

Places == {"user", "copied", "send_wait", "recv_wait", "any_wait", "deliver",
           "wake_recv", "wake_send", "free_recv", "free_send", "wild"}

\* The types of the variables; every queued message is one that was created.
TypeOK ==
  /\ flags \in [Ports -> {"free", "used"}]
  /\ owner \in [Ports -> Nat]
  /\ queue \in [Ports -> Seq(Messages)]
  /\ max_messages \in [Ports -> Nat]
  /\ recv_wait \in [Ports -> Slots \cup {NoTask}]
  /\ send_wait \in [Ports -> Slots \cup {NoTask}]
  /\ required_caps \in [Ports -> {{}, CAP_SYSTEM} \cup CapValues]
  /\ domain \in [Ports -> {{}} \cup DomainValues]
  /\ pending_replies \in Seq(PendingReply)
  /\ pc \in [Slots -> Places]
  /\ dest \in [Slots -> Ports]
  /\ hand \in [Slots -> Messages \cup {NoMsg}]
  /\ nonblock \in [Slots -> BOOLEAN]
  /\ woken \subseteq Slots
  /\ next_mem \in 1 .. MaxMem + 1
  /\ freed \subseteq Mems

\* The owner of p is in ipc_deallocate_port: the messages are freed, and p is
\* still in use.
Closing(p) == \E t \in Slots : pc[t] \in {"free_recv", "free_send"} /\ dest[t] = p

\* A port in use that is not being deallocated links only messages that kfree
\* has not been given, links none of them twice, and shares none with another
\* such port: what a receiver dequeues there is a live message that nobody
\* else will touch, whatever tasks did to the port, and to its former messages,
\* while its last owner slept in the middle of ipc_deallocate_port.
\* (ipc_queue_message, ipc_dequeue_message, and the reset of queue_head in
\* ipc_allocate_port that drops what ipc_deallocate_port left dangling.)
LiveQueues ==
  LET Sound == {p \in Ports : flags[p] = "used" /\ ~Closing(p)} IN
  \A p \in Sound :
    /\ MemOf(queue[p]) \cap freed = {}
    /\ \A i, j \in DOMAIN queue[p] :
         queue[p][i].mem = queue[p][j].mem => i = j
    /\ \A q \in Sound \ {p} : MemOf(queue[q]) \cap MemOf(queue[p]) = {}

\* A task that a waiter slot still names and that nobody has woken waits with
\* cause: in sys_ipc_receive its port is empty, and in sys_ipc_send its port
\* has a message, whose receiver will wake it.  Its registration in the slot
\* is not overtaken by a message, by a receiver or by a new owner of the port,
\* however many tasks use the port and sleep in the middle of a wake-up.
\* (That a task which sleeps has a slot at all is not so: NoMissedReceiver.)
WaitersHaveCause ==
  \A t \in Slots \ woken :
    /\ pc[t] = "recv_wait" /\ recv_wait[dest[t]] = t => queue[dest[t]] = <<>>
    /\ pc[t] = "send_wait" /\ send_wait[dest[t]] = t => queue[dest[t]] # <<>>

\* A task that sleeps in sys_ipc_receive without a wake_up on its way finds
\* nothing in the queue of its port: the comment of sys_ipc_send, "Wake up any
\* waiting receiver".
NoMissedReceiver ==
  \A t \in Slots : pc[t] = "recv_wait" /\ t \notin woken =>
    queue[dest[t]] = <<>>

\* Messages of one task stay in the order it sent them, through blocking,
\* retries and reallocation of the port (msg.mem grows with every attempt).
SendOrderKept ==
  \A p \in Ports : \A i, j \in DOMAIN queue[p] :
    i < j /\ queue[p][i].from = queue[p][j].from
      => queue[p][i].mem < queue[p][j].mem

\* The reply messages now queued in ports in use or in a task's hand.
LiveReplies ==
  {m \in (UNION {{queue[p][i] : i \in DOMAIN queue[p]} :
                   p \in {q \in Ports : flags[q] = "used"}})
         \cup {hand[t] : t \in Slots} : m # NoMsg /\ m.flag = "reply"}

\* A request is answered once: while a reply to it is on its way it is not in
\* pending_replies, and no two replies to it are on their way.
OneReplyPerRequest ==
  /\ \A m \in LiveReplies, i \in DOMAIN pending_replies :
       m.answers # pending_replies[i].request
  /\ \A m, n \in LiveReplies : m.answers = n.answers => m = n

\* The mailboxes that the ports implement: a port in use shows its queue, and
\* what a free port still links is nobody's.
Mail == INSTANCE Mailbox WITH
  Port <- Ports, Message <- Messages, InitiallyOpen <- Reserved,
  open <- {p \in Ports : flags[p] = "used"},
  box <- [p \in Ports |-> IF flags[p] = "used" THEN queue[p] ELSE <<>>]

\* Every step of the IPC core is a step of the mailboxes or leaves them alone.
ImplementsMailbox == Mail!Spec

=============================================================================
