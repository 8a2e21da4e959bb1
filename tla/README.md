# Micro_kernel_Linux in TLA+

A verification development of the microkernel in `src/src/linux`: a Linux 0.0x
kernel turned inside out, in which processes, memory, files, terminals and
devices belong to servers, and everything else talks to them by messages
through `kernel/ipc.c`. Paths below are relative to `src/src/linux`.

The sources do not compile as they stand (`kmalloc` and several macros are declared
nowhere, `mk_msg_receive` is declared and defined nowhere; `mk_msg_send` is
`include/linux/kernel.h:228`), so the models translate the source text. What the repository does not contain (the allocator, the hardware, the
file and terminal servers) is modelled only by what the calling code can see.

## 1. Inventory

| component | state | operations | interacts with |
|---|---|---|---|
| IPC core, `kernel/ipc.c` | `ipc_ports[256]` (flags, owner, queue, limit, one waiter slot per direction, capabilities, domain), the list `pending_replies` | `ipc_init`; system calls send, receive, reply, port allocate / deallocate / set; `ipc_timer` (never called) | scheduler (`schedule`, `wake_up`), allocator |
| Scheduler stubs, `kernel/sched.c` | `task[]`, `jiffies`, `kernel_state` | `schedule`, `sleep_on`, `wake_up`, `do_timer`, `sched_init`: a message to the process server each | IPC, process server |
| Shared reply port | the queue of `kernel_state->kernel_port` | the pattern "send, then receive from `kernel_port`" in `fork.c`, `exit.c`, `signal.c`, `sys.c`, `memory.c`, `sys.h` and most headers | every server |
| Process server, `kernel/server.c` 356-669 | `tasks[]` (of `struct server_task`), `next_pid`, `current_task` | fork, exit, waitpid, kill, signal, schedule handlers | all stubs |
| Memory server, `kernel/server.c` 128-354 | `physical_pages[]`, `page_dir`, `page_tables` | get_free_page, put_page, free_page handlers | memory client |
| Memory client, `mm/memory.c` | `mem_map[]`, page tables | `get_free_page`, `free_page`, `do_no_page`, `try_to_share`, `mem_init` | memory server |
| Fork and exit, `kernel/fork.c`, `exit.c` | `task[]`, `last_pid` | `find_empty_process`, `copy_process`, `release`, `do_exit`, `sys_waitpid`, `sys_kill` | process and memory servers |
| Signals, `kernel/signal.c` | signal masks and actions | `sys_ssetmask`, `sys_signal`, `sys_sigaction`, `do_signal`, `send_signal` | process server |
| Block requests, `kernel/blk_drv/blk.h` | list of pending requests | `add_pending_request`, `blk_request`, `check_request_timeouts`, `end_request` | block servers |
| Log and console, `printk.c`, `server.c` 936-1027 | three ring buffers | store, get, clear, write | log and console servers |
| Boot, `init/main.c` | server ports in `kernel_state` | `start_server` | IPC port allocation |
| Calendar, `kernel/mktime.c` | none | `kernel_mktime`, `is_valid_date` | time server |
| Entry and traps, `system_call.s`, `asm.s`, `traps.c` | registers | system call and trap entry, timer interrupt | everything |
| Others: `panic.c`, `sys.c`, `who.c`, `vsprintf.c`, headers, boot loader | little or none | stubs of the RPC shape, formatting, definitions | |

What makes the system hard:

* **concurrency.** A system call is not preempted (`do_timer` reschedules user
  mode only), but it gives the processor away wherever it calls `schedule()`
  and wherever a copy from or to user space faults. Nearly every state change
  in `ipc.c` happens between such places, with checks made before them.
* **spurious resumptions.** `schedule()` looks at no task state, so a blocked
  task may resume at any time and has to try again from the start; and a task
  that has exited goes on.
* **wake-ups that sleep.** `wake_up()` is a message to the process server: who
  wakes a task up may itself have to wait before its next statement.
* **shared single slots.** One waiter slot per port and direction; one reply
  port for all callers; one message-type code as the name of a request.
* **partial failure.** Calls that fail half way (no memory, no access, buffer
  too small) leave what they had already done.
* **reuse.** Ports, slots and pages are given out again, with fields that the
  previous owner left.

What would make each component correct, in a sentence: the IPC core keeps live,
ordered, unshared queues, wakes those who can go on and answers a request once;
RPC gives each caller the answer to its own request, or at least an answer; the
memory books count each page once and keep tasks apart; a slot of `task[]` has
one process, which stays until its father has reaped it; SIGKILL gets through,
and signals are taken in their turn; block requests are not left behind, whatever
fails and times out; a ring buffer yields the newest bytes in order; the
calendar agrees with the calendar. Section 3 says which of these the code keeps,
under which conditions, and which it does not.
`PROJECT.json` lists the hazards at their lines.

## 2. Modules

| module | models | state and code |
|---|---|---|
| `Ipc` | `kernel/ipc.c` | one function per field of `struct ipc_port`; `pending_replies` as a sequence, most recent first; `pc`, `dest`, `hand`, `nonblock` are the place and locals of each task's call; `pc` has a place for each `wake_up()` a call may sleep in (`wake_recv`, `wake_send`, `free_recv`, `free_send`); `woken` records the tasks named in a `wake_up()`; `next_mem`, `freed` are the allocations of messages |
| `Mailbox` | abstract | what a user of `ipc.c` may rely on: open mailboxes, FIFO, opened empty |
| `IpcProofs` | theorems about `Ipc` | |
| `MCIpc` | constants of `Ipc` for TLC | |
| `StubTable` | every function of the kernel and of the headers that sends to a server | a record per stub: its `server`, `back` (it fills in `reply_port` with `kernel_port`), `waits` (it receives from `kernel_port` before it returns) |
| `KernelRpc` | the stubs, `kernel_port`, the servers' main loops and `send_reply` (`server.c` 63-110) | `inbox`, the queue of each server's port; `handling`, the `msg` of each server's loop; `kernel_port`; `pc`, `stub`, the place of each task; `call`, `next_call`, `answered` and `refused`, the requests whose replies `mk_msg_send` did not take, history; the constant `HeaderAsSent`, what a server finds in a request |
| `KernelRpcProofs` | theorems about `KernelRpc` | |
| `MCKernelRpc` | constants of `KernelRpc` for TLC | |
| `Printk` | `kernel/printk.c`, the loops of the log and the console server (`server.c` 936-1027) | `buf`; a ring as a record of its bytes and its two indices: `log` for `log_buf`, `log_start`, `log_end`, and `server_log` for `log_buffer`, `log_tail`, `log_head`; `calls`, the locals of each task's `printk`; the two ports' queues; the constant `Strays`, what others send to them |
| `ByteLog` | abstract | the newest bytes of what was written since the last clear, in order |
| `PrintkProofs` | theorems about `Printk` | |
| `MCPrintk` | constants of `Printk` for TLC | |
| `LocalMemory` | `mm/memory.c` without `CAP_MEM_PAGE`; what `copy_process`, `copy_mem` (`fork.c`), `do_exit` and `release` (`exit.c`) do to memory when their requests fail | `mem_map`; `dir` and `page`, the page directory and the page tables; `writable`, bit 2 of the entries; `task[]` as the page of each task structure; `at`, `child`, `hand`, `address`, the place and locals of a call that has given the processor away; `wild`, page 0 has been written; `collided`, a fork has taken a slot that was not empty any more |
| `LocalMemoryProofs` | theorems about `LocalMemory` | |
| `MCLocalMemory` | constants of `LocalMemory` for TLC | |
| `TaskTable` | `find_empty_process`, `copy_process` (`fork.c`), `do_exit`, `release`, `sys_waitpid` (`exit.c`) over `task[]` | `task`, slot to struct; `p`, the pid, father and state in each struct, and whether its exit code has been set; `used`, the pages given out for structs; `last_pid`; `call`, the place and locals of each task's call; `panicked`; `overlapped`, history |
| `TaskTableProofs` | theorems about `TaskTable` | |
| `Signals` | `signal.c`, `send_sig` and `sys_kill` (`exit.c`), `ret_from_sys_call` (`system_call.s`) | `signal`, `blocked`, `sigaction`, the fields of each task; `at`, where it is; `catches`, history |
| `SignalsProofs` | theorems about `Signals` | |
| `MCSignals` | constants of `Signals` for TLC | |
| `BlockRequests` | `kernel/blk_drv/blk.h` for one driver; the adding of requests as `blk.h` expects it | `queue`, from `CURRENT` on; `errors`; the list of entries by `req_id`: `head`, `next`, `next_req_id`, and `live`, those allocated; `late`, the entries past their timeout; `pc`, `req_id`, `reply`, `p`, `prev`, `after`, the place and locals of the task in `DEVICE_REQUEST`; `scan`, the locals of an interrupt that waits |
| `BlockProofs` | theorems about `BlockRequests` | |
| `MCBlockRequests` | constants of `BlockRequests` for TLC | |
| `Calendar` | `kernel/mktime.c`; `time_init` of `init/main.c` | a date walked day by day beside its count of days; the clock and the registers `time_init` has read |
| `CalendarProofs` | theorems about `Calendar` | |
| `MCCalendar` | constants of `Calendar` for TLC | |

`Ipc` has one action per piece of a call that runs without giving the processor
away. `sys_ipc_send` is `SendBegin` (validation, copy, `ipc_create_message`),
then, at `cli()`, `SendCommit`, `SendAgain` (-EAGAIN) or `SendBlock`; a sender
that resumes takes `SendRetry` or `SendRetryFails`. `sys_ipc_receive` is
`Receive` (which dequeues or blocks), `ReceiveRetry`, `ReceiveRetryFails`,
`ReceiveAny`, `ReceiveAnyEmpty` and, after the copy to user space, `Deliver`.
`sys_ipc_reply` is `Reply` followed by the steps of a send, or `ReplyFails`.
A call that wakes somebody up stops after the `wake_up()` and goes on in a step of
its own: `SendCommit` in `ReceiverWoken`, which clears `recv_wait` whoever is in it
by then, a dequeue in `SenderWoken`, `DeallocatePort` in `DeallocateGoesOn`, until
when the port is in use and links the messages it has freed. Calls that fail at once
and change nothing are not steps.

Abstractions: a payload has no content; a message is named by its allocation,
`mem`, and addresses are never reused (so that a use after `kfree` shows as a
`mem` in `freed` instead of as a chance hit on a new message); a capability
word is a set. `answers`, in a reply message, is history: the request it was sent
for. The code's uninitialised `kernel_msg` in `sys_ipc_receive(0)` is a choice
between its two outcomes; after a wild pointer the task takes no further step
(`"wild"`). Of a `wake_up()` only the interruption is followed, not its message:
it sends the address of the waiter slot, which is cleared by the time the process
server could read it, to a server that has no case for it; and if the process
server is itself the receiver to be woken, the send inside finds the same
`recv_wait` and wakes it again, without an end.

In `KernelRpc`, a stub is `Enter` (its capability check passed), `Send` or
`SendFails`, and, if it waits, `ReceiveReply` or `ReceiveFails`; a server is
`Take`, then `SendReply`, which waits while the port it answers to is full, or
`NoReply`: there is none to send, or `mk_msg_send` has failed (-EPERM, -ENOMEM, no
such port), which `send_reply` ignores (`server.c:99`). `mk_msg_receive` is
declared in the repository and defined nowhere. `ipc.c` copies its own structure to
the receiver, in which the port the message was sent to stands where every server
reads `reply_port` (`ipc.c:698`). `HeaderAsSent` says whether `mk_msg_receive` gives
back the header as it was sent, which is what the servers are written for, or adds
nothing: then a server sends its replies to itself (`rpc_as_stored`). The servers
that are not in the repository (files, terminals, users, locale) are taken to have
the loop of those that are. `call` numbers do not exist in the code: they are
what a property needs to say whose answer a reply is.

In `Printk` a call is one step up to its first `mk_msg_send` (parsing, `vsprintf`,
`printk_store_log` and the copy into the message do not give the processor
away), `SendLog`, which sends and goes on to copy the console's message, and
`SendConsole`. Without the capability for a server its step is left out. A text
is what `vsprintf` produced; the storing loop is `Put`, which does `PutByte`
for each of its bytes. `tty_write` shows bytes and keeps nothing the kernel reads, so it is
left out. Texts are taken to fit `buf`, although `vsprintf` does not look. The
ports of the two servers are not `printk`'s alone: in `OtherWrite` `panic_print`
sends a message with no length set (`panic.c:109`), the `printf` of `kernel.h:273`
one in another layout, `main.c:329` one from a buffer of its own. What a server
reads of them is in `Strays`, of any length: the console server does not check
`msg->len` (`server.c:975`), and what it then writes past the end of
`console_buffer` is not modelled. The messages of `printk` itself are taken to
arrive as sent.

In `LocalMemory` a fork is `FindEmpty` (a slot is chosen, and a request sent),
`TakeSlot` (a page for the task structure, put into that slot with no second look,
and another request), `CopyMem` (`copy_page_tables`, whole or until there is no page)
and, after the message that reports the failure, `Undo`. Two forks may choose one
slot; what they then make of it is not followed: the behaviour ends where the
second has taken it (`collided`). A
page fault is `GetEmptyPage`, or `ReadPage` and, when the file has been read,
`PageRead`; `Oom` is the call of `do_exit` in `oom()` with both its outcomes.
`un_wp_page` is an action although nothing calls it, because it is the only
place where a shared page may become writable again; `release` is called by
`sys_waitpid`, which is taken to run in any task. An exit runs from the failed
request to the last `schedule()` in one step. Taken as given: neither a zombie nor a
task that is being made is resumed; limits cover all of `Addresses`, and a
child's segments are those that `copy_mem` sets (the fallback leaves the rest of
its LDT zero). A zombie that goes on, as it may in `TaskTable`, would fault pages
into an address space that `release` does not give back, and `EmptySlotsAreClean`
would not hold of its slot. After page 0, the page directory, has been overwritten
nothing more is modelled.

In `TaskTable` a call is a step from one request, or one `schedule()`, to the
next: other tasks run while it waits. A fork is `Fork` (`find_empty_process` up
to its request), `TakeSlot` or `NoRoom` (`copy_process` up to its request),
`FillStruct` and, after `copy_mem`, `ForkDone` or `ForkUndone`; an exit is `Exit`,
then `ExitHere` and an `OrphanTold` for each zombie among the children; a waitpid is
`Waitpid`, `WaitHere`, any number of `Slept` or an `Interrupted`, and `Release`.
`ExitReturns` is a `do_exit` that returns: the process server grants its request, the
one of these that it grants, or `schedule()` comes back to the zombie
(`exit.c:408`), which goes on in user mode until its father releases it, and may
fork and exit again. If it then sleeps in a port it is no zombie any more
(`Blocks`; `ipc.c:592`, 682). A task that has left `task[]` is not resumed.
Requests are taken to come back with the results that the
process server names for them, -EINVAL or -ECHILD, although
`send_reply` sends a header without the result (`server.c:99`); `KernelRpc` is
about whose answer it is. Init is pid 10 in slot 1: `main()` forks nine servers
first (here `Servers`) and `sched_init` empties `task[]`. Orphans get father 1,
which is the first server and in no slot, so nobody reaps them, while SIGCHLD
goes to slot 1, init. `state` is followed only where it is read, and `last_pid` is
not followed to where it wraps.

In `Signals` `Ssetmask`, `Signal` and `Sigaction` are whole calls, because nobody
else touches what they touch; `Kill` and `SendSig` are `sys_kill` from one
request to the next, so that the task asked about may be released meanwhile and
its page given to another (`Reborn`). `TakeSignal` is `ret_from_sys_call`; in
`do_signal` the send fails (`SendFails`, the local delivery), the receive fails
(`ReceiveFails`, `do_exit`), or the answer arrives and is ignored (`Answered`).
Of the frame only the effects on masks and actions are kept: it is written
below a stack pointer that only `do_signal_local` has changed, so no handler
ever runs. `Sigaction` stores the old action, as the code does (`signal.c:313`), so
that only `sys_signal` installs a handler.

In `BlockRequests` an attempt is `AddPending`, `Send`, `Receive`, any number of
`SearchOn`, then `NotFound`, or `Found`, `Unlink` and `Free`; `NotCapable`,
`NoMemory` and `GiveUp` are its ways to fail before, `Return` the end of
`DEVICE_REQUEST`. `kernel_port` is everybody's, and each driver counts its `req_id`s
from 1, so `Receive` takes any message: the reply to this attempt, to an earlier one
or to another driver's, or none of these. The device server and the other users of
the port therefore need no model. The search runs without `cli()`, a step for each
entry. `check_request_timeouts` is `Interrupt`, or, if a `wake_up()` in it has to
wait, `InterruptWaits` and an `InterruptGoesOn` for each late entry, with the task,
other interrupts and later timeouts (`Expire`) in between. Where somebody goes on to
a freed entry, `TouchFreed` ends the behaviour (`"wild"`). The message of
`DEVICE_INTR` to the device server changes nothing here. How long a send waits
is not modelled, and no liveness is claimed.

In `Calendar` a step is a day of the calendar, a second of the clock, or a
register read by `time_init`. Seconds are a 32-bit long, which 2038 overflows
although `is_valid_date` goes on to 2100; two-digit years below 70 are 2000 and
later. What the time server makes of the time is left out: it copies it once.

`const.h` sets `PORT_DYNAMIC_START` to 256, which is `MAX_PORTS`, so with the
literal constants no dynamic port exists and `ipc_allocate_port` always fails.
The constants are parameters, and the runs give the dynamic range one port.

## 3. Runs

Fairness. Nothing in the repository chooses which task runs: `schedule()` asks
the process server, whose choice never names a task (it compares an unsigned
counter with -1), and comes back. So no run assumes that a sleeper is woken or
that one user of a port is preferred to another; for `ipc.c`, what liveness would
demand, that a sleeper is named in a `wake_up()` once it could go on, is stated as
a safety property (`WaitersHaveCause`, `NoMissedReceiver`). Two runs assume that
processors and interrupts do what they always do, weakly (`WF`):

* `tasks`: a waitpid whose `schedule()` comes back looks again. No exit, fork or
  signal is assumed to happen.
* `signals`: requests end, and the timer interrupt leads a task in user mode
  through `ret_from_sys_call` (`system_call.s:391`).

TLC looks for deadlocks in `signals` alone. The other systems may stop: when the
bound `MaxMem` on allocations, `MaxCalls` on requests or `LastId` on entries is used
up, after a wild pointer or the use of a freed entry, when the page directory is
overwritten or two forks have met in one slot (`LocalMemory`), when every task has
exited or the kernel has panicked (`TaskTable`), at the last day (`Calendar`).
Nor is the kernel free of deadlock: replies that nobody receives, those to
`sleep_on` and `malloc` among them, fill `kernel_port`, and servers and callers then
wait for each other.

| run | expects | shows |
|---|---|---|
| `ipc_core` | pass | `TypeOK`; `LiveQueues`: no port in use, unless it is being deallocated, links a freed or a shared message; `WaitersHaveCause`: of those whom a waiter slot names, and nobody has woken, a receiver has an empty port and a sender one with a message, whose receiver will wake it; `SendOrderKept`; `OneReplyPerRequest`; `ImplementsMailbox`: `Ipc` refines `Mailbox` |
| `ipc_two_receivers` | violation | a second receiver overwrites `recv_wait` (`NoMissedReceiver`) |
| `ipc_one_receiver` | violation | even one receiver is forgotten: it comes back and registers anew while the sender is still in the `wake_up()` after which it clears `recv_wait` (`NoMissedReceiver`) |
| `rpc_shared` | pass | two tasks, stubs of all shapes, sends, receives and replies that fail: `TypeOK`; `NobodyForgotten`: for every task that waits there is a reply, queued, owed or refused; `AnsweredOnce` |
| `rpc_two_callers` | violation | two tasks in one stub swap answers (`OwnAnswer`) |
| `rpc_as_stored` | violation | with the structure that `ipc.c` hands out, a server answers itself and its caller waits in vain (`NobodyForgotten`) |
| `printk_logs` | pass | `TypeOK`; `LogKeepsNewest`, `ServerLogKeepsNewest`: both rings implement `ByteLog` |
| `memory_counts` | pass | `TypeOK`; `WritersAreAlone`: a writable page has one user; until two forks have met in one slot, `MemMapCounts`: the count of each page is the number of its users, and `EmptySlotsAreClean`: a copy that fails half way leaves nothing in the slot |
| `tasks` | pass | `TypeOK`; as long as no fork begins before another has taken its pid: `SlotsAreAllocated`: the pages in use are those of the tasks in slots, and an unfinished fork keeps both; `NoPanic`; `OnlyTheDeadLeave`: a child stays until its own father reaps it. `WaitEnds`: a waitpid for a zombie ends although nobody wakes it |
| `signals` | pass | `TypeOK`; `KillGetsThrough`: SIGKILL is never masked or caught; `OneShot`; `PendingIsTaken`: pending signals are taken in their turn |
| `block_requests` | pass | `TypeOK`; `QueueIsServed`: no request is left in a queue nobody works on; `SearchesEnd`: no pointer of the list of pending requests leads back, whatever is unlinked beside a search |
| `calendar` | pass | `MktimeCounts`: `kernel_mktime` counts the seconds to 2038; `ValidDatesExist`: `is_valid_date` knows the dates to 2100; `StartupTimeIsNow`: `time_init` is not misled by a clock that goes on |

Bounds of `Ipc`. Two tasks (three in `ipc_two_receivers`, where two must meet a
third), one reserved and, but in `ipc_one_receiver`, one dynamic port, three or four
message allocations (`MaxMem`), queues of one message or, where the limit is set, two.
Each hazard needs at most two tasks on one port beside the one that serves it, and
a second port only as the place a message could wrongly turn up in. One message
identifier suffices because the identifiers interact only when they are equal;
nothing is claimed of capabilities and domains, which are set in `ipc_core` to
what lets everybody in. It has 2.0 million states.

Bounds of `KernelRpc`. One or two tasks, two servers, and at most
`MaxCalls` requests in a run, as many as the servers' ports hold together: queues
fill, and replies that nobody received are there when the next call waits. A stub's
shape is all that distinguishes it, so the stubs of two servers stand for those of
all.

Bounds of `Printk`. Rings of four and of two bytes, of which three and one can
be used, and two texts, one complete line and one not, with at most `MaxChars`
characters between two clears: the kernel's ring wraps around and loses old
bytes between two clears, the server's, which is never cleared, any number of
times. A message of others is four bytes long, longer than a text and than both
rings. Two tasks, of which one has the capabilities.

Bounds of `LocalMemory`. Three slots, so that a page is shared by three tasks
and one of them forks again; two page tables, so that a copy can fail after the
first, one of them with two entries, so that a page can also go into a table
that is there; six pages, which two forks and a few faults use up, so that every
allocation also fails. Nothing else is bounded: slots and pages are given back
and used again without end, until two forks meet in a slot.

Bounds of `TaskTable`. Three slots and three structs; three forks, which fill the
table, reap and fill it again, two of them at the same time beside a third task
that waits. That a fork with a slot finds no page takes forks that overlap here.
The theorems of `TaskTableProofs` are for any numbers. One server stands for nine; it
is at least one, because init is never the first fork.

Bounds of `Signals`. One task that handles signals and is killed, by itself and
by another; three signals, one below SIGKILL, SIGKILL, and SIGCHLD above it.
Nothing is counted, so the state space is whole.

Bounds of `BlockRequests`. Two requests, added again and again; four entries in a
run, whose `req_id`s are not used again, so that two late entries, a live one and one
that is being searched for come together; one interrupt at a time waits in a
`wake_up()`, while others run through. It has 4.2 million states.

Bounds of `Calendar`. Every day from 1970 to 2100; start-ups at nine days and
five times of day at the ends of minutes, hours, days, months and years, with
up to three seconds passing while the registers are read.

More failures are not kept as runs, because a single step shows them.

* `sys_ipc_send` queues its message on a port that was freed after the check
  (`ipc.c:549`). A receiver finds the kernel's message structure in place of the
  header (`ipc.c:698`).
* `sys_ipc_receive(0)` takes from the port of another task, or from a free one,
  because it compares the slot in `owner` with a pid (`ReceiveAny`), where
  `ipc.c:663` says "Receive from any port owned by this task".
* A second sender overwrites `send_wait` as a second receiver does `recv_wait`, and
  raising `max_messages` with `sys_ipc_port_set` wakes nobody.
* A port that is being deallocated links freed messages while `wake_up()` waits, and
  a receiver takes them (`ipc.c:236`-251; `LiveQueues` without `Closing`).
* A task reads the answer to `sleep_on`, which asks for one and does not wait for
  it (`sched.c:284`), as the result of its next call.
* The console gets another task's text, because `printk` reads `buf` again after a
  send (`printk.c:222`).
* Overlapping forks take the same pid, or the same slot: without their conditions
  `SlotsAreAllocated` and `NoPanic` fail in `TaskTable`, `MemMapCounts` and
  `EmptySlotsAreClean` in `LocalMemory`. The second fork's page is put over the
  first's, which is lost, and the second `copy_page_tables` panics (`memory.c:338`).
* A zombie that `schedule()` comes back to can fork, and leave children with a father
  that has left `task[]`. One that sleeps in a port, as when it finds the process
  server's port full, is left `TASK_INTERRUPTIBLE` (`exit.c:405`, `ipc.c:592`), and no
  waitpid finds it.
* A block driver takes a late reply, or another driver's, for its own: the
  `req_id`s of two drivers are the same (`blk.h:355`). An interrupt frees the entry a
  search has come to, or has found; what is then read is freed memory.
* `sys_sigaction` stores the old action (`signal.c:313`), so that the new one, which
  signal.c:267-269 promise, never takes effect; a signal, SIGKILL included, is lost
  when the signal server answers (`signal.c:412`); a killer that waits in `send_sig`
  while its target is released signals whoever has the page then (`exit.c:241`).
  `SIG_IGN` is -1 in `signal.h:172`, and 1 for `do_signal_local` (`signal.c:440`).

The mutants confirm that every property can fail within the bounds.

## 4. Proofs

Each proof is for every value of the constants that satisfies the assumption
named; TLC checks the same property on the run's instance. An invariant `I` that
carries a proof is shown by `Init => I` and `I /\ [Next]_vars => I'`, one lemma or
step for each action.

`IpcProofs` proves, for any number of slots, ports, messages
and attribute values (`ConstantsAssumption` of `Ipc`):

* `TypeCorrect`: `Spec => []TypeOK`. `TypeOK` is not inductive: a queue stays
  a queue of messages only because a task between `ipc_create_message` and
  `ipc_queue_message` holds one. `TypeInv` adds that (`HoldsMessage`).
* `SleepersHaveCause`: `[]WaitersHaveCause`, if no limit is 0 (`MAX_MSG_QUEUE` and
  what `sys_ipc_port_set` is given), for any number of senders and receivers on a port.
  The invariant `CauseInv` adds that limits are positive: a sender registers at a
  full queue, which is then not empty, and the queue of a port with limit 0 is full
  and empty. The hypothesis is needed for that reason. A step is `Harmless` if it takes no
  message and no slot from anybody; for the others, whoever empties a queue wakes
  the sender that is registered, and whoever fills it the receiver.
* `QueuesAreLive`: `[]LiveQueues`. A port in use may link only what is not freed, but
  for one that is being deallocated (`Closing`), and a port that is not in use may
  link anything, because a send may still reach it after it was freed, and the
  deallocation freed what it linked. So `MemInv` says of all ports that a message is
  linked in one place or held by one call (`LinkedOnce`, `HeldOnce`,
  `HeldNotLinked`), and of ports in use and of senders that it is live (`LiveInUse`,
  `LiveInHand`).
* `OrderIsKept`: `[]SendOrderKept`, by `OrderInv`: what a sender is about to link is
  newer than anything it has linked anywhere (`LastOfSender`).
* `RequestsAreAnsweredOnce`: `[]OneReplyPerRequest`. `ReplyInv`: pending requests and
  those with a reply on its way are `Spent`, no longer in a queue or in a hand, so
  that no second entry is made for them, and all of them differ.
* `PortsAreMailboxes` (`Ipc` refines `Mailbox`), step by step: every step of `Ipc` is a step of one mailbox or leaves
  all of them as they are. That opening finds the mailbox empty follows from
  `ipc_allocate_port`; that a send adds a new message from `LinkedOnce` and
  `HeldNotLinked`.

`KernelRpcProofs` proves, for any tasks, servers, stubs and queue sizes
(`RpcAssumption` of `KernelRpc`):

* `TypeCorrect`: `Spec => []TypeOK`, with the bounds of all queues. The
  invariant is `TypeInv`: a task that sends is in a stub of the table, and requests
  are seen as sent, or not at all (`SeenAsSent`).
* `RequestsAnsweredOnce`: `[]AnsweredOnce`, by `NumbersInv`: requests in the servers'
  ports and hands differ from each other and from those answered or refused.
* `WaitersAreAccountedFor`: `[]NobodyForgotten`, if headers arrive as sent
  (`HeaderAsSent`; `rpc_as_stored` shows that it is needed) and every stub that waits
  has asked a server that replies (`WaitersAreAnswered`). The second is true of the
  source: `StubsAskBeforeTheyWait`, over the whole of `StubTable`. The invariant
  counts: no more tasks are receiving than replies are queued, owed (`Owed`, the
  requests at any of the `Places` in ports and hands) or refused (`EnoughDue`). A reply
  that is refused is counted, not wished away: of a system in which none is, the
  theorem says that a reply comes for every task that waits, though perhaps another's.
  `NumbersInv` is needed, because two requests of one number would be one reply.

`PrintkProofs` proves, for any tasks, texts, levels, sizes and messages of others
(`PrintkAssumption` of `Printk`):

* `KernelLogIsNewest`: `Spec => LogKeepsNewest` and `ServerLogIsNewest`:
  `Spec => ServerLogKeepsNewest`, that is, both rings implement `ByteLog`. What a
  ring shows is the bytes from `start` on, at `Place`s that go around its end
  (`RingShows`); storing a byte shows it after the others, less the oldest if the
  ring was full (`PutByteShows`); storing a text shows the newest bytes of what was
  shown and the text (`PutShows`), by induction over its bytes (`Climb`, from the
  well-foundedness of `<` on `Nat`), because bytes that are too old once are too old
  for good (`NewestAppend`). The invariant `RingsInv` adds that the message for the log server
  is the text itself, copied before the processor is given away; the one for the
  console need not be (section 3).
* `TypeCorrect`: `Spec => []TypeOK`, from these, `CopiesInv` and `BoundsInv`: texts
  shorter than `MAX_TEXT` never make `vsprintf` write past the end of `buf`; `buf` never
  gets shorter, so that a message copied from it after another task has written it
  (`BufInv`) still lies within what was written; queues keep to `MAX_MSG_QUEUE`.

`LocalMemoryProofs` proves, for any slots, page tables, addresses and pages
(`MemoryAssumption` of `LocalMemory`):

* `TypeCorrect`, `UsersAreCounted`, `CopyOnWriteKeepsApart` and `NoTableInTheWay`:
  `Spec` implies `[]TypeOK`, `[]MemMapCounts`, `[]WritersAreAlone` and
  `[]EmptySlotsAreClean`. The four hold only together, by one invariant `Inv`, until two
  forks meet in a slot (`~collided`); that types and `WritersAreAlone` survive the
  step in which they do is `CollisionIsSafe`, and after it nothing changes (`Safe`).
  `Uses` are the places that may name a page (an address, an entry of a page
  directory, a slot of `task[]`, the hand of a call) and `Named` is what they name.
  `Balanced` says that `mem_map` is the number of uses of each page, that two uses of
  a page are the same address of two spaces (`Sharing`; without it `OnlyUser` would
  not tell a writer that it is alone, and `mem_map` could exceed the number of
  slots), and that nothing else names a page that may be written (`Writing`).
  `Control` says what the calls in progress have in hand: without `Clean` a fork would
  put its tables over others and lose pages, and without `Reads` a finished read
  would. The lemma `Recount` turns a change of names at a few places into the change
  of the counts; `BooksTaken`, `BooksFreed`, `BooksMoved`, `SpaceFreed` and
  `SpaceCopied` apply it to one page or a whole address space, also a copy that
  stopped half way. That `copy_page_tables` takes its tables from the free pages in
  order is `Ranks`.

`TaskTableProofs` proves, for any numbers of slots, pages, servers and forks
(`TaskAssumption` of `TaskTable`):

* `TypeCorrect`: `Spec => []TypeOK`, whatever overlaps.
* `SlotsKeepTheirPages`, `ReleaseFindsItsTask` and `TasksStayUntilReleased`:
  `[]SlotsAreAllocated`, `[]NoPanic` and the action property `OnlyTheDeadLeave`. They
  follow from one invariant, `Tree`, which holds until forks overlap, also with zombies
  that go on. A page is the struct of one slot (`OnePageEach`). Who is in a call has a
  slot and a pid (`Callers`). A task that is about to be released has exited and is a
  child of the caller (`Fathers`), so that nobody else, having another pid
  (`PidsGrow`), can release it meanwhile; pids are distinct because a fork that has
  no pid yet is the only one (`OneFork`); the child of an unfinished fork is left alone
  because it makes no call and has not exited (`Children`).

`BlockProofs` proves, for any requests, identifiers, queue and list sizes
(`BlockAssumption` of `BlockRequests`):

* `TypeCorrect`, `Served` and `NoCircles`: `Spec => []TypeOK`, `[]QueueIsServed` and
  `[]SearchesEnd`. The invariant `Inv` adds `InHand` (the task in `DEVICE_REQUEST` has a
  request) and `Pointers`: not only the list goes back to older entries at each
  `next` (`ListGoesBack`), but also the pointers that a search or an interrupt has read
  and not yet stored (`SearchGoesBack`, `ScanGoesBack`). What has been read may be out
  of date when it is stored, and a list may lose entries by it, but an older entry
  stays an older entry.

`SignalsProofs` proves, for any tasks and signal numbers (`SignalAssumption` of
`Signals`):

* `TypeCorrect`, `KillIsNotBlocked` and `HandlersAreOneShot`: `Spec` implies
  `[]TypeOK`, `[]KillGetsThrough` and `[]OneShot`. The invariant `IInv`
  adds `AllSound`: a mask holds its own signal at most, only where there is no
  handler, and a handler that is installed has not been set up since. Without the
  first part a delivered signal could bring SIGKILL into `blocked`, without the
  last a handler could be set up again.

`CalendarProofs` proves, for any days and times at which the system is booted
(`CalendarAssumption` of `Calendar`: start-up is over before 2038-01-19 and
`time_init` reads for less than a minute):

* `SecondsAreCounted` and `DatesAreValid`: `Spec` implies `[]MktimeCounts` and
  `[]ValidDatesExist`. The invariant `IsDate` says how many days came before a date to
  2099 (`Counted`, which is what `kernel_mktime` computes: lemma `Mktime`), and that
  a day of a later year is beyond what a long can hold: of 2100, which is no leap
  year, `Counted` would be wrong.
* `TimeIsReadAtOnce`: `[]StartupTimeIsNow`, by `Clock`: either some seconds, fewer than
  sixty, have passed since the seconds were read, and then they are other ones, or
  none have, and then all that has been read is what the clock still shows (`Fresh`).

Model-checked only: liveness (`WaitEnds`, `PendingIsTaken`), which needs fairness and
`ENABLED`.

## 5. Not modelled

`ipc_timer` and `ipc_check_reply_timeouts` are called by nothing, and every
entry has timeout 0, so they change nothing. Formatting, real-mode start-up and
register-level assembly are left out for good: they hold no protocol.

The process and the memory server are not modelled as such. The `tasks[]`
of the former is filled by MSG_SCHED_FORK and MSG_SCHED_SYS_FORK alone, which nobody
sends, so that its handlers find no process but the idle one; their answers, all failures but that to MSG_EXIT_DO_EXIT, are
what `TaskTable` and `Signals` start from. The memory server hands out a page in
a reply that does not carry it, so what a client makes of it is not determined
by the code. The port numbers of `main.c` and `server.c` are two tables of
constants that disagree; nothing happens between them. `setpgid`, sessions, files
and inodes are touched by `fork.c` and `exit.c` but belong to servers that are
not in the repository.

Modelled: `Ipc`, `KernelRpc`, `Printk`, `LocalMemory`, `BlockRequests`, `Calendar`,
`TaskTable`, `Signals`. The set of runs is kept small: a run that asks more of the
system replaces one whose violation a single step shows. All safety properties of the
passing runs are proved.
