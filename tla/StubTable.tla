----------------------------- MODULE StubTable -----------------------------
(***************************************************************************)
(* The stubs through which the kernel and the C library call the servers,  *)
(* and what of each matters to the others: the server it sends to, back    *)
(* (it names kernel_port as the reply port) and waits (it receives from    *)
(* kernel_port before it returns).  A header or a group of stubs of one    *)
(* file is the set of the shapes that occur in it.                         *)
(***************************************************************************)

Rpc(server) == [server |-> server, back |-> TRUE, waits |-> TRUE]
Notify(server) == [server |-> server, back |-> FALSE, waits |-> FALSE]
AskOnly(server) == [server |-> server, back |-> TRUE, waits |-> FALSE]

\* A request function with a need_reply parameter.
Either(server) == {Rpc(server), Notify(server)}

-----------------------------------------------------------------------------
(* The kernel. *)

sched_request == Either("process")
show_task == Rpc("process")
schedule == Rpc("process")
sleep_on == AskOnly("process")
interruptible_sleep_on == AskOnly("process")
wake_up == Notify("process")
floppy_timers == Either("device")
timers == {Notify("process")}
alarm_and_nice == {Rpc("process")}
sched_init == Rpc("process")

sched_c ==
  sched_request \cup floppy_timers \cup timers \cup alarm_and_nice
    \cup {show_task, schedule, sleep_on, interruptible_sleep_on, wake_up, sched_init}

fork_request == Either("process")
exit_request == Either("process")
signal_request == Either("signal")
do_signal == Rpc("signal")
send_signal == Notify("signal")
sys_request == UNION {Either(s) : s \in {"time", "process", "user", "memory", "system", "file"}}
user_request == Either("user")
mem_request == Either("memory")
blk_request == Rpc("device")
send_trap_message == Rpc("process")
die == Notify("system")
coprocessor_and_parallel == {Notify("process")}
printk == {Notify("log"), Notify("console")}
panic_print == Notify("console")
panic_sync == AskOnly("file")
panic_notify_servers == {Notify(s) : s \in {"file", "memory", "process", "system"}}
panic_end == {Notify("system")}
panic_recoverable == Rpc("system")
mktime_c == {Rpc("time")}
validate_and_epoch == {Rpc("time")}

kernel_c ==
  sched_c \cup fork_request \cup exit_request \cup signal_request \cup sys_request
    \cup user_request \cup mem_request \cup coprocessor_and_parallel \cup printk
    \cup panic_notify_servers \cup panic_end \cup mktime_c \cup validate_and_epoch
    \cup {do_signal, send_signal, blk_request, send_trap_message, die, panic_print,
          panic_sync, panic_recoverable}

-----------------------------------------------------------------------------
(* The headers. *)

do_syscall == {Rpc(s) : s \in {"process", "file", "fs", "signal", "time", "user",
                                "terminal", "ipc", "memory", "system"}}
kernel_h == {Notify("memory"), Notify("system"), Notify("console"), Notify("log"),
             Notify("tty"), AskOnly("memory")}
fs_request == Either("file")
wait_on == AskOnly("file")
fs_names == {Rpc("file"), Notify("file")}
fs_inodes == {Rpc("file"), Notify("file")}
fs_blocks == {Rpc("file"), Notify("file")}
fcntl_h == {Rpc("file")}
fcntl == {Rpc("file")}
stat_h == {Rpc("file")}
stat_and_fstat == {Rpc("file")}
utime_h == {Rpc("file")}
hd_request == Either("device")
hdreg_h == {Rpc("device"), Notify("device")}
hd_status == {Rpc("device")}
floppy_request == Either("device")
fdreg_h == {Rpc("device"), Notify("device")}
floppy_read_write == {Rpc("device")}
tty_h == Either("tty")
tty_output == {Notify("tty"), Rpc("tty")}
termios_h == {Rpc("tty")}
termios_flow == {Rpc("tty")}
segment_h == {Rpc("memory"), Notify("memory")}
segment_copy == {Rpc("memory"), Notify("memory")}
mm_h == {Rpc("memory"), Notify("memory")}
string_h == {Rpc("memory")}
memory_search == {Rpc("memory")}
sched_h == {Rpc("process"), Notify("process"), AskOnly("process")}
sched_tables == {Rpc("memory"), Rpc("process")}
signal_h == {Rpc("signal")}
signal_action == {Rpc("signal")}
times_h == {Rpc("process")}
resource_usage == {Rpc("process")}
wait_h == {Rpc("process")}
utsname_h == {Rpc("system")}
host_names == {Rpc("system")}
config_h == {Rpc("system")}
exec_load == Rpc("process")
io_h == {Rpc("device")}
memory_h == {Rpc("memory")}
system_h == {Notify("system")}
ctype_h == {Rpc("locale")}

headers ==
  do_syscall \cup kernel_h \cup fs_request \cup fs_names \cup fs_inodes \cup fs_blocks
    \cup fcntl_h \cup stat_h \cup utime_h \cup hd_request \cup hdreg_h
    \cup floppy_request \cup fdreg_h \cup tty_h \cup termios_h \cup segment_h \cup mm_h
    \cup string_h \cup sched_h \cup signal_h \cup times_h \cup wait_h \cup utsname_h
    \cup config_h \cup io_h \cup memory_h \cup system_h \cup ctype_h
    \cup fcntl \cup stat_and_fstat \cup hd_status \cup floppy_read_write \cup tty_output
    \cup termios_flow \cup segment_copy \cup memory_search \cup sched_tables
    \cup signal_action \cup resource_usage \cup host_names
    \cup {wait_on, exec_load}

AllStubs == kernel_c \cup headers
=============================================================================
