------------------------------- MODULE Printk -------------------------------
(***************************************************************************)
(* printk and the servers it writes to: the kernel formats a message into  *)
(* one static buffer, stores it in its own ring, sends it to the log       *)
(* server, which has a ring too, and, if it is urgent enough, to the       *)
(* console server.  Each mk_msg_send may give the processor away, and the  *)
(* static buffer is read again after the first.                            *)
(*                                                                         *)
(* A message is a text, a sequence of bytes.  A port is its queue of at    *)
(* most MAX_MSG_QUEUE texts.  Other code writes to the servers too, with   *)
(* no length or in another layout; the servers take what they find.        *)
(***************************************************************************)
EXTENDS Integers, Sequences, SequencesExt

CONSTANTS
  Tasks,
  Loggers, Consoles,  \* the tasks with CAP_LOG and with CAP_CONSOLE
  Texts,              \* what they print
  Strays,             \* what the servers read in messages that others fill
  NL, NUL,            \* two bytes
  Levels,             \* the log levels in use, of 0 .. 7
  LOG_SIZE,           \* sizeof(log_buf) and LOG_BUFFER_SIZE
  LOG_BUFFER_SIZE,
  MAX_TEXT,           \* sizeof(buf)
  CONSOLE_LIMIT,      \* where console_buffer starts again
  MAX_MSG_QUEUE,
  MaxChars            \* bound on log_chars

KERN_DEBUG == 7

ASSUME PrintkAssumption ==
  /\ Loggers \cup Consoles \subseteq Tasks
  /\ Levels \subseteq 0 .. KERN_DEBUG /\ KERN_DEBUG \in Levels
  /\ {LOG_SIZE, LOG_BUFFER_SIZE, MAX_TEXT, CONSOLE_LIMIT, MAX_MSG_QUEUE,
      MaxChars} \subseteq Nat
  /\ LOG_SIZE > 0 /\ LOG_BUFFER_SIZE > 0
  /\ \A text \in Texts :
       text \in Seq(Range(text)) /\ Len(text) < MAX_TEXT /\ NUL \notin Range(text)
  /\ \A text \in Strays : text \in Seq(Range(text))

-----------------------------------------------------------------------------

VARIABLES
  buf,               \* the formatting buffer, as far as it was ever written
  log,               \* the kernel's ring: bytes, start, end
  log_chars,
  console_loglevel,
  calls,             \* of each task, the printk it is in
  log_inbox, console_inbox,  \* the queues of the servers' ports
  server_log,        \* the log server's ring: log_buffer, log_tail, log_head
  console_buffer_pos

vars == <<buf, log, log_chars, console_loglevel, calls, log_inbox, console_inbox,
          server_log, console_buffer_pos>>

EmptyRing(size) == [bytes |-> [i \in 0 .. size - 1 |-> NUL], start |-> 0, end |-> 0]

\* at: "log" or "console", the server it sends msg to.  text, what it was asked to
\* print, is history.
Idle == [at |-> "idle", level |-> KERN_DEBUG, msg |-> <<>>, text |-> <<>>]

Init ==
  /\ buf = <<>>
  /\ log = EmptyRing(LOG_SIZE)
  /\ log_chars = 0
  /\ console_loglevel = KERN_DEBUG
  /\ calls = [t \in Tasks |-> Idle]
  /\ log_inbox = <<>> /\ console_inbox = <<>>
  /\ server_log = EmptyRing(LOG_BUFFER_SIZE)
  /\ console_buffer_pos = 0

-----------------------------------------------------------------------------
(* Rings. *)

Size(ring) == Cardinality(DOMAIN ring.bytes)

\* One turn of a storing loop: a ring that becomes full gives up its oldest byte.
PutByte_keepsStart(ring, byte) ==
  [ring EXCEPT !.bytes[ring.end] = byte, !.end = (ring.end + 1) % Size(ring)]
PutByte(ring, byte) ==
  LET end == (ring.end + 1) % Size(ring)
  IN [bytes |-> [ring.bytes EXCEPT ![ring.end] = byte],
      start |-> IF end = ring.start THEN (ring.start + 1) % Size(ring) ELSE ring.start,
      end   |-> end]

Put(ring, text) ==
  LET stored[n \in 0 .. Len(text)] ==
        IF n = 0 THEN ring ELSE PutByte(stored[n - 1], text[n])
  IN stored[Len(text)]

\* A text that does not end in a newline is stored with one.
Line(text) == IF text # <<>> /\ Last(text) # NL THEN Append(text, NL) ELSE text

printk_store_log(text) ==
  /\ log' = Put(log, Line(text))
  /\ log_chars' = log_chars + Len(text)

\* printk_get_log: at most len - 1 bytes, the oldest first.
GetLog(ring, len) ==
  LET used == (ring.end - ring.start) % Size(ring)
      n    == IF used < len THEN used ELSE len - 1
  IN [i \in 1 .. n |-> ring.bytes[(ring.start + i - 1) % Size(ring)]]

-----------------------------------------------------------------------------
(* printk. *)

\* vsprintf: text, a terminator, and what was in buf beyond.
Format(text) ==
  LET s == Append(text, NUL) IN s \o SubSeq(buf, Len(s) + 1, Len(buf))

\* The message for the console is copied from buf, once more.
ToConsole(t, level, text, from) ==
  calls' = [calls EXCEPT ![t] =
    IF level <= console_loglevel /\ t \in Consoles
      THEN [at |-> "console", level |-> level, text |-> text,
            msg |-> SubSeq(from, 1, Len(text))]
      ELSE Idle]

\* Formats the text, stores it, and fills the message for the log server.
printk(t, text, level) ==
  /\ calls[t].at = "idle"
  /\ log_chars + Len(text) <= MaxChars
  /\ buf' = Format(text)
  /\ printk_store_log(text)
  /\ IF t \in Loggers
       THEN calls' = [calls EXCEPT ![t] =
                        [at |-> "log", level |-> level, text |-> text,
                         msg |-> SubSeq(buf', 1, Len(text))]]
       ELSE ToConsole(t, level, text, buf')
  /\ UNCHANGED <<console_loglevel, log_inbox, console_inbox, server_log,
                 console_buffer_pos>>

\* Any level: one named in the text's prefix, the default, or that of printk_emerg
\* to printk_debug.
printk_at_level(t) == \E text \in Texts, level \in Levels : printk(t, text, level)

\* mk_msg_send puts msg in the queue, or fails, which printk ignores.
Enqueue(queue, msg) == Append(queue, msg)
Send(t, queue) ==
  \/ Len(queue) < MAX_MSG_QUEUE /\ queue' = Enqueue(queue, calls[t].msg)
  \/ UNCHANGED queue

\* The send to the log server returns, and printk goes on to the console.
SendLog(t) ==
  /\ calls[t].at = "log"
  /\ Send(t, log_inbox)
  /\ ToConsole(t, calls[t].level, calls[t].text, buf)
  /\ UNCHANGED <<buf, log, log_chars, console_loglevel, console_inbox, server_log,
                 console_buffer_pos>>

SendConsole(t) ==
  /\ calls[t].at = "console"
  /\ Send(t, console_inbox)
  /\ calls' = [calls EXCEPT ![t] = Idle]
  /\ UNCHANGED <<buf, log, log_chars, console_loglevel, log_inbox, server_log,
                 console_buffer_pos>>

\* Others: panic_print leaves the length of its message unset; printf and printk of
\* kernel.h fill another layout; printf of main.c has a buffer of its own.
OtherWrite(t) ==
  /\ calls[t].at = "idle"
  /\ \E text \in Strays :
       \/ /\ Len(log_inbox) < MAX_MSG_QUEUE
          /\ log_inbox' = Enqueue(log_inbox, text)
          /\ UNCHANGED console_inbox
       \/ /\ Len(console_inbox) < MAX_MSG_QUEUE
          /\ console_inbox' = Enqueue(console_inbox, text)
          /\ UNCHANGED log_inbox
  /\ UNCHANGED <<buf, log, log_chars, console_loglevel, calls, server_log,
                 console_buffer_pos>>

\* early_printk uses the same buffer and shows it at once.
early_printk(t, text) ==
  /\ calls[t].at = "idle"
  /\ buf' = Format(text)
  /\ UNCHANGED <<log, log_chars, console_loglevel, calls, log_inbox, console_inbox,
                 server_log, console_buffer_pos>>

printk_clear_log_keepsEnd(t) ==
  /\ calls[t].at = "idle"
  /\ log' = [log EXCEPT !.start = 0]
  /\ log_chars' = 0
  /\ UNCHANGED <<buf, console_loglevel, calls, log_inbox, console_inbox, server_log,
                 console_buffer_pos>>
printk_clear_log(t) ==
  /\ calls[t].at = "idle"
  /\ log' = [log EXCEPT !.start = 0, !.end = 0]
  /\ log_chars' = 0
  /\ UNCHANGED <<buf, console_loglevel, calls, log_inbox, console_inbox, server_log,
                 console_buffer_pos>>

\* A level above KERN_DEBUG is ignored.
printk_set_loglevel_unchecked(t, level) ==
  /\ calls[t].at = "idle"
  /\ console_loglevel' = level
  /\ UNCHANGED <<buf, log, log_chars, calls, log_inbox, console_inbox, server_log,
                 console_buffer_pos>>
printk_set_loglevel(t, level) ==
  /\ calls[t].at = "idle"
  /\ level <= KERN_DEBUG
  /\ console_loglevel' = level
  /\ UNCHANGED <<buf, log, log_chars, calls, log_inbox, console_inbox, server_log,
                 console_buffer_pos>>

-----------------------------------------------------------------------------
(* The servers' loops. *)

log_server_main ==
  /\ log_inbox # <<>>
  /\ server_log' = Put(server_log, Head(log_inbox))
  /\ log_inbox' = Tail(log_inbox)
  /\ UNCHANGED <<buf, log, log_chars, console_loglevel, calls, console_inbox,
                 console_buffer_pos>>

\* msg->len is not checked: what is written past the end of console_buffer is not
\* in the model.
console_server_main ==
  LET pos == console_buffer_pos + Len(Head(console_inbox))
  IN /\ console_inbox # <<>>
     /\ console_buffer_pos' = IF pos > CONSOLE_LIMIT THEN 0 ELSE pos
     /\ console_inbox' = Tail(console_inbox)
     /\ UNCHANGED <<buf, log, log_chars, console_loglevel, calls, log_inbox, server_log>>

Next ==
  \/ \E t \in Tasks :
       \/ printk_at_level(t)
       \/ SendLog(t)
       \/ SendConsole(t)
       \/ OtherWrite(t)
       \/ \E text \in Texts : early_printk(t, text)
       \/ printk_clear_log(t)
       \/ \E level \in Levels \cup {KERN_DEBUG + 1} : printk_set_loglevel(t, level)
  \/ log_server_main
  \/ console_server_main

Spec == Init /\ [][Next]_vars

-----------------------------------------------------------------------------
(* Properties. *)

Received == Texts \cup Strays
Bytes == (UNION {Range(text) : text \in Received}) \cup {NL, NUL}
Strings == UNION {[1 .. n -> Bytes] : n \in 0 .. MAX_TEXT}

Rings(size) ==
  [bytes : [0 .. size - 1 -> Bytes], start : 0 .. size - 1, end : 0 .. size - 1]

IsQueue(queue) ==
  Len(queue) <= MAX_MSG_QUEUE /\ Range(queue) \subseteq Strings \cup Strays

\* The types of the variables; buf stays within its size.
TypeOK ==
  /\ buf \in Strings
  /\ log \in Rings(LOG_SIZE) /\ server_log \in Rings(LOG_BUFFER_SIZE)
  /\ log_chars \in 0 .. MaxChars
  /\ console_loglevel \in Levels
  /\ calls \in [Tasks -> [at : {"idle", "log", "console"}, level : Levels,
                         msg : Strings, text : Texts \cup {<<>>}]]
  /\ IsQueue(log_inbox) /\ IsQueue(console_inbox)
  /\ console_buffer_pos \in 0 .. CONSOLE_LIMIT

\* printk_get_log returns the newest bytes that were printed, lines completed, in
\* the order they were printed in, however often the ring has wrapped around.
KernelLog == INSTANCE ByteLog WITH
  log <- GetLog(log, LOG_SIZE), Texts <- {Line(text) : text \in Texts},
  Capacity <- LOG_SIZE - 1
LogKeepsNewest == KernelLog!Spec

\* The log server's ring keeps the newest bytes of the messages it received, and
\* is never cleared.
ServerLog == INSTANCE ByteLog WITH
  log <- GetLog(server_log, LOG_BUFFER_SIZE), Texts <- Received,
  Capacity <- LOG_BUFFER_SIZE - 1
ServerLogKeepsNewest == ServerLog!LastingSpec

=============================================================================
