---------------------------- MODULE PrintkProofs ----------------------------
(***************************************************************************)
(* For any texts, sizes and tasks: printk_get_log and the log server's     *)
(* ring show the newest bytes of what they were given; and every variable  *)
(* keeps its type.                                                         *)
(*                                                                         *)
(* The message for the console is as long as the text that printk was      *)
(* given, because buf, once written, never gets shorter; the message for   *)
(* the log server is the text, because it is copied before the processor   *)
(* can be given away.  A ring shows its bytes from start on, and each turn *)
(* of the storing loop shows one more or gives the oldest up.              *)
(***************************************************************************)
EXTENDS Printk, SequenceTheorems, FiniteSetTheorems, TLAPS

Messages == {s \in Seq(Bytes) : Len(s) <= MAX_TEXT}

Calls ==
  [at : {"idle", "log", "console"}, level : Levels, msg : Messages, text : Messages]

\* BufInv relates the length of buf to that of the texts still to be read from it.
BufInv ==
  /\ buf \in Seq(Bytes)
  /\ calls \in [Tasks -> Calls]
  /\ \A t \in Tasks : calls[t].at = "log" => Len(calls[t].text) <= Len(buf)

ConsoleInv ==
  /\ console_inbox \in Seq(Messages \cup Strays)
  /\ console_buffer_pos \in 0 .. CONSOLE_LIMIT

CopiesInv == BufInv /\ ConsoleInv

\* The size of buf, and where console_buffer starts again.
LEMMA Sizes ==
  /\ MAX_TEXT \in Nat /\ CONSOLE_LIMIT \in Nat
  /\ KERN_DEBUG \in Levels
BY PrintkAssumption DEF PrintkAssumption

\* What the tasks print is a message.
LEMMA TextsAreMessages ==
  ASSUME NEW text \in Texts
  PROVE  text \in Messages
<1>1. text \in Seq(Range(text)) /\ Len(text) < MAX_TEXT
  BY PrintkAssumption DEF PrintkAssumption
<1>2. Range(text) \subseteq Bytes
  BY DEF Bytes, Received
<1>3. text \in Seq(Bytes)
  BY <1>1, <1>2
<1> QED BY <1>1, <1>3, Sizes DEF Messages

\* What others fill, whatever its length, is a sequence of bytes.
LEMMA StraysAreBytes ==
  ASSUME NEW text \in Strays
  PROVE  text \in Seq(Bytes)
<1>1. text \in Seq(Range(text))
  BY PrintkAssumption DEF PrintkAssumption
<1>2. Range(text) \subseteq Bytes
  BY DEF Bytes, Received
<1> QED BY <1>1, <1>2

\* The entry of a task in no call is well typed.
LEMMA IdleIsCall == Idle \in Calls
<1>1. << >> \in Messages
  BY Sizes DEF Messages
<1> QED BY <1>1, Sizes DEF Idle, Calls

\* vsprintf leaves text at the start of a buffer no shorter than before.
LEMMA FormatKeepsLength ==
  ASSUME NEW text \in Messages, buf \in Seq(Bytes)
  PROVE  /\ Format(text) \in Seq(Bytes)
         /\ Len(Format(text)) >= Len(buf)
         /\ Len(Format(text)) > Len(text)
<1> DEFINE s == Append(text, NUL)
           rest == SubSeq(buf, Len(s) + 1, Len(buf))
<1>1. NUL \in Bytes
  BY DEF Bytes
<1>2. text \in Seq(Bytes)
  BY DEF Messages
<1>3. s \in Seq(Bytes) /\ Len(s) = Len(text) + 1
  BY <1>1, <1>2
<1> HIDE DEF s
<1>4. rest \in Seq(Bytes) /\ Len(s) + Len(rest) >= Len(buf)
  <2>1. Len(s) \in Nat /\ Len(buf) \in Nat
    BY <1>3
  <2>2. CASE Len(s) + 1 <= Len(buf)
    BY <2>1, <2>2, SubSeqProperties
  <2>3. CASE Len(s) >= Len(buf)
    <3>1. rest = << >>
      BY <2>1, <2>3, SubSeqProperties
    <3> QED BY <2>1, <2>3, <3>1
  <2> QED BY <2>1, <2>2, <2>3
<1> HIDE DEF rest
<1>5. s \o rest \in Seq(Bytes) /\ Len(s \o rest) = Len(s) + Len(rest)
  BY <1>3, <1>4
<1>6. Len(rest) \in Nat /\ Len(text) \in Nat /\ Len(buf) \in Nat
  BY <1>2, <1>4
<1>7. Len(s \o rest) >= Len(buf) /\ Len(s \o rest) > Len(text)
  BY <1>3, <1>4, <1>5, <1>6
<1>8. Format(text) = s \o rest
  BY DEF Format, s, rest
<1> QED BY <1>5, <1>7, <1>8

\* What is copied for the console has the length of the text, and so is a message.
LEMMA PrefixIsMessage ==
  ASSUME NEW text \in Messages, NEW from \in Seq(Bytes), Len(text) <= Len(from)
  PROVE  SubSeq(from, 1, Len(text)) \in Messages
<1>1. Len(text) \in Nat /\ Len(text) <= MAX_TEXT
  BY DEF Messages
<1>2. \A i \in 1 .. Len(text) : from[i] \in Bytes
  BY <1>1
<1>3. SubSeq(from, 1, Len(text)) \in Seq(Bytes)
  BY <1>1, <1>2, SubSeqProperties
<1>4. Len(SubSeq(from, 1, Len(text))) = Len(text)
  BY <1>1, <1>2, SubSeqProperties
<1> QED BY <1>1, <1>3, <1>4 DEF Messages

\* ToConsole fills a message in, or ends the call.
LEMMA ToConsoleKeepsCalls ==
  ASSUME NEW t \in Tasks, NEW level \in Levels, NEW text \in Messages,
         NEW from \in Seq(Bytes), Len(text) <= Len(from),
         calls \in [Tasks -> Calls], ToConsole(t, level, text, from)
  PROVE  /\ calls' \in [Tasks -> Calls]
         /\ calls'[t].at # "log"
         /\ \A u \in Tasks : u # t => calls'[u] = calls[u]
<1> DEFINE sending == [at |-> "console", level |-> level, text |-> text,
                       msg |-> SubSeq(from, 1, Len(text))]
<1>1. sending \in Calls
  BY PrefixIsMessage DEF Calls
<1>2. Idle \in Calls
  BY Sizes, IdleIsCall
<1>3. \/ calls' = [calls EXCEPT ![t] = sending]
      \/ calls' = [calls EXCEPT ![t] = Idle]
  BY DEF ToConsole
<1>4. sending.at # "log" /\ Idle.at # "log"
  BY DEF Idle
<1> HIDE DEF sending
<1> QED BY <1>1, <1>2, <1>3, <1>4

LEMMA InitCopies == Init => CopiesInv
<1> SUFFICES ASSUME Init PROVE CopiesInv
  OBVIOUS
<1>1. BufInv
  BY IdleIsCall DEF Init, BufInv, Idle
<1>2. ConsoleInv
  BY Sizes DEF Init, ConsoleInv
<1> QED BY <1>1, <1>2 DEF CopiesInv

\* Formatting into buf disturbs no text still to be read from it.
LEMMA FormatKeepsBufInv ==
  ASSUME BufInv, NEW text \in Texts, buf' = Format(text)
  PROVE  /\ buf' \in Seq(Bytes)
         /\ Len(text) <= Len(buf')
         /\ \A t \in Tasks : calls[t].at = "log" => Len(calls[t].text) <= Len(buf')
<1>1. text \in Messages
  BY TextsAreMessages
<1>2. buf' \in Seq(Bytes) /\ Len(buf') >= Len(buf) /\ Len(buf') > Len(text)
  BY <1>1, FormatKeepsLength DEF BufInv
<1>3. Len(buf) \in Nat /\ Len(buf') \in Nat /\ Len(text) \in Nat
  BY <1>1, <1>2 DEF BufInv, Messages
<1>4. \A t \in Tasks : Len(calls[t].text) \in Nat
  BY DEF BufInv, Calls, Messages
<1> QED BY <1>2, <1>3, <1>4 DEF BufInv

LEMMA StepKeepsCopies == CopiesInv /\ [Next]_vars => CopiesInv'
<1> SUFFICES ASSUME CopiesInv, [Next]_vars PROVE CopiesInv'
  OBVIOUS
<1> USE DEF CopiesInv
<1>1. ASSUME NEW t \in Tasks, NEW text \in Texts, NEW level \in Levels,
             printk(t, text, level)
      PROVE  CopiesInv'
  <2>1. /\ text \in Messages
        /\ buf' \in Seq(Bytes)
        /\ Len(text) <= Len(buf')
        /\ \A u \in Tasks : calls[u].at = "log" => Len(calls[u].text) <= Len(buf')
    BY <1>1, FormatKeepsBufInv, TextsAreMessages DEF printk
  <2>2. CASE t \in Loggers
    <3> DEFINE sending == [at |-> "log", level |-> level, text |-> text,
                           msg |-> SubSeq(buf', 1, Len(text))]
    <3>1. calls' = [calls EXCEPT ![t] = sending]
      BY <1>1, <2>2 DEF printk
    <3>2. sending \in Calls
      BY <2>1, PrefixIsMessage DEF Calls
    <3>3. BufInv'
      BY <2>1, <3>1, <3>2 DEF BufInv
    <3> QED BY <1>1, <3>3 DEF printk, ConsoleInv
  <2>3. CASE t \notin Loggers
    <3>1. ToConsole(t, level, text, buf')
      BY <1>1, <2>3 DEF printk
    <3>2. /\ calls' \in [Tasks -> Calls]
          /\ calls'[t].at # "log"
          /\ \A u \in Tasks : u # t => calls'[u] = calls[u]
      BY <2>1, <3>1, ToConsoleKeepsCalls DEF BufInv
    <3>3. BufInv'
      BY <2>1, <3>2 DEF BufInv
    <3> QED BY <1>1, <3>3 DEF printk, ConsoleInv
  <2> QED BY <2>2, <2>3
<1>2. ASSUME NEW t \in Tasks, SendLog(t) PROVE CopiesInv'
  <2>1. /\ calls[t] \in Calls /\ calls[t].at = "log"
        /\ ToConsole(t, calls[t].level, calls[t].text, buf)
    BY <1>2 DEF SendLog, BufInv
  <2>2. /\ calls[t].level \in Levels /\ calls[t].text \in Messages
        /\ Len(calls[t].text) <= Len(buf)
    BY <2>1 DEF Calls, BufInv
  <2>3. /\ calls' \in [Tasks -> Calls]
        /\ calls'[t].at # "log"
        /\ \A u \in Tasks : u # t => calls'[u] = calls[u]
    BY <2>1, <2>2, ToConsoleKeepsCalls DEF BufInv
  <2>4. BufInv'
    BY <1>2, <2>3 DEF BufInv, SendLog
  <2> QED BY <1>2, <2>4 DEF SendLog, ConsoleInv
<1>3. ASSUME NEW t \in Tasks, SendConsole(t) PROVE CopiesInv'
  <2>1. BufInv'
    BY <1>3, IdleIsCall DEF SendConsole, BufInv, Idle
  <2>2. calls[t].msg \in Messages
    BY DEF BufInv, Calls
  <2>3. console_inbox' \in Seq(Messages \cup Strays)
    BY <1>3, <2>2 DEF SendConsole, Send, Enqueue, ConsoleInv
  <2> QED BY <1>3, <2>1, <2>3 DEF SendConsole, ConsoleInv
<1>3a. ASSUME NEW t \in Tasks, OtherWrite(t) PROVE CopiesInv'
  <2>1. PICK text \in Strays :
          \/ console_inbox' = Append(console_inbox, text) \/ UNCHANGED console_inbox
    BY <1>3a DEF OtherWrite, Enqueue
  <2>2. console_inbox' \in Seq(Messages \cup Strays)
    BY <2>1 DEF ConsoleInv
  <2> QED
    BY <1>3a, <2>2 DEF OtherWrite, BufInv, ConsoleInv
<1>4. ASSUME NEW t \in Tasks, NEW text \in Texts, early_printk(t, text)
      PROVE  CopiesInv'
  <2>1. BufInv'
    BY <1>4, FormatKeepsBufInv DEF early_printk, BufInv
  <2> QED BY <1>4, <2>1 DEF early_printk, ConsoleInv
<1>5. ASSUME NEW t \in Tasks, printk_clear_log(t) PROVE CopiesInv'
  BY <1>5 DEF printk_clear_log, BufInv, ConsoleInv
<1>6. ASSUME NEW t \in Tasks, NEW level, printk_set_loglevel(t, level) PROVE CopiesInv'
  BY <1>6 DEF printk_set_loglevel, BufInv, ConsoleInv
<1>7. ASSUME log_server_main PROVE CopiesInv'
  BY <1>7 DEF log_server_main, BufInv, ConsoleInv
<1>8. ASSUME console_server_main PROVE CopiesInv'
  <2> DEFINE msg == Head(console_inbox)
             pos == console_buffer_pos + Len(msg)
  <2>1. console_inbox' \in Seq(Messages \cup Strays) /\ msg \in Messages \cup Strays
    BY <1>8 DEF console_server_main, ConsoleInv
  <2>2. msg \in Seq(Bytes)
    BY <2>1, StraysAreBytes DEF Messages
  <2>2a. pos \in Nat
    BY <2>2, Sizes DEF ConsoleInv
  <2>3. console_buffer_pos' \in 0 .. CONSOLE_LIMIT
    BY <1>8, <2>2a, Sizes DEF console_server_main
  <2>4. BufInv'
    BY <1>8 DEF console_server_main, BufInv
  <2> QED BY <2>1, <2>3, <2>4 DEF ConsoleInv
<1>9. CASE UNCHANGED vars
  BY <1>9 DEF vars, BufInv, ConsoleInv
<1> QED
  BY <1>1, <1>2, <1>3, <1>3a, <1>4, <1>5, <1>6, <1>7, <1>8, <1>9
  DEF Next, printk_at_level

-----------------------------------------------------------------------------
(* What a ring shows. *)

\* What holds of 0 and goes up from each number below L to the next holds up to L.
LEMMA Climb ==
  ASSUME NEW L \in Nat, NEW T, 0 \in T, \A n \in 0 .. L - 1 : n \in T => n + 1 \in T
  PROVE  \A n \in 0 .. L : n \in T
<1> DEFINE U == {n \in 0 .. L : n \notin T}
<1>1. ASSUME U # {} PROVE FALSE
  <2>1. U \subseteq Nat
    OBVIOUS
  <2>2. PICK m \in U : \A k \in U : ~(<<k, m>> \in OpToRel(<, Nat))
    BY <1>1, <2>1, NatLessThanWellFounded, WFMin
  <2>3. m \in 0 .. L /\ m \notin T /\ m # 0
    BY <2>2
  <2>4. m - 1 \in 0 .. L - 1
    BY <2>3
  <2>5. m - 1 \notin T
    <3>1. (m - 1) + 1 = m
      BY <2>3
    <3> QED
      BY <2>3, <2>4, <3>1
  <2>6. m - 1 \in U
    BY <2>4, <2>5
  <2>7. <<m - 1, m>> \in OpToRel(<, Nat)
    BY <2>3 DEF OpToRel
  <2> QED
    BY <2>2, <2>6, <2>7
<1> QED
  BY <1>1

\* The loop that stores n bytes of a text.
Turns(ring, text, n, f) ==
  f = [k \in 0 .. n |-> IF k = 0 THEN ring ELSE PutByte(f[k - 1], text[k])]

LEMMA TurnsExist ==
  ASSUME NEW ring, NEW text, NEW L \in Nat
  PROVE  \E f : Turns(ring, text, L, f)
<1> DEFINE T == {n \in 0 .. L : \E f : Turns(ring, text, n, f)}
<1>1. 0 \in T
  <2>1. Turns(ring, text, 0, [k \in 0 .. 0 |-> ring])
    BY DEF Turns
  <2> QED
    BY <2>1
<1>2. ASSUME NEW n \in 0 .. L - 1, n \in T PROVE n + 1 \in T
  <2>1. PICK f : Turns(ring, text, n, f)
    BY <1>2
  <2> DEFINE g == [k \in 0 .. n + 1 |->
                     IF k = n + 1 THEN PutByte(f[n], text[n + 1]) ELSE f[k]]
  <2>2. \A k \in 0 .. n : f[k] = IF k = 0 THEN ring ELSE PutByte(f[k - 1], text[k])
    BY <2>1 DEF Turns
  <2>3. \A k \in 0 .. n : k \in 0 .. n + 1 /\ k # n + 1 /\ g[k] = f[k]
    OBVIOUS
  <2>4. g[n + 1] = PutByte(f[n], text[n + 1])
    OBVIOUS
  <2>5. \A k \in 0 .. n + 1 :
          g[k] = IF k = 0 THEN ring ELSE PutByte(g[k - 1], text[k])
    <3> TAKE k \in 0 .. n + 1
    <3> HIDE DEF g
    <3>1. CASE k = n + 1
      <4>1. k - 1 = n /\ n \in 0 .. n /\ k # 0
        BY <3>1
      <4> QED
        BY <2>3, <2>4, <3>1, <4>1
    <3>2. CASE k # n + 1
      <4>1. k \in 0 .. n /\ (k # 0 => k - 1 \in 0 .. n)
        BY <3>2
      <4> QED
        BY <2>2, <2>3, <4>1
    <3> QED
      BY <3>1, <3>2
  <2>6. Turns(ring, text, n + 1, g)
    <3> DEFINE h == [k \in 0 .. n + 1 |->
                       IF k = 0 THEN ring ELSE PutByte(g[k - 1], text[k])]
    <3>1. g = h
      BY <2>5
    <3> QED
      BY <3>1 DEF Turns
  <2>7. n + 1 \in 0 .. L
    OBVIOUS
  <2> QED
    BY <2>6, <2>7
<1>3. L \in T
  <2> HIDE DEF T
  <2>1. L \in 0 .. L
    OBVIOUS
  <2> QED
    BY <1>1, <1>2, <2>1, Climb
<1> QED
  BY <1>3

\* What Put does one byte at a time.
LEMMA PutTurns ==
  ASSUME NEW ring, NEW text, Len(text) \in Nat
  PROVE  \E f : /\ Put(ring, text) = f[Len(text)]
                /\ f[0] = ring
                /\ \A n \in 0 .. Len(text) - 1 : f[n + 1] = PutByte(f[n], text[n + 1])
<1> DEFINE stored == CHOOSE f : Turns(ring, text, Len(text), f)
<1>1. Turns(ring, text, Len(text), stored)
  BY TurnsExist
<1>2. Put(ring, text) = stored[Len(text)]
  BY DEF Put, Turns
<1> HIDE DEF stored
<1>3. \A k \in 0 .. Len(text) :
        stored[k] = IF k = 0 THEN ring ELSE PutByte(stored[k - 1], text[k])
  BY <1>1 DEF Turns
<1>4. stored[0] = ring
  BY <1>3
<1>5. \A n \in 0 .. Len(text) - 1 : stored[n + 1] = PutByte(stored[n], text[n + 1])
  <2> TAKE n \in 0 .. Len(text) - 1
  <2>1. n + 1 \in 0 .. Len(text) /\ n + 1 # 0 /\ (n + 1) - 1 = n
    OBVIOUS
  <2> QED
    BY <1>3, <2>1
<1> QED
  BY <1>2, <1>4, <1>5

\* The newest bytes of a text that a ring of N bytes can hold.
Newest(N, s) == SubSeq(s, IF Len(s) > N - 1 THEN Len(s) - (N - 1) + 1 ELSE 1, Len(s))

LEMMA NewestIs ==
  ASSUME NEW N \in Nat, N > 0, NEW s \in Seq(Bytes)
  PROVE  /\ Newest(N, s) \in Seq(Bytes)
         /\ Len(Newest(N, s)) = IF Len(s) > N - 1 THEN N - 1 ELSE Len(s)
         /\ \A i \in 1 .. Len(Newest(N, s)) :
              Newest(N, s)[i] = s[Len(s) - Len(Newest(N, s)) + i]
<1> DEFINE m == IF Len(s) > N - 1 THEN Len(s) - (N - 1) + 1 ELSE 1
<1>1. Len(s) \in Nat /\ m \in 1 .. Len(s) + 1
  OBVIOUS
<1>2. \A i \in m .. Len(s) : s[i] \in Bytes
  BY <1>1
<1>3. Newest(N, s) = SubSeq(s, m, Len(s))
  BY DEF Newest
<1>4. Len(s) - m + 1 = IF Len(s) > N - 1 THEN N - 1 ELSE Len(s)
  BY <1>1
<1> HIDE DEF m
<1>5. /\ Newest(N, s) \in Seq(Bytes)
      /\ Len(Newest(N, s)) = IF m <= Len(s) THEN Len(s) - m + 1 ELSE 0
      /\ \A i \in 1 .. Len(s) - m + 1 : Newest(N, s)[i] = s[m + i - 1]
  BY <1>1, <1>2, <1>3, SubSeqProperties
<1>6. Len(Newest(N, s)) = Len(s) - m + 1
  BY <1>1, <1>5
<1>7. \A i \in 1 .. Len(s) - m + 1 : m + i - 1 = Len(s) - (Len(s) - m + 1) + i
  BY <1>1
<1> QED
  BY <1>4, <1>5, <1>6, <1>7

\* Bytes that are too old once are too old for good.
LEMMA NewestAppend ==
  ASSUME NEW N \in Nat, N > 0, NEW s \in Seq(Bytes), NEW b \in Bytes
  PROVE  Newest(N, Append(Newest(N, s), b)) = Newest(N, Append(s, b))
<1> DEFINE t == Newest(N, s)
           u == Append(t, b)
           v == Append(s, b)
<1>1. /\ t \in Seq(Bytes) /\ Len(t) = IF Len(s) > N - 1 THEN N - 1 ELSE Len(s)
      /\ \A i \in 1 .. Len(t) : t[i] = s[Len(s) - Len(t) + i]
  BY NewestIs
<1> HIDE DEF t
<1>2. /\ u \in Seq(Bytes) /\ Len(u) = Len(t) + 1 /\ u[Len(t) + 1] = b
      /\ \A i \in 1 .. Len(t) : u[i] = t[i]
  BY <1>1
<1>3. /\ v \in Seq(Bytes) /\ Len(v) = Len(s) + 1 /\ v[Len(s) + 1] = b
      /\ \A i \in 1 .. Len(s) : v[i] = s[i]
  OBVIOUS
<1> HIDE DEF u, v
<1> DEFINE x == Newest(N, u)
           y == Newest(N, v)
<1>4. /\ x \in Seq(Bytes) /\ Len(x) = IF Len(u) > N - 1 THEN N - 1 ELSE Len(u)
      /\ \A i \in 1 .. Len(x) : x[i] = u[Len(u) - Len(x) + i]
  BY <1>2, NewestIs
<1>5. /\ y \in Seq(Bytes) /\ Len(y) = IF Len(v) > N - 1 THEN N - 1 ELSE Len(v)
      /\ \A i \in 1 .. Len(y) : y[i] = v[Len(v) - Len(y) + i]
  BY <1>3, NewestIs
<1> HIDE DEF x, y
<1>6. Len(s) \in Nat /\ Len(t) \in Nat /\ Len(x) \in Nat /\ Len(x) = Len(y)
  BY <1>1, <1>2, <1>3, <1>4, <1>5
<1>7. Len(x) <= Len(t) + 1 /\ Len(t) <= Len(s)
  BY <1>1, <1>2, <1>4, <1>6
<1>8. \A i \in 1 .. Len(x) : x[i] = y[i]
  <2> TAKE i \in 1 .. Len(x)
  <2>1. x[i] = u[Len(t) + 1 - Len(x) + i] /\ y[i] = v[Len(s) + 1 - Len(x) + i]
    <3>1. x[i] = u[Len(u) - Len(x) + i]
      BY <1>4
    <3>2. i \in 1 .. Len(y)
      BY <1>6
    <3>3. y[i] = v[Len(v) - Len(y) + i]
      BY <1>5, <3>2
    <3> QED
      BY <1>2, <1>3, <1>6, <3>1, <3>3
  <2>2. CASE i = Len(x)
    <3>1. Len(t) + 1 - Len(x) + i = Len(t) + 1 /\ Len(s) + 1 - Len(x) + i = Len(s) + 1
      BY <1>6, <2>2
    <3> QED
      BY <1>2, <1>3, <2>1, <3>1
  <2>3. CASE i # Len(x)
    <3> DEFINE j == Len(t) + 1 - Len(x) + i
    <3>1. j \in 1 .. Len(t) /\ Len(s) + 1 - Len(x) + i = Len(s) - Len(t) + j
      BY <1>6, <1>7, <2>3
    <3>2. Len(s) - Len(t) + j \in 1 .. Len(s)
      BY <1>6, <1>7, <3>1
    <3> HIDE DEF j
    <3>3. u[j] = s[Len(s) - Len(t) + j]
      BY <1>1, <1>2, <3>1
    <3>4. v[Len(s) - Len(t) + j] = s[Len(s) - Len(t) + j]
      BY <1>3, <3>2
    <3> QED
      BY <2>1, <3>1, <3>3, <3>4 DEF j
  <2> QED
    BY <2>2, <2>3
<1>9. x = y
  BY <1>4, <1>5, <1>6, <1>8, SeqEqual
<1> QED
  BY <1>9 DEF x, y, u, v, t

LEMMA NewestShort ==
  ASSUME NEW N \in Nat, N > 0, NEW s \in Seq(Bytes), Len(s) <= N - 1
  PROVE  Newest(N, s) = s
<1>1. Len(Newest(N, s)) = Len(s) /\ Newest(N, s) \in Seq(Bytes)
  BY NewestIs
<1>2. \A i \in 1 .. Len(s) : Newest(N, s)[i] = s[i]
  BY <1>1, NewestIs
<1> QED
  BY <1>1, <1>2, SeqEqual

\* Once around the ring.
LEMMA Around ==
  ASSUME NEW N \in Nat, N > 0, NEW x \in Int
  PROVE  /\ 0 <= x /\ x < N => x % N = x
         /\ N <= x /\ x < 2 * N => x % N = x - N
         /\ x < 0 /\ -N <= x => x % N = x + N
OBVIOUS

\* The i-th place from the start of a ring, and what the ring shows there.
Place(start, N, i) == IF start + i - 1 < N THEN start + i - 1 ELSE start + i - 1 - N
Used(start, end, N) == IF start <= end THEN end - start ELSE end - start + N

LEMMA RingSize ==
  ASSUME NEW N \in Nat, N > 0, NEW ring \in Rings(N)
  PROVE  Size(ring) = N
<1>1. DOMAIN ring.bytes = 0 .. N - 1
  BY DEF Rings
<1>2. Cardinality(0 .. N - 1) = N
  BY FS_Interval
<1> QED
  BY <1>1, <1>2 DEF Size

LEMMA RingShows ==
  ASSUME NEW N \in Nat, N > 0, NEW ring \in Rings(N)
  PROVE  /\ Used(ring.start, ring.end, N) \in 0 .. N - 1
         /\ GetLog(ring, N) \in Seq(Bytes)
         /\ Len(GetLog(ring, N)) = Used(ring.start, ring.end, N)
         /\ \A i \in 1 .. N - 1 : Place(ring.start, N, i) \in 0 .. N - 1
         /\ \A i \in 1 .. Used(ring.start, ring.end, N) :
              GetLog(ring, N)[i] = ring.bytes[Place(ring.start, N, i)]
<1>1. /\ ring.start \in 0 .. N - 1 /\ ring.end \in 0 .. N - 1
      /\ ring.bytes \in [0 .. N - 1 -> Bytes]
  BY DEF Rings
<1>2. Used(ring.start, ring.end, N) \in 0 .. N - 1
  BY <1>1 DEF Used
<1>3. (ring.end - ring.start) % N = Used(ring.start, ring.end, N)
  BY <1>1, Around DEF Used
<1>4. \A i \in 1 .. N - 1 :
        /\ Place(ring.start, N, i) \in 0 .. N - 1
        /\ (ring.start + i - 1) % N = Place(ring.start, N, i)
  <2> TAKE i \in 1 .. N - 1
  <2>1. ring.start + i - 1 \in Int
    BY <1>1
  <2>2. 0 <= ring.start + i - 1 /\ ring.start + i - 1 < 2 * N
    BY <1>1
  <2>3. Place(ring.start, N, i) = (ring.start + i - 1) % N
    <3>1. CASE ring.start + i - 1 < N
      <4>1. (ring.start + i - 1) % N = ring.start + i - 1
        BY <2>1, <2>2, <3>1, Around
      <4> QED
        BY <1>1, <2>1, <3>1, <4>1 DEF Place
    <3>2. CASE ~(ring.start + i - 1 < N)
      <4>1. N <= ring.start + i - 1
        BY <2>1, <3>2
      <4>2. (ring.start + i - 1) % N = (ring.start + i - 1) - N
        BY <2>1, <2>2, <4>1, Around
      <4> QED
        BY <1>1, <2>1, <3>2, <4>2 DEF Place
    <3> QED
      BY <3>1, <3>2
  <2>4. Place(ring.start, N, i) \in 0 .. N - 1
    BY <1>1, <2>1, <2>2 DEF Place
  <2> QED
    BY <2>3, <2>4
<1>5. GetLog(ring, N)
        = [i \in 1 .. Used(ring.start, ring.end, N) |->
             ring.bytes[(ring.start + i - 1) % N]]
  <2>1. Size(ring) = N
    BY RingSize
  <2>2. Used(ring.start, ring.end, N) < N
    BY <1>2
  <2> QED
    BY <1>3, <2>1, <2>2 DEF GetLog
<1>6. \A i \in 1 .. Used(ring.start, ring.end, N) :
        ring.bytes[(ring.start + i - 1) % N] = ring.bytes[Place(ring.start, N, i)]
          /\ ring.bytes[Place(ring.start, N, i)] \in Bytes
  <2> TAKE i \in 1 .. Used(ring.start, ring.end, N)
  <2>1. i \in 1 .. N - 1
    BY <1>2
  <2>2. /\ Place(ring.start, N, i) \in 0 .. N - 1
        /\ (ring.start + i - 1) % N = Place(ring.start, N, i)
    BY <1>4, <2>1
  <2> QED
    BY <1>1, <2>2
<1>7. GetLog(ring, N) \in [1 .. Used(ring.start, ring.end, N) -> Bytes]
  BY <1>5, <1>6
<1>8. GetLog(ring, N) \in Seq(Bytes) /\ Len(GetLog(ring, N)) = Used(ring.start, ring.end, N)
  BY <1>2, <1>7
<1> QED
  BY <1>2, <1>4, <1>5, <1>6, <1>8

\* The place after another, and where a ring starts when it has stored one more byte.
After(N, place) == IF place + 1 < N THEN place + 1 ELSE 0
StartAfter(N, start, end) == IF After(N, end) = start THEN After(N, start) ELSE start

LEMMA AfterIs ==
  ASSUME NEW N \in Nat, N > 0, NEW place \in 0 .. N - 1
  PROVE  After(N, place) \in 0 .. N - 1 /\ (place + 1) % N = After(N, place)
<1>1. place + 1 \in Int /\ 0 <= place + 1 /\ place + 1 < 2 * N
  OBVIOUS
<1>2. CASE place + 1 < N
  BY <1>1, <1>2, Around DEF After
<1>3. CASE ~(place + 1 < N)
  <2>1. place + 1 = N
    BY <1>3
  <2>2. (place + 1) % N = (place + 1) - N
    BY <1>1, <2>1, Around
  <2> QED
    BY <1>3, <2>1, <2>2 DEF After
<1> QED
  BY <1>2, <1>3

\* The bytes used after one more is stored, and what they were before.
LEMMA OneMore ==
  ASSUME NEW N \in Nat, N > 0, NEW start \in Nat, start < N, NEW end \in Nat, end < N,
         NEW used \in Nat, used = Used(start, end, N),
         NEW more \in Int,
         more = Used(StartAfter(N, start, end), After(N, end), N)
  PROVE  more = IF used + 1 > N - 1 THEN N - 1 ELSE used + 1
BY DEF Used, After, StartAfter

LEMMA SamePlaces ==
  ASSUME NEW N \in Nat, N > 0, NEW start \in Nat, start < N, NEW end \in Nat, end < N,
         NEW used \in Nat, used = Used(start, end, N),
         NEW i \in Nat, 1 <= i, i <= used + 1, i < N,
         NEW j \in Nat, j = IF used + 1 > N - 1 THEN i + 1 ELSE i
  PROVE  Place(StartAfter(N, start, end), N, i) = Place(start, N, j)
BY DEF Used, After, StartAfter, Place

LEMMA EndPlace ==
  ASSUME NEW N \in Nat, N > 0, NEW start \in Nat, start < N, NEW end \in Nat, end < N,
         NEW used \in Nat, used = Used(start, end, N)
  PROVE  Place(start, N, used + 1) = end
BY DEF Used, Place

LEMMA NotEndPlace ==
  ASSUME NEW N \in Nat, N > 0, NEW start \in Nat, start < N, NEW end \in Nat, end < N,
         NEW used \in Nat, used = Used(start, end, N),
         NEW i \in Nat, 1 <= i, i <= used
  PROVE  Place(start, N, i) # end
BY DEF Used, Place

\* A ring shows the newest bytes after each that is stored.
LEMMA PutByteShows ==
  ASSUME NEW N \in Nat, N > 0, NEW ring \in Rings(N), NEW byte \in Bytes
  PROVE  /\ PutByte(ring, byte) \in Rings(N)
         /\ GetLog(PutByte(ring, byte), N) = Newest(N, Append(GetLog(ring, N), byte))
<1> DEFINE start == ring.start
           end == ring.end
           used == Used(start, end, N)
           new == PutByte(ring, byte)
           more == Used(StartAfter(N, start, end), After(N, end), N)
           old == GetLog(ring, N)
           v == Append(old, byte)
           x == Newest(N, v)
<1>1. start \in 0 .. N - 1 /\ end \in 0 .. N - 1 /\ ring.bytes \in [0 .. N - 1 -> Bytes]
  BY DEF Rings
<1>2. start \in Nat /\ start < N /\ end \in Nat /\ end < N
  BY <1>1
<1>3. new = [bytes |-> [ring.bytes EXCEPT ![end] = byte],
             start |-> StartAfter(N, start, end), end |-> After(N, end)]
  <2>1. Size(ring) = N
    BY RingSize
  <2>2. (end + 1) % N = After(N, end) /\ (start + 1) % N = After(N, start)
    BY <1>1, AfterIs
  <2> QED
    BY <2>1, <2>2 DEF PutByte, StartAfter
<1>4. new \in Rings(N)
  <2>1. After(N, end) \in 0 .. N - 1 /\ After(N, start) \in 0 .. N - 1
    BY <1>1, AfterIs
  <2>2. StartAfter(N, start, end) \in 0 .. N - 1
    BY <1>1, <2>1 DEF StartAfter
  <2>3. [ring.bytes EXCEPT ![end] = byte] \in [0 .. N - 1 -> Bytes]
    BY <1>1
  <2> QED
    BY <1>3, <2>1, <2>2, <2>3 DEF Rings
<1>5. /\ used \in 0 .. N - 1 /\ old \in Seq(Bytes) /\ Len(old) = used
      /\ \A i \in 1 .. N - 1 : Place(start, N, i) \in 0 .. N - 1
      /\ \A i \in 1 .. used : old[i] = ring.bytes[Place(start, N, i)]
  BY RingShows
<1>6. /\ more \in 0 .. N - 1
      /\ GetLog(new, N) \in Seq(Bytes) /\ Len(GetLog(new, N)) = more
      /\ \A i \in 1 .. more :
           GetLog(new, N)[i] = new.bytes[Place(StartAfter(N, start, end), N, i)]
  <2>1. new.start = StartAfter(N, start, end) /\ new.end = After(N, end)
    BY <1>3
  <2> HIDE DEF new
  <2> QED
    BY <1>4, <2>1, RingShows
<1>7. more = IF used + 1 > N - 1 THEN N - 1 ELSE used + 1
  BY <1>2, <1>5, <1>6, OneMore
<1>8. \A j \in 1 .. used + 1 : v[j] = new.bytes[Place(start, N, j)]
  <2> TAKE j \in 1 .. used + 1
  <2>1. new.bytes = [ring.bytes EXCEPT ![end] = byte]
    BY <1>3
  <2>2. CASE j = used + 1
    <3>1. Place(start, N, used + 1) = end
      BY <1>2, <1>5, EndPlace
    <3>2. v[j] = byte
      BY <1>5, <2>2
    <3> QED
      BY <1>1, <2>1, <2>2, <3>1, <3>2
  <2>3. CASE j # used + 1
    <3>1. j \in Nat /\ 1 <= j /\ j <= used /\ used \in Nat
      BY <1>5, <2>3
    <3>2. Place(start, N, j) # end
      BY <1>2, <3>1, NotEndPlace
    <3>3. Place(start, N, j) \in 0 .. N - 1
      BY <1>5, <3>1
    <3>4. new.bytes[Place(start, N, j)] = ring.bytes[Place(start, N, j)]
      BY <1>1, <2>1, <3>2, <3>3
    <3>5. v[j] = old[j]
      BY <1>5, <3>1
    <3> QED
      BY <1>5, <3>1, <3>4, <3>5
  <2> QED
    BY <2>2, <2>3
<1>9. v \in Seq(Bytes) /\ Len(v) = used + 1
  BY <1>5
<1>10. /\ x \in Seq(Bytes) /\ Len(x) = more
       /\ \A i \in 1 .. more : x[i] = v[used + 1 - more + i]
  <2>1. used \in Nat /\ more \in Int
    BY <1>5, <1>6
  <2> HIDE DEF v, used, more
  <2>2. /\ x \in Seq(Bytes) /\ Len(x) = IF Len(v) > N - 1 THEN N - 1 ELSE Len(v)
        /\ \A i \in 1 .. Len(x) : x[i] = v[Len(v) - Len(x) + i]
    BY <1>9, NewestIs
  <2>3. Len(x) = more
    BY <1>7, <1>9, <2>2
  <2> HIDE DEF x
  <2>4. ASSUME NEW i \in 1 .. more PROVE x[i] = v[used + 1 - more + i]
    <3>1. x[i] = v[Len(v) - Len(x) + i]
      BY <2>2, <2>3
    <3> QED
      BY <1>9, <2>1, <2>3, <3>1
  <2> QED
    BY <2>2, <2>3, <2>4
<1>11. \A i \in 1 .. more : x[i] = GetLog(new, N)[i]
  <2> TAKE i \in 1 .. more
  <2>1. /\ i \in Nat /\ 1 <= i /\ i <= more /\ used \in Nat /\ more \in Int
        /\ used + 1 - more + i \in 1 .. used + 1
    BY <1>5, <1>6, <1>7
  <2> DEFINE j == used + 1 - more + i
  <2>2. j \in Nat /\ j = IF used + 1 > N - 1 THEN i + 1 ELSE i
    <3> HIDE DEF used, more
    <3>1. CASE used + 1 > N - 1
      BY <1>5, <1>7, <2>1, <3>1
    <3>2. CASE ~(used + 1 > N - 1)
      BY <1>7, <2>1, <3>2
    <3> QED
      BY <3>1, <3>2
  <2>3. i <= used + 1 /\ i < N
    BY <1>6, <1>7, <2>1
  <2>4. used = Used(start, end, N)
    OBVIOUS
  <2> HIDE DEF start, end, used, new, more, old, v, x, j
  <2>5. Place(StartAfter(N, start, end), N, i) = Place(start, N, j)
    BY <1>2, <2>1, <2>2, <2>3, <2>4, SamePlaces
  <2> HIDE DEF start, end, used, new, more, old, v, x
  <2> QED
    BY <1>6, <1>8, <1>10, <2>1, <2>5 DEF j
<1>12. GetLog(new, N) = x
  <2> HIDE DEF start, end, used, new, more, old, v, x
  <2> QED
    BY <1>6, <1>10, <1>11, SeqEqual
<1> QED
  BY <1>4, <1>12

\* The first bytes of a text, and one more.
LEMMA PrefixGrows ==
  ASSUME NEW w \in Seq(Bytes), NEW m \in Nat, m < Len(w)
  PROVE  /\ SubSeq(w, 1, m) \in Seq(Bytes) /\ w[m + 1] \in Bytes
         /\ Append(SubSeq(w, 1, m), w[m + 1]) = SubSeq(w, 1, m + 1)
<1>1. \A i \in 1 .. m + 1 : w[i] \in Bytes
  OBVIOUS
<1>2. /\ SubSeq(w, 1, m) \in Seq(Bytes) /\ Len(SubSeq(w, 1, m)) = m
      /\ \A i \in 1 .. m : SubSeq(w, 1, m)[i] = w[i]
  BY <1>1, SubSeqProperties
<1>3. /\ SubSeq(w, 1, m + 1) \in Seq(Bytes) /\ Len(SubSeq(w, 1, m + 1)) = m + 1
      /\ \A i \in 1 .. m + 1 : SubSeq(w, 1, m + 1)[i] = w[i]
  BY <1>1, SubSeqProperties
<1> DEFINE p == SubSeq(w, 1, m)
           q == SubSeq(w, 1, m + 1)
           a == Append(p, w[m + 1])
<1>4. a \in Seq(Bytes) /\ Len(a) = m + 1 /\ \A i \in 1 .. m + 1 : a[i] = w[i]
  <2> HIDE DEF p
  <2> QED
    BY <1>1, <1>2 DEF p
<1>5. a = q
  <2> HIDE DEF a, q
  <2> QED
    BY <1>3, <1>4, SeqEqual DEF q
<1> QED
  BY <1>1, <1>2, <1>5

\* A ring shows the newest bytes of what it showed and of a text that is stored.
LEMMA PutShows ==
  ASSUME NEW N \in Nat, N > 0, NEW ring \in Rings(N), NEW text \in Seq(Bytes)
  PROVE  /\ Put(ring, text) \in Rings(N)
         /\ GetLog(Put(ring, text), N) = Newest(N, GetLog(ring, N) \o text)
<1> DEFINE old == GetLog(ring, N)
           whole == old \o text
           L == Len(text)
<1>1. old \in Seq(Bytes) /\ Len(old) \in 0 .. N - 1 /\ L \in Nat
  BY RingShows
<1>2. PICK f : /\ Put(ring, text) = f[L]
               /\ f[0] = ring
               /\ \A n \in 0 .. L - 1 : f[n + 1] = PutByte(f[n], text[n + 1])
  BY <1>1, PutTurns
<1> HIDE DEF old, L
<1>3. whole \in Seq(Bytes) /\ Len(whole) = Len(old) + L
  BY <1>1 DEF L
<1>4. \A n \in 0 .. L - 1 : whole[Len(old) + n + 1] = text[n + 1]
  BY <1>1 DEF L
<1>5. SubSeq(whole, 1, Len(old)) = old
  <2>1. \A i \in 1 .. Len(old) : whole[i] = old[i] /\ whole[i] \in Bytes
    BY <1>1
  <2> HIDE DEF whole
  <2>2. /\ SubSeq(whole, 1, Len(old)) \in Seq(Bytes)
        /\ Len(SubSeq(whole, 1, Len(old))) = Len(old)
        /\ \A i \in 1 .. Len(old) : SubSeq(whole, 1, Len(old))[i] = whole[i]
    BY <1>1, <1>3, <2>1, SubSeqProperties
  <2> QED
    BY <1>1, <2>1, <2>2, SeqEqual
<1> HIDE DEF whole
<1> DEFINE Shows(n) == /\ f[n] \in Rings(N)
                       /\ GetLog(f[n], N) = Newest(N, SubSeq(whole, 1, Len(old) + n))
           T == {n \in 0 .. L : Shows(n)}
<1>6. 0 \in T
  <2>1. Newest(N, old) = old
    BY <1>1, NewestShort
  <2>2. Len(old) + 0 = Len(old) /\ 0 \in 0 .. L
    BY <1>1
  <2> QED
    BY <1>2, <1>5, <2>1, <2>2 DEF old
<1>7. ASSUME NEW n \in 0 .. L - 1, n \in T PROVE n + 1 \in T
  <2> DEFINE m == Len(old) + n
             pre == SubSeq(whole, 1, m)
  <2>1. m \in Nat /\ m < Len(whole) /\ Len(old) + (n + 1) = m + 1 /\ n + 1 \in 0 .. L
    BY <1>1, <1>3
  <2>2. f[n] \in Rings(N) /\ GetLog(f[n], N) = Newest(N, pre)
    BY <1>7
  <2>3. f[n + 1] = PutByte(f[n], whole[m + 1])
    BY <1>2, <1>4
  <2> HIDE DEF m
  <2>4. /\ pre \in Seq(Bytes) /\ whole[m + 1] \in Bytes
        /\ Append(pre, whole[m + 1]) = SubSeq(whole, 1, m + 1)
    BY <1>3, <2>1, PrefixGrows
  <2> HIDE DEF pre
  <2>5. /\ f[n + 1] \in Rings(N)
        /\ GetLog(f[n + 1], N) = Newest(N, Append(Newest(N, pre), whole[m + 1]))
    BY <2>2, <2>3, <2>4, PutByteShows
  <2>6. Newest(N, Append(Newest(N, pre), whole[m + 1])) = Newest(N, SubSeq(whole, 1, m + 1))
    BY <2>4, NewestAppend
  <2>7. Shows(n + 1)
    BY <2>1, <2>5, <2>6
  <2> QED
    BY <2>1, <2>7
<1>8. L \in T
  <2> HIDE DEF T
  <2>1. L \in 0 .. L /\ L \in Nat
    BY <1>1
  <2> QED
    BY <1>6, <1>7, <2>1, Climb
<1>9. Shows(L)
  BY <1>8
<1>10. SubSeq(whole, 1, Len(old) + L) = whole
  BY <1>3, SubSeqFull
<1> QED
  BY <1>2, <1>9, <1>10 DEF whole, old

-----------------------------------------------------------------------------
(* The two logs. *)

\* Both rings are rings, and what is sent to the log server is what was printed: each
\* message is copied while buf still holds its text.
RingsInv ==
  /\ log \in Rings(LOG_SIZE) /\ server_log \in Rings(LOG_BUFFER_SIZE)
  /\ log_inbox \in Seq(Received)
  /\ \A t \in Tasks : calls[t].at = "log" => calls[t].msg \in Texts

LEMMA RingSizes ==
  LOG_SIZE \in Nat /\ LOG_SIZE > 0 /\ LOG_BUFFER_SIZE \in Nat /\ LOG_BUFFER_SIZE > 0
BY PrintkAssumption DEF PrintkAssumption

\* The start of buf is the text just formatted.
LEMMA FormatShows ==
  ASSUME NEW text \in Texts, buf \in Seq(Bytes)
  PROVE  SubSeq(Format(text), 1, Len(text)) = text
<1> DEFINE s == Append(text, NUL)
           rest == SubSeq(buf, Len(s) + 1, Len(buf))
           both == s \o rest
<1>1. text \in Seq(Bytes) /\ Len(text) \in Nat
  BY TextsAreMessages DEF Messages
<1>2. /\ s \in Seq(Bytes) /\ Len(s) = Len(text) + 1
      /\ \A i \in 1 .. Len(text) : s[i] = text[i]
  <2>1. NUL \in Bytes
    BY DEF Bytes
  <2> QED
    BY <1>1, <2>1
<1> HIDE DEF s
<1>3. rest \in Seq(Bytes)
  <2>1. \A i \in Len(s) + 1 .. Len(buf) : buf[i] \in Bytes
    BY <1>1, <1>2
  <2>2. Len(s) + 1 \in Int /\ Len(buf) \in Int
    BY <1>1, <1>2
  <2> QED
    BY <2>1, <2>2, SubSeqProperties
<1> HIDE DEF rest
<1>4. \A i \in 1 .. Len(text) : both[i] = text[i] /\ text[i] \in Bytes
  <2> TAKE i \in 1 .. Len(text)
  <2>1. i \in 1 .. Len(s) + Len(rest) /\ i <= Len(s)
    BY <1>1, <1>2, <1>3
  <2>2. both[i] = s[i]
    BY <1>2, <1>3, <2>1, ConcatProperties
  <2> QED
    BY <1>1, <1>2, <2>2
<1> HIDE DEF both
<1>5. /\ SubSeq(both, 1, Len(text)) \in Seq(Bytes)
      /\ Len(SubSeq(both, 1, Len(text))) = Len(text)
      /\ \A i \in 1 .. Len(text) : SubSeq(both, 1, Len(text))[i] = both[i]
  BY <1>1, <1>4, SubSeqProperties
<1>6. SubSeq(both, 1, Len(text)) = text
  BY <1>1, <1>4, <1>5, SeqEqual
<1> QED
  BY <1>6 DEF Format, both, rest, s

\* A text with its newline is a text of bytes, and so is what others write.
LEMMA LinesAreBytes ==
  ASSUME NEW text \in Received
  PROVE  text \in Seq(Bytes) /\ Line(text) \in Seq(Bytes)
<1>1. text \in Seq(Bytes) /\ NL \in Bytes
  BY TextsAreMessages, StraysAreBytes DEF Received, Messages, Bytes
<1> QED
  BY <1>1 DEF Line

\* A ring whose ends meet shows nothing.
LEMMA NothingToShow ==
  ASSUME NEW N \in Nat, N > 0, NEW ring \in Rings(N), ring.start = ring.end
  PROVE  GetLog(ring, N) = <<>>
<1>1. Used(ring.start, ring.end, N) = 0
  BY DEF Used, Rings
<1>2. GetLog(ring, N) \in Seq(Bytes) /\ Len(GetLog(ring, N)) = 0
  BY <1>1, RingShows
<1> QED
  BY <1>2

LEMMA EmptyRings ==
  ASSUME NEW N \in Nat, N > 0
  PROVE  EmptyRing(N) \in Rings(N) /\ GetLog(EmptyRing(N), N) = <<>>
<1>1. NUL \in Bytes
  BY DEF Bytes
<1>2. EmptyRing(N) \in Rings(N) /\ EmptyRing(N).start = EmptyRing(N).end
  BY <1>1 DEF EmptyRing, Rings
<1> QED
  BY <1>2, NothingToShow

LEMMA ClearedRings ==
  ASSUME NEW N \in Nat, N > 0, NEW ring \in Rings(N)
  PROVE  LET cleared == [ring EXCEPT !.start = 0, !.end = 0]
         IN cleared \in Rings(N) /\ GetLog(cleared, N) = <<>>
<1> DEFINE cleared == [ring EXCEPT !.start = 0, !.end = 0]
<1>1. cleared \in Rings(N)
  <2> DEFINE I == 0 .. N - 1
  <2>1. 0 \in I
    OBVIOUS
  <2> HIDE DEF I
  <2>2. ring \in [bytes : [I -> Bytes], start : I, end : I]
    BY DEF Rings, I
  <2>3. cleared \in [bytes : [I -> Bytes], start : I, end : I]
    BY <2>1, <2>2
  <2> QED
    BY <2>3 DEF Rings, I
<1>2. cleared.start = 0
  BY DEF Rings
<1>3. cleared.end = 0
  BY DEF Rings
<1> HIDE DEF cleared
<1>4. GetLog(cleared, N) = <<>>
  BY <1>1, <1>2, <1>3, NothingToShow
<1> QED
  BY <1>1, <1>4 DEF cleared

LEMMA InitRings == Init => RingsInv
<1> SUFFICES ASSUME Init PROVE RingsInv
  OBVIOUS
<1>1. log \in Rings(LOG_SIZE) /\ server_log \in Rings(LOG_BUFFER_SIZE)
  BY RingSizes, EmptyRings DEF Init
<1>2. \A t \in Tasks : calls[t].at # "log"
  BY DEF Init, Idle
<1> QED
  BY <1>1, <1>2 DEF RingsInv, Init

\* ToConsole leaves no call at the log server.
LEMMA ToConsoleLeavesLog ==
  ASSUME NEW t \in Tasks, NEW level, NEW text, NEW from,
         calls \in [Tasks -> Calls], ToConsole(t, level, text, from), RingsInv
  PROVE  \A u \in Tasks : calls'[u].at = "log" => calls'[u].msg \in Texts
<1> DEFINE sending == [at |-> "console", level |-> level, text |-> text,
                       msg |-> SubSeq(from, 1, Len(text))]
<1>1. \/ calls' = [calls EXCEPT ![t] = sending]
      \/ calls' = [calls EXCEPT ![t] = Idle]
  BY DEF ToConsole
<1>2. sending.at # "log" /\ Idle.at # "log"
  BY DEF Idle
<1> HIDE DEF sending
<1> QED
  BY <1>1, <1>2 DEF RingsInv

LEMMA StepKeepsRings == CopiesInv /\ RingsInv /\ [Next]_vars => RingsInv'
<1> SUFFICES ASSUME CopiesInv, RingsInv, [Next]_vars PROVE RingsInv'
  OBVIOUS
<1>a. calls \in [Tasks -> Calls] /\ buf \in Seq(Bytes)
  BY DEF CopiesInv, BufInv
<1>1. ASSUME NEW t \in Tasks, NEW text \in Texts, NEW level \in Levels,
             printk(t, text, level)
      PROVE  RingsInv'
  <2>1. log' \in Rings(LOG_SIZE)
    BY <1>1, RingSizes, LinesAreBytes, PutShows DEF printk, printk_store_log, RingsInv, Received
  <2>2. CASE t \in Loggers
    <3> DEFINE sending == [at |-> "log", level |-> level, text |-> text,
                           msg |-> SubSeq(buf', 1, Len(text))]
    <3>1. calls' = [calls EXCEPT ![t] = sending]
      BY <1>1, <2>2 DEF printk
    <3>2. sending.msg \in Texts
      BY <1>1, <1>a, FormatShows DEF printk
    <3> HIDE DEF sending
    <3>3. \A u \in Tasks : calls'[u].at = "log" => calls'[u].msg \in Texts
      BY <1>a, <3>1, <3>2 DEF RingsInv
    <3> QED
      BY <1>1, <2>1, <3>3 DEF printk, RingsInv
  <2>3. CASE t \notin Loggers
    <3>1. ToConsole(t, level, text, buf')
      BY <1>1, <2>3 DEF printk
    <3>2. \A u \in Tasks : calls'[u].at = "log" => calls'[u].msg \in Texts
      BY <1>a, <3>1, ToConsoleLeavesLog
    <3> QED
      BY <1>1, <2>1, <3>2 DEF printk, RingsInv
  <2> QED
    BY <2>2, <2>3
<1>2. ASSUME NEW t \in Tasks, SendLog(t) PROVE RingsInv'
  <2>1. \A u \in Tasks : calls'[u].at = "log" => calls'[u].msg \in Texts
    BY <1>2, <1>a, ToConsoleLeavesLog DEF SendLog
  <2>2. calls[t].msg \in Texts
    BY <1>2 DEF SendLog, RingsInv
  <2>3. log_inbox' \in Seq(Received)
    BY <1>2, <2>2 DEF SendLog, Send, Enqueue, RingsInv, Received
  <2> QED
    BY <1>2, <2>1, <2>3 DEF SendLog, RingsInv
<1>3. ASSUME NEW t \in Tasks, SendConsole(t) PROVE RingsInv'
  <2>1. \A u \in Tasks : calls'[u].at = "log" => calls'[u].msg \in Texts
    BY <1>3, <1>a DEF SendConsole, Idle, RingsInv
  <2> QED
    BY <1>3, <2>1 DEF SendConsole, RingsInv
<1>3a. ASSUME NEW t \in Tasks, OtherWrite(t) PROVE RingsInv'
  <2>1. log_inbox' \in Seq(Received)
    BY <1>3a DEF OtherWrite, Enqueue, RingsInv, Received
  <2> QED
    BY <1>3a, <2>1 DEF OtherWrite, RingsInv
<1>4. ASSUME NEW t \in Tasks, NEW text \in Texts, early_printk(t, text)
      PROVE  RingsInv'
  BY <1>4 DEF early_printk, RingsInv
<1>5. ASSUME NEW t \in Tasks, printk_clear_log(t) PROVE RingsInv'
  <2>1. log' \in Rings(LOG_SIZE)
    BY <1>5, RingSizes, ClearedRings DEF printk_clear_log, RingsInv
  <2> QED
    BY <1>5, <2>1 DEF printk_clear_log, RingsInv
<1>6. ASSUME NEW t \in Tasks, NEW level, printk_set_loglevel(t, level) PROVE RingsInv'
  BY <1>6 DEF printk_set_loglevel, RingsInv
<1>7. ASSUME log_server_main PROVE RingsInv'
  <2>1. Head(log_inbox) \in Received /\ log_inbox' \in Seq(Received)
    BY <1>7 DEF log_server_main, RingsInv
  <2>2. server_log' \in Rings(LOG_BUFFER_SIZE)
    BY <1>7, <2>1, RingSizes, LinesAreBytes, PutShows DEF log_server_main, RingsInv
  <2> QED
    BY <1>7, <2>1, <2>2 DEF log_server_main, RingsInv
<1>8. ASSUME console_server_main PROVE RingsInv'
  BY <1>8 DEF console_server_main, RingsInv
<1>9. CASE UNCHANGED vars
  BY <1>9 DEF vars, RingsInv
<1> QED
  BY <1>1, <1>2, <1>3, <1>3a, <1>4, <1>5, <1>6, <1>7, <1>8, <1>9
  DEF Next, printk_at_level

\* A step writes a line to the kernel's log, clears it, or leaves it alone.
LEMMA KernelLogSteps ==
  RingsInv /\ [Next]_vars
    => [KernelLog!Write \/ KernelLog!Clear]_(GetLog(log, LOG_SIZE))
<1> SUFFICES ASSUME RingsInv, [Next]_vars
             PROVE  \/ KernelLog!Write
                    \/ KernelLog!Clear
                    \/ UNCHANGED GetLog(log, LOG_SIZE)
  OBVIOUS
<1>1. ASSUME NEW t \in Tasks, NEW text \in Texts, NEW level \in Levels,
             printk(t, text, level)
      PROVE  KernelLog!Write
  <2>1. log' = Put(log, Line(text))
    BY <1>1 DEF printk, printk_store_log
  <2>2. GetLog(log', LOG_SIZE) = Newest(LOG_SIZE, GetLog(log, LOG_SIZE) \o Line(text))
    BY <2>1, RingSizes, LinesAreBytes, PutShows DEF RingsInv, Received
  <2> QED
    BY <2>2 DEF KernelLog!Write, KernelLog!Newest, Newest
<1>2. ASSUME NEW t \in Tasks, printk_clear_log(t) PROVE KernelLog!Clear
  BY <1>2, RingSizes, ClearedRings DEF printk_clear_log, RingsInv, KernelLog!Clear
<1>3. ASSUME UNCHANGED log PROVE UNCHANGED GetLog(log, LOG_SIZE)
  BY <1>3
<1> QED
  BY <1>1, <1>2, <1>3
     DEF Next, printk_at_level, SendLog, SendConsole, OtherWrite, early_printk,
         printk_set_loglevel, log_server_main, console_server_main, vars

\* A step writes a text to the log server's log, or leaves it alone.
LEMMA ServerLogSteps ==
  RingsInv /\ [Next]_vars => [ServerLog!Write]_(GetLog(server_log, LOG_BUFFER_SIZE))
<1> SUFFICES ASSUME RingsInv, [Next]_vars
             PROVE  ServerLog!Write \/ UNCHANGED GetLog(server_log, LOG_BUFFER_SIZE)
  OBVIOUS
<1>1. ASSUME log_server_main PROVE ServerLog!Write
  <2> DEFINE text == Head(log_inbox)
  <2>1. text \in Received /\ server_log' = Put(server_log, text)
    BY <1>1 DEF log_server_main, RingsInv
  <2> HIDE DEF text
  <2>2. GetLog(server_log', LOG_BUFFER_SIZE)
          = Newest(LOG_BUFFER_SIZE, GetLog(server_log, LOG_BUFFER_SIZE) \o text)
    BY <2>1, RingSizes, LinesAreBytes, PutShows DEF RingsInv
  <2> QED
    BY <2>1, <2>2 DEF ServerLog!Write, ServerLog!Newest, Newest
<1>2. ASSUME UNCHANGED server_log PROVE UNCHANGED GetLog(server_log, LOG_BUFFER_SIZE)
  BY <1>2
<1> QED
  BY <1>1, <1>2
     DEF Next, printk_at_level, printk, SendLog, SendConsole, OtherWrite,
         early_printk, printk_clear_log, printk_set_loglevel, console_server_main, vars

LEMMA LogsStartEmpty == Init => KernelLog!Init /\ ServerLog!Init
BY RingSizes, EmptyRings DEF Init, KernelLog!Init, ServerLog!Init

\* However often the kernel's ring wraps around, printk_get_log returns the newest
\* bytes that were printed, whole lines of them, in the order they were printed in.
THEOREM KernelLogIsNewest == Spec => LogKeepsNewest
BY InitCopies, StepKeepsCopies, InitRings, StepKeepsRings, LogsStartEmpty, KernelLogSteps, PTL
   DEF Spec, LogKeepsNewest, KernelLog!Spec

\* The log server's ring keeps the newest bytes of the texts that reached it, though
\* each was copied from a buffer that the tasks share.
THEOREM ServerLogIsNewest == Spec => ServerLogKeepsNewest
BY InitCopies, StepKeepsCopies, InitRings, StepKeepsRings, LogsStartEmpty, ServerLogSteps, PTL
   DEF Spec, ServerLogKeepsNewest, ServerLog!LastingSpec

-----------------------------------------------------------------------------
(* Types. *)

\* What the invariants above leave open: nothing grows past its size.
BoundsInv ==
  /\ Len(buf) <= MAX_TEXT
  /\ log_chars \in 0 .. MaxChars
  /\ console_loglevel \in Levels
  /\ \A t \in Tasks : calls[t].text \in Texts \cup {<<>>}
  /\ Len(log_inbox) <= MAX_MSG_QUEUE /\ Len(console_inbox) <= MAX_MSG_QUEUE

LEMMA Bounds ==
  /\ MAX_MSG_QUEUE \in Nat /\ MaxChars \in Nat /\ Levels \subseteq 0 .. KERN_DEBUG
  /\ \A text \in Texts : Len(text) < MAX_TEXT
BY PrintkAssumption DEF PrintkAssumption

\* vsprintf never writes past the end of a buffer that the texts fit.
LEMMA FormatFits ==
  ASSUME NEW text \in Texts, buf \in Seq(Bytes), Len(buf) <= MAX_TEXT
  PROVE  Len(Format(text)) <= MAX_TEXT
<1> DEFINE s == Append(text, NUL)
           rest == SubSeq(buf, Len(s) + 1, Len(buf))
<1>1. text \in Seq(Bytes) /\ NUL \in Bytes /\ Len(text) < MAX_TEXT
  BY TextsAreMessages, Bounds DEF Messages, Bytes
<1>2. s \in Seq(Bytes) /\ Len(s) = Len(text) + 1
  BY <1>1
<1>3. Len(s) \in Nat /\ Len(s) <= MAX_TEXT /\ Len(buf) \in Nat
  BY <1>1, <1>2, Sizes
<1> HIDE DEF s
<1>4. /\ rest \in Seq(Bytes)
      /\ Len(rest) = IF Len(s) + 1 <= Len(buf) THEN Len(buf) - Len(s) ELSE 0
  <2>1. \A i \in Len(s) + 1 .. Len(buf) : buf[i] \in Bytes
    BY <1>3
  <2>2. /\ rest \in Seq(Bytes)
        /\ Len(rest) = IF Len(s) + 1 <= Len(buf) THEN Len(buf) - (Len(s) + 1) + 1 ELSE 0
    BY <1>3, <2>1, SubSeqProperties
  <2> QED
    BY <1>3, <2>2
<1> HIDE DEF rest
<1>5. Len(s \o rest) = Len(s) + Len(rest)
  BY <1>2, <1>4, ConcatProperties
<1>6. Len(s) + Len(rest) <= MAX_TEXT
  BY <1>3, <1>4, Sizes
<1> QED
  BY <1>5, <1>6 DEF Format, s, rest

\* A queue takes a message only when it is not full.
LEMMA SendKeepsLength ==
  ASSUME NEW S, NEW t, NEW queue \in Seq(S), NEW queue2,
         Len(queue) <= MAX_MSG_QUEUE, calls[t].msg \in S,
         \/ Len(queue) < MAX_MSG_QUEUE /\ queue2 = Enqueue(queue, calls[t].msg)
         \/ queue2 = queue
  PROVE  Len(queue2) <= MAX_MSG_QUEUE
<1>1. MAX_MSG_QUEUE \in Nat /\ Len(queue) \in Nat
  BY Bounds
<1>2. Len(Append(queue, calls[t].msg)) = Len(queue) + 1
  OBVIOUS
<1> QED
  BY <1>1, <1>2 DEF Enqueue

LEMMA TailKeepsLength ==
  ASSUME NEW S, NEW queue \in Seq(S), queue # <<>>, Len(queue) <= MAX_MSG_QUEUE
  PROVE  Len(Tail(queue)) <= MAX_MSG_QUEUE
<1>1. MAX_MSG_QUEUE \in Nat /\ Len(queue) \in Nat /\ Len(Tail(queue)) = Len(queue) - 1
  BY Bounds
<1> QED
  BY <1>1

\* A call takes its text along.
LEMMA ToConsoleKeepsText ==
  ASSUME NEW t \in Tasks, NEW level, NEW text \in Texts \cup {<<>>}, NEW from,
         calls \in [Tasks -> Calls], ToConsole(t, level, text, from), BoundsInv
  PROVE  \A u \in Tasks : calls'[u].text \in Texts \cup {<<>>}
<1> DEFINE sending == [at |-> "console", level |-> level, text |-> text,
                       msg |-> SubSeq(from, 1, Len(text))]
<1>1. \/ calls' = [calls EXCEPT ![t] = sending]
      \/ calls' = [calls EXCEPT ![t] = Idle]
  BY DEF ToConsole
<1>2. sending.text \in Texts \cup {<<>>} /\ Idle.text \in Texts \cup {<<>>}
  BY DEF Idle
<1> HIDE DEF sending
<1> QED
  BY <1>1, <1>2 DEF BoundsInv

LEMMA InitBounds == Init => BoundsInv
<1> SUFFICES ASSUME Init PROVE BoundsInv
  OBVIOUS
<1>1. Len(buf) <= MAX_TEXT /\ Len(log_inbox) <= MAX_MSG_QUEUE
        /\ Len(console_inbox) <= MAX_MSG_QUEUE
  BY Sizes, Bounds DEF Init
<1>2. log_chars \in 0 .. MaxChars /\ console_loglevel \in Levels
  BY Sizes, Bounds DEF Init
<1>3. \A t \in Tasks : calls[t].text \in Texts \cup {<<>>}
  BY DEF Init, Idle
<1> QED
  BY <1>1, <1>2, <1>3 DEF BoundsInv

LEMMA StepKeepsBounds == CopiesInv /\ RingsInv /\ BoundsInv /\ [Next]_vars => BoundsInv'
<1> SUFFICES ASSUME CopiesInv, RingsInv, BoundsInv, [Next]_vars PROVE BoundsInv'
  OBVIOUS
<1>a. calls \in [Tasks -> Calls] /\ buf \in Seq(Bytes)
  BY DEF CopiesInv, BufInv
<1>1. ASSUME NEW t \in Tasks, NEW text \in Texts, NEW level \in Levels,
             printk(t, text, level)
      PROVE  BoundsInv'
  <2>1. Len(buf') <= MAX_TEXT
    BY <1>1, <1>a, FormatFits DEF printk, BoundsInv
  <2>2. log_chars' \in 0 .. MaxChars
    <3>1. Len(text) \in Nat
      BY TextsAreMessages DEF Messages
    <3> QED
      BY <1>1, <3>1, Bounds DEF printk, printk_store_log, BoundsInv
  <2>3. \A u \in Tasks : calls'[u].text \in Texts \cup {<<>>}
    <3>1. CASE t \in Loggers
      <4> DEFINE sending == [at |-> "log", level |-> level, text |-> text,
                             msg |-> SubSeq(buf', 1, Len(text))]
      <4>1. calls' = [calls EXCEPT ![t] = sending]
        BY <1>1, <3>1 DEF printk
      <4>2. sending.text \in Texts
        OBVIOUS
      <4> HIDE DEF sending
      <4> QED
        BY <1>a, <4>1, <4>2 DEF BoundsInv
    <3>2. CASE t \notin Loggers
      BY <1>1, <1>a, <3>2, ToConsoleKeepsText DEF printk
    <3> QED
      BY <3>1, <3>2
  <2> QED
    BY <1>1, <2>1, <2>2, <2>3 DEF printk, BoundsInv
<1>2. ASSUME NEW t \in Tasks, SendLog(t) PROVE BoundsInv'
  <2>1. calls[t].text \in Texts \cup {<<>>} /\ calls[t].msg \in Texts
    BY <1>2 DEF SendLog, BoundsInv, RingsInv
  <2>2. \A u \in Tasks : calls'[u].text \in Texts \cup {<<>>}
    BY <1>2, <1>a, <2>1, ToConsoleKeepsText DEF SendLog
  <2>2a. log_inbox \in Seq(Received) /\ calls[t].msg \in Received
    BY <1>2 DEF SendLog, RingsInv, Received
  <2>3. Len(log_inbox') <= MAX_MSG_QUEUE
    BY <1>2, <2>2a, SendKeepsLength DEF SendLog, Send, BoundsInv
  <2> QED
    BY <1>2, <2>2, <2>3 DEF SendLog, BoundsInv
<1>3. ASSUME NEW t \in Tasks, SendConsole(t) PROVE BoundsInv'
  <2>1. \A u \in Tasks : calls'[u].text \in Texts \cup {<<>>}
    BY <1>3, <1>a DEF SendConsole, Idle, BoundsInv
  <2>2. calls[t].msg \in Messages /\ console_inbox \in Seq(Messages \cup Strays)
    BY <1>a DEF Calls, CopiesInv, ConsoleInv
  <2>3. Len(console_inbox') <= MAX_MSG_QUEUE
    BY <1>3, <2>2, SendKeepsLength DEF SendConsole, Send, BoundsInv
  <2> QED
    BY <1>3, <2>1, <2>3 DEF SendConsole, BoundsInv
<1>3a. ASSUME NEW t \in Tasks, OtherWrite(t) PROVE BoundsInv'
  <2>1. PICK text \in Strays :
          \/ /\ Len(log_inbox) < MAX_MSG_QUEUE /\ log_inbox' = Append(log_inbox, text)
             /\ UNCHANGED console_inbox
          \/ /\ Len(console_inbox) < MAX_MSG_QUEUE
             /\ console_inbox' = Append(console_inbox, text) /\ UNCHANGED log_inbox
    BY <1>3a DEF OtherWrite, Enqueue
  <2>2. log_inbox \in Seq(Received) /\ console_inbox \in Seq(Messages \cup Strays)
    BY DEF RingsInv, CopiesInv, ConsoleInv
  <2>3. Len(log_inbox') <= MAX_MSG_QUEUE /\ Len(console_inbox') <= MAX_MSG_QUEUE
    BY <2>1, <2>2, Bounds DEF BoundsInv
  <2> QED
    BY <1>3a, <2>3 DEF OtherWrite, BoundsInv
<1>4. ASSUME NEW t \in Tasks, NEW text \in Texts, early_printk(t, text)
      PROVE  BoundsInv'
  <2>1. Len(buf') <= MAX_TEXT
    BY <1>4, <1>a, FormatFits DEF early_printk, BoundsInv
  <2> QED
    BY <1>4, <2>1 DEF early_printk, BoundsInv
<1>5. ASSUME NEW t \in Tasks, printk_clear_log(t) PROVE BoundsInv'
  BY <1>5, Bounds DEF printk_clear_log, BoundsInv
<1>6. ASSUME NEW t \in Tasks, NEW level \in Levels \cup {KERN_DEBUG + 1},
             printk_set_loglevel(t, level)
      PROVE  BoundsInv'
  <2>1. level \in Levels
    BY <1>6 DEF printk_set_loglevel, KERN_DEBUG
  <2> QED
    BY <1>6, <2>1 DEF printk_set_loglevel, BoundsInv
<1>7. ASSUME log_server_main PROVE BoundsInv'
  <2>1. Len(log_inbox') <= MAX_MSG_QUEUE
    BY <1>7, TailKeepsLength DEF log_server_main, RingsInv, BoundsInv
  <2> QED
    BY <1>7, <2>1 DEF log_server_main, BoundsInv
<1>8. ASSUME console_server_main PROVE BoundsInv'
  <2>1. Len(console_inbox') <= MAX_MSG_QUEUE
    BY <1>8, TailKeepsLength DEF console_server_main, CopiesInv, ConsoleInv, BoundsInv
  <2> QED
    BY <1>8, <2>1 DEF console_server_main, BoundsInv
<1>9. CASE UNCHANGED vars
  BY <1>9 DEF vars, BoundsInv
<1> QED
  BY <1>1, <1>2, <1>3, <1>3a, <1>4, <1>5, <1>6, <1>7, <1>8, <1>9
  DEF Next, printk_at_level

LEMMA MessagesAreStrings == Messages \subseteq Strings
<1> SUFFICES ASSUME NEW s \in Messages PROVE s \in Strings
  OBVIOUS
<1>1. s \in [1 .. Len(s) -> Bytes] /\ Len(s) \in 0 .. MAX_TEXT
  BY Sizes DEF Messages
<1> QED
  BY <1>1 DEF Strings

\* A short sequence of messages is a queue of strings and of what others fill.
LEMMA QueuesAreTyped ==
  ASSUME NEW queue \in Seq(Messages \cup Strays), Len(queue) <= MAX_MSG_QUEUE
  PROVE  IsQueue(queue)
<1>1. \A i \in DOMAIN queue : queue[i] \in Strings \cup Strays
  BY MessagesAreStrings
<1> QED
  BY <1>1 DEF IsQueue, Range

LEMMA InvTypes == CopiesInv /\ RingsInv /\ BoundsInv => TypeOK
<1> SUFFICES ASSUME CopiesInv, RingsInv, BoundsInv PROVE TypeOK
  OBVIOUS
<1>1. buf \in Strings
  BY MessagesAreStrings DEF CopiesInv, BufInv, BoundsInv, Messages
<1>2. calls \in [Tasks -> [at : {"idle", "log", "console"}, level : Levels,
                           msg : Strings, text : Texts \cup {<<>>}]]
  <2>1. calls \in [Tasks -> Calls]
    BY DEF CopiesInv, BufInv
  <2>2. ASSUME NEW t \in Tasks
        PROVE  calls[t] \in [at : {"idle", "log", "console"}, level : Levels,
                             msg : Strings, text : Texts \cup {<<>>}]
    <3>1. calls[t].text \in Texts \cup {<<>>}
      BY DEF BoundsInv
    <3> QED
      BY <2>1, <3>1, MessagesAreStrings DEF Calls
  <2> QED
    BY <2>1, <2>2
<1>3. IsQueue(log_inbox)
  <2>1. log_inbox \in Seq(Messages \cup Strays)
    BY TextsAreMessages DEF RingsInv, Received
  <2> QED
    BY <2>1, QueuesAreTyped DEF BoundsInv
<1>4. IsQueue(console_inbox)
  BY QueuesAreTyped DEF CopiesInv, ConsoleInv, BoundsInv
<1>5. console_buffer_pos \in 0 .. CONSOLE_LIMIT
  BY Sizes DEF CopiesInv, ConsoleInv
<1> QED
  BY <1>1, <1>2, <1>3, <1>4, <1>5 DEF TypeOK, RingsInv, BoundsInv

\* The variables keep their types: no text makes vsprintf write past the end of buf,
\* no ring runs out of its places, no queue holds more than it may.
THEOREM TypeCorrect == Spec => []TypeOK
BY InitCopies, StepKeepsCopies, InitRings, StepKeepsRings, InitBounds, StepKeepsBounds,
   InvTypes, PTL DEF Spec

=============================================================================
