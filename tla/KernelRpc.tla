----------------------------- MODULE KernelRpc -----------------------------
(***************************************************************************)
(* How kernel code calls the servers.  Every stub sends a request to the   *)
(* port of a server and, if it wants an answer, receives the next message  *)
(* from kernel_state->kernel_port: one port for all tasks and all servers. *)
(* Nothing in a reply says which request it answers.                       *)
(*                                                                         *)
(* A port is its queue of at most MAX_MSG_QUEUE messages; mk_msg_send to a *)
(* full port waits, and so does mk_msg_receive from an empty one.  A       *)
(* request is named by a number, call, that the code does not have; a      *)
(* reply is the number of the request it answers.                          *)
(*                                                                         *)
(* sys_ipc_receive hands out the kernel's struct ipc_message, whose third  *)
(* word is the port the message was sent to, where servers expect the      *)
(* reply_port of a struct mk_msg_header.  mk_msg_receive, which stands     *)
(* between them, is declared and nowhere defined: HeaderAsSent says        *)
(* whether it gives back the header as it was sent, or adds nothing.       *)
(***************************************************************************)
EXTENDS StubTable, Integers, Sequences, FiniteSets

CONSTANTS
  Tasks,
  Servers,         \* the servers running
  Stubs,           \* the stubs that the tasks use
  MAX_MSG_QUEUE,
  ReceiveMayFail,  \* a task may lose its access to kernel_port
  HeaderAsSent,    \* mk_msg_receive restores the header of a request
  MaxCalls,        \* bound on the number of requests
  NoStub, NoRequest

Calls == 1 .. MaxCalls
Request == [call : Calls, back : BOOLEAN]  \* back: reply_port = kernel_port

\* A request as its server reads it: where reply_port points to
Received == [call : Calls, to : {"kernel_port", "server", "none"}]

IsStub(s) == s.server \in Servers /\ s.back \in BOOLEAN /\ s.waits \in BOOLEAN

ASSUME RpcAssumption ==
  /\ MaxCalls \in Nat
  /\ MAX_MSG_QUEUE \in Nat
  /\ \A s \in Stubs : IsStub(s)
  /\ HeaderAsSent \in BOOLEAN
  /\ NoStub \notin Stubs /\ NoRequest \notin Received

-----------------------------------------------------------------------------

VARIABLES
  inbox,        \* the queue of each server's port
  handling,     \* the request each server is handling
  kernel_port,  \* the queue of kernel_port
  pc,           \* of each task: "idle", "sending", or "receiving"
  stub, call,   \* of each task: the stub it is in, and its request
  next_call,    \* the number of the next request
  answered,     \* the requests answered so far
  refused       \* those whose reply mk_msg_send did not take

vars == <<inbox, handling, kernel_port, pc, stub, call, next_call, answered,
          refused>>

Init ==
  /\ inbox = [s \in Servers |-> <<>>]
  /\ handling = [s \in Servers |-> NoRequest]
  /\ kernel_port = <<>>
  /\ pc = [t \in Tasks |-> "idle"]
  /\ stub = [t \in Tasks |-> NoStub]
  /\ call = [t \in Tasks |-> 0]
  /\ next_call = 1
  /\ answered = {}
  /\ refused = {}

Full_offByOne(queue) == Len(queue) > MAX_MSG_QUEUE
Full(queue) == Len(queue) >= MAX_MSG_QUEUE

Leave(t) ==
  /\ pc' = [pc EXCEPT ![t] = "idle"]
  /\ stub' = [stub EXCEPT ![t] = NoStub]
  /\ call' = [call EXCEPT ![t] = 0]

\* A task enters a stub that passes its capability check, and fills a message.
Enter(t, s) ==
  /\ pc[t] = "idle"
  /\ pc' = [pc EXCEPT ![t] = "sending"]
  /\ stub' = [stub EXCEPT ![t] = s]
  /\ UNCHANGED <<inbox, handling, kernel_port, call, next_call, answered,
                 refused>>

\* mk_msg_send; a stub that does not wait returns at once ...
Send(t) ==
  /\ pc[t] = "sending"
  /\ next_call <= MaxCalls
  /\ ~Full(inbox[stub[t].server])
  /\ inbox' = [inbox EXCEPT ![stub[t].server] =
                 Append(@, [call |-> next_call, back |-> stub[t].back])]
  /\ next_call' = next_call + 1
  /\ IF stub[t].waits
       THEN /\ pc' = [pc EXCEPT ![t] = "receiving"]
            /\ call' = [call EXCEPT ![t] = next_call]
            /\ UNCHANGED stub
       ELSE Leave(t)
  /\ UNCHANGED <<handling, kernel_port, answered, refused>>

\* ... or fails, and so does the stub
SendFails_unnoticed(t) ==
  /\ pc[t] = "sending"
  /\ pc' = [pc EXCEPT ![t] = "receiving"]
  /\ UNCHANGED <<inbox, handling, kernel_port, stub, call, next_call, answered,
                 refused>>
SendFails(t) ==
  /\ pc[t] = "sending"
  /\ Leave(t)
  /\ UNCHANGED <<inbox, handling, kernel_port, next_call, answered, refused>>

\* mk_msg_receive(kernel_port): whatever comes first is the reply.
ReceiveReply(t) ==
  /\ pc[t] = "receiving"
  /\ kernel_port # <<>>
  /\ kernel_port' = Tail(kernel_port)
  /\ Leave(t)
  /\ UNCHANGED <<inbox, handling, next_call, answered, refused>>

\* mk_msg_receive fails: the stub returns, and the reply will still come.
ReceiveFails(t) ==
  /\ ReceiveMayFail
  /\ pc[t] = "receiving"
  /\ Leave(t)
  /\ UNCHANGED <<inbox, handling, kernel_port, next_call, answered, refused>>

\* The main loop of a server: receive a request ...
ReplyPort(m) ==
  IF ~HeaderAsSent THEN "server" ELSE IF m.back THEN "kernel_port" ELSE "none"

Take(s) ==
  /\ handling[s] = NoRequest
  /\ inbox[s] # <<>>
  /\ LET m == Head(inbox[s]) IN
     handling' = [handling EXCEPT ![s] = [call |-> m.call, to |-> ReplyPort(m)]]
  /\ inbox' = [inbox EXCEPT ![s] = Tail(@)]
  /\ UNCHANGED <<kernel_port, pc, stub, call, next_call, answered, refused>>

\* The console and the log server have no send_reply.
Replies(s) == s \notin {"console", "log"}

\* ... handle it, and send_reply() to its reply port: kernel_port, or the port
\* of the server itself, which takes the reply for a request ...
SendReply_twice(s) ==
  /\ handling[s] # NoRequest
  /\ handling[s].to = "kernel_port"
  /\ Replies(s)
  /\ ~Full(kernel_port)
  /\ kernel_port' = kernel_port \o <<handling[s].call, handling[s].call>>
  /\ answered' = answered \cup {handling[s].call}
  /\ handling' = [handling EXCEPT ![s] = NoRequest]
  /\ UNCHANGED <<inbox, pc, stub, call, next_call, refused>>
SendReply(s) ==
  LET r == handling[s] IN
  /\ r # NoRequest
  /\ r.to # "none"
  /\ Replies(s)
  /\ IF r.to = "kernel_port"
       THEN /\ ~Full(kernel_port)
            /\ kernel_port' = Append(kernel_port, r.call)
            /\ answered' = answered \cup {r.call}
            /\ UNCHANGED inbox
       ELSE /\ ~Full(inbox[s])
            /\ inbox' = [inbox EXCEPT ![s] =
                            Append(@, [call |-> r.call, back |-> FALSE])]
            /\ UNCHANGED <<kernel_port, answered>>
  /\ handling' = [handling EXCEPT ![s] = NoRequest]
  /\ UNCHANGED <<pc, stub, call, next_call, refused>>

\* ... or there is no reply, or nobody gets it: send_reply ignores that
\* mk_msg_send failed (-EPERM, -ENOMEM, or port 0, which is no port).
NoReply(s) ==
  LET r == handling[s] IN
  /\ r # NoRequest
  /\ refused' = IF r.to # "none" /\ Replies(s) THEN refused \cup {r.call} ELSE refused
  /\ handling' = [handling EXCEPT ![s] = NoRequest]
  /\ UNCHANGED <<inbox, kernel_port, pc, stub, call, next_call, answered>>

TaskStep(t) ==
  \/ \E s \in Stubs : Enter(t, s)
  \/ Send(t)
  \/ SendFails(t)
  \/ ReceiveReply(t)
  \/ ReceiveFails(t)

ServerStep(s) == Take(s) \/ SendReply(s) \/ NoReply(s)

Next == (\E t \in Tasks : TaskStep(t)) \/ (\E s \in Servers : ServerStep(s))

Spec == Init /\ [][Next]_vars

-----------------------------------------------------------------------------
(* Properties. *)

\* The types of the variables; no queue outgrows MAX_MSG_QUEUE.
Queue(S) == {q \in Seq(S) : Len(q) <= MAX_MSG_QUEUE}

TypeOK ==
  /\ inbox \in [Servers -> Queue(Request)]
  /\ handling \in [Servers -> Received \cup {NoRequest}]
  /\ kernel_port \in Queue(Calls)
  /\ pc \in [Tasks -> {"idle", "sending", "receiving"}]
  /\ stub \in [Tasks -> Stubs \cup {NoStub}]
  /\ call \in [Tasks -> Calls \cup {0}]
  /\ next_call \in 1 .. MaxCalls + 1
  /\ answered \subseteq Calls
  /\ refused \subseteq Calls

\* The requests on their way to a server or in its hands that name kernel_port.
Unanswered ==
  UNION {{inbox[s][i].call : i \in {j \in DOMAIN inbox[s] : inbox[s][j].back}}
           \cup {r.call : r \in {q \in {handling[s]} :
                                   q # NoRequest /\ q.to = "kernel_port"}} :
         s \in Servers}

\* send_reply, "Send reply to client" (server.c:77): no waiting task is
\* forgotten.  There are at least as many replies, queued, still owed by a
\* server, or refused by mk_msg_send, as tasks that wait for one, although tasks
\* take each other's replies and those of stubs that do not wait.
NobodyForgotten ==
  Cardinality({t \in Tasks : pc[t] = "receiving"})
    <= Len(kernel_port) + Cardinality(Unanswered) + Cardinality(refused)

\* No request is answered twice: what is owed has not been answered, and no two
\* replies in kernel_port answer the same request.
AnsweredOnce ==
  /\ Unanswered \cap answered = {}
  /\ \A i, j \in DOMAIN kernel_port : kernel_port[i] = kernel_port[j] => i = j

\* sys.h:190 "Result is returned directly to the caller": the reply that a task
\* receives answers its own request.
OwnAnswer ==
  [][\A t \in Tasks : ReceiveReply(t) => Head(kernel_port) = call[t]]_vars

=============================================================================
