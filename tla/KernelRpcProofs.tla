-------------------------- MODULE KernelRpcProofs --------------------------
(***************************************************************************)
(* Proofs about KernelRpc, for any tasks, servers and stubs: the types;    *)
(* that no request is answered twice, whatever reply port servers see; and *)
(* that, if servers see the one that was sent, no waiting task is          *)
(* forgotten.                                                              *)
(***************************************************************************)
EXTENDS KernelRpc, FiniteSetTheorems, TLAPS

\* A task in a stub that has not sent yet is in a stub of the table.
StubInHand == \A t \in Tasks : pc[t] = "sending" => stub[t] \in Stubs

\* A server that is given the header as it was sent does not reply to itself.
SeenAsSent ==
  HeaderAsSent => \A s \in Servers : handling[s] # NoRequest => handling[s].to # "server"

TypeInv == TypeOK /\ StubInHand /\ SeenAsSent

\* What is sent to a queue with space left makes a queue of the same type.
LEMMA AppendTyped ==
  ASSUME NEW S, NEW q \in Queue(S), NEW e \in S, ~Full(q)
  PROVE  Append(q, e) \in Queue(S)
BY RpcAssumption DEF RpcAssumption, Queue, Full

\* Receiving from a queue leaves a queue and takes one of its messages.
LEMMA TailTyped ==
  ASSUME NEW S, NEW q \in Queue(S), q # <<>>
  PROVE  Tail(q) \in Queue(S) /\ Head(q) \in S
BY RpcAssumption DEF RpcAssumption, Queue

\* The initial state is typed.
LEMMA TypeInit == Init => TypeInv
<1> SUFFICES ASSUME Init PROVE TypeInv
  OBVIOUS
<1>1. ASSUME NEW S PROVE <<>> \in Queue(S)
  BY RpcAssumption DEF RpcAssumption, Queue
<1> QED
  BY <1>1, RpcAssumption
  DEF RpcAssumption, Init, TypeInv, TypeOK, StubInHand, SeenAsSent, Calls

\* Leaving a stub keeps the types of what a task has.
LEMMA LeaveTyped ==
  ASSUME TypeInv, NEW t \in Tasks, Leave(t)
  PROVE  /\ pc' \in [Tasks -> {"idle", "sending", "receiving"}]
         /\ stub' \in [Tasks -> Stubs \cup {NoStub}]
         /\ call' \in [Tasks -> Calls \cup {0}]
         /\ StubInHand'
BY DEF TypeInv, TypeOK, StubInHand, Leave

\* Every step keeps the types.
LEMMA TypeStep == TypeInv /\ [Next]_vars => TypeInv'
<1> SUFFICES ASSUME TypeInv, [Next]_vars PROVE TypeInv'
  OBVIOUS
<1>1. ASSUME NEW t \in Tasks, NEW s \in Stubs, Enter(t, s) PROVE TypeInv'
  BY <1>1 DEF Enter, TypeInv, TypeOK, StubInHand, SeenAsSent
<1>2. ASSUME NEW t \in Tasks, Send(t) PROVE TypeInv'
  <2> DEFINE server == stub[t].server
             request == [call |-> next_call, back |-> stub[t].back]
  <2>1. server \in Servers /\ request \in Request /\ next_call \in Calls
    BY <1>2, RpcAssumption
    DEF Send, TypeInv, TypeOK, StubInHand, RpcAssumption, IsStub, Request, Calls
  <2>2. Append(inbox[server], request) \in Queue(Request)
    BY <1>2, <2>1, AppendTyped DEF Send, TypeInv, TypeOK
  <2>3. inbox' \in [Servers -> Queue(Request)]
    BY <1>2, <2>1, <2>2 DEF Send, TypeInv, TypeOK
  <2>4. next_call' \in 1 .. MaxCalls + 1
    BY <1>2, RpcAssumption DEF Send, TypeInv, TypeOK, RpcAssumption
  <2>5. /\ pc' \in [Tasks -> {"idle", "sending", "receiving"}]
        /\ stub' \in [Tasks -> Stubs \cup {NoStub}]
        /\ call' \in [Tasks -> Calls \cup {0}]
        /\ StubInHand'
    <3>1. CASE stub[t].waits
      BY <1>2, <2>1, <3>1 DEF Send, TypeInv, TypeOK, StubInHand
    <3>2. CASE ~stub[t].waits
      BY <1>2, <3>2, LeaveTyped DEF Send
    <3> QED
      BY <3>1, <3>2
  <2> QED
    BY <1>2, <2>3, <2>4, <2>5 DEF Send, Leave, TypeInv, TypeOK, SeenAsSent
<1>3. ASSUME NEW t \in Tasks, SendFails(t) PROVE TypeInv'
  BY <1>3, LeaveTyped DEF SendFails, TypeInv, TypeOK, SeenAsSent
<1>4. ASSUME NEW t \in Tasks, ReceiveReply(t) PROVE TypeInv'
  BY <1>4, LeaveTyped, TailTyped DEF ReceiveReply, TypeInv, TypeOK, SeenAsSent
<1>5. ASSUME NEW t \in Tasks, ReceiveFails(t) PROVE TypeInv'
  BY <1>5, LeaveTyped DEF ReceiveFails, TypeInv, TypeOK, SeenAsSent
<1>6. ASSUME NEW s \in Servers, Take(s) PROVE TypeInv'
  <2> DEFINE m == Head(inbox[s])
             r == [call |-> m.call, to |-> ReplyPort(m)]
  <2>1. Tail(inbox[s]) \in Queue(Request) /\ m \in Request
    BY <1>6, TailTyped DEF Take, TypeInv, TypeOK
  <2>2. r \in Received /\ (HeaderAsSent => r.to # "server")
    BY <2>1 DEF Request, Received, ReplyPort
  <2>3. handling' = [handling EXCEPT ![s] = r]
    BY <1>6 DEF Take
  <2> HIDE DEF r
  <2>4. handling' \in [Servers -> Received \cup {NoRequest}] /\ SeenAsSent'
    BY <2>2, <2>3 DEF TypeInv, TypeOK, SeenAsSent
  <2> QED
    BY <1>6, <2>1, <2>4 DEF Take, TypeInv, TypeOK, StubInHand
<1>7. ASSUME NEW s \in Servers, SendReply(s) PROVE TypeInv'
  <2>1. handling[s].call \in Calls
    BY <1>7 DEF SendReply, TypeInv, TypeOK, Received
  <2>2. kernel_port' \in Queue(Calls) /\ answered' \subseteq Calls
        /\ inbox' \in [Servers -> Queue(Request)]
    <3>1. CASE handling[s].to = "kernel_port"
      <4>1. /\ kernel_port' = Append(kernel_port, handling[s].call) /\ ~Full(kernel_port)
            /\ answered' = answered \cup {handling[s].call} /\ UNCHANGED inbox
        BY <1>7, <3>1 DEF SendReply
      <4>2. kernel_port \in Queue(Calls) /\ answered \subseteq Calls
            /\ inbox \in [Servers -> Queue(Request)]
        BY DEF TypeInv, TypeOK
      <4> QED
        BY <2>1, <4>1, <4>2, AppendTyped
    <3>2. CASE handling[s].to # "kernel_port"
      <4> DEFINE e == [call |-> handling[s].call, back |-> FALSE]
      <4>1. /\ inbox' = [inbox EXCEPT ![s] = Append(@, e)] /\ ~Full(inbox[s])
            /\ UNCHANGED <<kernel_port, answered>>
        BY <1>7, <3>2 DEF SendReply
      <4>2. e \in Request /\ inbox \in [Servers -> Queue(Request)]
        BY <2>1 DEF Request, TypeInv, TypeOK
      <4> HIDE DEF e
      <4>3. Append(inbox[s], e) \in Queue(Request)
        BY <4>1, <4>2, AppendTyped
      <4> QED
        BY <4>1, <4>2, <4>3 DEF TypeInv, TypeOK
    <3> QED
      BY <3>1, <3>2
  <2>3. handling' \in [Servers -> Received \cup {NoRequest}] /\ SeenAsSent'
    BY <1>7 DEF SendReply, TypeInv, TypeOK, SeenAsSent
  <2> QED
    BY <1>7, <2>2, <2>3 DEF SendReply, TypeInv, TypeOK, StubInHand
<1>7a. ASSUME NEW s \in Servers, NoReply(s) PROVE TypeInv'
  <2>1. handling[s].call \in Calls
    BY <1>7a DEF NoReply, TypeInv, TypeOK, Received
  <2>2. handling' \in [Servers -> Received \cup {NoRequest}] /\ SeenAsSent'
    BY <1>7a DEF NoReply, TypeInv, TypeOK, SeenAsSent
  <2> QED
    BY <1>7a, <2>1, <2>2 DEF NoReply, TypeInv, TypeOK, StubInHand
<1>8. CASE UNCHANGED vars
  BY <1>8 DEF vars, TypeInv, TypeOK, StubInHand, SeenAsSent
<1> QED
  BY <1>1, <1>2, <1>3, <1>4, <1>5, <1>6, <1>7, <1>7a, <1>8
  DEF Next, TaskStep, ServerStep

\* No queue outgrows its port, and every field keeps its type.
THEOREM TypeCorrect == Spec => []TypeOK
<1>1. Spec => []TypeInv
  BY TypeInit, TypeStep, PTL DEF Spec
<1>2. TypeInv => TypeOK
  BY DEF TypeInv
<1> QED
  BY <1>1, <1>2, PTL

-----------------------------------------------------------------------------
(* Where the requests are. *)

\* The i-th request of a server, counted from the one it is handling; its number, and
\* whether it names kernel_port.
Occupied(s, i) == IF i = 0 THEN handling[s] # NoRequest ELSE i \in 1 .. Len(inbox[s])
CallAt(s, i) == IF i = 0 THEN handling[s].call ELSE inbox[s][i].call
Asks(s, i) == IF i = 0 THEN handling[s].to = "kernel_port" ELSE inbox[s][i].back
Wanted(s, i) == Occupied(s, i) /\ Asks(s, i)

LEMMA PlacesTyped ==
  ASSUME TypeInv, NEW s \in Servers, NEW i \in Nat, Occupied(s, i)
  PROVE  CallAt(s, i) \in Calls
<1>1. inbox[s] \in Seq(Request) /\ handling[s] \in Received \cup {NoRequest}
  BY DEF TypeInv, TypeOK, Queue
<1>2. i # 0 => inbox[s][i] \in Request
  BY <1>1 DEF Occupied
<1> QED
  BY <1>1, <1>2 DEF Occupied, CallAt, Request, Received

\* What a message that is put behind those of a server changes.
LEMMA AppendPlaces ==
  ASSUME TypeInv, NEW z \in Servers, NEW e \in Request,
         inbox' = [inbox EXCEPT ![z] = Append(@, e)]
  PROVE  LET last == Len(inbox[z]) + 1
         IN /\ last \in Nat \ {0}
            /\ \A s \in Servers, i \in Nat \ {0} :
                 /\ Occupied(s, i) => /\ Occupied(s, i)' /\ CallAt(s, i)' = CallAt(s, i)
                                      /\ Asks(s, i)' = Asks(s, i) /\ ~(s = z /\ i = last)
                 /\ Occupied(s, i)' => Occupied(s, i) \/ (s = z /\ i = last)
                 /\ s = z /\ i = last =>
                      Occupied(s, i)' /\ CallAt(s, i)' = e.call /\ Asks(s, i)' = e.back
<1> DEFINE last == Len(inbox[z]) + 1
<1>1. inbox \in [Servers -> Seq(Request)]
  BY DEF TypeInv, TypeOK, Queue
<1>2. last \in Nat \ {0}
  BY <1>1
<1>3. ASSUME NEW s \in Servers, NEW i \in Nat \ {0}
      PROVE  /\ Occupied(s, i) => /\ Occupied(s, i)' /\ CallAt(s, i)' = CallAt(s, i)
                                  /\ Asks(s, i)' = Asks(s, i) /\ ~(s = z /\ i = last)
             /\ Occupied(s, i)' => Occupied(s, i) \/ (s = z /\ i = last)
             /\ s = z /\ i = last =>
                  Occupied(s, i)' /\ CallAt(s, i)' = e.call /\ Asks(s, i)' = e.back
  <2>1. CASE s # z
    BY <1>1, <1>2, <2>1 DEF Occupied, CallAt, Asks
  <2>2. CASE s = z
    <3>1. inbox'[s] = Append(inbox[s], e) /\ inbox[s] \in Seq(Request)
      BY <1>1, <2>2
    <3>2. /\ Len(inbox'[s]) = Len(inbox[s]) + 1 /\ inbox'[s][last] = e
          /\ \A j \in 1 .. Len(inbox[s]) : inbox'[s][j] = inbox[s][j]
      BY <2>2, <3>1
    <3> QED
      BY <2>2, <3>1, <3>2 DEF Occupied, CallAt, Asks
  <2> QED
    BY <2>1, <2>2
<1> QED
  BY <1>2, <1>3

\* mk_msg_send puts the request behind those of its server ...
LEMMA SendPlaces ==
  ASSUME TypeInv, NEW t \in Tasks, Send(t)
  PROVE  LET server == stub[t].server
             last == Len(inbox[server]) + 1
         IN /\ stub[t] \in Stubs /\ server \in Servers /\ last \in Nat
            /\ next_call \in Calls
            /\ \A s \in Servers, i \in Nat :
                 /\ Occupied(s, i) => /\ Occupied(s, i)' /\ CallAt(s, i)' = CallAt(s, i)
                                      /\ Asks(s, i)' = Asks(s, i)
                                      /\ ~(s = server /\ i = last)
                 /\ Occupied(s, i)' => Occupied(s, i) \/ (s = server /\ i = last)
                 /\ s = server /\ i = last =>
                      /\ Occupied(s, i)'
                      /\ CallAt(s, i)' = next_call /\ Asks(s, i)' = stub[t].back
<1> DEFINE server == stub[t].server
           last == Len(inbox[server]) + 1
           request == [call |-> next_call, back |-> stub[t].back]
<1>1. /\ stub[t] \in Stubs /\ server \in Servers /\ next_call \in Calls
      /\ request \in Request
  BY RpcAssumption
  DEF Send, TypeInv, TypeOK, StubInHand, RpcAssumption, IsStub, Calls, Request
<1>2. inbox' = [inbox EXCEPT ![server] = Append(@, request)] /\ UNCHANGED handling
  BY DEF Send
<1>3. request.call = next_call /\ request.back = stub[t].back
  OBVIOUS
<1> HIDE DEF server, request
<1>4. /\ last \in Nat \ {0}
      /\ \A s \in Servers, i \in Nat \ {0} :
           /\ Occupied(s, i) => /\ Occupied(s, i)' /\ CallAt(s, i)' = CallAt(s, i)
                                /\ Asks(s, i)' = Asks(s, i) /\ ~(s = server /\ i = last)
           /\ Occupied(s, i)' => Occupied(s, i) \/ (s = server /\ i = last)
           /\ s = server /\ i = last =>
                Occupied(s, i)' /\ CallAt(s, i)' = request.call
                /\ Asks(s, i)' = request.back
  BY <1>1, <1>2, AppendPlaces
<1>5. \A s \in Servers : /\ Occupied(s, 0)' <=> Occupied(s, 0)
                        /\ CallAt(s, 0)' = CallAt(s, 0) /\ Asks(s, 0)' = Asks(s, 0)
  BY <1>2 DEF Occupied, CallAt, Asks
<1> HIDE DEF last
<1>6. ASSUME NEW s \in Servers, NEW i \in Nat
      PROVE  /\ Occupied(s, i) => /\ Occupied(s, i)' /\ CallAt(s, i)' = CallAt(s, i)
                                  /\ Asks(s, i)' = Asks(s, i)
                                  /\ ~(s = server /\ i = last)
             /\ Occupied(s, i)' => Occupied(s, i) \/ (s = server /\ i = last)
             /\ s = server /\ i = last =>
                  /\ Occupied(s, i)'
                  /\ CallAt(s, i)' = next_call /\ Asks(s, i)' = stub[t].back
  <2>1. CASE i = 0
    BY <1>4, <1>5, <2>1
  <2>2. CASE i # 0
    BY <1>3, <1>4, <2>2
  <2> QED
    BY <2>1, <2>2
<1> QED
  BY <1>1, <1>4, <1>6 DEF server, last

\* ... the main loop of a server moves its requests up, and may not see that the one it
\* takes names kernel_port ...
LEMMA TakePlaces ==
  ASSUME TypeInv, NEW s \in Servers, Take(s)
  PROVE  LET before(z, i) == IF z = s THEN i + 1 ELSE i
         IN \A z \in Servers, i \in Nat :
              /\ before(z, i) \in Nat
              /\ Occupied(z, i)' <=> Occupied(z, before(z, i))
              /\ Occupied(z, i)' => /\ CallAt(z, i)' = CallAt(z, before(z, i))
                                    /\ Asks(z, i)' => Asks(z, before(z, i))
                                    /\ HeaderAsSent /\ Asks(z, before(z, i)) => Asks(z, i)'
              /\ Occupied(z, i) => z # s \/ i # 0
<1> DEFINE before(z, i) == IF z = s THEN i + 1 ELSE i
<1>1. /\ inbox \in [Servers -> Seq(Request)]
      /\ handling \in [Servers -> Received \cup {NoRequest}]
      /\ handling[s] = NoRequest /\ inbox[s] # <<>>
      /\ inbox' = [inbox EXCEPT ![s] = Tail(@)]
  BY DEF Take, TypeInv, TypeOK, Queue
<1>2. PICK m \in Request : m = inbox[s][1] /\ m = Head(inbox[s]) /\ 1 \in 1 .. Len(inbox[s])
  BY <1>1
<1>3. handling' = [handling EXCEPT ![s] = [call |-> m.call, to |-> ReplyPort(m)]]
  BY <1>2 DEF Take
<1>4. [call |-> m.call, to |-> ReplyPort(m)] \in Received
  BY <1>2 DEF Request, Received, ReplyPort
<1>5. ASSUME NEW z \in Servers, NEW i \in Nat
      PROVE  /\ Occupied(z, i)' <=> Occupied(z, before(z, i))
             /\ Occupied(z, i)' => /\ CallAt(z, i)' = CallAt(z, before(z, i))
                                   /\ Asks(z, i)' => Asks(z, before(z, i))
                                   /\ HeaderAsSent /\ Asks(z, before(z, i)) => Asks(z, i)'
  <2>1. CASE z # s
    BY <1>1, <1>3, <2>1 DEF Occupied, CallAt, Asks
  <2>2. CASE z = s /\ i = 0
    <3>1. handling'[s] # NoRequest /\ handling'[s].call = m.call
          /\ handling'[s].to = ReplyPort(m)
      BY <1>1, <1>3, <1>4, RpcAssumption DEF RpcAssumption
    <3>2. Occupied(z, i)' /\ Occupied(z, before(z, i))
      BY <1>2, <2>2, <3>1 DEF Occupied
    <3>3. CallAt(z, i)' = CallAt(z, before(z, i))
      BY <1>2, <2>2, <3>1 DEF CallAt
    <3>4. /\ Asks(z, i)' <=> ReplyPort(m) = "kernel_port"
          /\ Asks(z, before(z, i)) = m.back
      BY <1>2, <2>2, <3>1 DEF Asks
    <3> QED
      BY <3>2, <3>3, <3>4 DEF ReplyPort
  <2>3. CASE z = s /\ i # 0
    <3>1. inbox'[s] = Tail(inbox[s])
      BY <1>1
    <3>2. /\ i \in 1 .. Len(Tail(inbox[s])) <=> i + 1 \in 1 .. Len(inbox[s])
          /\ i \in 1 .. Len(Tail(inbox[s])) => Tail(inbox[s])[i] = inbox[s][i + 1]
      BY <1>1, <2>3
    <3> QED
      BY <2>3, <3>1, <3>2 DEF Occupied, CallAt, Asks
  <2> QED
    BY <2>1, <2>2, <2>3
<1>6. \A z \in Servers, i \in Nat : Occupied(z, i) => z # s \/ i # 0
  BY <1>1 DEF Occupied
<1> QED
  BY <1>5, <1>6

\* ... and is rid of the one it has handled, or finds it behind the others.
LEMMA HandlePlaces ==
  ASSUME TypeInv, NEW s \in Servers, SendReply(s)
  PROVE  /\ Occupied(s, 0) /\ CallAt(s, 0) = handling[s].call /\ handling[s] \in Received
         /\ handling[s].to = "kernel_port" =>
              \A z \in Servers, i \in Nat :
                /\ Occupied(z, i)' <=> Occupied(z, i) /\ ~(z = s /\ i = 0)
                /\ Occupied(z, i)' => CallAt(z, i)' = CallAt(z, i) /\ Asks(z, i)' = Asks(z, i)
BY DEF SendReply, TypeInv, TypeOK, Occupied, CallAt, Asks

LEMMA GonePlaces ==
  ASSUME TypeInv, NEW s \in Servers, NoReply(s)
  PROVE  /\ Occupied(s, 0) /\ CallAt(s, 0) = handling[s].call
         /\ \A z \in Servers, i \in Nat :
              /\ Occupied(z, i)' <=> Occupied(z, i) /\ ~(z = s /\ i = 0)
              /\ Occupied(z, i)' => CallAt(z, i)' = CallAt(z, i) /\ Asks(z, i)' = Asks(z, i)
BY DEF NoReply, TypeInv, TypeOK, Occupied, CallAt, Asks

LEMMA RepeatPlaces ==
  ASSUME TypeInv, NEW s \in Servers, SendReply(s), handling[s].to # "kernel_port"
  PROVE  LET last == Len(inbox[s]) + 1
         IN /\ last \in Nat \ {0}
            /\ \A z \in Servers, i \in Nat :
                 Occupied(z, i)' =>
                   \/ /\ Occupied(z, i) /\ ~(z = s /\ i = 0) /\ ~(z = s /\ i = last)
                      /\ CallAt(z, i)' = CallAt(z, i) /\ Asks(z, i)' = Asks(z, i)
                   \/ /\ z = s /\ i = last
                      /\ CallAt(z, i)' = CallAt(s, 0) /\ ~Asks(z, i)'
<1> DEFINE last == Len(inbox[s]) + 1
           e == [call |-> handling[s].call, back |-> FALSE]
<1>1. /\ handling[s] # NoRequest /\ handling[s] \in Received
      /\ handling' = [handling EXCEPT ![s] = NoRequest]
      /\ inbox' = [inbox EXCEPT ![s] = Append(@, e)]
  BY DEF SendReply, TypeInv, TypeOK
<1>2. e \in Request /\ e.call = CallAt(s, 0) /\ ~e.back
  BY <1>1 DEF Request, Received, CallAt
<1> HIDE DEF e
<1>3. /\ last \in Nat \ {0}
      /\ \A z \in Servers, i \in Nat \ {0} :
           /\ Occupied(z, i) => /\ Occupied(z, i)' /\ CallAt(z, i)' = CallAt(z, i)
                                /\ Asks(z, i)' = Asks(z, i) /\ ~(z = s /\ i = last)
           /\ Occupied(z, i)' => Occupied(z, i) \/ (z = s /\ i = last)
           /\ z = s /\ i = last =>
                Occupied(z, i)' /\ CallAt(z, i)' = e.call /\ Asks(z, i)' = e.back
  BY <1>1, <1>2, AppendPlaces
<1>4. \A z \in Servers :
        /\ Occupied(z, 0)' => Occupied(z, 0) /\ z # s
        /\ z # s => CallAt(z, 0)' = CallAt(z, 0) /\ Asks(z, 0)' = Asks(z, 0)
  BY <1>1 DEF Occupied, CallAt, Asks, TypeInv, TypeOK
<1> HIDE DEF last
<1>5. ASSUME NEW z \in Servers, NEW i \in Nat, Occupied(z, i)'
      PROVE  \/ /\ Occupied(z, i) /\ ~(z = s /\ i = 0) /\ ~(z = s /\ i = last)
                /\ CallAt(z, i)' = CallAt(z, i) /\ Asks(z, i)' = Asks(z, i)
             \/ /\ z = s /\ i = last
                /\ CallAt(z, i)' = CallAt(s, 0) /\ ~Asks(z, i)'
  <2>1. CASE i = 0
    BY <1>3, <1>4, <1>5, <2>1
  <2>2. CASE i # 0
    BY <1>2, <1>3, <1>5, <2>2
  <2> QED
    BY <2>1, <2>2
<1> QED
  BY <1>3, <1>5 DEF last

-----------------------------------------------------------------------------
(* The numbers of the requests. *)

\* Every request has a number of its own, one that asks for a reply has got none, and
\* each reply is the answer to another request.
NumbersAreOld ==
  /\ \A s \in Servers, i \in Nat : Occupied(s, i) => CallAt(s, i) < next_call
  /\ \A c \in answered \cup refused : c < next_call
NumbersDiffer ==
  \A s, z \in Servers, i, j \in Nat :
    Occupied(s, i) /\ Occupied(z, j) /\ CallAt(s, i) = CallAt(z, j) => s = z /\ i = j
RefusedAreGone ==
  \A s \in Servers, i \in Nat : Occupied(s, i) => CallAt(s, i) \notin refused
WantedIsOpen ==
  \A s \in Servers, i \in Nat : Wanted(s, i) => CallAt(s, i) \notin answered
RepliesDiffer ==
  \A i, j \in DOMAIN kernel_port : kernel_port[i] = kernel_port[j] => i = j
RepliesAnswer == \A i \in DOMAIN kernel_port : kernel_port[i] \in answered

NumbersInv == /\ NumbersAreOld /\ NumbersDiffer /\ RefusedAreGone /\ WantedIsOpen
              /\ RepliesDiffer /\ RepliesAnswer

LEMMA NumbersInit == Init => NumbersInv
<1> SUFFICES ASSUME Init PROVE NumbersInv
  OBVIOUS
<1>1. \A s \in Servers, i \in Nat : ~Occupied(s, i)
  BY DEF Init, Occupied
<1>2. answered = {} /\ refused = {} /\ DOMAIN kernel_port = {}
  BY DEF Init
<1> QED
  BY <1>1, <1>2 DEF NumbersInv, NumbersAreOld, NumbersDiffer, RefusedAreGone,
                    WantedIsOpen, Wanted, RepliesDiffer, RepliesAnswer

\* A step that leaves the requests and the replies alone.
LEMMA NumbersStutter ==
  ASSUME NumbersInv,
         UNCHANGED <<inbox, handling, kernel_port, next_call, answered, refused>>
  PROVE  NumbersInv'
BY DEF NumbersInv, NumbersAreOld, NumbersDiffer, RefusedAreGone, WantedIsOpen,
       RepliesDiffer, RepliesAnswer, Wanted, Occupied, CallAt, Asks

LEMMA NumbersSend ==
  ASSUME TypeInv, NumbersInv, NEW t \in Tasks, Send(t)
  PROVE  NumbersInv'
<1> DEFINE server == stub[t].server
           last == Len(inbox[server]) + 1
<1>1. /\ server \in Servers /\ last \in Nat /\ next_call \in Calls
      /\ \A s \in Servers, i \in Nat :
           /\ Occupied(s, i) => CallAt(s, i)' = CallAt(s, i) /\ Asks(s, i)' = Asks(s, i)
           /\ Occupied(s, i)' => Occupied(s, i) \/ (s = server /\ i = last)
           /\ s = server /\ i = last => CallAt(s, i)' = next_call
  BY SendPlaces
<1>2. next_call' = next_call + 1 /\ UNCHANGED <<kernel_port, answered, refused>>
  BY DEF Send, Leave
<1>3. next_call \in Nat /\ \A c \in Calls : c \in Nat
  BY <1>1 DEF Calls
<1> HIDE DEF server, last
<1>4. \A s \in Servers, i \in Nat :
        Occupied(s, i)' =>
          \/ /\ Occupied(s, i)
             /\ CallAt(s, i)' = CallAt(s, i) /\ Asks(s, i)' = Asks(s, i)
          \/ s = server /\ i = last /\ CallAt(s, i)' = next_call
  BY <1>1
<1>5. \A s \in Servers, i \in Nat : Occupied(s, i) => CallAt(s, i) \in Nat
  BY <1>3, PlacesTyped
<1>6. \A c \in answered \cup refused : c \in Nat
  BY <1>3 DEF TypeInv, TypeOK
<1>7. NumbersAreOld'
  BY <1>2, <1>3, <1>4, <1>5, <1>6 DEF NumbersInv, NumbersAreOld
<1>8. NumbersDiffer'
  BY <1>3, <1>4, <1>5 DEF NumbersInv, NumbersAreOld, NumbersDiffer
<1>9. WantedIsOpen' /\ RefusedAreGone'
  BY <1>2, <1>3, <1>4, <1>6
  DEF NumbersInv, NumbersAreOld, WantedIsOpen, RefusedAreGone, Wanted
<1>10. RepliesDiffer' /\ RepliesAnswer'
  BY <1>2 DEF NumbersInv, RepliesDiffer, RepliesAnswer
<1> QED
  BY <1>7, <1>8, <1>9, <1>10 DEF NumbersInv

LEMMA NumbersTake ==
  ASSUME TypeInv, NumbersInv, NEW s \in Servers, Take(s)
  PROVE  NumbersInv'
<1> DEFINE before(z, i) == IF z = s THEN i + 1 ELSE i
<1>1. \A z \in Servers, i \in Nat :
        /\ before(z, i) \in Nat
        /\ Occupied(z, i)' => /\ Occupied(z, before(z, i))
                              /\ CallAt(z, i)' = CallAt(z, before(z, i))
                              /\ Asks(z, i)' => Asks(z, before(z, i))
  BY TakePlaces
<1>2. UNCHANGED <<kernel_port, next_call, answered, refused>>
  BY DEF Take
<1>3. \A z \in Servers, i, j \in Nat : before(z, i) = before(z, j) => i = j
  OBVIOUS
<1> HIDE DEF before
<1>4. NumbersAreOld' /\ WantedIsOpen' /\ RefusedAreGone'
  <2>1. ASSUME NEW z \in Servers, NEW i \in Nat, Occupied(z, i)'
        PROVE  /\ CallAt(z, i)' < next_call /\ CallAt(z, i)' \notin refused
               /\ Asks(z, i)' => CallAt(z, i)' \notin answered
    BY <1>1, <2>1 DEF NumbersInv, NumbersAreOld, WantedIsOpen, RefusedAreGone, Wanted
  <2>2. NumbersAreOld'
    BY <1>2, <2>1 DEF NumbersInv, NumbersAreOld
  <2>3. WantedIsOpen' /\ RefusedAreGone'
    BY <1>2, <2>1 DEF WantedIsOpen, RefusedAreGone, Wanted
  <2> QED
    BY <2>2, <2>3
<1>5. NumbersDiffer'
  <2> SUFFICES ASSUME NEW y \in Servers, NEW z \in Servers, NEW i \in Nat, NEW j \in Nat,
                      Occupied(y, i)', Occupied(z, j)', CallAt(y, i)' = CallAt(z, j)'
               PROVE  y = z /\ i = j
    BY DEF NumbersDiffer
  <2>1. y = z /\ before(y, i) = before(z, j)
    BY <1>1 DEF NumbersInv, NumbersDiffer
  <2> QED
    BY <1>3, <2>1
<1>6. RepliesDiffer' /\ RepliesAnswer'
  BY <1>2 DEF NumbersInv, RepliesDiffer, RepliesAnswer
<1> QED
  BY <1>4, <1>5, <1>6 DEF NumbersInv

\* mk_msg_receive takes the first reply: the others are still different.
LEMMA NumbersReceive ==
  ASSUME TypeInv, NumbersInv, NEW t \in Tasks, ReceiveReply(t)
  PROVE  NumbersInv'
<1>1. /\ kernel_port \in Seq(Calls) /\ kernel_port # <<>>
      /\ kernel_port' = Tail(kernel_port)
      /\ UNCHANGED <<inbox, handling, next_call, answered, refused>>
  BY DEF ReceiveReply, TypeInv, TypeOK, Queue
<1>2. \A i \in DOMAIN kernel_port' :
        i \in Nat /\ i + 1 \in DOMAIN kernel_port /\ kernel_port'[i] = kernel_port[i + 1]
  BY <1>1
<1>3. RepliesDiffer' /\ RepliesAnswer'
  BY <1>1, <1>2 DEF NumbersInv, RepliesDiffer, RepliesAnswer
<1>4. NumbersAreOld' /\ NumbersDiffer' /\ RefusedAreGone' /\ WantedIsOpen'
  BY <1>1 DEF NumbersInv, NumbersAreOld, NumbersDiffer, RefusedAreGone, WantedIsOpen,
              Wanted, Occupied, CallAt, Asks
<1> QED
  BY <1>3, <1>4 DEF NumbersInv

\* send_reply to kernel_port answers a request that was not answered ...
LEMMA NumbersReply ==
  ASSUME TypeInv, NumbersInv, NEW s \in Servers, SendReply(s),
         handling[s].to = "kernel_port"
  PROVE  NumbersInv'
<1> DEFINE c == handling[s].call
<1>1. /\ Occupied(s, 0) /\ CallAt(s, 0) = c /\ handling[s] \in Received
      /\ \A z \in Servers, i \in Nat :
           Occupied(z, i)' => /\ Occupied(z, i) /\ ~(z = s /\ i = 0)
                              /\ CallAt(z, i)' = CallAt(z, i) /\ Asks(z, i)' = Asks(z, i)
  BY HandlePlaces
<1>2. /\ kernel_port' = Append(kernel_port, c) /\ answered' = answered \cup {c}
      /\ UNCHANGED <<next_call, refused>>
  BY DEF SendReply
<1>3. Wanted(s, 0)
  BY <1>1 DEF Wanted, Asks
<1>4. kernel_port \in Seq(Calls) /\ c \in Calls
  BY <1>1 DEF TypeInv, TypeOK, Queue, Received
<1> HIDE DEF c
<1>5. c \notin answered /\ c < next_call
  BY <1>1, <1>3 DEF NumbersInv, NumbersAreOld, WantedIsOpen
<1>6. \A z \in Servers, i \in Nat : Occupied(z, i)' => CallAt(z, i)' # c
  BY <1>1 DEF NumbersInv, NumbersDiffer
<1>7. \A i \in DOMAIN kernel_port' :
        \/ i \in DOMAIN kernel_port /\ kernel_port'[i] = kernel_port[i]
        \/ i = Len(kernel_port) + 1 /\ kernel_port'[i] = c
  BY <1>2, <1>4
<1>8. NumbersAreOld' /\ NumbersDiffer' /\ RefusedAreGone'
  BY <1>1, <1>2, <1>5 DEF NumbersInv, NumbersAreOld, NumbersDiffer, RefusedAreGone
<1>9. WantedIsOpen'
  BY <1>1, <1>2, <1>6 DEF NumbersInv, WantedIsOpen, Wanted
<1>10. RepliesAnswer' /\ RepliesDiffer'
  BY <1>2, <1>5, <1>7 DEF NumbersInv, RepliesAnswer, RepliesDiffer
<1> QED
  BY <1>8, <1>9, <1>10 DEF NumbersInv

\* ... to the port of the server itself, it asks for nothing ...
LEMMA NumbersRepeat ==
  ASSUME TypeInv, NumbersInv, NEW s \in Servers, SendReply(s),
         handling[s].to # "kernel_port"
  PROVE  NumbersInv'
<1> DEFINE last == Len(inbox[s]) + 1
<1>1. \A z \in Servers, i \in Nat :
        Occupied(z, i)' =>
          \/ /\ Occupied(z, i) /\ ~(z = s /\ i = 0) /\ ~(z = s /\ i = last)
             /\ CallAt(z, i)' = CallAt(z, i) /\ Asks(z, i)' = Asks(z, i)
          \/ /\ z = s /\ i = last
             /\ CallAt(z, i)' = CallAt(s, 0) /\ ~Asks(z, i)'
  BY RepeatPlaces
<1>2. Occupied(s, 0) /\ 0 \in Nat
  BY HandlePlaces
<1>3. UNCHANGED <<kernel_port, next_call, answered, refused>>
  BY DEF SendReply
<1> HIDE DEF last
<1>4. NumbersAreOld' /\ RefusedAreGone' /\ WantedIsOpen'
  BY <1>1, <1>2, <1>3
  DEF NumbersInv, NumbersAreOld, RefusedAreGone, WantedIsOpen, Wanted
<1>5. NumbersDiffer'
  BY <1>1, <1>2 DEF NumbersInv, NumbersDiffer
<1>6. RepliesDiffer' /\ RepliesAnswer'
  BY <1>3 DEF NumbersInv, RepliesDiffer, RepliesAnswer
<1> QED
  BY <1>4, <1>5, <1>6 DEF NumbersInv

\* ... and without a reply, the request is gone.
LEMMA NumbersNoReply ==
  ASSUME TypeInv, NumbersInv, NEW s \in Servers, NoReply(s)
  PROVE  NumbersInv'
<1> DEFINE c == handling[s].call
<1>1. /\ Occupied(s, 0) /\ CallAt(s, 0) = c
      /\ \A z \in Servers, i \in Nat :
           Occupied(z, i)' => /\ Occupied(z, i) /\ ~(z = s /\ i = 0)
                              /\ CallAt(z, i)' = CallAt(z, i) /\ Asks(z, i)' = Asks(z, i)
  BY GonePlaces
<1>2. (refused' = refused \cup {c} \/ refused' = refused)
      /\ UNCHANGED <<kernel_port, next_call, answered>>
  BY DEF NoReply
<1> HIDE DEF c
<1>3. c < next_call
  BY <1>1 DEF NumbersInv, NumbersAreOld
<1>4. \A z \in Servers, i \in Nat : Occupied(z, i)' => CallAt(z, i)' # c
  BY <1>1 DEF NumbersInv, NumbersDiffer
<1>5. NumbersAreOld' /\ NumbersDiffer' /\ WantedIsOpen'
  BY <1>1, <1>2, <1>3
  DEF NumbersInv, NumbersAreOld, NumbersDiffer, WantedIsOpen, Wanted
<1>6. RefusedAreGone'
  BY <1>1, <1>2, <1>4 DEF NumbersInv, RefusedAreGone
<1>7. RepliesDiffer' /\ RepliesAnswer'
  BY <1>2 DEF NumbersInv, RepliesDiffer, RepliesAnswer
<1> QED
  BY <1>5, <1>6, <1>7 DEF NumbersInv

LEMMA NumbersStep == TypeInv /\ NumbersInv /\ [Next]_vars => NumbersInv'
<1> SUFFICES ASSUME TypeInv, NumbersInv, [Next]_vars PROVE NumbersInv'
  OBVIOUS
<1>1. ASSUME NEW t \in Tasks, TaskStep(t) PROVE NumbersInv'
  BY <1>1, NumbersSend, NumbersReceive, NumbersStutter
  DEF TaskStep, Enter, SendFails, ReceiveFails
<1>2. ASSUME NEW s \in Servers, ServerStep(s) PROVE NumbersInv'
  BY <1>2, NumbersTake, NumbersReply, NumbersRepeat, NumbersNoReply DEF ServerStep
<1>3. CASE UNCHANGED vars
  BY <1>3, NumbersStutter DEF vars
<1> QED
  BY <1>1, <1>2, <1>3 DEF Next

\* What the property counts as unanswered, in terms of places.
LEMMA UnansweredPlaces ==
  ASSUME TypeInv
  PROVE  Unanswered = {c \in Calls : \E s \in Servers, i \in Nat :
                                       Wanted(s, i) /\ CallAt(s, i) = c}
<1> DEFINE queued(s) == {inbox[s][i].call : i \in {j \in DOMAIN inbox[s] : inbox[s][j].back}}
           handled(s) == {r.call : r \in {q \in {handling[s]} : q # NoRequest /\ q.to = "kernel_port"}}
           places == {c \in Calls : \E s \in Servers, i \in Nat :
                                      Wanted(s, i) /\ CallAt(s, i) = c}
<1>1. ASSUME NEW s \in Servers, NEW c \in queued(s)
      PROVE  c \in places
  <2>1. PICK i \in DOMAIN inbox[s] : inbox[s][i].back /\ inbox[s][i].call = c
    OBVIOUS
  <2>2. i \in Nat /\ i # 0 /\ i \in 1 .. Len(inbox[s])
    BY DEF TypeInv, TypeOK, Queue
  <2>3. Wanted(s, i) /\ CallAt(s, i) = c
    BY <2>1, <2>2 DEF Wanted, Occupied, CallAt, Asks
  <2> QED
    BY <2>2, <2>3, PlacesTyped DEF Wanted
<1>2. ASSUME NEW s \in Servers, NEW c \in handled(s)
      PROVE  c \in places
  <2>1. handling[s] # NoRequest /\ handling[s].to = "kernel_port" /\ handling[s].call = c
    OBVIOUS
  <2>2. Wanted(s, 0) /\ CallAt(s, 0) = c
    BY <2>1 DEF Wanted, Occupied, CallAt, Asks
  <2> QED
    BY <2>2, PlacesTyped DEF Wanted
<1>3. ASSUME NEW c \in places PROVE \E s \in Servers : c \in queued(s) \cup handled(s)
  <2>1. PICK s \in Servers, i \in Nat : Wanted(s, i) /\ CallAt(s, i) = c
    OBVIOUS
  <2>2. CASE i = 0
    BY <2>1, <2>2 DEF Wanted, Occupied, CallAt, Asks
  <2>3. CASE i # 0
    <3>1. i \in DOMAIN inbox[s] /\ inbox[s][i].back /\ inbox[s][i].call = c
      BY <2>1, <2>3 DEF Wanted, Occupied, CallAt, Asks, TypeInv, TypeOK, Queue
    <3> QED
      BY <3>1
  <2> QED
    BY <2>2, <2>3
<1>4. Unanswered = UNION {queued(s) \cup handled(s) : s \in Servers}
  BY DEF Unanswered
<1> HIDE DEF queued, handled, places
<1>5. Unanswered = places
  BY <1>1, <1>2, <1>3, <1>4
<1> QED
  BY <1>5 DEF places

\* No request is answered twice: what is owed has not been answered, and the replies
\* in kernel_port answer different requests, whoever received the earlier ones.
THEOREM RequestsAnsweredOnce == Spec => []AnsweredOnce
<1>1. TypeInv /\ NumbersInv => AnsweredOnce
  <2> SUFFICES ASSUME TypeInv, NumbersInv PROVE AnsweredOnce
    OBVIOUS
  <2>1. Unanswered \cap answered = {}
    BY UnansweredPlaces DEF NumbersInv, WantedIsOpen
  <2> QED
    BY <2>1 DEF AnsweredOnce, NumbersInv, RepliesDiffer
<1> QED
  BY <1>1, TypeInit, TypeStep, NumbersInit, NumbersStep, PTL DEF Spec

-----------------------------------------------------------------------------
(* The tasks that wait and the replies that they wait for. *)

Receiving == {t \in Tasks : pc[t] = "receiving"}

\* The requests that will be answered, or refused, when their servers get to them
Owed == {c \in Calls : \E s \in Servers, i \in Nat :
                         Replies(s) /\ Wanted(s, i) /\ CallAt(s, i) = c}

LEMMA OwedUnanswered == TypeInv => Owed \subseteq Unanswered
  BY UnansweredPlaces DEF Owed

\* Replies: queued, to come, and refused
Due == Len(kernel_port) + Cardinality(Owed) + Cardinality(refused)

LEMMA OwedFinite ==
  /\ IsFiniteSet(Owed) /\ Cardinality(Owed) \in Nat
  /\ TypeInv => IsFiniteSet(Unanswered) /\ Cardinality(Unanswered) \in Nat
  /\ TypeInv => IsFiniteSet(refused) /\ Cardinality(refused) \in Nat
<1>1. IsFiniteSet(Calls)
  BY FS_Interval, RpcAssumption DEF Calls, RpcAssumption
<1>2. /\ Owed \subseteq Calls /\ (TypeInv => Unanswered \subseteq Calls)
      /\ TypeInv => refused \subseteq Calls
  BY UnansweredPlaces DEF Owed, TypeInv, TypeOK
<1> QED
  BY <1>1, <1>2, FS_Subset, FS_CardinalityType

\* mk_msg_send: the request of a server that replies is owed, if it names kernel_port.
LEMMA OwedSend ==
  ASSUME TypeInv, NumbersInv, NEW t \in Tasks, Send(t)
  PROVE  /\ stub[t].back /\ Replies(stub[t].server) =>
              Cardinality(Owed') = Cardinality(Owed) + 1
         /\ ~(stub[t].back /\ Replies(stub[t].server)) => Owed' = Owed
<1> DEFINE server == stub[t].server
           last == Len(inbox[server]) + 1
<1>1. /\ server \in Servers /\ last \in Nat /\ next_call \in Calls
      /\ \A s \in Servers, i \in Nat :
           /\ Occupied(s, i) => /\ Occupied(s, i)' /\ CallAt(s, i)' = CallAt(s, i)
                                /\ Asks(s, i)' = Asks(s, i)
           /\ Occupied(s, i)' => Occupied(s, i) \/ (s = server /\ i = last)
           /\ s = server /\ i = last =>
                /\ Occupied(s, i)'
                /\ CallAt(s, i)' = next_call /\ Asks(s, i)' = stub[t].back
  BY SendPlaces
<1>2. next_call \notin Owed
  BY <1>1 DEF NumbersInv, NumbersAreOld, Owed, Wanted, Calls
<1> HIDE DEF server, last
<1>3. CASE stub[t].back /\ Replies(server)
  <2>1. ASSUME NEW c PROVE c \in Owed' <=> c \in Owed \cup {next_call}
    <3>1. c \in Owed => c \in Owed'
      BY <1>1 DEF Owed, Wanted
    <3>2. next_call \in Owed'
      BY <1>1, <1>3 DEF Owed, Wanted
    <3>3. c \in Owed' => c \in Owed \cup {next_call}
      BY <1>1 DEF Owed, Wanted
    <3> QED
      BY <3>1, <3>2, <3>3
  <2>2. Owed' = Owed \cup {next_call}
    BY <2>1
  <2> QED
    BY <1>2, <1>3, <2>2, OwedFinite, FS_AddElement DEF server
<1>4. CASE ~(stub[t].back /\ Replies(server))
  <2>1. ASSUME NEW c PROVE c \in Owed' <=> c \in Owed
    BY <1>1, <1>4 DEF Owed, Wanted
  <2> QED
    BY <1>4, <2>1 DEF server
<1> QED
  BY <1>3, <1>4 DEF server

LEMMA OwedTake ==
  ASSUME TypeInv, HeaderAsSent, NEW s \in Servers, Take(s)
  PROVE  Owed' = Owed
<1> DEFINE before(z, i) == IF z = s THEN i + 1 ELSE i
<1>1. \A z \in Servers, i \in Nat :
        /\ before(z, i) \in Nat
        /\ Occupied(z, i)' <=> Occupied(z, before(z, i))
        /\ Occupied(z, i)' => /\ CallAt(z, i)' = CallAt(z, before(z, i))
                              /\ Asks(z, i)' <=> Asks(z, before(z, i))
        /\ Occupied(z, i) => z # s \/ i # 0
  BY TakePlaces
<1>2. \A z \in Servers, j \in Nat : z # s \/ j # 0 => \E i \in Nat : before(z, i) = j
  <2> SUFFICES ASSUME NEW z \in Servers, NEW j \in Nat, z # s \/ j # 0
               PROVE  \E i \in Nat : before(z, i) = j
    OBVIOUS
  <2>1. CASE z = s
    <3>1. j - 1 \in Nat /\ before(z, j - 1) = j
      BY <2>1
    <3> QED
      BY <3>1
  <2>2. CASE z # s
    BY <2>2
  <2> QED
    BY <2>1, <2>2
<1> HIDE DEF before
<1>3. ASSUME NEW c, c \in Owed' PROVE c \in Owed
  BY <1>1, <1>3 DEF Owed, Wanted
<1>4. ASSUME NEW c, c \in Owed PROVE c \in Owed'
  <2>1. PICK z \in Servers, j \in Nat : Replies(z) /\ Wanted(z, j) /\ CallAt(z, j) = c
    BY <1>4 DEF Owed
  <2>2. PICK i \in Nat : before(z, i) = j
    BY <1>1, <1>2, <2>1 DEF Wanted
  <2>3. Wanted(z, i)' /\ CallAt(z, i)' = c
    BY <1>1, <2>1, <2>2 DEF Wanted
  <2> QED
    BY <1>4, <2>1, <2>3 DEF Owed
<1> QED
  BY <1>3, <1>4

\* A server is rid of a request: what was owed is no more, nothing else changes.
LEMMA OwedGone ==
  ASSUME TypeInv, NumbersInv, NEW s \in Servers, Occupied(s, 0),
         \A z \in Servers, i \in Nat :
           /\ Occupied(z, i)' <=> Occupied(z, i) /\ ~(z = s /\ i = 0)
           /\ Occupied(z, i)' => CallAt(z, i)' = CallAt(z, i) /\ Asks(z, i)' = Asks(z, i)
  PROVE  IF Asks(s, 0) /\ Replies(s)
           THEN Cardinality(Owed') = Cardinality(Owed) - 1
           ELSE Owed' = Owed
<1>1. CASE Asks(s, 0) /\ Replies(s)
  <2>1. PICK c \in Calls : c = CallAt(s, 0)
    BY PlacesTyped
  <2>2. c \in Owed
    BY <1>1, <2>1 DEF Owed, Wanted
  <2>3. \A z \in Servers, i \in Nat : Occupied(z, i) /\ CallAt(z, i) = c => z = s /\ i = 0
    BY <2>1 DEF NumbersInv, NumbersDiffer
  <2>4. ASSUME NEW d PROVE d \in Owed' <=> d \in Owed \ {c}
    <3>1. d \in Owed' => d \in Owed \ {c}
      BY <2>3 DEF Owed, Wanted
    <3>2. d \in Owed \ {c} => d \in Owed'
      BY <2>1 DEF Owed, Wanted
    <3> QED
      BY <3>1, <3>2
  <2>5. Owed' = Owed \ {c}
    BY <2>4
  <2> QED
    BY <1>1, <2>2, <2>5, OwedFinite, FS_RemoveElement
<1>2. CASE ~(Asks(s, 0) /\ Replies(s))
  <2>1. ASSUME NEW d PROVE d \in Owed' <=> d \in Owed
    BY <1>2 DEF Owed, Wanted
  <2> QED
    BY <1>2, <2>1
<1> QED
  BY <1>1, <1>2

\* send_reply: what was owed is in kernel_port.
LEMMA OwedReply ==
  ASSUME TypeInv, HeaderAsSent, NumbersInv, NEW s \in Servers, SendReply(s)
  PROVE  Due' = Due
<1>1. /\ handling[s] # NoRequest /\ handling[s] \in Received
      /\ handling[s].to # "none" /\ Replies(s) /\ UNCHANGED refused
  BY DEF SendReply, TypeInv, TypeOK
<1>2. handling[s].to = "kernel_port"
  BY <1>1 DEF TypeInv, SeenAsSent, Received
<1>3. Asks(s, 0)
  BY <1>2 DEF Asks
<1>4. /\ Occupied(s, 0)
      /\ \A z \in Servers, i \in Nat :
           /\ Occupied(z, i)' <=> Occupied(z, i) /\ ~(z = s /\ i = 0)
           /\ Occupied(z, i)' => CallAt(z, i)' = CallAt(z, i) /\ Asks(z, i)' = Asks(z, i)
  BY <1>2, HandlePlaces
<1>5. Cardinality(Owed') = Cardinality(Owed) - 1
  BY <1>1, <1>3, <1>4, OwedGone
<1>6. /\ kernel_port' = Append(kernel_port, handling[s].call) /\ kernel_port \in Seq(Calls)
      /\ handling[s].call \in Calls
  BY <1>1, <1>2 DEF SendReply, TypeInv, TypeOK, Queue, Received
<1>7. Len(kernel_port') = Len(kernel_port) + 1 /\ Len(kernel_port) \in Nat
  BY <1>6
<1> QED
  BY <1>1, <1>5, <1>7, OwedFinite DEF Due

\* send_reply, and mk_msg_send fails: what was owed is refused.
LEMMA OwedNoReply ==
  ASSUME TypeInv, HeaderAsSent, NumbersInv, NEW s \in Servers, NoReply(s)
  PROVE  Due' = Due
<1> DEFINE c == handling[s].call
<1>1. /\ handling[s] # NoRequest /\ handling[s] \in Received /\ UNCHANGED kernel_port
      /\ refused' = IF handling[s].to # "none" /\ Replies(s) THEN refused \cup {c} ELSE refused
  BY DEF NoReply, TypeInv, TypeOK
<1>2. /\ Asks(s, 0) <=> handling[s].to = "kernel_port"
      /\ handling[s].to # "none" <=> handling[s].to = "kernel_port"
  BY <1>1 DEF Asks, TypeInv, SeenAsSent, Received
<1>3. /\ Occupied(s, 0) /\ CallAt(s, 0) = c
      /\ \A z \in Servers, i \in Nat :
           /\ Occupied(z, i)' <=> Occupied(z, i) /\ ~(z = s /\ i = 0)
           /\ Occupied(z, i)' => CallAt(z, i)' = CallAt(z, i) /\ Asks(z, i)' = Asks(z, i)
  BY GonePlaces
<1> HIDE DEF c
<1>4. /\ c \notin refused /\ IsFiniteSet(refused) /\ Cardinality(refused) \in Nat
      /\ Cardinality(Owed) \in Nat /\ Len(kernel_port) \in Nat
  BY <1>3, OwedFinite DEF NumbersInv, RefusedAreGone, TypeInv, TypeOK, Queue
<1>5. CASE Asks(s, 0) /\ Replies(s)
  <2>1. Cardinality(Owed') = Cardinality(Owed) - 1
    BY <1>3, <1>5, OwedGone
  <2>2. Cardinality(refused') = Cardinality(refused) + 1
    BY <1>1, <1>2, <1>4, <1>5, FS_AddElement
  <2> QED
    BY <1>1, <1>4, <2>1, <2>2 DEF Due
<1>6. CASE ~(Asks(s, 0) /\ Replies(s))
  <2>1. Owed' = Owed
    BY <1>3, <1>6, OwedGone
  <2>2. UNCHANGED refused
    BY <1>1, <1>2, <1>6
  <2> QED
    BY <1>1, <2>1, <2>2 DEF Due
<1> QED
  BY <1>5, <1>6

\* Who waits has sent a request to a server that replies (to the log and the console
\* server the kernel only sends notifications).
WaitersAreAnswered == \A s \in Stubs : s.waits => s.back /\ Replies(s.server)

\* At least as many replies are due as tasks wait.
EnoughDue == IsFiniteSet(Receiving) /\ Cardinality(Receiving) <= Due

LEMMA DueTyped == TypeInv => Due \in Nat /\ Len(kernel_port) \in Nat
  BY OwedFinite DEF Due, TypeInv, TypeOK, Queue

LEMMA DueInit == Init => EnoughDue
<1> SUFFICES ASSUME Init PROVE EnoughDue
  OBVIOUS
<1>1. Receiving = {} /\ kernel_port = <<>> /\ refused = {}
  BY DEF Init, Receiving
<1>2. Owed = {}
  BY DEF Init, Owed, Wanted, Occupied
<1>3. Cardinality(Receiving) = 0 /\ Due = 0 /\ IsFiniteSet(Receiving)
  BY <1>1, <1>2, FS_EmptySet DEF Due
<1> QED
  BY <1>3 DEF EnoughDue

\* What the steps of tasks and servers change of the two counts.
LEMMA DueSend ==
  ASSUME TypeInv, NumbersInv, IsFiniteSet(Receiving), NEW t \in Tasks, Send(t)
  PROVE  LET asks == stub[t].back /\ Replies(stub[t].server)
         IN /\ stub[t] \in Stubs /\ IsFiniteSet(Receiving')
            /\ Due' = IF asks THEN Due + 1 ELSE Due
            /\ Cardinality(Receiving') = IF stub[t].waits THEN Cardinality(Receiving) + 1
                                                          ELSE Cardinality(Receiving)
<1>1. stub[t] \in Stubs /\ UNCHANGED <<kernel_port, refused>>
  BY SendPlaces DEF Send, Leave
<1>2. Due' = IF stub[t].back /\ Replies(stub[t].server) THEN Due + 1 ELSE Due
  BY <1>1, OwedSend, OwedFinite, DueTyped DEF Due
<1>3. t \notin Receiving
  BY DEF Send, Receiving
<1>4. CASE stub[t].waits
  <2>1. Receiving' = Receiving \cup {t}
    BY <1>4 DEF Send, Receiving, TypeInv, TypeOK
  <2> QED
    BY <1>1, <1>2, <1>3, <1>4, <2>1, FS_AddElement
<1>5. CASE ~stub[t].waits
  <2>1. Receiving' = Receiving
    BY <1>3, <1>5 DEF Send, Leave, Receiving, TypeInv, TypeOK
  <2> QED
    BY <1>1, <1>2, <1>5, <2>1
<1> QED
  BY <1>4, <1>5

LEMMA DueLeaves ==
  ASSUME TypeInv, IsFiniteSet(Receiving), NEW t \in Tasks, pc[t] = "receiving", Leave(t)
  PROVE  /\ IsFiniteSet(Receiving')
         /\ Cardinality(Receiving') = Cardinality(Receiving) - 1
<1>1. Receiving' = Receiving \ {t} /\ t \in Receiving
  BY DEF Leave, Receiving, TypeInv, TypeOK
<1> QED
  BY <1>1, FS_RemoveElement

LEMMA DueReceive ==
  ASSUME TypeInv, NEW t \in Tasks, ReceiveReply(t)
  PROVE  Due' = Due - 1
<1>1. Owed' = Owed
  BY DEF ReceiveReply, Owed, Wanted, Occupied, CallAt, Asks
<1>2. Len(kernel_port') = Len(kernel_port) - 1 /\ Len(kernel_port) \in Nat /\ UNCHANGED refused
  BY DEF ReceiveReply, TypeInv, TypeOK, Queue
<1> QED
  BY <1>1, <1>2, OwedFinite DEF Due

LEMMA DueOther ==
  ASSUME UNCHANGED <<inbox, handling, kernel_port, refused>>
  PROVE  Due' = Due
<1>1. Owed' = Owed
  BY DEF Owed, Wanted, Occupied, CallAt, Asks
<1> QED
  BY <1>1 DEF Due

\* Every step either leaves both counts alone, or changes them so.
LEMMA DueStep ==
  ASSUME TypeInv, HeaderAsSent, NumbersInv, IsFiniteSet(Receiving), [Next]_vars
  PROVE  /\ IsFiniteSet(Receiving')
         /\ \/ Due' = Due /\ Cardinality(Receiving') = Cardinality(Receiving)
            \/ Due' = Due - 1 /\ Cardinality(Receiving') = Cardinality(Receiving) - 1
            \/ /\ ReceiveMayFail
               /\ Due' = Due /\ Cardinality(Receiving') = Cardinality(Receiving) - 1
            \/ \E s \in Stubs :
                 /\ Due' = IF s.back /\ Replies(s.server) THEN Due + 1 ELSE Due
                 /\ Cardinality(Receiving') = IF s.waits THEN Cardinality(Receiving) + 1
                                                         ELSE Cardinality(Receiving)
<1>1. ASSUME NEW t \in Tasks, NEW s \in Stubs, Enter(t, s)
      PROVE  Receiving' = Receiving /\ Due' = Due
  BY <1>1, DueOther DEF Enter, Receiving, TypeInv, TypeOK
<1>2. ASSUME NEW t \in Tasks, Send(t)
      PROVE  /\ IsFiniteSet(Receiving')
             /\ \E s \in Stubs :
                  /\ Due' = IF s.back /\ Replies(s.server) THEN Due + 1 ELSE Due
                  /\ Cardinality(Receiving') = IF s.waits THEN Cardinality(Receiving) + 1
                                                          ELSE Cardinality(Receiving)
  BY <1>2, DueSend
<1>3. ASSUME NEW t \in Tasks, SendFails(t) PROVE Receiving' = Receiving /\ Due' = Due
  BY <1>3, DueOther DEF SendFails, Leave, Receiving, TypeInv, TypeOK
<1>4. ASSUME NEW t \in Tasks, ReceiveReply(t)
      PROVE  /\ IsFiniteSet(Receiving') /\ Due' = Due - 1
             /\ Cardinality(Receiving') = Cardinality(Receiving) - 1
  <2>1. pc[t] = "receiving" /\ Leave(t)
    BY <1>4 DEF ReceiveReply
  <2> QED
    BY <1>4, <2>1, DueLeaves, DueReceive
<1>5. ASSUME NEW t \in Tasks, ReceiveFails(t)
      PROVE  /\ IsFiniteSet(Receiving') /\ Due' = Due /\ ReceiveMayFail
             /\ Cardinality(Receiving') = Cardinality(Receiving) - 1
  <2>1. /\ pc[t] = "receiving" /\ Leave(t) /\ ReceiveMayFail
        /\ UNCHANGED <<inbox, handling, kernel_port, refused>>
    BY <1>5 DEF ReceiveFails
  <2> QED
    BY <2>1, DueLeaves, DueOther
<1>6. ASSUME NEW s \in Servers, Take(s) PROVE Receiving' = Receiving /\ Due' = Due
  BY <1>6, OwedTake DEF Take, Receiving, Due
<1>7. ASSUME NEW s \in Servers, SendReply(s) \/ NoReply(s)
      PROVE  Receiving' = Receiving /\ Due' = Due
  BY <1>7, OwedReply, OwedNoReply DEF SendReply, NoReply, Receiving
<1>8. CASE UNCHANGED vars
  BY <1>8, DueOther DEF vars, Receiving
<1> QED
  BY <1>1, <1>2, <1>3, <1>4, <1>5, <1>6, <1>7, <1>8 DEF Next, TaskStep, ServerStep

\* If servers see the header that was sent, and every stub that waits has asked a
\* server that replies, no waiting task is forgotten: whoever takes whose reply, as many
\* are queued, to come, or refused by mk_msg_send, as tasks wait.
THEOREM WaitersAreAccountedFor ==
  HeaderAsSent /\ WaitersAreAnswered /\ Spec => []NobodyForgotten
<1> SUFFICES ASSUME HeaderAsSent, WaitersAreAnswered PROVE Spec => []NobodyForgotten
  OBVIOUS
<1>1. TypeInv /\ NumbersInv /\ EnoughDue /\ [Next]_vars => EnoughDue'
  <2> SUFFICES ASSUME TypeInv, NumbersInv, EnoughDue, [Next]_vars PROVE EnoughDue'
    OBVIOUS
  <2>1. Due \in Nat /\ Cardinality(Receiving) \in Nat
    BY DueTyped, FS_CardinalityType DEF EnoughDue
  <2> QED
    BY <2>1, DueStep DEF EnoughDue, WaitersAreAnswered
<1>2. TypeInv /\ EnoughDue => NobodyForgotten
  <2> SUFFICES ASSUME TypeInv, EnoughDue PROVE NobodyForgotten
    OBVIOUS
  <2>1. Cardinality(Owed) <= Cardinality(Unanswered)
    BY OwedUnanswered, OwedFinite, FS_Subset
  <2>2. /\ Cardinality(Receiving) \in Nat /\ Len(kernel_port) \in Nat
        /\ Cardinality(Owed) \in Nat /\ Cardinality(Unanswered) \in Nat
        /\ Cardinality(refused) \in Nat
    BY OwedFinite, DueTyped, FS_CardinalityType DEF EnoughDue
  <2> QED
    BY <2>1, <2>2 DEF EnoughDue, Due, NobodyForgotten, Receiving
<1> QED
  BY <1>1, <1>2, TypeInit, TypeStep, NumbersInit, NumbersStep, DueInit, PTL DEF Spec

\* Every stub of the kernel and the headers that waits has asked a server that
\* replies: what WaitersAreAccountedFor assumes of the stubs is true of the source.
THEOREM StubsAskBeforeTheyWait == \A s \in AllStubs : s.waits => s.back /\ Replies(s.server)
<1> DEFINE Answers(s) == s.waits => s.back /\ Replies(s.server)
           All(S) == \A s \in S : Answers(s)
<1>1. \A v : Answers(Notify(v)) /\ Answers(AskOnly(v))
  BY DEF Notify, AskOnly
<1>2. \A v : v \notin {"console", "log"} => Answers(Rpc(v)) /\ All(Either(v))
  BY <1>1 DEF Rpc, Either, Replies
<1>3. \A S, R : All(S) /\ All(R) => All(S \cup R)
  OBVIOUS
<1> HIDE DEF Answers, All
<1>4. \A s : Answers(s) => All({s})
  BY DEF All
<1>5. All(sched_c)
  <2>1. All(sched_request) /\ All(floppy_timers) /\ All(timers) /\ All(alarm_and_nice)
    BY <1>1, <1>2 DEF sched_request, floppy_timers, timers, alarm_and_nice, All
  <2>2. All({show_task, schedule, sleep_on, interruptible_sleep_on, wake_up, sched_init})
    BY <1>1, <1>2
    DEF show_task, schedule, sleep_on, interruptible_sleep_on, wake_up, sched_init, All
  <2> QED
    BY <2>1, <2>2 DEF sched_c, All
<1>6. All(kernel_c)
  <2>1. /\ All(fork_request) /\ All(exit_request) /\ All(signal_request)
        /\ All(sys_request) /\ All(user_request) /\ All(mem_request)
    BY <1>2 DEF fork_request, exit_request, signal_request, sys_request, user_request,
                mem_request, All
  <2>2. All(coprocessor_and_parallel) /\ All(printk) /\ All(panic_notify_servers)
    BY <1>1 DEF coprocessor_and_parallel, printk, panic_notify_servers, All
  <2>3. All(panic_end) /\ All(mktime_c) /\ All(validate_and_epoch)
    BY <1>1, <1>2 DEF panic_end, mktime_c, validate_and_epoch, All
  <2>4. All({do_signal, send_signal, blk_request, send_trap_message, die, panic_print,
             panic_sync, panic_recoverable})
    BY <1>1, <1>2 DEF do_signal, send_signal, blk_request, send_trap_message, die,
                      panic_print, panic_sync, panic_recoverable, All
  <2> QED
    BY <1>3, <1>5, <2>1, <2>2, <2>3, <2>4 DEF kernel_c
<1>7. All(headers)
  <2>1. /\ All(do_syscall) /\ All(kernel_h) /\ All(fs_request) /\ All(fs_names)
        /\ All(fs_inodes) /\ All(fs_blocks)
    BY <1>1, <1>2 DEF do_syscall, kernel_h, fs_request, fs_names, fs_inodes, fs_blocks, All
  <2>2. /\ All(fcntl_h) /\ All(stat_h) /\ All(utime_h) /\ All(hd_request) /\ All(hdreg_h)
        /\ All(floppy_request) /\ All(fdreg_h) /\ All(tty_h) /\ All(termios_h)
    BY <1>1, <1>2 DEF fcntl_h, stat_h, utime_h, hd_request, hdreg_h, floppy_request,
                      fdreg_h, tty_h, termios_h, All
  <2>3. /\ All(segment_h) /\ All(mm_h) /\ All(string_h) /\ All(sched_h) /\ All(signal_h)
        /\ All(times_h) /\ All(wait_h) /\ All(utsname_h) /\ All(config_h) /\ All(io_h)
        /\ All(memory_h) /\ All(system_h) /\ All(ctype_h)
    BY <1>1, <1>2 DEF segment_h, mm_h, string_h, sched_h, signal_h, times_h, wait_h,
                      utsname_h, config_h, io_h, memory_h, system_h, ctype_h, All
  <2>4. /\ All(fcntl) /\ All(stat_and_fstat) /\ All(hd_status) /\ All(floppy_read_write)
        /\ All(tty_output) /\ All(termios_flow) /\ All(segment_copy)
        /\ All(memory_search) /\ All(sched_tables) /\ All(signal_action)
        /\ All(resource_usage) /\ All(host_names)
    BY <1>1, <1>2 DEF fcntl, stat_and_fstat, hd_status, floppy_read_write, tty_output,
                      termios_flow, segment_copy, memory_search, sched_tables,
                      signal_action, resource_usage, host_names, All
  <2>5. All({wait_on, exec_load})
    BY <1>1, <1>2 DEF wait_on, exec_load, All
  <2> QED
    BY <2>1, <2>2, <2>3, <2>4, <2>5 DEF headers, All
<1> QED
  BY <1>3, <1>6, <1>7 DEF AllStubs, All, Answers

=============================================================================
