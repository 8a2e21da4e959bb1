------------------------------ MODULE Mailbox ------------------------------
(***************************************************************************)
(* What a user of kernel/ipc.c may rely on: a port that is open is a FIFO  *)
(* mailbox.  A message put into it is in no other open mailbox; messages   *)
(* leave it one at a time, oldest first, or all at once when it closes,    *)
(* and a mailbox opens empty, whatever a former owner left in it.          *)
(***************************************************************************)
EXTENDS Sequences

CONSTANTS Port, Message, InitiallyOpen

VARIABLES open, box

Contents(p) == {box[p][i] : i \in DOMAIN box[p]}

Init == open = InitiallyOpen /\ box = [p \in Port |-> <<>>]

Open(p) ==
  /\ p \notin open
  /\ open' = open \cup {p}
  /\ UNCHANGED box

Close(p) ==
  /\ p \in open
  /\ open' = open \ {p}
  /\ box' = [box EXCEPT ![p] = <<>>]

\* The message put is what the box gains.
Put(p) ==
  /\ p \in open
  /\ \E m \in {box'[p][i] : i \in DOMAIN box'[p]} :
       /\ m \in Message
       /\ \A q \in Port : m \notin Contents(q)
       /\ box' = [box EXCEPT ![p] = Append(@, m)]
  /\ UNCHANGED open

Take(p) ==
  /\ p \in open
  /\ box[p] # <<>>
  /\ box' = [box EXCEPT ![p] = Tail(@)]
  /\ UNCHANGED open

Next == \E p \in Port : Open(p) \/ Close(p) \/ Take(p) \/ Put(p)

Spec == Init /\ [][Next]_<<open, box>>
=============================================================================
