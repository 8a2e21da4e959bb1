---------------------------- MODULE BlockProofs ----------------------------
(***************************************************************************)
(* Type correctness of BlockRequests, that no queue is left without a task *)
(* that works on it, and that no search goes round in circles, for any     *)
(* requests and any number of entries.                                     *)
(***************************************************************************)
EXTENDS BlockRequests, SequenceTheorems, TLAPS

\* The task in DEVICE_REQUEST has a request in hand.
InHand == pc \notin {"none", "repeat", "wild"} => queue # <<>>

\* The pointers of a search, and of a suspended interrupt, lead to older entries.
SearchGoesBack ==
  /\ prev # NoId => p < prev
  /\ pc = "unlink" => after < p /\ after < next_req_id
  /\ pc \in {"none", "repeat", "send", "receive"} => prev = NoId

ScanGoesBack ==
  scan # NoScan =>
    /\ scan.next < scan.p /\ scan.next < next_req_id
    /\ scan.prev # NoId => scan.p < scan.prev

ListGoesBack ==
  SearchesEnd /\ head < next_req_id /\ \A id \in Ids : next[id] < next_req_id

Pointers == SearchGoesBack /\ ScanGoesBack /\ ListGoesBack

Inv == TypeOK /\ InHand /\ QueueIsServed /\ Pointers

\* The bounds are numbers, and NoId names no entry.
LEMMA Bounds ==
  /\ MAX_ERRORS = 3 /\ NoId = 0 /\ LastId \in Nat
  /\ Ids \subseteq Nat /\ NoId \notin Ids /\ Entry \subseteq Nat /\ NoId \in Entry
  /\ \A id \in Entry : id # NoId => id \in Ids
  /\ Linked \subseteq Ids
  /\ NoReply \in Replies
BY BlockAssumption DEF MAX_ERRORS, NoId, Ids, Entry, Linked, Replies

\* InsertAt behind the first element keeps a queue a queue, and not empty.
LEMMA InsertAtType ==
  ASSUME NEW S, NEW s \in Seq(S), NEW e \in S, NEW i \in 2 .. Len(s) + 1
  PROVE  InsertAt(s, i, e) \in Seq(S) /\ InsertAt(s, i, e) # <<>>
<1> DEFINE front == SubSeq(s, 1, i - 1)
           rear == SubSeq(s, i, Len(s))
<1>1. /\ Len(s) \in Nat /\ i \in Int
      /\ \A j \in 1 .. Len(s) : s[j] \in S
  OBVIOUS
<1>2. front \in Seq(S) /\ Len(front) = i - 1
  <2>1. \A j \in 1 .. i - 1 : s[j] \in S
    BY <1>1
  <2> QED BY <1>1, <2>1, SubSeqProperties
<1>3. rear \in Seq(S)
  <2>1. \A j \in i .. Len(s) : s[j] \in S
    BY <1>1
  <2> QED BY <1>1, <2>1, SubSeqProperties
<1>4. InsertAt(s, i, e) = (front \o <<e>>) \o rear
  BY DEF InsertAt
<1>5. front \o <<e>> \in Seq(S) /\ Len(front \o <<e>>) = i
  <2>1. <<e>> \in Seq(S) /\ Len(<<e>>) = 1
    OBVIOUS
  <2> HIDE DEF front
  <2> QED BY <1>1, <1>2, <2>1, ConcatProperties
<1> HIDE DEF front, rear
<1>6. /\ InsertAt(s, i, e) \in Seq(S)
      /\ Len(InsertAt(s, i, e)) = i + Len(rear)
  BY <1>3, <1>4, <1>5, ConcatProperties
<1>7. Len(rear) \in Nat
  BY <1>3
<1> QED BY <1>1, <1>6, <1>7

LEMMA Ordered ==
  ASSUME NEW i \in Entry, NEW j \in Entry, NEW k \in Entry, NEW n \in 1 .. LastId + 1
  PROVE  /\ i < j /\ j < k => i < k
         /\ i < n => i < n + 1
         /\ NoId < n /\ NoId <= i
         /\ i # NoId => NoId < i
<1>1. i \in Nat /\ j \in Nat /\ k \in Nat /\ n \in Nat /\ n >= 1 /\ NoId = 0
  BY Bounds
<1> QED BY <1>1

\* The entry before one in the list is one, and newer.
LEMMA BeforeIsNewer ==
  ASSUME SearchesEnd, NEW id \in Ids
  PROVE  Before(id) \in Entry /\ (Before(id) # NoId => next[Before(id)] = id /\ id < Before(id))
<1>1. CASE \E i \in Linked : next[i] = id
  <2>1. Before(id) \in Linked /\ next[Before(id)] = id
    BY <1>1 DEF Before
  <2> QED BY <2>1, Bounds DEF Entry, SearchesEnd
<1>2. CASE ~ \E i \in Linked : next[i] = id
  BY <1>2, Bounds DEF Before
<1> QED BY <1>1, <1>2

\* A link to an older entry keeps the list going back.
LEMMA LinkGoesBack ==
  ASSUME TypeOK, ListGoesBack, NEW b \in Entry, NEW to \in Entry, b # NoId => to < b,
         to < next_req_id, next_req_id' = next_req_id, Link(b, to)
  PROVE  head' \in Entry /\ next' \in [Ids -> Entry] /\ ListGoesBack'
<1>1. CASE b = NoId
  BY <1>1 DEF Link, TypeOK, SearchesEnd, ListGoesBack
<1>2. CASE b # NoId
  <2>1. b \in Ids /\ next' = [next EXCEPT ![b] = to] /\ head' = head
    BY <1>2, Bounds DEF Link
  <2>2. next' \in [Ids -> Entry] /\ head' \in Entry
    BY <2>1 DEF TypeOK
  <2>3. \A id \in Ids : next'[id] = IF id = b THEN to ELSE next[id]
    BY <2>1 DEF TypeOK
  <2> QED BY <1>2, <2>1, <2>2, <2>3 DEF SearchesEnd, ListGoesBack
<1> QED BY <1>1, <1>2

\* The end of a failed or a successful attempt: what it touches.
LEMMA EndType ==
  ASSUME TypeOK, queue # <<>>, Failed \/ Succeeded \/ (EndRequest /\ Repeat("repeat"))
  PROVE  /\ queue' \in Seq(Requests) /\ errors' \in [Requests -> 0 .. MAX_ERRORS - 1]
         /\ pc' = "repeat" /\ req_id' = NoId /\ reply' = NoReply
         /\ p' = NoId /\ prev' = NoId /\ after' = NoId
<1>1. queue \in Seq(Requests) /\ errors \in [Requests -> 0 .. MAX_ERRORS - 1]
  BY DEF TypeOK
<1>2. Tail(queue) \in Seq(Requests) /\ Head(queue) \in Requests
  BY <1>1
<1>3. CASE EndRequest /\ Repeat("repeat")
  BY <1>1, <1>2, <1>3 DEF EndRequest, Repeat
<1>4. CASE Succeeded
  BY <1>1, <1>2, <1>4 DEF Succeeded, EndRequest, Repeat
<1>5. CASE Failed
  <2>1. errors[CURRENT] \in 0 .. MAX_ERRORS - 1
    BY <1>1, <1>2 DEF CURRENT
  <2>2. Repeat("repeat")
    BY <1>5 DEF Failed
  <2>3. CASE errors[CURRENT] + 1 >= MAX_ERRORS
    BY <1>1, <1>2, <1>5, <2>2, <2>3 DEF Failed, EndRequest, Repeat
  <2>4. CASE ~(errors[CURRENT] + 1 >= MAX_ERRORS)
    <3>1. errors' = [errors EXCEPT ![CURRENT] = @ + 1] /\ queue' = queue
      BY <1>5, <2>4 DEF Failed
    <3>2. errors[CURRENT] + 1 \in 0 .. MAX_ERRORS - 1
      BY <2>1, <2>4, Bounds
    <3> QED BY <1>1, <2>2, <3>1, <3>2 DEF Repeat
  <2> QED BY <2>3, <2>4
<1> QED BY <1>3, <1>4, <1>5

\* An attempt ends, and leaves the list as it should be.
LEMMA EndInv ==
  ASSUME Inv, queue # <<>>, Failed \/ Succeeded \/ (EndRequest /\ Repeat("repeat")),
         head' \in Entry, next' \in [Ids -> Entry], live' \subseteq Ids, ListGoesBack',
         UNCHANGED <<next_req_id, late, scan>>
  PROVE  Inv'
<1>1. TypeOK /\ ScanGoesBack
  BY DEF Inv, Pointers
<1>2. /\ queue' \in Seq(Requests) /\ errors' \in [Requests -> 0 .. MAX_ERRORS - 1]
      /\ pc' = "repeat" /\ req_id' = NoId /\ reply' = NoReply
      /\ p' = NoId /\ prev' = NoId /\ after' = NoId
  BY <1>1, EndType
<1>3. TypeOK'
  BY <1>1, <1>2, Bounds DEF TypeOK
<1>4. InHand' /\ QueueIsServed' /\ SearchGoesBack' /\ ScanGoesBack'
  BY <1>1, <1>2 DEF InHand, QueueIsServed, SearchGoesBack, ScanGoesBack
<1> QED BY <1>3, <1>4 DEF Inv, Pointers

-----------------------------------------------------------------------------

LEMMA InitInv == Init => Inv
<1> SUFFICES ASSUME Init PROVE Inv
  OBVIOUS
<1> USE Bounds
<1>1. TypeOK
  <2>1. queue \in Seq(Requests) /\ errors \in [Requests -> 0 .. MAX_ERRORS - 1]
    BY DEF Init
  <2>2. /\ next_req_id \in 1 .. LastId + 1 /\ head \in Entry /\ next \in [Ids -> Entry]
        /\ live \subseteq Ids /\ late \in Entry
    BY DEF Init
  <2>3. scan \in [p : Entry, prev : Entry, next : Entry]
    BY DEF Init, NoScan
  <2> QED BY <2>1, <2>2, <2>3 DEF TypeOK, Init
<1>2. InHand /\ QueueIsServed /\ SearchGoesBack /\ ScanGoesBack
  BY DEF Init, QueueIsServed, InHand, SearchGoesBack, ScanGoesBack
<1>3. ListGoesBack
  BY DEF Init, ListGoesBack, SearchesEnd, Ids
<1> QED BY <1>1, <1>2, <1>3 DEF Inv, Pointers

\* A request more in the queue; the first one starts DEVICE_REQUEST.
LEMMA AddRequestInv ==
  ASSUME Inv, NEW r \in Requests, AddRequest(r)
  PROVE  Inv'
<1> USE Bounds
<1>1. TypeOK /\ InHand /\ QueueIsServed /\ SearchGoesBack /\ ScanGoesBack /\ ListGoesBack
  BY DEF Inv, Pointers
<1>2. /\ errors' = [errors EXCEPT ![r] = 0]
      /\ pc' = IF pc = "none" THEN "repeat" ELSE pc
      /\ UNCHANGED <<list, late, locals, scan>>
  BY DEF AddRequest
<1>3. queue' \in Seq(Requests) /\ queue' # <<>>
  <2>1. queue \in Seq(Requests)
    BY <1>1 DEF TypeOK
  <2>2. CASE queue = <<>>
    <3>1. queue' = <<r>>
      BY <2>2 DEF AddRequest
    <3> QED BY <3>1
  <2>3. CASE queue # <<>>
    <3>1. PICK i \in 2 .. Len(queue) + 1 : queue' = InsertAt(queue, i, r)
      BY <2>3 DEF AddRequest
    <3> QED BY <2>1, <3>1, InsertAtType
  <2> QED BY <2>2, <2>3
<1>4. errors' \in [Requests -> 0 .. MAX_ERRORS - 1]
  BY <1>1, <1>2 DEF TypeOK
<1>5. TypeOK'
  BY <1>1, <1>2, <1>3, <1>4 DEF TypeOK, locals, list
<1>6. InHand' /\ QueueIsServed'
  BY <1>2, <1>3 DEF InHand, QueueIsServed
<1>7. SearchGoesBack' /\ ScanGoesBack' /\ ListGoesBack'
  BY <1>1, <1>2 DEF SearchGoesBack, ScanGoesBack, ListGoesBack, SearchesEnd, locals, list
<1> QED BY <1>5, <1>6, <1>7 DEF Inv, Pointers

\* At label repeat.
LEMMA RepeatInv ==
  ASSUME Inv, Return \/ NotCapable \/ NoMemory \/ AddPending
  PROVE  Inv'
<1> USE Bounds
<1>1. TypeOK /\ InHand /\ QueueIsServed /\ SearchGoesBack /\ ScanGoesBack /\ ListGoesBack
  BY DEF Inv, Pointers
<1>2. CASE Return
  <2>1. /\ queue = <<>> /\ pc' = "none"
        /\ req_id' = NoId /\ reply' = NoReply /\ p' = NoId /\ prev' = NoId /\ after' = NoId
        /\ UNCHANGED <<queue, errors, list, late, scan>>
    BY <1>2 DEF Return, Repeat
  <2>2. TypeOK'
    BY <1>1, <2>1 DEF TypeOK, list
  <2>3. InHand' /\ QueueIsServed' /\ SearchGoesBack' /\ ScanGoesBack' /\ ListGoesBack'
    BY <1>1, <2>1 DEF InHand, QueueIsServed, SearchGoesBack, ScanGoesBack, ListGoesBack,
           SearchesEnd, list
  <2> QED BY <2>2, <2>3 DEF Inv, Pointers
<1>3. CASE NotCapable \/ NoMemory
  <2>1. /\ queue # <<>>
        /\ Failed \/ (EndRequest /\ Repeat("repeat"))
        /\ UNCHANGED <<list, late, scan>>
    BY <1>3 DEF NotCapable, NoMemory
  <2>2. /\ head' \in Entry /\ next' \in [Ids -> Entry] /\ live' \subseteq Ids /\ ListGoesBack'
        /\ UNCHANGED <<next_req_id, late, scan>>
    BY <1>1, <2>1 DEF TypeOK, ListGoesBack, SearchesEnd, list
  <2> QED BY <2>1, <2>2, EndInv
<1>4. CASE AddPending
  <2> DEFINE id == next_req_id
  <2>1. /\ pc = "repeat" /\ queue # <<>> /\ id \in Ids
        /\ req_id' = id /\ next_req_id' = id + 1 /\ live' = live \cup {id}
        /\ head' = id /\ next' = [next EXCEPT ![id] = head] /\ pc' = "send"
        /\ UNCHANGED <<queue, errors, late, reply, p, prev, after, scan>>
    BY <1>4 DEF AddPending, LinkNew
  <2>2. head < id
    BY <1>1 DEF ListGoesBack
  <2>3. next_req_id' \in 1 .. LastId + 1 /\ live' \subseteq Ids
    BY <1>1, <2>1 DEF TypeOK, Ids
  <2>4. next' \in [Ids -> Entry] /\ head' \in Entry /\ req_id' \in Entry
    BY <1>1, <2>1 DEF TypeOK, Entry
  <2>5. TypeOK'
    BY <1>1, <2>1, <2>3, <2>4 DEF TypeOK
  <2>6. ListGoesBack'
    <3>1. \A i \in Ids : next'[i] = IF i = id THEN head ELSE next[i]
      BY <1>1, <2>1 DEF TypeOK
    <3>2. next \in [Ids -> Entry] /\ head \in Entry /\ id \in Entry /\ id \in 1 .. LastId + 1
      BY <1>1, <2>1 DEF TypeOK, Entry
    <3>3. \A i \in Ids : next'[i] < i
      BY <1>1, <2>2, <3>1 DEF SearchesEnd, ListGoesBack
    <3>4. \A i \in Ids : next[i] < id + 1
      BY <1>1, <3>2, Ordered DEF ListGoesBack
    <3>5. head < id + 1 /\ id < id + 1
      BY <2>2, <3>2, Ordered
    <3> QED BY <2>1, <3>1, <3>3, <3>4, <3>5 DEF SearchesEnd, ListGoesBack
  <2>7. InHand' /\ QueueIsServed' /\ SearchGoesBack'
    BY <1>1, <2>1 DEF InHand, QueueIsServed, SearchGoesBack
  <2>8. ScanGoesBack'
    <3>1. scan.next \in Entry /\ id \in 1 .. LastId + 1
      BY <1>1 DEF TypeOK
    <3>2. scan.next < id => scan.next < id + 1
      BY <3>1, Ordered
    <3> QED BY <1>1, <2>1, <3>2 DEF ScanGoesBack
  <2> QED BY <2>5, <2>6, <2>7, <2>8 DEF Inv, Pointers
<1> QED BY <1>2, <1>3, <1>4

\* An entry is sent, or given up before there is a reply.
LEMMA SendInv ==
  ASSUME Inv, Send \/ GiveUp
  PROVE  Inv'
<1> USE Bounds
<1>1. TypeOK /\ InHand /\ QueueIsServed /\ SearchGoesBack /\ ScanGoesBack /\ ListGoesBack
  BY DEF Inv, Pointers
<1>2. CASE Send
  <2>1. /\ pc = "send" /\ pc' = "receive"
        /\ UNCHANGED <<queue, errors, list, late, locals, scan>>
    BY <1>2 DEF Send
  <2>2. TypeOK'
    BY <1>1, <2>1 DEF TypeOK, list, locals
  <2>3. InHand' /\ QueueIsServed' /\ SearchGoesBack' /\ ScanGoesBack' /\ ListGoesBack'
    BY <1>1, <2>1 DEF InHand, QueueIsServed, SearchGoesBack, ScanGoesBack, ListGoesBack,
           SearchesEnd, list, locals
  <2> QED BY <2>2, <2>3 DEF Inv, Pointers
<1>3. CASE GiveUp
  <2>1. /\ pc \in {"send", "receive"} /\ Failed
        /\ UNCHANGED <<next_req_id, live, late, scan>>
    BY <1>3 DEF GiveUp
  <2>2. queue # <<>> /\ live' \subseteq Ids
    BY <1>1, <2>1 DEF InHand, TypeOK
  <2>3. head' \in Entry /\ next' \in [Ids -> Entry] /\ ListGoesBack'
    <3>1. CASE UNCHANGED <<head, next>>
      BY <1>1, <2>1, <3>1 DEF TypeOK, ListGoesBack, SearchesEnd
    <3>2. CASE req_id \in Linked /\ Link(Before(req_id), next[req_id])
      <4>1. req_id \in Ids
        BY <3>2
      <4>2. Before(req_id) \in Entry /\ (Before(req_id) # NoId => req_id < Before(req_id))
        BY <1>1, <4>1, BeforeIsNewer DEF ListGoesBack
      <4>3. /\ next[req_id] \in Entry /\ next[req_id] < req_id /\ next[req_id] < next_req_id
        BY <1>1, <4>1 DEF TypeOK, ListGoesBack, SearchesEnd
      <4>4. Before(req_id) # NoId => next[req_id] < Before(req_id)
        <5>1. req_id \in Entry /\ next_req_id \in 1 .. LastId + 1
          BY <1>1 DEF TypeOK
        <5> QED BY <4>2, <4>3, <5>1, Ordered
      <4> QED BY <1>1, <2>1, <3>2, <4>2, <4>3, <4>4, LinkGoesBack
    <3> QED BY <1>3, <3>1, <3>2 DEF GiveUp
  <2> QED BY <2>1, <2>2, <2>3, EndInv
<1> QED BY <1>2, <1>3

\* A message is received, and the entry it names is searched for.
LEMMA SearchInv ==
  ASSUME Inv, Receive \/ SearchOn \/ NotFound \/ Found
  PROVE  Inv'
<1> USE Bounds
<1>1. TypeOK /\ InHand /\ QueueIsServed /\ SearchGoesBack /\ ScanGoesBack /\ ListGoesBack
  BY DEF Inv, Pointers
<1>2. CASE Receive
  <2>1. /\ pc = "receive" /\ reply' \in Replies /\ p' = head /\ pc' = "search"
        /\ UNCHANGED <<queue, errors, list, late, req_id, prev, after, scan>>
    BY <1>2 DEF Receive
  <2>2. TypeOK'
    BY <1>1, <2>1 DEF TypeOK, list
  <2>3. InHand' /\ QueueIsServed' /\ SearchGoesBack' /\ ScanGoesBack' /\ ListGoesBack'
    BY <1>1, <2>1 DEF InHand, QueueIsServed, SearchGoesBack, ScanGoesBack, ListGoesBack,
           SearchesEnd, list
  <2> QED BY <2>2, <2>3 DEF Inv, Pointers
<1>3. CASE SearchOn
  <2>1. /\ pc = "search" /\ p \in live /\ prev' = p /\ p' = next[p]
        /\ UNCHANGED <<queue, errors, list, late, pc, req_id, reply, after, scan>>
    BY <1>3 DEF SearchOn
  <2>2. p \in Ids /\ p' \in Entry /\ prev' \in Entry /\ p' < prev'
    BY <1>1, <2>1 DEF TypeOK, ListGoesBack, SearchesEnd, Entry
  <2>3. TypeOK'
    BY <1>1, <2>1, <2>2 DEF TypeOK, list
  <2>4. InHand' /\ QueueIsServed' /\ SearchGoesBack' /\ ScanGoesBack' /\ ListGoesBack'
    BY <1>1, <2>1, <2>2 DEF InHand, QueueIsServed, SearchGoesBack, ScanGoesBack, ListGoesBack,
           SearchesEnd, list
  <2> QED BY <2>3, <2>4 DEF Inv, Pointers
<1>4. CASE NotFound
  <2>1. pc = "search" /\ Failed /\ UNCHANGED <<list, late, scan>>
    BY <1>4 DEF NotFound
  <2>2. /\ queue # <<>> /\ head' \in Entry /\ next' \in [Ids -> Entry] /\ live' \subseteq Ids
        /\ ListGoesBack' /\ UNCHANGED <<next_req_id, late, scan>>
    BY <1>1, <2>1 DEF InHand, TypeOK, ListGoesBack, SearchesEnd, list
  <2> QED BY <2>1, <2>2, EndInv
<1>5. CASE Found
  <2>1. /\ pc = "search" /\ p \in live /\ after' = next[p] /\ pc' = "unlink"
        /\ UNCHANGED <<queue, errors, list, late, req_id, reply, p, prev, scan>>
    BY <1>5 DEF Found
  <2>2. p \in Ids /\ after' \in Entry /\ after' < p /\ after' < next_req_id
    BY <1>1, <2>1 DEF TypeOK, ListGoesBack, SearchesEnd
  <2>3. TypeOK'
    BY <1>1, <2>1, <2>2 DEF TypeOK, list
  <2>4. InHand' /\ QueueIsServed' /\ SearchGoesBack' /\ ScanGoesBack' /\ ListGoesBack'
    BY <1>1, <2>1, <2>2 DEF InHand, QueueIsServed, SearchGoesBack, ScanGoesBack, ListGoesBack,
           SearchesEnd, list
  <2> QED BY <2>3, <2>4 DEF Inv, Pointers
<1> QED BY <1>2, <1>3, <1>4, <1>5

\* The entry found is unlinked, and freed.
LEMMA FoundInv ==
  ASSUME Inv, Unlink \/ Free
  PROVE  Inv'
<1> USE Bounds
<1>1. TypeOK /\ InHand /\ QueueIsServed /\ SearchGoesBack /\ ScanGoesBack /\ ListGoesBack
  BY DEF Inv, Pointers
<1>2. CASE Unlink
  <2>1. /\ pc = "unlink" /\ Link(prev, after) /\ pc' = "free"
        /\ UNCHANGED <<queue, errors, next_req_id, live, late, locals, scan>>
    BY <1>2 DEF Unlink
  <2>2. /\ prev \in Entry /\ after \in Entry /\ p \in Entry /\ after < next_req_id
        /\ after < p /\ (prev # NoId => p < prev)
    BY <1>1, <2>1 DEF TypeOK, SearchGoesBack
  <2>3. prev # NoId => after < prev
    <3>1. next_req_id \in 1 .. LastId + 1
      BY <1>1 DEF TypeOK
    <3> QED BY <2>2, <3>1, Ordered
  <2>4. head' \in Entry /\ next' \in [Ids -> Entry] /\ ListGoesBack'
    BY <1>1, <2>1, <2>2, <2>3, LinkGoesBack
  <2>5. TypeOK'
    BY <1>1, <2>1, <2>4 DEF TypeOK, locals
  <2>6. InHand' /\ QueueIsServed' /\ SearchGoesBack' /\ ScanGoesBack'
    BY <1>1, <2>1 DEF InHand, QueueIsServed, SearchGoesBack, ScanGoesBack, locals
  <2> QED BY <2>4, <2>5, <2>6 DEF Inv, Pointers
<1>3. CASE Free
  <2>1. /\ pc = "free" /\ live' = live \ {p}
        /\ Failed \/ Succeeded
        /\ UNCHANGED <<next_req_id, head, next, late, scan>>
    BY <1>3 DEF Free
  <2>2. /\ queue # <<>> /\ head' \in Entry /\ next' \in [Ids -> Entry] /\ live' \subseteq Ids
        /\ ListGoesBack'
    BY <1>1, <2>1 DEF InHand, TypeOK, ListGoesBack, SearchesEnd
  <2> QED BY <2>1, <2>2, EndInv
<1> QED BY <1>2, <1>3

\* What changes the list, and a suspended interrupt, only.
LEMMA ListInv ==
  ASSUME Inv, UNCHANGED <<queue, errors, next_req_id, late, pc, locals>>,
         head' \in Entry, next' \in [Ids -> Entry], live' \subseteq Ids, ListGoesBack',
         scan' \in [p : Entry, prev : Entry, next : Entry], ScanGoesBack'
  PROVE  Inv'
BY DEF Inv, Pointers, TypeOK, InHand, QueueIsServed, SearchGoesBack, locals

\* Time and interrupts.
LEMMA InterruptInv ==
  ASSUME Inv, Expire \/ Interrupt \/ InterruptWaits \/ InterruptGoesOn
  PROVE  Inv'
<1> USE Bounds
<1>1. TypeOK /\ InHand /\ QueueIsServed /\ SearchGoesBack /\ ScanGoesBack /\ ListGoesBack
  BY DEF Inv, Pointers
<1>2. CASE Expire
  <2>1. /\ late' = late + 1 /\ late + 1 < next_req_id
        /\ UNCHANGED <<queue, errors, list, pc, locals, scan>>
    BY <1>2 DEF Expire
  <2>2. late' \in Entry
    BY <1>1, <2>1 DEF TypeOK, Entry, Ids
  <2>3. TypeOK'
    BY <1>1, <2>1, <2>2 DEF TypeOK, list, locals
  <2>4. InHand' /\ QueueIsServed' /\ SearchGoesBack' /\ ScanGoesBack' /\ ListGoesBack'
    BY <1>1, <2>1 DEF InHand, QueueIsServed, SearchGoesBack, ScanGoesBack, ListGoesBack,
           SearchesEnd, list, locals
  <2> QED BY <2>3, <2>4 DEF Inv, Pointers
<1>3. CASE Interrupt
  <2>1. PICK id \in Ids : FirstLate(id) /\ Link(Before(id), NoId)
    BY <1>3 DEF Interrupt
  <2>2. /\ live' = live \ Late
        /\ UNCHANGED <<queue, errors, next_req_id, late, pc, locals, scan>>
    BY <1>3 DEF Interrupt
  <2>3. Before(id) \in Entry /\ (Before(id) # NoId => NoId < Before(id)) /\ NoId < next_req_id
    <3>1. Before(id) \in Entry
      BY <1>1, BeforeIsNewer DEF ListGoesBack
    <3>2. next_req_id \in 1 .. LastId + 1
      BY <1>1 DEF TypeOK
    <3> QED BY <3>1, <3>2, Ordered
  <2>4. head' \in Entry /\ next' \in [Ids -> Entry] /\ ListGoesBack'
    BY <1>1, <2>1, <2>2, <2>3, LinkGoesBack
  <2>5. live' \subseteq Ids /\ ScanGoesBack' /\ scan' \in [p : Entry, prev : Entry, next : Entry]
    BY <1>1, <2>2 DEF TypeOK, ScanGoesBack
  <2> QED BY <2>2, <2>4, <2>5, ListInv
<1>4. CASE InterruptWaits
  <2>1. PICK id \in Ids : scan' = [p |-> id, prev |-> Before(id), next |-> next[id]]
    BY <1>4 DEF InterruptWaits
  <2>2. UNCHANGED <<queue, errors, list, late, pc, locals>>
    BY <1>4 DEF InterruptWaits
  <2>3. Before(id) \in Entry /\ (Before(id) # NoId => id < Before(id))
    BY <1>1, BeforeIsNewer DEF ListGoesBack
  <2>4. next[id] \in Entry /\ next[id] < id /\ next[id] < next_req_id /\ id \in Entry
    BY <1>1 DEF TypeOK, ListGoesBack, SearchesEnd, Entry
  <2>5. scan' \in [p : Entry, prev : Entry, next : Entry] /\ ScanGoesBack'
    BY <2>1, <2>2, <2>3, <2>4 DEF ScanGoesBack, list
  <2>6. /\ head' \in Entry /\ next' \in [Ids -> Entry] /\ live' \subseteq Ids /\ ListGoesBack'
        /\ UNCHANGED next_req_id
    BY <1>1, <2>2 DEF TypeOK, ListGoesBack, SearchesEnd, list
  <2> QED BY <2>2, <2>5, <2>6, ListInv
<1>5. CASE InterruptGoesOn
  <2>1. /\ scan.p \in live /\ Link(scan.prev, scan.next) /\ live' = live \ {scan.p}
        /\ scan' = IF scan.next = NoId
                     THEN NoScan
                     ELSE [scan EXCEPT !.p = scan.next, !.next = next[scan.next]]
        /\ UNCHANGED <<queue, errors, next_req_id, late, pc, locals>>
    BY <1>5 DEF InterruptGoesOn
  <2>2. /\ scan \in [p : Entry, prev : Entry, next : Entry] /\ scan.p \in Ids
        /\ scan.prev \in Entry /\ scan.next \in Entry
    BY <1>1, <2>1 DEF TypeOK
  <2>3. scan # NoScan
    BY <2>2 DEF NoScan
  <2>4. /\ scan.next < scan.p /\ scan.next < next_req_id
        /\ scan.prev # NoId => scan.p < scan.prev
    BY <1>1, <2>3 DEF ScanGoesBack
  <2>5. scan.prev # NoId => scan.next < scan.prev
    <3>1. scan.p \in Entry /\ next_req_id \in 1 .. LastId + 1
      BY <1>1, <2>2 DEF TypeOK
    <3> QED BY <2>2, <2>4, <3>1, Ordered
  <2>6. head' \in Entry /\ next' \in [Ids -> Entry] /\ ListGoesBack'
    BY <1>1, <2>1, <2>2, <2>4, <2>5, LinkGoesBack
  <2>7. scan' \in [p : Entry, prev : Entry, next : Entry] /\ ScanGoesBack'
    <3>1. CASE scan.next = NoId
      <4>1. scan' = NoScan
        BY <2>1, <3>1
      <4> QED BY <4>1 DEF ScanGoesBack, NoScan
    <3>2. CASE scan.next # NoId
      <4>1. /\ next[scan.next] \in Entry /\ next[scan.next] < scan.next
            /\ next[scan.next] < next_req_id
        BY <1>1, <2>2, <3>2 DEF TypeOK, ListGoesBack, SearchesEnd
      <4>2. /\ scan' \in [p : Entry, prev : Entry, next : Entry]
            /\ scan'.p = scan.next /\ scan'.prev = scan.prev /\ scan'.next = next[scan.next]
        BY <2>1, <2>2, <3>2, <4>1
      <4> QED BY <2>1, <2>5, <4>1, <4>2 DEF ScanGoesBack
    <3> QED BY <3>1, <3>2
  <2>8. live' \subseteq Ids
    BY <1>1, <2>1 DEF TypeOK
  <2> QED BY <2>1, <2>6, <2>7, <2>8, ListInv
<1> QED BY <1>2, <1>3, <1>4, <1>5

LEMMA TouchFreedInv ==
  ASSUME Inv, TouchFreed
  PROVE  Inv'
<1>1. pc' = "wild" /\ UNCHANGED <<queue, errors, list, late, locals, scan>>
  BY DEF TouchFreed
<1>2. TypeOK' /\ InHand' /\ QueueIsServed'
  BY <1>1 DEF Inv, TypeOK, InHand, QueueIsServed, list, locals
<1>3. SearchGoesBack' /\ ScanGoesBack' /\ ListGoesBack'
  BY <1>1 DEF Inv, Pointers, SearchGoesBack, ScanGoesBack, ListGoesBack, SearchesEnd, list, locals
<1> QED BY <1>2, <1>3 DEF Inv, Pointers

LEMMA NextInv == Inv /\ [Next]_vars => Inv'
<1> SUFFICES ASSUME Inv, [Next]_vars PROVE Inv'
  OBVIOUS
<1>1. CASE \E r \in Requests : AddRequest(r)
  BY <1>1, AddRequestInv
<1>2. CASE Return \/ NotCapable \/ NoMemory \/ AddPending
  BY <1>2, RepeatInv
<1>3. CASE Send \/ GiveUp
  BY <1>3, SendInv
<1>4. CASE Receive \/ SearchOn \/ NotFound \/ Found
  BY <1>4, SearchInv
<1>5. CASE Unlink \/ Free
  BY <1>5, FoundInv
<1>6. CASE Expire \/ Interrupt \/ InterruptWaits \/ InterruptGoesOn
  BY <1>6, InterruptInv
<1>7. CASE TouchFreed
  BY <1>7, TouchFreedInv
<1>8. CASE UNCHANGED vars
  <2>1. TypeOK' /\ InHand' /\ QueueIsServed'
    BY <1>8 DEF vars, list, locals, Inv, TypeOK, InHand, QueueIsServed
  <2>2. SearchGoesBack' /\ ScanGoesBack' /\ ListGoesBack'
    BY <1>8 DEF vars, list, locals, Inv, Pointers, SearchGoesBack, ScanGoesBack, ListGoesBack,
                SearchesEnd
  <2> QED BY <2>1, <2>2 DEF Inv, Pointers
<1> QED BY <1>1, <1>2, <1>3, <1>4, <1>5, <1>6, <1>7, <1>8 DEF Next

LEMMA InvAlways == Spec => []Inv
BY InitInv, NextInv, PTL DEF Spec

\* Every variable keeps its type.
THEOREM TypeCorrect == Spec => []TypeOK
<1>1. Inv => TypeOK
  BY DEF Inv
<1> QED BY <1>1, InvAlways, PTL

\* DEVICE_REQUEST never returns while a request is queued, although it gives the
\* processor away in every attempt and requests are added at any time.
THEOREM Served == Spec => []QueueIsServed
<1>1. Inv => QueueIsServed
  BY DEF Inv
<1> QED BY <1>1, InvAlways, PTL

\* Until freed memory is used, every ->next of pending_requests leads to an older entry:
\* pointers that a search or a suspended interrupt has read remain good for that.
THEOREM NoCircles == Spec => []SearchesEnd
<1>1. Inv => SearchesEnd
  BY DEF Inv, Pointers, ListGoesBack
<1> QED BY <1>1, InvAlways, PTL

=============================================================================
