--------------------------- MODULE BlockRequests ---------------------------
(***************************************************************************)
(* kernel/blk_drv/blk.h: how one block driver passes its requests on to    *)
(* the device server.  The task that adds a request to an empty queue      *)
(* runs DEVICE_REQUEST until the queue is empty; for each attempt it links *)
(* an entry into pending_requests, sends a message and receives a message  *)
(* from kernel_port, which may be any task's and name any entry.           *)
(*                                                                         *)
(* The disk interrupt frees the entries whose 30 seconds are over.  It may *)
(* come between any two instructions of the task's search, and where it    *)
(* wakes a task up, by a message, it may itself give way to the search.    *)
(* An entry is named by its req_id.  Behaviours end where memory is used   *)
(* after it was freed.                                                     *)
(***************************************************************************)
EXTENDS Integers, Sequences, SequencesExt, FiniteSets

CONSTANTS
  Requests,  \* the slots of request[]
  LastId     \* the last req_id: a bound

MAX_ERRORS == 3
NoId == 0
Ids == 1 .. LastId
Entry == Ids \cup {NoId}

ASSUME BlockAssumption == LastId \in Nat

-----------------------------------------------------------------------------

VARIABLES
  queue,        \* CURRENT and the requests that ->next leads to from it
  errors,       \* ->errors of each request
  next_req_id,
  head,         \* pending_requests
  next,         \* ->next of each entry
  live,         \* the entries that are allocated
  late,         \* the entries up to this one have timeout < jiffies
  pc,           \* of DEVICE_REQUEST: "none" when nobody runs it, "repeat", "send",
                \* "receive", "search", "unlink" when the entry has been found and
                \* its ->next read, "free" when it is unlinked, or "wild"
  req_id,       \* the locals of blk_request: the entry of this attempt,
  reply,        \* the message received: its req_id, and whether its result is 0,
  p, prev,      \* the entry that the search has come to and the one before it,
  after,        \* and the ->next of the entry found
  scan          \* check_request_timeouts, in wake_up for the entry p

list == <<next_req_id, head, next, live>>
locals == <<req_id, reply, p, prev, after>>
vars == <<queue, errors, list, late, pc, locals, scan>>

NoReply == [id |-> NoId, ok |-> FALSE]
Replies == [id : Ids, ok : BOOLEAN] \cup {NoReply}
NoScan == [p |-> NoId, prev |-> NoId, next |-> NoId]

Init ==  \* blk_dev_init
  /\ queue = <<>>
  /\ errors = [r \in Requests |-> 0]
  /\ next_req_id = 1 /\ head = NoId /\ next = [id \in Ids |-> NoId] /\ live = {}
  /\ late = NoId
  /\ pc = "none"
  /\ req_id = NoId /\ reply = NoReply /\ p = NoId /\ prev = NoId /\ after = NoId
  /\ scan = NoScan

CURRENT == Head(queue)

-----------------------------------------------------------------------------
(* The end of an attempt.  Each of these runs at label repeat: or goes     *)
(* back to it; the locals are given up.                                    *)

Repeat_returns(to) ==
  /\ pc' = "none"
  /\ req_id' = NoId /\ reply' = NoReply /\ p' = NoId /\ prev' = NoId /\ after' = NoId
Repeat(to) ==
  /\ pc' = to
  /\ req_id' = NoId /\ reply' = NoReply /\ p' = NoId /\ prev' = NoId /\ after' = NoId

\* end_request: the buffer is unlocked, the sleepers are woken, the slot is free.
EndRequest == queue' = Tail(queue) /\ UNCHANGED errors

\* result < 0: the third error ends the request.
Failed_offByOne ==
  /\ IF errors[CURRENT] + 1 > MAX_ERRORS
       THEN EndRequest
       ELSE /\ errors' = [errors EXCEPT ![CURRENT] = @ + 1]
            /\ UNCHANGED queue
  /\ Repeat("repeat")
Failed ==
  /\ IF errors[CURRENT] + 1 >= MAX_ERRORS
       THEN EndRequest
       ELSE /\ errors' = [errors EXCEPT ![CURRENT] = @ + 1]
            /\ UNCHANGED queue
  /\ Repeat("repeat")

Succeeded == EndRequest /\ Repeat("repeat")

-----------------------------------------------------------------------------
(* The list of pending requests. *)

\* The entries that ->next leads to from pending_requests, which are ever older.
Linked ==
  LET leads[id \in Ids] == id = head \/ \E i \in id + 1 .. LastId : next[i] = id /\ leads[i]
  IN {id \in Ids : leads[id]}

\* prev->next = to, or pending_requests = to.
Link(before, to) ==
  IF before = NoId
    THEN head' = to /\ UNCHANGED next
    ELSE next' = [next EXCEPT ![before] = to] /\ UNCHANGED head

\* add_pending_request's part under cli().
LinkNew_swapped(id) ==
  /\ head' = id
  /\ next' = [next EXCEPT ![id] = id]
LinkNew(id) ==
  /\ head' = id
  /\ next' = [next EXCEPT ![id] = head]

\* The entry before one in the list, or NoId.
Before(id) ==
  IF \E i \in Linked : next[i] = id THEN CHOOSE i \in Linked : next[i] = id ELSE NoId

-----------------------------------------------------------------------------
(* ll_rw_block's add_request, which is not in the repository: a request    *)
(* goes somewhere behind CURRENT; the first one starts DEVICE_REQUEST.     *)
AddRequest(r) ==
  /\ pc # "wild"
  /\ r \notin Range(queue)
  /\ errors' = [errors EXCEPT ![r] = 0]
  /\ IF queue = <<>>
       THEN queue' = <<r>>
       ELSE \E i \in 2 .. Len(queue) + 1 : queue' = InsertAt(queue, i, r)
  /\ pc' = IF pc = "none" THEN "repeat" ELSE pc
  /\ UNCHANGED <<list, late, locals, scan>>

\* DEVICE_REQUEST at repeat: nothing left to do; ...
Return ==
  /\ pc = "repeat" /\ queue = <<>>
  /\ Repeat("none")
  /\ UNCHANGED <<queue, errors, list, late, scan>>

\* ... the task may not read, or not write; ...
NotCapable ==
  /\ pc = "repeat" /\ queue # <<>>
  /\ EndRequest /\ Repeat("repeat")
  /\ UNCHANGED <<list, late, scan>>

\* ... there is no memory for an entry; ...
NoMemory ==
  /\ pc = "repeat" /\ queue # <<>>
  /\ Failed
  /\ UNCHANGED <<list, late, scan>>

\* ... or add_pending_request links one, and blk_request fills a message ...
AddPending ==
  /\ pc = "repeat" /\ queue # <<>>
  /\ next_req_id \in Ids
  /\ req_id' = next_req_id /\ next_req_id' = next_req_id + 1
  /\ live' = live \cup {next_req_id}
  /\ LinkNew(next_req_id)
  /\ pc' = "send"
  /\ UNCHANGED <<queue, errors, late, reply, p, prev, after, scan>>

\* ... and sends it, when the device server's queue has room.
Send ==
  /\ pc = "send"
  /\ pc' = "receive"
  /\ UNCHANGED <<queue, errors, list, late, locals, scan>>

\* The send or the receive fails: the entry is unlinked under cli(), if it is still
\* there, and not freed.
GiveUp ==
  /\ pc \in {"send", "receive"}
  /\ {id \in Linked : id >= req_id} \subseteq live
  /\ \/ req_id \in Linked /\ Link(Before(req_id), next[req_id])
     \/ req_id \notin Linked /\ UNCHANGED <<head, next>>
  /\ Failed
  /\ UNCHANGED <<next_req_id, live, late, scan>>

\* mk_msg_receive takes the next message of kernel_port, the answer to this attempt
\* or another, another driver's reply or none at all, and the search begins.
Receive ==
  /\ pc = "receive"
  /\ reply' \in Replies
  /\ p' = head
  /\ pc' = "search"
  /\ UNCHANGED <<queue, errors, list, late, req_id, prev, after, scan>>

\* find_pending_request, an entry further, ...
SearchOn ==
  /\ pc = "search"
  /\ p \in live \ {reply.id}
  /\ prev' = p /\ p' = next[p]
  /\ UNCHANGED <<queue, errors, list, late, pc, req_id, reply, after, scan>>

\* ... at the end of the list, which is an error of this attempt, ...
NotFound ==
  /\ pc = "search"
  /\ p = NoId
  /\ Failed
  /\ UNCHANGED <<list, late, scan>>

\* ... or at the entry, whichever attempt it belongs to, ...
Found ==
  /\ pc = "search"
  /\ p \in live /\ p = reply.id
  /\ after' = next[p]
  /\ pc' = "unlink"
  /\ UNCHANGED <<queue, errors, list, late, req_id, reply, p, prev, scan>>

\* ... which is unlinked, ...
Unlink ==
  /\ pc = "unlink"
  /\ prev \in live \cup {NoId}
  /\ Link(prev, after)
  /\ pc' = "free"
  /\ UNCHANGED <<queue, errors, next_req_id, live, late, locals, scan>>

\* ... and, after a wake_up, freed.
Free ==
  /\ pc = "free"
  /\ p \in live
  /\ live' = live \ {p}
  /\ IF reply.ok THEN Succeeded ELSE Failed
  /\ UNCHANGED <<next_req_id, head, next, late, scan>>

-----------------------------------------------------------------------------
(* DEVICE_INTR: after its message to the device server has gone out or     *)
(* failed, check_request_timeouts.                                         *)

\* jiffies passes the timeout of an entry, later than those of older ones.
Expire ==
  /\ pc # "wild"
  /\ late + 1 < next_req_id
  /\ late' = late + 1
  /\ UNCHANGED <<queue, errors, list, pc, locals, scan>>

Late == {id \in Linked : id <= late}
FirstLate(id) == id \in Late /\ \A i \in Late : i <= id

\* No wake_up has to wait.
Interrupt ==
  /\ pc # "wild"
  /\ Linked \subseteq live
  /\ \E id \in Ids : FirstLate(id) /\ Link(Before(id), NoId)
  /\ live' = live \ Late
  /\ UNCHANGED <<queue, errors, next_req_id, late, pc, locals, scan>>

\* The wake_up for the first late entry waits (one interrupt's at a time: a bound), ...
InterruptWaits ==
  /\ pc # "wild"
  /\ Linked \subseteq live
  /\ scan = NoScan
  /\ \E id \in Ids :
       FirstLate(id) /\ scan' = [p |-> id, prev |-> Before(id), next |-> next[id]]
  /\ UNCHANGED <<queue, errors, list, late, pc, locals>>

\* ... after which the entry is unlinked and freed, and it is the next one's turn.
InterruptGoesOn ==
  /\ pc # "wild"
  /\ scan.p \in live
  /\ scan.prev \in live \cup {NoId} /\ scan.next \in live \cup {NoId}
  /\ Link(scan.prev, scan.next)
  /\ live' = live \ {scan.p}
  /\ scan' = IF scan.next = NoId
               THEN NoScan
               ELSE [scan EXCEPT !.p = scan.next, !.next = next[scan.next]]
  /\ UNCHANGED <<queue, errors, next_req_id, late, pc, locals>>

\* The entries that the task, or an interrupt, goes on to read, write or free.
Touched ==
  Linked \cup {scan.p, scan.prev, scan.next}
    \cup (CASE pc \in {"search", "free"} -> {p}
            [] pc = "unlink" -> {prev}
            [] OTHER -> {})

TouchFreed ==
  /\ pc # "wild"
  /\ ~(Touched \subseteq live \cup {NoId})
  /\ pc' = "wild"
  /\ UNCHANGED <<queue, errors, list, late, locals, scan>>

Next ==
  \/ \E r \in Requests : AddRequest(r)
  \/ Return \/ NotCapable \/ NoMemory \/ AddPending
  \/ Send \/ GiveUp
  \/ Receive \/ SearchOn \/ NotFound \/ Found
  \/ Unlink \/ Free
  \/ Expire \/ Interrupt \/ InterruptWaits \/ InterruptGoesOn
  \/ TouchFreed

Spec == Init /\ [][Next]_vars

-----------------------------------------------------------------------------
(* Properties. *)

\* The types of the variables; no request has as many errors as end it.
TypeOK ==
  /\ queue \in Seq(Requests)
  /\ errors \in [Requests -> 0 .. MAX_ERRORS - 1]
  /\ next_req_id \in 1 .. LastId + 1
  /\ head \in Entry /\ next \in [Ids -> Entry] /\ live \subseteq Ids
  /\ late \in Entry
  /\ pc \in {"none", "repeat", "send", "receive", "search", "unlink", "free", "wild"}
  /\ req_id \in Entry /\ p \in Entry /\ prev \in Entry /\ after \in Entry
  /\ reply \in Replies
  /\ scan \in [p : Entry, prev : Entry, next : Entry]

\* blk.h:423: a request is never left in a queue that nobody works on, although
\* later requests only queue up behind it.
QueueIsServed == queue # <<>> => pc # "none"

\* No search through pending_requests goes round in circles (blk.h:242, 264): every
\* ->next leads to an older entry or to NULL, whatever entries are unlinked with
\* pointers that were read before an interrupt, or before a wake_up in one.
SearchesEnd == \A id \in Ids : next[id] < id

=============================================================================
