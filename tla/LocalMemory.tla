---------------------------- MODULE LocalMemory ----------------------------
(***************************************************************************)
(* The kernel's own memory management: what mm/memory.c does when the      *)
(* requests to the memory server fail, as they do for a kernel without     *)
(* CAP_MEM_PAGE.  mem_map counts the users of each page; fork shares the   *)
(* pages of a task and makes them read-only; exit gives them back.         *)
(*                                                                         *)
(* A task in slot s has the address space that starts at s * 64 MB.  Its   *)
(* addresses are pairs <<directory entry, page table entry>>.  Slot 0 is   *)
(* the kernel's first task, whose pages lie below LOW_MEM.                 *)
(*                                                                         *)
(* A task runs until it sends a request or a message, or reads a file.     *)
(* Requests to the process server fail, but for that of do_exit in oom():  *)
(* a fork that the server answers copies no memory here.                   *)
(*                                                                         *)
(* A fork that takes a slot another fork has taken in the meantime ends    *)
(* the behaviour: what the two make of one slot is not followed.           *)
(***************************************************************************)
EXTENDS Integers, FiniteSets, FiniteSetsExt

CONSTANTS
  Slots,     \* of task[], 0 .. NR_TASKS - 1
  Addresses, \* of an address space
  LowPages,  \* the pages below LOW_MEM in use, and the pages that mem_map counts:
  Pages      \* page numbers, the former below the latter

NoPage == 0

ASSUME MemoryAssumption ==
  /\ Slots \subseteq Nat /\ 0 \in Slots /\ IsFiniteSet(Slots)
  /\ Addresses \subseteq Nat \X Nat /\ IsFiniteSet(Addresses)
  /\ LowPages \cup Pages \subseteq Nat \ {NoPage} /\ IsFiniteSet(Pages)
  /\ LowPages # {} /\ \A l \in LowPages, p \in Pages : l < p

Dirs == {a[1] : a \in Addresses}

-----------------------------------------------------------------------------

VARIABLES
  mem_map,   \* the number of users of each page
  dir,       \* the page tables of each slot's address space
  page,      \* the page at each address, or NoPage
  writable,  \* the pairs of a slot and an address whose page may be written
  task,      \* the page of each slot's task structure
  zombie,    \* the slots whose task has exited
  at,        \* where each task is:
             \*   "idle"  in user mode
             \*   "find"  in find_empty_process, with a slot in mind
             \*   "fork"  in copy_process, on its way to copy_page_tables
             \*   "undo"  in copy_mem, after copy_page_tables has failed
             \*   "read"  in do_no_page, in bread_page
             \*   "oom"   in oom(), with nothing to do after it
             \*   "page0" in oom(), and on to use the page it did not get
  child,     \* the slot it forks into
  hand,      \* the page it reads into
  address,   \* and where that page is to go
  wild,      \* page 0, the page directory, has been overwritten
  collided   \* a fork has taken a slot that was not empty any more

vars == <<mem_map, dir, page, writable, task, zombie, at, child, hand, address,
          wild, collided>>

Low == Min(LowPages)

Init ==
  /\ mem_map = [p \in Pages |-> 0]
  /\ dir = [s \in Slots |-> [d \in Dirs |-> IF s = 0 /\ d = 0 THEN Low ELSE NoPage]]
  /\ page = [s \in Slots |->
               [a \in Addresses |-> IF s = 0 /\ a[1] = 0 THEN Low ELSE NoPage]]
  /\ writable = {<<0, a>> : a \in {b \in Addresses : b[1] = 0}}
  /\ task = [s \in Slots |-> IF s = 0 THEN Low ELSE NoPage]
  /\ zombie = {}
  /\ at = [s \in Slots |-> "idle"]
  /\ child = [s \in Slots |-> 0]
  /\ hand = [s \in Slots |-> NoPage]
  /\ address = [s \in Slots |-> <<>>]
  /\ wild = FALSE
  /\ collided = FALSE

Forking(s) == at[s] \in {"fork", "undo"}

\* Neither a zombie nor a task that is not complete is resumed.
Running(s) ==
  /\ task[s] # NoPage /\ s \notin zombie
  /\ \A t \in Slots : Forking(t) => child[t] # s
  /\ ~wild /\ ~collided

At(s, where) == Running(s) /\ at[s] = where

GoTo(s, where) == at' = [at EXCEPT ![s] = where]

-----------------------------------------------------------------------------
(* Pages. *)

Free(map) == {p \in Pages : map[p] = 0}

\* get_free_page searches from the end of mem_map.
FreePage(map) == IF Free(map) = {} THEN NoPage ELSE Max(Free(map))

Taken(map, p) == [map EXCEPT ![p] = 1]

\* free_page ignores pages below LOW_MEM, and a count of 0.
Freed(map, p) ==
  IF p \in Pages /\ map[p] > 0 THEN [map EXCEPT ![p] = @ - 1] ELSE map

\* put_page takes a page for the page table if there is none; NoPage: it failed.
NeedsTable(s, a) == dir[s][a[1]] = NoPage

PutFails(s, a, map) == NeedsTable(s, a) /\ Free(map) = {}

PutPage(s, a, p, map) ==
  /\ IF NeedsTable(s, a)
       THEN /\ mem_map' = Taken(map, FreePage(map))
            /\ dir' = [dir EXCEPT ![s][a[1]] = FreePage(map)]
       ELSE mem_map' = map /\ UNCHANGED dir
  /\ page' = [page EXCEPT ![s][a] = p]
  /\ writable' = writable \cup {<<s, a>>}

-----------------------------------------------------------------------------
(* Page tables. *)

AddressesOf(s, p) == {a \in Addresses : page[s][a] = p}
TablesAt(s, p) == {d \in Dirs : dir[s][d] = p}

\* free_page_tables: each page it maps and each page table is freed.
FreePageTables_keepsPages(s, map) ==
  /\ mem_map' = [p \in Pages |-> Max({0, map[p] - Cardinality(TablesAt(s, p))})]
  /\ dir' = [dir EXCEPT ![s] = [d \in Dirs |-> NoPage]]
  /\ page' = [page EXCEPT ![s] = [a \in Addresses |-> NoPage]]
  /\ writable' = {w \in writable : w[1] # s}
FreePageTables(s, map) ==
  /\ mem_map' = [p \in Pages |->
       Max({0, map[p] - Cardinality(AddressesOf(s, p)) - Cardinality(TablesAt(s, p))})]
  /\ dir' = [dir EXCEPT ![s] = [d \in Dirs |-> NoPage]]
  /\ page' = [page EXCEPT ![s] = [a \in Addresses |-> NoPage]]
  /\ writable' = {w \in writable : w[1] # s}

\* copy_page_tables takes a page for each page table in turn, until there is none.
Present(s) == {d \in Dirs : dir[s][d] # NoPage}
Before(d, S) == Cardinality({e \in S : e < d})
After(p, S) == Cardinality({q \in S : q > p})

Copied(s) == {d \in Present(s) : Before(d, Present(s)) < Cardinality(Free(mem_map))}

TableFor(s, d) ==
  CHOOSE p \in Free(mem_map) : After(p, Free(mem_map)) = Before(d, Present(s))

\* Both address spaces get the pages read-only, except those below LOW_MEM, which
\* are not counted and stay as they are in the old one.
CopyPageTables_writable(s, u) ==
  LET tables == {TableFor(s, d) : d \in Copied(s)}
      shared == {a \in Addresses : a[1] \in Copied(s) /\ page[s][a] # NoPage}
  IN /\ mem_map' = [p \in Pages |->
          IF p \in tables THEN 1 ELSE mem_map[p] + Cardinality(AddressesOf(s, p) \cap shared)]
     /\ dir' = [dir EXCEPT ![u] =
          [d \in Dirs |-> IF d \in Copied(s) THEN TableFor(s, d) ELSE NoPage]]
     /\ page' = [page EXCEPT ![u] =
          [a \in Addresses |-> IF a \in shared THEN page[s][a] ELSE NoPage]]
     /\ UNCHANGED writable
CopyPageTables(s, u) ==
  LET tables == {TableFor(s, d) : d \in Copied(s)}
      shared == {a \in Addresses : a[1] \in Copied(s) /\ page[s][a] # NoPage}
  IN /\ mem_map' = [p \in Pages |->
          IF p \in tables THEN 1 ELSE mem_map[p] + Cardinality(AddressesOf(s, p) \cap shared)]
     /\ dir' = [dir EXCEPT ![u] =
          [d \in Dirs |-> IF d \in Copied(s) THEN TableFor(s, d) ELSE NoPage]]
     /\ page' = [page EXCEPT ![u] =
          [a \in Addresses |-> IF a \in shared THEN page[s][a] ELSE NoPage]]
     /\ writable' = writable \ {<<s, a>> : a \in {b \in shared : page[s][b] \in Pages}}

-----------------------------------------------------------------------------
(* fork. *)

EmptySlots == {u \in Slots : task[u] = NoPage}

\* find_empty_process: the first empty slot is chosen, and then a request is sent.
FindEmpty(s) ==
  /\ At(s, "idle")
  /\ EmptySlots # {}
  /\ child' = [child EXCEPT ![s] = Min(EmptySlots)]
  /\ GoTo(s, "find")
  /\ UNCHANGED <<mem_map, dir, page, writable, task, zombie, hand, address, wild, collided>>

\* copy_process: a page for the task structure is put into that slot, with no second
\* look, and a request is sent to the process server, which fails.
TakeSlot(s) ==
  LET p == FreePage(mem_map)
  IN /\ At(s, "find")
     /\ \/ /\ p = NoPage
           /\ child' = [child EXCEPT ![s] = 0]
           /\ GoTo(s, "idle")
           /\ UNCHANGED <<mem_map, task, collided>>
        \/ /\ p # NoPage
           /\ mem_map' = Taken(mem_map, p)
           /\ task' = [task EXCEPT ![child[s]] = p]
           /\ collided' = (task[child[s]] # NoPage)
           /\ GoTo(s, "fork")
           /\ UNCHANGED child
     /\ UNCHANGED <<dir, page, writable, zombie, hand, address, wild>>

\* copy_mem, its request having failed too.
CopyMem(s) ==
  /\ At(s, "fork")
  /\ CopyPageTables(s, child[s])
  /\ IF Copied(s) = Present(s)
       THEN GoTo(s, "idle") /\ child' = [child EXCEPT ![s] = 0]
       ELSE GoTo(s, "undo") /\ UNCHANGED child
  /\ UNCHANGED <<task, zombie, hand, address, wild, collided>>

\* What was copied is freed, and then the task structure.
Undo_keepsTables(s) ==
  /\ At(s, "undo")
  /\ mem_map' = Freed(mem_map, task[child[s]])
  /\ task' = [task EXCEPT ![child[s]] = NoPage]
  /\ child' = [child EXCEPT ![s] = 0]
  /\ GoTo(s, "idle")
  /\ UNCHANGED <<dir, page, writable, zombie, hand, address, wild, collided>>
Undo(s) ==
  /\ At(s, "undo")
  /\ FreePageTables(child[s], Freed(mem_map, task[child[s]]))
  /\ task' = [task EXCEPT ![child[s]] = NoPage]
  /\ child' = [child EXCEPT ![s] = 0]
  /\ GoTo(s, "idle")
  /\ UNCHANGED <<zombie, hand, address, wild, collided>>

-----------------------------------------------------------------------------
(* Page faults; the memory server has not taken the message of page_fault. *)

\* get_empty_page: a page for an address outside the file that is executed.
GetEmptyPage(s, a) ==
  LET p == FreePage(mem_map)
  IN /\ At(s, "idle") /\ s # 0
     /\ page[s][a] = NoPage
     /\ IF p = NoPage \/ PutFails(s, a, Taken(mem_map, p))
          THEN GoTo(s, "oom") /\ UNCHANGED <<mem_map, dir, page, writable>>
          ELSE PutPage(s, a, p, Taken(mem_map, p)) /\ UNCHANGED at
     /\ UNCHANGED <<task, zombie, child, hand, address, wild, collided>>

\* do_no_page for an address in the file: a page, and a read that takes time ...
ReadPage(s, a) ==
  LET p == FreePage(mem_map)
  IN /\ At(s, "idle") /\ s # 0
     /\ page[s][a] = NoPage
     /\ IF p = NoPage
          THEN GoTo(s, "page0") /\ UNCHANGED <<mem_map, hand, address>>
          ELSE /\ mem_map' = Taken(mem_map, p)
               /\ hand' = [hand EXCEPT ![s] = p]
               /\ address' = [address EXCEPT ![s] = a]
               /\ GoTo(s, "read")
     /\ UNCHANGED <<dir, page, writable, task, zombie, child, wild, collided>>

\* ... after which the page is put in place, or freed.
PageRead_kept(s) ==
  /\ At(s, "read")
  /\ IF PutFails(s, address[s], mem_map)
       THEN GoTo(s, "oom") /\ UNCHANGED <<mem_map, dir, page, writable>>
       ELSE PutPage(s, address[s], hand[s], mem_map) /\ GoTo(s, "idle")
  /\ hand' = [hand EXCEPT ![s] = NoPage]
  /\ address' = [address EXCEPT ![s] = <<>>]
  /\ UNCHANGED <<task, zombie, child, wild, collided>>
PageRead(s) ==
  /\ At(s, "read")
  /\ IF PutFails(s, address[s], mem_map)
       THEN /\ mem_map' = Freed(mem_map, hand[s])
            /\ GoTo(s, "oom")
            /\ UNCHANGED <<dir, page, writable>>
       ELSE PutPage(s, address[s], hand[s], mem_map) /\ GoTo(s, "idle")
  /\ hand' = [hand EXCEPT ![s] = NoPage]
  /\ address' = [address EXCEPT ![s] = <<>>]
  /\ UNCHANGED <<task, zombie, child, wild, collided>>

\* un_wp_page: the only user of a page may write it, others get a copy.  Nothing in
\* the repository calls it: do_wp_page leaves it to the server.
OnlyUser(p) == p \in Pages /\ mem_map[p] = 1

un_wp_page(s, a) ==
  LET old == page[s][a]
      new == FreePage(mem_map)
  IN /\ At(s, "idle")
     /\ old # NoPage /\ <<s, a>> \notin writable
     /\ \/ /\ OnlyUser(old)
           /\ writable' = writable \cup {<<s, a>>}
           /\ UNCHANGED <<mem_map, page, at>>
        \/ /\ ~OnlyUser(old) /\ new # NoPage
           /\ mem_map' = Freed(Taken(mem_map, new), old)
           /\ page' = [page EXCEPT ![s][a] = new]
           /\ writable' = writable \cup {<<s, a>>}
           /\ UNCHANGED at
        \/ /\ ~OnlyUser(old) /\ new = NoPage
           /\ GoTo(s, "page0")
           /\ UNCHANGED <<mem_map, page, writable>>
     /\ UNCHANGED <<dir, task, zombie, child, hand, address, wild, collided>>

-----------------------------------------------------------------------------
(* exit. *)

\* do_exit when its request fails.
Exit(s) ==
  /\ s # 0
  /\ FreePageTables(s, mem_map)
  /\ zombie' = zombie \cup {s}
  /\ GoTo(s, "idle")
  /\ UNCHANGED <<task, child, hand, address, wild, collided>>

sys_exit(s) == At(s, "idle") /\ Exit(s)

\* oom: do_exit, which returns if the process server has answered.
Oom(s) ==
  /\ Running(s) /\ at[s] \in {"oom", "page0"}
  /\ \/ Exit(s)
     \/ /\ GoTo(s, "idle")
        /\ wild' = (at[s] = "page0")
        /\ UNCHANGED <<mem_map, dir, page, writable, task, zombie, child, hand, address,
                       collided>>

\* release, by the father.
release(s, u) ==
  /\ At(s, "idle")
  /\ u \in zombie
  /\ mem_map' = Freed(mem_map, task[u])
  /\ task' = [task EXCEPT ![u] = NoPage]
  /\ zombie' = zombie \ {u}
  /\ UNCHANGED <<dir, page, writable, at, child, hand, address, wild, collided>>

Next ==
  \E s \in Slots :
    \/ FindEmpty(s)
    \/ TakeSlot(s)
    \/ CopyMem(s)
    \/ Undo(s)
    \/ PageRead(s)
    \/ sys_exit(s)
    \/ Oom(s)
    \/ \E u \in Slots : release(s, u)
    \/ \E a \in Addresses : GetEmptyPage(s, a) \/ ReadPage(s, a) \/ un_wp_page(s, a)

Spec == Init /\ [][Next]_vars

-----------------------------------------------------------------------------
(* Properties. *)

AllPages == LowPages \cup Pages \cup {NoPage}

\* The types of the variables; no count outgrows the number of slots.
TypeOK ==
  /\ mem_map \in [Pages -> 0 .. Cardinality(Slots)]
  /\ dir \in [Slots -> [Dirs -> AllPages]]
  /\ page \in [Slots -> [Addresses -> AllPages]]
  /\ writable \subseteq Slots \X Addresses
  /\ task \in [Slots -> AllPages]
  /\ zombie \subseteq Slots
  /\ at \in [Slots -> {"idle", "find", "fork", "undo", "read", "oom", "page0"}]
  /\ child \in [Slots -> Slots]
  /\ hand \in [Slots -> AllPages]
  /\ address \in [Slots -> Addresses \cup {<<>>}]
  /\ wild \in BOOLEAN
  /\ collided \in BOOLEAN

\* The users of a page: the addresses and directory entries that name it, the task
\* whose structure it holds, and the task that reads a file into it.
Users(p) ==
  LET Of(S, kind) == {<<kind, x>> : x \in S}
  IN Of({x \in Slots \X Addresses : page[x[1]][x[2]] = p}, "address")
       \cup Of({x \in Slots \X Dirs : dir[x[1]][x[2]] = p}, "table")
       \cup Of({s \in Slots : task[s] = p}, "task")
       \cup Of({s \in Slots : hand[s] = p}, "hand")

\* As long as no fork takes a slot that another has taken meanwhile, mem_map counts
\* the users of every page, over any forks, copies that fail half way, faults, exits
\* and releases: no page in use is free, and none is lost.
MemMapCounts == ~collided => \A p \in Pages : mem_map[p] = Cardinality(Users(p))

\* A page that can be written at an address has no other user, in that address
\* space or in any other: copy on write keeps tasks apart.
WritersAreAlone == \A w \in writable : page[w[1]][w[2]] \in Pages =>
  Users(page[w[1]][w[2]]) = {<<"address", w>>}

\* As long as no fork takes a slot that another has taken meanwhile, copy_page_tables
\* never finds a page table in its way (memory.c:339 would panic): a slot that is
\* free, or being forked into, has given back its address space.
EmptySlotsAreClean ==
  ~collided =>
    \A s \in Slots :
      task[s] = NoPage \/ (\E t \in Slots : at[t] = "fork" /\ child[t] = s) =>
        Present(s) = {} /\ \A a \in Addresses : page[s][a] = NoPage
=============================================================================
