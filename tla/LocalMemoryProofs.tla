------------------------- MODULE LocalMemoryProofs -------------------------
(***************************************************************************)
(* LocalMemory for any numbers of slots, addresses and pages: until two    *)
(* forks take one slot, mem_map counts the users of every page, a page     *)
(* that can be written has one user, and copy_page_tables finds no table   *)
(* in its way.                                                             *)
(*                                                                         *)
(* The users of pages are counted over Uses, the places that may name a    *)
(* page, and over a function from them to the pages they name: an action   *)
(* changes the function at a few places, and mem_map by what these come    *)
(* to.                                                                     *)
(***************************************************************************)
EXTENDS LocalMemory, FiniteSetTheorems, TLAPS

-----------------------------------------------------------------------------
(* Places that may name a page. *)

Addressed(s, a) == <<"address", <<s, a>>>>
Table(s, d) == <<"table", <<s, d>>>>
TaskOf(s) == <<"task", s>>
HandOf(s) == <<"hand", s>>

Uses ==
  ({"address"} \X (Slots \X Addresses)) \cup ({"table"} \X (Slots \X Dirs))
    \cup ({"task", "hand"} \X Slots)

\* What each of them names.
Named ==
  [x \in Uses |->
     CASE x[1] = "address" -> page[x[2][1]][x[2][2]]
       [] x[1] = "table" -> dir[x[2][1]][x[2][2]]
       [] x[1] = "task" -> task[x[2]]
       [] x[1] = "hand" -> hand[x[2]]]

\* The places where f names the page p.
Using(f, p) == {x \in Uses : f[x] = p}

LEMMA Constants ==
  /\ 0 \in Slots /\ IsFiniteSet(Slots) /\ IsFiniteSet(Addresses) /\ IsFiniteSet(Pages)
  /\ Pages \subseteq Nat /\ LowPages \subseteq Nat /\ NoPage \notin Pages
  /\ LowPages # {} /\ LowPages \cap Pages = {}
  /\ \A a \in Addresses : a[1] \in Dirs
  /\ Dirs \subseteq Nat
<1>1. \A d \in Dirs : d \in Nat
  BY MemoryAssumption DEF Dirs
<1>2. LowPages \cap Pages = {}
  <2>1. \A l \in LowPages, p \in Pages : l < p /\ l \in Nat /\ p \in Nat
    BY MemoryAssumption
  <2>2. \A l \in LowPages, p \in Pages : l # p
    BY <2>1
  <2> QED
    BY <2>2
<1>3. Pages \subseteq Nat /\ LowPages \subseteq Nat /\ NoPage \notin Pages
  BY MemoryAssumption
<1> QED
  BY <1>1, <1>2, <1>3, MemoryAssumption DEF Dirs

LEMMA UsesAreFinite == IsFiniteSet(Dirs) /\ IsFiniteSet(Uses)
<1>1. IsFiniteSet(Dirs)
  <2>1. [a \in Addresses |-> a[1]] \in Surjection(Addresses, Dirs)
    BY DEF Surjection, Dirs
  <2> QED
    BY <2>1, FS_Surjection, Constants
<1>2. IsFiniteSet(Slots \X Addresses) /\ IsFiniteSet(Slots \X Dirs)
  BY <1>1, FS_Product, Constants
<1>3. IsFiniteSet({"address"}) /\ IsFiniteSet({"table"}) /\ IsFiniteSet({"task", "hand"})
  <2>1. {"task", "hand"} = {"task"} \cup {"hand"}
    OBVIOUS
  <2>2. IsFiniteSet({"address"}) /\ IsFiniteSet({"table"})
    BY FS_Singleton
  <2>3. IsFiniteSet({"task"}) /\ IsFiniteSet({"hand"})
    BY FS_Singleton
  <2>4. IsFiniteSet({"task"} \cup {"hand"})
    BY <2>3, FS_Union
  <2> QED
    BY <2>1, <2>2, <2>4
<1>4. /\ IsFiniteSet({"address"} \X (Slots \X Addresses))
      /\ IsFiniteSet({"table"} \X (Slots \X Dirs))
      /\ IsFiniteSet({"task", "hand"} \X Slots)
  BY <1>2, <1>3, FS_Product, Constants
<1> QED
  BY <1>1, <1>4, FS_Union DEF Uses

LEMMA UsesAre ==
  /\ \A s \in Slots, a \in Addresses : Addressed(s, a) \in Uses
  /\ \A s \in Slots, d \in Dirs : Table(s, d) \in Uses
  /\ \A s \in Slots : TaskOf(s) \in Uses /\ HandOf(s) \in Uses
  /\ \A x \in Uses :
       \/ \E s \in Slots, a \in Addresses : x = Addressed(s, a)
       \/ \E s \in Slots, d \in Dirs : x = Table(s, d)
       \/ \E s \in Slots : x = TaskOf(s) \/ x = HandOf(s)
BY DEF Uses, Addressed, Table, TaskOf, HandOf

LEMMA UsesDiffer ==
  ASSUME NEW s, NEW t, NEW a, NEW b
  PROVE  /\ Addressed(s, a) = Addressed(t, b) <=> s = t /\ a = b
         /\ Table(s, a) = Table(t, b) <=> s = t /\ a = b
         /\ TaskOf(s) = TaskOf(t) <=> s = t
         /\ HandOf(s) = HandOf(t) <=> s = t
         /\ Addressed(s, a) # Table(t, b) /\ Addressed(s, a) # TaskOf(t)
         /\ Addressed(s, a) # HandOf(t) /\ Table(s, a) # TaskOf(t)
         /\ Table(s, a) # HandOf(t) /\ TaskOf(s) # HandOf(t)
BY DEF Addressed, Table, TaskOf, HandOf

LEMMA Names ==
  /\ \A s \in Slots, a \in Addresses : Named[Addressed(s, a)] = page[s][a]
  /\ \A s \in Slots, d \in Dirs : Named[Table(s, d)] = dir[s][d]
  /\ \A s \in Slots : Named[TaskOf(s)] = task[s] /\ Named[HandOf(s)] = hand[s]
BY UsesAre DEF Named, Addressed, Table, TaskOf, HandOf

\* The users of a page are the places that name it.
LEMMA UsersAreUses ==
  ASSUME NEW p
  PROVE  Users(p) = Using(Named, p)
<1>1. \A x : x \in Users(p) <=>
         \/ \E s \in Slots, a \in Addresses : x = Addressed(s, a) /\ page[s][a] = p
         \/ \E s \in Slots, d \in Dirs : x = Table(s, d) /\ dir[s][d] = p
         \/ \E s \in Slots : x = TaskOf(s) /\ task[s] = p
         \/ \E s \in Slots : x = HandOf(s) /\ hand[s] = p
  BY DEF Users, Addressed, Table, TaskOf, HandOf
<1>2. \A x : x \in Using(Named, p) <=>
         \/ \E s \in Slots, a \in Addresses : x = Addressed(s, a) /\ page[s][a] = p
         \/ \E s \in Slots, d \in Dirs : x = Table(s, d) /\ dir[s][d] = p
         \/ \E s \in Slots : x = TaskOf(s) /\ task[s] = p
         \/ \E s \in Slots : x = HandOf(s) /\ hand[s] = p
  BY UsesAre, Names DEF Using
<1> QED
  BY <1>1, <1>2

-----------------------------------------------------------------------------
(* Counting. *)

\* Only the places in X may name other pages in g than in f.
SameBut(X, f, g) == \A x \in Uses \ X : g[x] = f[x]

\* A change of what the places in X name takes their old names from a page's count
\* and adds their new ones.
LEMMA Recount ==
  ASSUME NEW f, NEW g, NEW X \in SUBSET Uses, SameBut(X, f, g), NEW p
  PROVE  /\ Cardinality(Using(f, p)) \in Nat /\ Cardinality(Using(g, p)) \in Nat
         /\ Cardinality(Using(f, p) \cap X) \in Nat
         /\ Cardinality(Using(g, p) \cap X) \in Nat
         /\ Cardinality(Using(g, p)) =
              Cardinality(Using(f, p)) - Cardinality(Using(f, p) \cap X)
                + Cardinality(Using(g, p) \cap X)
<1> DEFINE old == Using(f, p) \cap X
           new == Using(g, p) \cap X
           rest == Using(f, p) \ X
<1>1. /\ old \subseteq Uses /\ new \subseteq Uses /\ rest \subseteq Uses
      /\ Using(f, p) \subseteq Uses /\ Using(g, p) \subseteq Uses
  BY DEF Using
<1>2. Using(f, p) = rest \cup old /\ Using(g, p) = rest \cup new
  BY DEF Using, SameBut
<1>3. rest \cap old = {} /\ rest \cap new = {}
  OBVIOUS
<1> HIDE DEF old, new, rest
<1>4. /\ IsFiniteSet(old) /\ IsFiniteSet(new) /\ IsFiniteSet(rest)
      /\ IsFiniteSet(Using(f, p)) /\ IsFiniteSet(Using(g, p))
  BY <1>1, UsesAreFinite, FS_Subset
<1>5. /\ Cardinality(old) \in Nat /\ Cardinality(new) \in Nat /\ Cardinality(rest) \in Nat
      /\ Cardinality(Using(f, p)) \in Nat /\ Cardinality(Using(g, p)) \in Nat
  BY <1>4, FS_CardinalityType
<1>6. /\ Cardinality(Using(f, p)) = Cardinality(rest) + Cardinality(old)
      /\ Cardinality(Using(g, p)) = Cardinality(rest) + Cardinality(new)
  <2>1. Cardinality(rest \cap old) = 0 /\ Cardinality(rest \cap new) = 0
    BY <1>3, FS_EmptySet
  <2>2. /\ Cardinality(rest \cup old) =
             Cardinality(rest) + Cardinality(old) - Cardinality(rest \cap old)
        /\ Cardinality(rest \cup new) =
             Cardinality(rest) + Cardinality(new) - Cardinality(rest \cap new)
    BY <1>4, FS_Union
  <2> QED
    BY <1>2, <1>5, <2>1, <2>2
<1>7. Cardinality(Using(g, p)) =
        Cardinality(Using(f, p)) - Cardinality(old) + Cardinality(new)
  BY <1>5, <1>6
<1> QED
  BY <1>5, <1>7 DEF old, new

\* The elements of a finite set of numbers have ranks, counted from the greatest.
LEMMA Ranks ==
  ASSUME NEW S \in SUBSET Nat, IsFiniteSet(S), NEW k \in Nat, k < Cardinality(S)
  PROVE  \E p \in S : After(p, S) = k
<1> DEFINE n == Cardinality(S)
           r == [p \in S |-> After(p, S)]
<1>1. n \in Nat
  BY FS_CardinalityType
<1>2. \A p \in S : {q \in S : q > p} \subseteq S \ {p}
  OBVIOUS
<1>3. \A p \in S : IsFiniteSet({q \in S : q > p}) /\ After(p, S) \in 0 .. n - 1
  <2> TAKE p \in S
  <2>1. IsFiniteSet(S \ {p}) /\ Cardinality(S \ {p}) = n - 1
    BY FS_RemoveElement
  <2>2. /\ IsFiniteSet({q \in S : q > p})
        /\ Cardinality({q \in S : q > p}) <= n - 1
        /\ Cardinality({q \in S : q > p}) \in Nat
    BY <1>2, <2>1, FS_Subset, FS_CardinalityType
  <2> QED
    BY <1>1, <2>2 DEF After
<1>4. \A p, q \in S : p < q => After(p, S) # After(q, S)
  <2> SUFFICES ASSUME NEW p \in S, NEW q \in S, p < q
               PROVE  After(p, S) # After(q, S)
    OBVIOUS
  <2>0. p \in Nat /\ q \in Nat /\ \A x \in S : x \in Nat
    OBVIOUS
  <2>1. {x \in S : x > q} \subseteq {x \in S : x > p}
    <3>1. \A x \in S : x > q => x > p
      BY <2>0
    <3> QED
      BY <3>1
  <2>2. {x \in S : x > q} # {x \in S : x > p}
    <3>1. q \in {x \in S : x > p} /\ q \notin {x \in S : x > q}
      BY <2>0
    <3> QED
      BY <3>1
  <2>3. IsFiniteSet({x \in S : x > p})
    BY <1>3
  <2> QED
    BY <2>1, <2>2, <2>3, FS_Subset DEF After
<1>5. \A p, q \in S : After(p, S) = After(q, S) => p = q
  <2> SUFFICES ASSUME NEW p \in S, NEW q \in S, p # q
               PROVE  After(p, S) # After(q, S)
    OBVIOUS
  <2>1. p \in Nat /\ q \in Nat
    OBVIOUS
  <2>2. p < q \/ q < p
    BY <2>1
  <2> QED
    BY <1>4, <2>2
<1>6. r \in Injection(S, 0 .. n - 1)
  <2>1. \A p \in S : After(p, S) \in 0 .. n - 1
    BY <1>3
  <2> HIDE DEF n
  <2> QED
    BY <1>5, <2>1 DEF Injection, IsInjective
<1>7. IsFiniteSet(0 .. n - 1) /\ Cardinality(0 .. n - 1) = n
  <2>1. 0 \in Int /\ n - 1 \in Int /\ (0 > n - 1 => n = 0) /\ n - 1 - 0 + 1 = n
    BY <1>1
  <2> HIDE DEF n
  <2> QED
    BY <2>1, FS_Interval
<1>8. r \in Surjection(S, 0 .. n - 1)
  <2> HIDE DEF r
  <2> QED
    BY <1>6, <1>7, FS_Injection
<1>9. \E p \in S : r[p] = k
  <2>1. k \in 0 .. n - 1
    BY <1>1
  <2> HIDE DEF r
  <2> QED
    BY <1>8, <2>1 DEF Surjection
<1> QED
  BY <1>9

\* get_free_page finds a free page if there is one.
LEMMA FreePageIsFree ==
  ASSUME NEW map, Free(map) # {}
  PROVE  FreePage(map) \in Free(map)
<1> DEFINE S == Free(map)
<1>1. S \subseteq Pages
  BY DEF Free
<1> HIDE DEF S
<1>2. S \in SUBSET Nat /\ IsFiniteSet(S)
  BY <1>1, Constants, FS_Subset
<1>3. Cardinality(S) \in Nat /\ Cardinality(S) # 0
  BY <1>2, FS_CardinalityType, FS_EmptySet DEF S
<1>4. PICK p \in S : After(p, S) = 0
  BY <1>2, <1>3, Ranks
<1>5. {q \in S : q > p} = {}
  <2>1. {q \in S : q > p} \subseteq S
    OBVIOUS
  <2> QED
    BY <2>1, <1>2, <1>4, FS_Subset, FS_EmptySet DEF After
<1>6. \A q \in S : p >= q
  BY <1>2, <1>5
<1>7. Max(S) \in S
  BY <1>6 DEF Max
<1> QED
  BY <1>7 DEF FreePage, S

-----------------------------------------------------------------------------
(* The books: mem_map, what the places name, and where pages may be written. *)

\* Two places name a page only if they are addresses, the same in two spaces.
Sharing(f) ==
  \A x, y \in Uses : f[x] \in Pages /\ f[x] = f[y] /\ x # y =>
    \E s, t \in Slots, a \in Addresses : x = Addressed(s, a) /\ y = Addressed(t, a)

\* Nothing else names a page that may be written.
Writing(f, W) ==
  \A s \in Slots, a \in Addresses : <<s, a>> \in W /\ f[Addressed(s, a)] \in Pages =>
    \A x \in Uses : f[x] = f[Addressed(s, a)] => x = Addressed(s, a)

Books(map, f, W) ==
  /\ map \in [Pages -> Nat]
  /\ \A p \in Pages : map[p] = Cardinality(Using(f, p))
  /\ Sharing(f)
  /\ Writing(f, W)

LEMMA BooksRestricted ==
  ASSUME NEW map, NEW f, NEW W, NEW V \in SUBSET W, Books(map, f, W)
  PROVE  Books(map, f, V)
BY DEF Books, Writing

\* A page is free if no place names it.
LEMMA FreeIsUnused ==
  ASSUME NEW map, NEW f, NEW W, Books(map, f, W), NEW p \in Pages
  PROVE  /\ map[p] \in Nat
         /\ map[p] = 0 => \A x \in Uses : f[x] # p
         /\ map[p] # 0 => \E x \in Uses : f[x] = p
<1>1. Using(f, p) \subseteq Uses /\ map[p] = Cardinality(Using(f, p)) /\ map[p] \in Nat
  BY DEF Using, Books
<1>2. map[p] = 0 <=> Using(f, p) = {}
  BY <1>1, UsesAreFinite, FS_Subset, FS_EmptySet
<1> QED
  BY <1>1, <1>2 DEF Using

\* What a place that names q adds to the users of p.
Counted(q, p) == IF q = p THEN 1 ELSE 0

LEMMA OneChange ==
  ASSUME NEW f, NEW g, NEW x \in Uses, SameBut({x}, f, g), NEW p
  PROVE  /\ Cardinality(Using(f, p)) \in Nat /\ Cardinality(Using(g, p)) \in Nat
         /\ Cardinality(Using(g, p)) =
              Cardinality(Using(f, p)) - Counted(f[x], p)
                + Counted(g[x], p)
<1>1. /\ Using(f, p) \cap {x} = IF f[x] = p THEN {x} ELSE {}
      /\ Using(g, p) \cap {x} = IF g[x] = p THEN {x} ELSE {}
  BY DEF Using
<1>2. Cardinality({x}) = 1 /\ Cardinality({}) = 0
  BY FS_Singleton, FS_EmptySet
<1>3. /\ Cardinality(Using(f, p) \cap {x}) = Counted(f[x], p)
      /\ Cardinality(Using(g, p) \cap {x}) = Counted(g[x], p)
  BY <1>1, <1>2 DEF Counted
<1>4. {x} \in SUBSET Uses
  OBVIOUS
<1> QED
  BY <1>3, <1>4, Recount

\* A place that named no page takes a free one: it is the page's only user, and if
\* it is an address, the page may be written there.
LEMMA BooksTaken ==
  ASSUME NEW map, NEW f, NEW W, Books(map, f, W),
         NEW p \in Free(map), NEW x \in Uses, f[x] \notin Pages,
         NEW g, g[x] = p, SameBut({x}, f, g),
         NEW V, \A s \in Slots, a \in Addresses :
                  <<s, a>> \in V => <<s, a>> \in W \/ x = Addressed(s, a)
  PROVE  Books(Taken(map, p), g, V)
<1>0. p \in Pages /\ map[p] = 0 /\ map \in [Pages -> Nat]
  BY DEF Free, Books
<1>1. \A y \in Uses : f[y] # p
  BY <1>0, FreeIsUnused
<1>2. Taken(map, p) \in [Pages -> Nat]
  BY <1>0 DEF Taken
<1>3. \A q \in Pages : Taken(map, p)[q] = Cardinality(Using(g, q))
  <2> TAKE q \in Pages
  <2>1. map[q] = Cardinality(Using(f, q)) /\ map[q] \in Nat
    BY FreeIsUnused DEF Books
  <2>2. Cardinality(Using(g, q)) =
          Cardinality(Using(f, q)) - Counted(f[x], q) + Counted(g[x], q)
    BY OneChange
  <2> QED
    BY <1>0, <2>1, <2>2 DEF Taken, Counted
<1>4. Sharing(g)
  BY <1>1 DEF Sharing, Books, SameBut
<1>5. Writing(g, V)
  BY <1>1, UsesAre DEF Writing, Books, SameBut
<1> QED
  BY <1>2, <1>3, <1>4, <1>5 DEF Books

\* A place gives up the page it names.
LEMMA BooksFreed ==
  ASSUME NEW map, NEW f, NEW W, Books(map, f, W),
         NEW x \in Uses, NEW g, g[x] \notin Pages, SameBut({x}, f, g),
         NEW V \in SUBSET W
  PROVE  Books(Freed(map, f[x]), g, V)
<1>0. map \in [Pages -> Nat]
  BY DEF Books
<1>1. f[x] \in Pages => map[f[x]] > 0
  BY FreeIsUnused
<1>2. Freed(map, f[x]) \in [Pages -> Nat]
  BY <1>0, <1>1 DEF Freed
<1>3. \A q \in Pages : Freed(map, f[x])[q] = Cardinality(Using(g, q))
  <2> TAKE q \in Pages
  <2>1. map[q] = Cardinality(Using(f, q)) /\ map[q] \in Nat
    BY FreeIsUnused DEF Books
  <2>2. Cardinality(Using(g, q)) =
          Cardinality(Using(f, q)) - Counted(f[x], q) + Counted(g[x], q)
    BY OneChange
  <2>3. Freed(map, f[x])[q] = IF f[x] = q THEN map[q] - 1 ELSE map[q]
    <3>1. CASE f[x] \notin Pages
      BY <3>1 DEF Freed
    <3>2. CASE f[x] \in Pages
      <4>1. map[f[x]] \in Nat /\ map[f[x]] > 0
        BY <1>0, <1>1, <3>2
      <4>2. Freed(map, f[x]) = [map EXCEPT ![f[x]] = map[f[x]] - 1]
        BY <3>2, <4>1 DEF Freed
      <4> QED
        BY <1>0, <3>2, <4>2
    <3> QED
      BY <3>1, <3>2
  <2> QED
    BY <2>1, <2>2, <2>3 DEF Counted
<1>4. Sharing(g)
  BY DEF Sharing, Books, SameBut
<1>5. Writing(g, V)
  BY UsesAre DEF Writing, Books, SameBut
<1> QED
  BY <1>2, <1>3, <1>4, <1>5 DEF Books

\* A place other than an address hands its page over to one that named none.
LEMMA BooksMoved ==
  ASSUME NEW map, NEW f, NEW W, Books(map, f, W),
         NEW x \in Uses, f[x] \in Pages,
         \A s \in Slots, a \in Addresses : x # Addressed(s, a),
         NEW z \in Uses, f[z] \notin Pages,
         NEW g, g[x] = NoPage, g[z] = f[x],
         SameBut({x, z}, f, g),
         NEW V, \A s \in Slots, a \in Addresses :
                  <<s, a>> \in V => <<s, a>> \in W \/ z = Addressed(s, a)
  PROVE  Books(map, g, V)
<1> DEFINE p == f[x]
           h == [y \in Uses |-> IF y = x THEN NoPage ELSE f[y]]
           free == Freed(map, p)
<1>1. /\ h[x] = NoPage /\ SameBut({x}, f, h)
      /\ NoPage \notin Pages /\ h[z] \notin Pages
  BY Constants DEF SameBut
<1>2. Books(free, h, W)
  <2> HIDE DEF h
  <2> QED
    BY <1>1, BooksFreed
<1>3. \A y \in Uses : f[y] = p => y = x
  BY DEF Books, Sharing
<1>4. p \in Free(free)
  <2>1. \A y \in Uses : h[y] # p
    BY <1>1, <1>3 DEF SameBut
  <2> HIDE DEF h, free
  <2>2. free[p] = 0
    BY <1>2, <2>1, FreeIsUnused
  <2> QED
    BY <2>2 DEF Free
<1>5. z # x /\ g[z] = p /\ SameBut({z}, h, g)
  BY <1>1 DEF SameBut
<1>6. Books(Taken(free, p), g, V)
  <2> HIDE DEF h, free
  <2> QED
    BY <1>1, <1>2, <1>4, <1>5, BooksTaken
<1>7. Taken(free, p) = map
  <2>1. map \in [Pages -> Nat] /\ map[p] > 0
    BY FreeIsUnused DEF Books
  <2>2. free \in [Pages -> Nat] /\ \A q \in Pages : q # p => free[q] = map[q]
    BY <2>1 DEF Freed
  <2>3. map[p] = 1
    <3>1. free[p] = 0
      BY <1>4 DEF Free
    <3>2. free[p] = map[p] - 1
      BY <2>1 DEF Freed
    <3> HIDE DEF free
    <3> QED
      BY <2>1, <3>1, <3>2
  <2> HIDE DEF free
  <2> QED
    BY <2>1, <2>2, <2>3 DEF Taken
<1> QED
  BY <1>6, <1>7

\* No page has more users than there are slots.
LEMMA CountsAreBounded ==
  ASSUME NEW map, NEW f, NEW W, Books(map, f, W), NEW p \in Pages
  PROVE  map[p] \in 0 .. Cardinality(Slots)
<1> DEFINE n == Cardinality(Slots)
           U == Using(f, p)
<1>1. n \in Nat /\ n >= 1
  <2>1. {0} \in SUBSET Slots /\ Cardinality({0}) = 1
    BY Constants, FS_Singleton
  <2> QED
    BY <2>1, Constants, FS_Subset, FS_CardinalityType
<1>2. IsFiniteSet(U) /\ Cardinality(U) \in Nat
  <2>1. U \subseteq Uses
    BY DEF Using
  <2> HIDE DEF U
  <2> QED
    BY <2>1, UsesAreFinite, FS_Subset, FS_CardinalityType
<1>3. Cardinality(U) <= n
  <2>1. CASE \A x, y \in U : x = y
    <3>1. U = {} \/ \E x : U = {x}
      BY <2>1
    <3>2. Cardinality(U) \in {0, 1}
      BY <3>1, FS_EmptySet, FS_Singleton
    <3> HIDE DEF U, n
    <3> QED
      BY <1>1, <3>2
  <2>2. CASE \E x, y \in U : x # y
    <3>1. PICK x \in U, y \in U : x # y
      BY <2>2
    <3>2. PICK s \in Slots, a \in Addresses : x = Addressed(s, a)
      BY <3>1 DEF Books, Sharing, Using
    <3> DEFINE T == {Addressed(t, a) : t \in Slots}
    <3>3. U \subseteq T
      <4> SUFFICES ASSUME NEW z \in U
                   PROVE  z \in T
        OBVIOUS
      <4>1. CASE z = x
        BY <4>1, <3>2
      <4>2. CASE z # x
        <5>0. x \in Uses /\ z \in Uses /\ f[x] = p /\ f[z] = p
          BY <3>1 DEF Using
        <5>1. PICK r \in Slots, t \in Slots, b \in Addresses :
                x = Addressed(r, b) /\ z = Addressed(t, b)
          BY <4>2, <5>0 DEF Books, Sharing
        <5>2. b = a
          BY <5>1, <3>2 DEF Addressed
        <5> QED
          BY <5>1, <5>2
      <4> QED
        BY <4>1, <4>2
    <3>4. [t \in Slots |-> Addressed(t, a)] \in Surjection(Slots, T)
      BY DEF Surjection
    <3> HIDE DEF T, U
    <3>5. IsFiniteSet(T) /\ Cardinality(T) <= n
      BY <3>4, Constants, FS_Surjection
    <3>6. Cardinality(U) <= Cardinality(T)
      BY <3>3, <3>5, FS_Subset
    <3> QED
      BY <1>1, <1>2, <3>5, <3>6, FS_CardinalityType
  <2> QED
    BY <2>1, <2>2
<1>4. map[p] = Cardinality(U)
  BY DEF Books
<1> HIDE DEF U, n
<1> QED
  BY <1>1, <1>2, <1>3, <1>4 DEF n

-----------------------------------------------------------------------------
(* The address space of a slot. *)

Space(s) ==
  {x \in Uses : (\E a \in Addresses : x = Addressed(s, a)) \/ \E d \in Dirs : x = Table(s, d)}

\* Tagging the elements of a set keeps their number.
Tags(B, A, tag, s) ==
  B \subseteq {<<tag, <<s, a>>>> : a \in A} /\ \A a \in A : <<tag, <<s, a>>>> \in B

LEMMA Tagged ==
  ASSUME NEW A, IsFiniteSet(A), NEW B, NEW tag, NEW s, Tags(B, A, tag, s)
  PROVE  IsFiniteSet(B) /\ Cardinality(B) = Cardinality(A)
<1> DEFINE F == [a \in A |-> <<tag, <<s, a>>>>]
<1>1. F \in Surjection(A, B) /\ F \in Injection(A, B)
  BY DEF Surjection, Injection, IsInjective, Tags
<1> HIDE DEF F
<1>2. F \in Bijection(A, B)
  BY <1>1 DEF Bijection
<1> QED
  BY <1>2, FS_Bijection DEF ExistsBijection

\* Its users of a page are its addresses and its tables.
LEMMA SpaceCount ==
  ASSUME NEW s \in Slots, NEW p
  PROVE  /\ Cardinality(AddressesOf(s, p)) \in Nat /\ Cardinality(TablesAt(s, p)) \in Nat
         /\ Cardinality(Using(Named, p) \cap Space(s)) =
              Cardinality(AddressesOf(s, p)) + Cardinality(TablesAt(s, p))
<1> DEFINE A == {<<"address", <<s, a>>>> : a \in AddressesOf(s, p)}
           T == {<<"table", <<s, d>>>> : d \in TablesAt(s, p)}
<1>1. IsFiniteSet(AddressesOf(s, p)) /\ IsFiniteSet(TablesAt(s, p))
  <2>1. AddressesOf(s, p) \subseteq Addresses /\ TablesAt(s, p) \subseteq Dirs
    BY DEF AddressesOf, TablesAt
  <2> QED
    BY <2>1, Constants, UsesAreFinite, FS_Subset
<1>2. /\ IsFiniteSet(A) /\ Cardinality(A) = Cardinality(AddressesOf(s, p))
      /\ IsFiniteSet(T) /\ Cardinality(T) = Cardinality(TablesAt(s, p))
  <2>1. Tags(A, AddressesOf(s, p), "address", s) /\ Tags(T, TablesAt(s, p), "table", s)
    BY DEF Tags
  <2> HIDE DEF A, T
  <2> QED
    BY <1>1, <2>1, Tagged
<1>3. Using(Named, p) \cap Space(s) = A \cup T
  <2>1. \A x : x \in Using(Named, p) \cap Space(s) <=>
           \/ \E a \in Addresses : x = Addressed(s, a) /\ page[s][a] = p
           \/ \E d \in Dirs : x = Table(s, d) /\ dir[s][d] = p
    BY UsesAre, Names DEF Using, Space
  <2>2. \A x : x \in A \cup T <=>
           \/ \E a \in Addresses : x = Addressed(s, a) /\ page[s][a] = p
           \/ \E d \in Dirs : x = Table(s, d) /\ dir[s][d] = p
    BY DEF AddressesOf, TablesAt, Addressed, Table
  <2> HIDE DEF A, T
  <2> QED
    BY <2>1, <2>2
<1>4. A \cap T = {}
  OBVIOUS
<1> HIDE DEF A, T
<1>5. Cardinality(A \cap T) = 0
  BY <1>4, FS_EmptySet
<1>6. Cardinality(A \cup T) = Cardinality(A) + Cardinality(T) - Cardinality(A \cap T)
  BY <1>2, FS_Union
<1>7. Cardinality(A) \in Nat /\ Cardinality(T) \in Nat
  BY <1>2, FS_CardinalityType
<1>8. Cardinality(Using(Named, p) \cap Space(s)) = Cardinality(A \cup T)
  BY <1>3
<1> QED
  BY <1>2, <1>5, <1>6, <1>7, <1>8

LEMMA MaxWithZero ==
  ASSUME NEW n \in Nat
  PROVE  Max({0, n}) = n
<1>1. n \in {0, n} /\ \A y \in {0, n} : n >= y
  OBVIOUS
<1>2. \A x \in {0, n} : (\A y \in {0, n} : x >= y) => x = n
  OBVIOUS
<1> QED
  BY <1>1, <1>2 DEF Max

\* free_page_tables: the address space gives up all it names.
LEMMA SpaceFreed ==
  ASSUME NEW map, NEW f, NEW W, Books(map, f, W), NEW s \in Slots,
         \A x \in Space(s) : f[x] = Named[x],
         NEW g, SameBut(Space(s), f, g), \A x \in Space(s) : g[x] = NoPage,
         NEW V \in SUBSET W
  PROVE  Books([p \in Pages |-> Max({0, map[p] - Cardinality(AddressesOf(s, p))
                                              - Cardinality(TablesAt(s, p))})], g, V)
<1> DEFINE new == [p \in Pages |-> Max({0, map[p] - Cardinality(AddressesOf(s, p))
                                                  - Cardinality(TablesAt(s, p))})]
<1>1. Space(s) \in SUBSET Uses
  BY DEF Space
<1>2. \A p \in Pages : new[p] = Cardinality(Using(g, p)) /\ new[p] \in Nat
  <2> TAKE p \in Pages
  <2>1. map[p] = Cardinality(Using(f, p))
    BY DEF Books
  <2>2. /\ Cardinality(Using(g, p)) \in Nat
        /\ Cardinality(Using(g, p)) =
             Cardinality(Using(f, p)) - Cardinality(Using(f, p) \cap Space(s))
               + Cardinality(Using(g, p) \cap Space(s))
    BY <1>1, Recount
  <2>3. Cardinality(Using(g, p) \cap Space(s)) = 0
    <3>1. Using(g, p) \cap Space(s) = {}
      BY Constants DEF Using
    <3> QED
      BY <3>1, FS_EmptySet
  <2>4. Cardinality(Using(f, p) \cap Space(s)) =
          Cardinality(AddressesOf(s, p)) + Cardinality(TablesAt(s, p))
    <3>1. Using(f, p) \cap Space(s) = Using(Named, p) \cap Space(s)
      BY <1>1 DEF Using
    <3> QED
      BY <3>1, SpaceCount
  <2>5. /\ Cardinality(AddressesOf(s, p)) \in Nat /\ Cardinality(TablesAt(s, p)) \in Nat
        /\ map[p] \in Nat
    BY SpaceCount, FreeIsUnused
  <2>6. map[p] - Cardinality(AddressesOf(s, p)) - Cardinality(TablesAt(s, p))
          = Cardinality(Using(g, p))
    BY <2>1, <2>2, <2>3, <2>4, <2>5
  <2>7. new[p] = Cardinality(Using(g, p))
    BY <2>2, <2>6, MaxWithZero
  <2> QED
    BY <2>2, <2>7
<1>3. new \in [Pages -> Nat]
  <2>1. new = [p \in Pages |-> new[p]]
    OBVIOUS
  <2> HIDE DEF new
  <2> QED
    BY <1>2, <2>1
<1>4. \A x \in Uses : g[x] \in Pages => g[x] = f[x]
  BY Constants DEF SameBut
<1>5. Sharing(g)
  BY <1>4 DEF Sharing, Books
<1>6. Writing(g, V)
  BY <1>4, UsesAre DEF Writing, Books
<1> HIDE DEF new
<1>7. Books(new, g, V)
  BY <1>2, <1>3, <1>5, <1>6 DEF Books
<1> QED
  BY <1>7 DEF new

\* copy_page_tables has a page of its own for each table that it copies.
LEMMA TablesToCopyInto ==
  ASSUME NEW s \in Slots
  PROVE  \A d \in Copied(s) :
           /\ d \in Dirs /\ TableFor(s, d) \in Free(mem_map) /\ TableFor(s, d) \in Pages
           /\ \A e \in Copied(s) : TableFor(s, d) = TableFor(s, e) => d = e
<1> DEFINE P == Present(s)
           F == Free(mem_map)
<1>1. P \subseteq Dirs /\ F \subseteq Pages
  BY DEF Present, Free
<1>2. Copied(s) = {d \in P : Before(d, P) < Cardinality(F)}
  BY DEF Copied
<1>3. \A d : TableFor(s, d) = CHOOSE p \in F : After(p, F) = Before(d, P)
  BY DEF TableFor
<1> HIDE DEF P, F
<1>4. P \subseteq Nat /\ IsFiniteSet(P) /\ F \in SUBSET Nat /\ IsFiniteSet(F)
  BY <1>1, Constants, UsesAreFinite, FS_Subset
<1>5. \A d \in P : IsFiniteSet({e \in P : e < d}) /\ Before(d, P) \in Nat
  <2> TAKE d \in P
  <2>1. {e \in P : e < d} \subseteq P
    OBVIOUS
  <2> QED
    BY <2>1, <1>4, FS_Subset, FS_CardinalityType DEF Before
<1>6. \A d, e \in P : d < e => Before(d, P) # Before(e, P)
  <2> SUFFICES ASSUME NEW d \in P, NEW e \in P, d < e
               PROVE  Before(d, P) # Before(e, P)
    OBVIOUS
  <2>1. d \in Nat /\ e \in Nat /\ \A x \in P : x \in Nat
    BY <1>4
  <2>2. \A x \in P : x < d => x < e
    BY <2>1
  <2>3. {x \in P : x < d} \subseteq {x \in P : x < e}
    BY <2>2
  <2>4. d \in {x \in P : x < e} /\ d \notin {x \in P : x < d}
    BY <2>1
  <2>5. {x \in P : x < d} # {x \in P : x < e}
    BY <2>4
  <2>6. IsFiniteSet({x \in P : x < e})
    BY <1>5
  <2> QED
    BY <2>3, <2>5, <2>6, FS_Subset DEF Before
<1>7. \A d, e \in P : Before(d, P) = Before(e, P) => d = e
  <2> SUFFICES ASSUME NEW d \in P, NEW e \in P, d # e
               PROVE  Before(d, P) # Before(e, P)
    OBVIOUS
  <2>1. d \in Nat /\ e \in Nat
    BY <1>4
  <2>2. d < e \/ e < d
    BY <2>1
  <2> QED
    BY <1>6, <2>2
<1>8. \A d \in Copied(s) : TableFor(s, d) \in F /\ After(TableFor(s, d), F) = Before(d, P)
  <2> TAKE d \in Copied(s)
  <2>1. \E p \in F : After(p, F) = Before(d, P)
    <3>1. Before(d, P) \in Nat /\ Before(d, P) < Cardinality(F)
      BY <1>2, <1>5
    <3> QED
      BY <1>4, <3>1, Ranks
  <2> QED
    BY <1>3, <2>1
<1> QED
  BY <1>1, <1>2, <1>7, <1>8 DEF F

-----------------------------------------------------------------------------
(* The types of the variables, but for the bound on the counts. *)

Places == {"idle", "find", "fork", "undo", "read", "oom", "page0"}

Types ==
  /\ mem_map \in [Pages -> Nat]
  /\ dir \in [Slots -> [Dirs -> AllPages]]
  /\ page \in [Slots -> [Addresses -> AllPages]]
  /\ writable \subseteq Slots \X Addresses
  /\ task \in [Slots -> AllPages]
  /\ zombie \subseteq Slots
  /\ at \in [Slots -> Places]
  /\ child \in [Slots -> Slots]
  /\ hand \in [Slots -> AllPages]
  /\ address \in [Slots -> Addresses \cup {<<>>}]
  /\ wild \in BOOLEAN

\* mem_map counts the users, and they share and write as they should.
Balanced == Books(mem_map, Named, writable)

LEMMA NamesNext ==
  /\ \A s \in Slots, a \in Addresses : Named'[Addressed(s, a)] = page'[s][a]
  /\ \A s \in Slots, d \in Dirs : Named'[Table(s, d)] = dir'[s][d]
  /\ \A s \in Slots : Named'[TaskOf(s)] = task'[s] /\ Named'[HandOf(s)] = hand'[s]
BY UsesAre DEF Named, Addressed, Table, TaskOf, HandOf

\* What an action leaves as it is.
LEMMA Changes ==
  ASSUME NEW X,
         \A s \in Slots, a \in Addresses : Addressed(s, a) \in X \/ page'[s][a] = page[s][a],
         \A s \in Slots, d \in Dirs : Table(s, d) \in X \/ dir'[s][d] = dir[s][d],
         \A s \in Slots : TaskOf(s) \in X \/ task'[s] = task[s],
         \A s \in Slots : HandOf(s) \in X \/ hand'[s] = hand[s]
  PROVE  SameBut(X, Named, Named')
BY UsesAre, Names, NamesNext DEF SameBut

LEMMA SpaceIs ==
  ASSUME NEW s \in Slots
  PROVE  /\ \A t \in Slots, a \in Addresses : Addressed(t, a) \in Space(s) <=> t = s
         /\ \A t \in Slots, d \in Dirs : Table(t, d) \in Space(s) <=> t = s
         /\ \A t \in Slots : TaskOf(t) \notin Space(s) /\ HandOf(t) \notin Space(s)
         /\ Space(s) \subseteq Uses
BY UsesAre DEF Space, Addressed, Table, TaskOf, HandOf

\* The addresses that copy_page_tables comes to share.
Shared(s) == {a \in Addresses : a[1] \in Copied(s) /\ page[s][a] # NoPage}

\* What it makes of the two address spaces.
LEMMA Copy ==
  ASSUME Types, NEW s \in Slots, NEW u \in Slots, s # u, CopyPageTables(s, u),
         UNCHANGED <<task, hand>>
  PROVE  /\ dir' \in [Slots -> [Dirs -> AllPages]]
         /\ page' \in [Slots -> [Addresses -> AllPages]]
         /\ SameBut(Space(u), Named, Named')
         /\ \A d \in Dirs : Named'[Table(u, d)] =
              IF d \in Copied(s) THEN TableFor(s, d) ELSE NoPage
         /\ \A a \in Addresses : Named'[Addressed(u, a)] =
              IF a \in Shared(s) THEN Named[Addressed(s, a)] ELSE NoPage
         /\ writable' = {w \in writable :
              ~(w[1] = s /\ w[2] \in Shared(s) /\ page[s][w[2]] \in Pages)}
         /\ mem_map' = [p \in Pages |->
              IF p \in {TableFor(s, d) : d \in Copied(s)}
                THEN 1 ELSE mem_map[p] + Cardinality(AddressesOf(s, p) \cap Shared(s))]
<1>1. /\ dir' = [dir EXCEPT ![u] =
           [d \in Dirs |-> IF d \in Copied(s) THEN TableFor(s, d) ELSE NoPage]]
      /\ page' = [page EXCEPT ![u] =
           [a \in Addresses |-> IF a \in Shared(s) THEN page[s][a] ELSE NoPage]]
      /\ mem_map' = [p \in Pages |->
           IF p \in {TableFor(s, d) : d \in Copied(s)}
             THEN 1 ELSE mem_map[p] + Cardinality(AddressesOf(s, p) \cap Shared(s))]
  BY DEF CopyPageTables, Shared
<1>2. writable' = writable \ {<<s, a>> : a \in {b \in Shared(s) : page[s][b] \in Pages}}
  BY DEF CopyPageTables, Shared
<1>3. writable' = {w \in writable :
        ~(w[1] = s /\ w[2] \in Shared(s) /\ page[s][w[2]] \in Pages)}
  BY <1>2 DEF Types
<1>4. \A d \in Copied(s) : TableFor(s, d) \in AllPages
  BY TablesToCopyInto DEF AllPages
<1>5. NoPage \in AllPages
  BY DEF AllPages
<1>6. dir' \in [Slots -> [Dirs -> AllPages]]
  BY <1>1, <1>4, <1>5 DEF Types
<1>7. page' \in [Slots -> [Addresses -> AllPages]]
  BY <1>1, <1>5 DEF Types
<1>8. /\ \A t \in Slots \ {u} : dir'[t] = dir[t] /\ page'[t] = page[t]
      /\ \A d \in Dirs : dir'[u][d] = IF d \in Copied(s) THEN TableFor(s, d) ELSE NoPage
      /\ \A a \in Addresses : page'[u][a] = IF a \in Shared(s) THEN page[s][a] ELSE NoPage
  BY <1>1 DEF Types
<1>9. SameBut(Space(u), Named, Named')
  BY <1>8, SpaceIs, Changes
<1>10. /\ \A d \in Dirs : Named'[Table(u, d)] =
            IF d \in Copied(s) THEN TableFor(s, d) ELSE NoPage
       /\ \A a \in Addresses : Named'[Addressed(u, a)] =
            IF a \in Shared(s) THEN Named[Addressed(s, a)] ELSE NoPage
  BY <1>8, Names, NamesNext
<1> QED
  BY <1>1, <1>3, <1>6, <1>7, <1>9, <1>10

\* The books after a copy into an empty address space.
LEMMA SpaceCopied ==
  ASSUME Types, Balanced, NEW s \in Slots, NEW u \in Slots, s # u,
         \A x \in Space(u) : Named[x] \notin Pages,
         \A a \in Addresses : <<u, a>> \notin writable,
         CopyPageTables(s, u), UNCHANGED <<task, hand>>
  PROVE  Balanced'
<1> DEFINE tables == {TableFor(s, d) : d \in Copied(s)}
<1>1. \A d \in Copied(s) :
        /\ d \in Dirs /\ TableFor(s, d) \in Pages
        /\ mem_map[TableFor(s, d)] = 0
        /\ \A x \in Uses : Named[x] # TableFor(s, d)
  <2> TAKE d \in Copied(s)
  <2>1. d \in Dirs /\ TableFor(s, d) \in Pages /\ mem_map[TableFor(s, d)] = 0
    BY TablesToCopyInto DEF Free
  <2> QED
    BY <2>1, FreeIsUnused DEF Balanced
<1>2. Space(u) \in SUBSET Uses /\ SameBut(Space(u), Named, Named')
  BY SpaceIs, Copy
<1>3. \A x \in Uses : Named'[x] \in Pages =>
        \/ \E d \in Copied(s) : x = Table(u, d) /\ Named'[x] = TableFor(s, d)
        \/ x \notin Space(u) /\ Named[x] = Named'[x]
        \/ \E a \in Shared(s) : x = Addressed(u, a) /\ Named[Addressed(s, a)] = Named'[x]
  <2> SUFFICES ASSUME NEW x \in Uses, Named'[x] \in Pages, x \in Space(u)
               PROVE  \/ \E d \in Copied(s) : x = Table(u, d) /\ Named'[x] = TableFor(s, d)
                      \/ \E a \in Shared(s) :
                           x = Addressed(u, a) /\ Named[Addressed(s, a)] = Named'[x]
    BY <1>2 DEF SameBut
  <2>1. CASE \E a \in Addresses : x = Addressed(u, a)
    BY <2>1, Copy, Constants
  <2>2. CASE \E d \in Dirs : x = Table(u, d)
    BY <2>2, Copy, Constants
  <2> QED
    BY <2>1, <2>2 DEF Space
<1>4. \A q \in Pages : mem_map'[q] = Cardinality(Using(Named', q)) /\ mem_map'[q] \in Nat
  <2> TAKE q \in Pages
  <2>1. mem_map[q] = Cardinality(Using(Named, q)) /\ mem_map[q] \in Nat
    BY FreeIsUnused DEF Balanced, Books
  <2>2. Using(Named, q) \cap Space(u) = {}
    BY DEF Using
  <2>3. Cardinality(Using(Named, q) \cap Space(u)) = 0
    BY <2>2, FS_EmptySet
  <2>4. /\ Cardinality(Using(Named', q)) \in Nat
        /\ Cardinality(Using(Named', q) \cap Space(u)) \in Nat
        /\ Cardinality(Using(Named', q)) =
             mem_map[q] + Cardinality(Using(Named', q) \cap Space(u))
    <3> DEFINE f == Named
               g == Named'
               X == Space(u)
    <3>1. X \in SUBSET Uses /\ SameBut(X, f, g)
      BY <1>2
    <3> HIDE DEF f, g, X
    <3>2. /\ Cardinality(Using(g, q)) \in Nat
          /\ Cardinality(Using(g, q) \cap X) \in Nat
          /\ Cardinality(Using(g, q)) =
               Cardinality(Using(f, q)) - Cardinality(Using(f, q) \cap X)
                 + Cardinality(Using(g, q) \cap X)
      BY <3>1, Recount
    <3> QED
      BY <3>2, <2>1, <2>3 DEF f, g, X
  <2>5. CASE q \in tables
    <3>1. PICK d \in Copied(s) : q = TableFor(s, d)
      BY <2>5
    <3>2. Using(Named', q) \cap Space(u) = {Table(u, d)}
      <4>1. Table(u, d) \in Uses /\ Table(u, d) \in Space(u) /\ Named'[Table(u, d)] = q
        BY <1>1, <3>1, Copy, SpaceIs, UsesAre
      <4>2. \A x \in Using(Named', q) \cap Space(u) : x = Table(u, d)
        <5> TAKE x \in Using(Named', q) \cap Space(u)
        <5>1. x \in Uses /\ Named'[x] = q /\ x \in Space(u)
          BY DEF Using
        <5>2. CASE \E e \in Copied(s) : x = Table(u, e) /\ Named'[x] = TableFor(s, e)
          BY <5>1, <5>2, <3>1, TablesToCopyInto
        <5>3. CASE \E a \in Shared(s) :
                     x = Addressed(u, a) /\ Named[Addressed(s, a)] = Named'[x]
          BY <5>1, <5>3, <3>1, <1>1, UsesAre DEF Shared
        <5> QED
          BY <5>1, <5>2, <5>3, <1>3
      <4> QED
        BY <4>1, <4>2 DEF Using
    <3>3. Cardinality(Using(Named', q) \cap Space(u)) = 1
      BY <3>2, FS_Singleton
    <3>4. mem_map'[q] = 1 /\ mem_map[q] = 0
      BY <2>5, <3>1, <1>1, Copy
    <3> QED
      BY <2>4, <3>3, <3>4
  <2>6. CASE q \notin tables
    <3>1. Tags(Using(Named', q) \cap Space(u), AddressesOf(s, q) \cap Shared(s), "address", u)
      <4>1. \A x \in Using(Named', q) \cap Space(u) :
              \E a \in AddressesOf(s, q) \cap Shared(s) : x = Addressed(u, a)
        <5> TAKE x \in Using(Named', q) \cap Space(u)
        <5>1. x \in Uses /\ Named'[x] = q /\ x \in Space(u)
          BY DEF Using
        <5>2. PICK a \in Shared(s) : x = Addressed(u, a) /\ Named[Addressed(s, a)] = q
          BY <5>1, <1>3, <2>6
        <5>3. a \in AddressesOf(s, q)
          BY <5>2, Names DEF AddressesOf, Shared
        <5> QED
          BY <5>2, <5>3
      <4>2. \A a \in AddressesOf(s, q) \cap Shared(s) :
              Addressed(u, a) \in Using(Named', q) \cap Space(u)
        BY Copy, Names, UsesAre, SpaceIs DEF Using, AddressesOf
      <4> QED
        BY <4>1, <4>2 DEF Tags, Addressed
    <3>2. IsFiniteSet(AddressesOf(s, q) \cap Shared(s))
      <4>1. AddressesOf(s, q) \cap Shared(s) \subseteq Addresses
        BY DEF AddressesOf
      <4> QED
        BY <4>1, Constants, FS_Subset
    <3>3. Cardinality(Using(Named', q) \cap Space(u)) =
            Cardinality(AddressesOf(s, q) \cap Shared(s))
      BY <3>1, <3>2, Tagged
    <3>4. mem_map'[q] = mem_map[q] + Cardinality(AddressesOf(s, q) \cap Shared(s))
      BY <2>6, Copy
    <3> QED
      BY <2>4, <3>3, <3>4
  <2> QED
    BY <2>5, <2>6
<1>5. mem_map' \in [Pages -> Nat]
  <2>1. mem_map' = [q \in Pages |-> mem_map'[q]]
    BY Copy
  <2> QED
    BY <1>4, <2>1
<1>6. Sharing(Named')
  <2> SUFFICES ASSUME NEW x \in Uses, NEW y \in Uses,
                      Named'[x] \in Pages, Named'[x] = Named'[y], x # y
               PROVE  \E t, v \in Slots, a \in Addresses :
                        x = Addressed(t, a) /\ y = Addressed(v, a)
    BY DEF Sharing
  <2>1. CASE \E d \in Copied(s) : x = Table(u, d) /\ Named'[x] = TableFor(s, d)
    BY <2>1, <1>1, <1>3, UsesAre, TablesToCopyInto DEF Shared
  <2>2. CASE \E d \in Copied(s) : y = Table(u, d) /\ Named'[y] = TableFor(s, d)
    BY <2>2, <1>1, <1>3, UsesAre, TablesToCopyInto DEF Shared
  <2>3. CASE /\ ~(\E d \in Copied(s) : x = Table(u, d) /\ Named'[x] = TableFor(s, d))
             /\ ~(\E d \in Copied(s) : y = Table(u, d) /\ Named'[y] = TableFor(s, d))
    <3>1. \/ Named[x] = Named'[x]
          \/ \E a \in Addresses : x = Addressed(u, a) /\ Named[Addressed(s, a)] = Named'[x]
      BY <2>3, <1>3 DEF Shared
    <3>2. \/ Named[y] = Named'[y]
          \/ \E a \in Addresses : y = Addressed(u, a) /\ Named[Addressed(s, a)] = Named'[y]
      BY <2>3, <1>3 DEF Shared
    <3>3. PICK z \in Uses : /\ Named[z] = Named'[x]
                            /\ z = x \/ \E a \in Addresses : x = Addressed(u, a) /\ z = Addressed(s, a)
      BY <3>1, UsesAre
    <3>4. PICK w \in Uses : /\ Named[w] = Named'[y]
                            /\ w = y \/ \E a \in Addresses : y = Addressed(u, a) /\ w = Addressed(s, a)
      BY <3>2, UsesAre
    <3>5. z = w \/ \E t, v \in Slots, a \in Addresses : z = Addressed(t, a) /\ w = Addressed(v, a)
      BY <3>3, <3>4 DEF Balanced, Books, Sharing
    <3>6. \E t, v \in Slots, a \in Addresses : z = Addressed(t, a) /\ w = Addressed(v, a)
      BY <3>3, <3>4, <3>5
    <3>7. PICK t \in Slots, v \in Slots, a \in Addresses : z = Addressed(t, a) /\ w = Addressed(v, a)
      BY <3>6
    <3>8. x = z \/ x = Addressed(u, a)
      BY <3>3, <3>7 DEF Addressed
    <3>9. y = w \/ y = Addressed(u, a)
      BY <3>4, <3>7 DEF Addressed
    <3> QED
      BY <3>7, <3>8, <3>9
  <2> QED
    BY <2>1, <2>2, <2>3
<1>7. Writing(Named', writable')
  <2> SUFFICES ASSUME NEW t \in Slots, NEW a \in Addresses, <<t, a>> \in writable',
                      Named'[Addressed(t, a)] \in Pages,
                      NEW x \in Uses, Named'[x] = Named'[Addressed(t, a)]
               PROVE  x = Addressed(t, a)
    BY DEF Writing
  <2>1. <<t, a>> \in writable /\ ~(t = s /\ a \in Shared(s) /\ page[s][a] \in Pages)
    BY Copy
  <2>2. t # u
    BY <2>1
  <2>3. Named[Addressed(t, a)] = Named'[Addressed(t, a)]
    BY <2>2, <1>2, SpaceIs, UsesAre DEF SameBut
  <2>4. \A y \in Uses : Named[y] = Named[Addressed(t, a)] => y = Addressed(t, a)
    BY <2>1, <2>3 DEF Balanced, Books, Writing
  <2>5. CASE \E d \in Copied(s) : x = Table(u, d) /\ Named'[x] = TableFor(s, d)
    BY <2>5, <2>3, <1>1, UsesAre
  <2>6. CASE Named[x] = Named'[x]
    BY <2>3, <2>4, <2>6
  <2>7. CASE \E b \in Shared(s) : x = Addressed(u, b) /\ Named[Addressed(s, b)] = Named'[x]
    <3>1. PICK b \in Shared(s) : x = Addressed(u, b) /\ Named[Addressed(s, b)] = Named'[x]
      BY <2>7
    <3>2. b \in Addresses
      BY DEF Shared
    <3>3. Addressed(s, b) = Addressed(t, a)
      BY <3>1, <3>2, <2>3, <2>4, UsesAre
    <3>4. t = s /\ a = b
      BY <3>3 DEF Addressed
    <3> QED
      BY <3>1, <3>4, <2>1, <2>3, Names
  <2> QED
    BY <1>3, <2>5, <2>6, <2>7
<1> QED
  BY <1>4, <1>5, <1>6, <1>7 DEF Balanced, Books

-----------------------------------------------------------------------------
(* The inductive invariant. *)

\* A task that may run.
Live(s) ==
  task[s] # NoPage /\ s \notin zombie /\ \A t \in Slots : Forking(t) => child[t] # s

\* A slot that should not have an address space.
Empty(s) ==
  task[s] = NoPage \/ s \in zombie \/ \E t \in Slots : at[t] = "fork" /\ child[t] = s

\* Forks have slots of their own, with a task in each.
Forks ==
  /\ \A s \in Slots : Forking(s) => task[child[s]] # NoPage /\ child[s] \notin zombie
  /\ \A s, t \in Slots : Forking(s) /\ Forking(t) /\ child[s] = child[t] => s = t

\* Only a task that may run is in the middle of something.
Still == \A s \in Slots : at[s] = "idle" \/ Live(s)

Clean ==
  \A s \in Slots : Empty(s) =>
    (\A d \in Dirs : dir[s][d] = NoPage) /\ \A a \in Addresses : page[s][a] = NoPage

\* A task that reads a file has a page for it, and a place to put it.
Reads ==
  \A s \in Slots :
    /\ at[s] # "read" => hand[s] = NoPage
    /\ at[s] = "read" =>
         hand[s] \in Pages /\ address[s] \in Addresses /\ page[s][address[s]] = NoPage

Zombies == \A s \in zombie : task[s] # NoPage

WritersMapped ==
  \A s \in Slots, a \in Addresses : <<s, a>> \in writable => page[s][a] # NoPage

Control == Forks /\ Still /\ Clean /\ Reads /\ Zombies /\ WritersMapped

Inv == Types /\ Balanced /\ Control

\* A set of natural numbers has a least element, which Min names.
LEMMA MinIsLeast ==
  ASSUME NEW S \in SUBSET Nat, S # {}
  PROVE  Min(S) \in S
<1>1. PICK x \in S : \A y \in S : ~(<<y, x>> \in OpToRel(<, Nat))
  BY NatLessThanWellFounded, WFMin
<1>2. \A m, n \in Nat : m < n => <<m, n>> \in OpToRel(<, Nat)
  BY DEF OpToRel
<1> HIDE DEF OpToRel
<1>3. \A y \in S : x <= y
  <2> TAKE y \in S
  <2>1. x \in Nat /\ y \in Nat /\ ~(y < x)
    BY <1>1, <1>2
  <2> QED
    BY <2>1
<1> QED
  BY <1>3 DEF Min

LEMMA LowIsLow == Low \in LowPages /\ Low \notin Pages /\ Low # NoPage
BY MinIsLeast, Constants, MemoryAssumption DEF Low

LEMMA InvInit == Init => Inv
<1> SUFFICES ASSUME Init
             PROVE  Inv
  OBVIOUS
<1>1. Types
  <2>1. Low \in AllPages /\ NoPage \in AllPages 
    BY Constants, LowIsLow DEF AllPages
  <2>2. /\ dir \in [Slots -> [Dirs -> AllPages]]
        /\ page \in [Slots -> [Addresses -> AllPages]]
        /\ task \in [Slots -> AllPages] /\ hand \in [Slots -> AllPages]
    BY <2>1, Constants, LowIsLow DEF Init, AllPages
  <2>3. /\ mem_map \in [Pages -> Nat]
        /\ zombie \subseteq Slots /\ wild \in BOOLEAN
    BY DEF Init
  <2>4. /\ at \in [Slots -> Places] /\ child \in [Slots -> Slots]
        /\ address \in [Slots -> Addresses \cup {<<>>}]
    BY Constants DEF Init, Places
  <2>5. writable \subseteq Slots \X Addresses
    BY Constants DEF Init
  <2> QED
    BY <2>2, <2>3, <2>4, <2>5 DEF Types
<1>2. Balanced
  <2>1. \A x \in Uses : Named[x] \notin Pages
    <3>1. /\ \A s \in Slots, d \in Dirs : dir[s][d] \notin Pages
          /\ \A s \in Slots, a \in Addresses : page[s][a] \notin Pages
          /\ \A s \in Slots : task[s] \notin Pages /\ hand[s] \notin Pages
      BY Constants, LowIsLow DEF Init
    <3> QED
      BY <3>1, UsesAre, Names
  <2>2. \A p \in Pages : mem_map[p] = Cardinality(Using(Named, p))
    <3> TAKE p \in Pages
    <3>1. Using(Named, p) = {}
      BY <2>1 DEF Using
    <3>2. mem_map[p] = 0
      BY DEF Init
    <3> QED
      BY <3>1, <3>2, FS_EmptySet
  <2>3. Sharing(Named) /\ Writing(Named, writable)
    BY <2>1, UsesAre DEF Sharing, Writing
  <2> QED
    BY <1>1, <2>2, <2>3 DEF Balanced, Books, Types
<1>3. Control
  <2>1. Forks /\ Still /\ Reads /\ Zombies
    BY DEF Init, Forks, Still, Reads, Zombies, Forking
  <2>2. Clean
    BY LowIsLow DEF Init, Clean, Empty
  <2>3. WritersMapped
    BY LowIsLow DEF Init, WritersMapped
  <2> QED
    BY <2>1, <2>2, <2>3 DEF Control
<1> QED
  BY <1>1, <1>2, <1>3 DEF Inv

LEMMA BooksAgree ==
  ASSUME NEW map, NEW f, NEW W, Books(map, f, W), NEW g, \A x \in Uses : g[x] = f[x]
  PROVE  Books(map, g, W)
<1>1. \A p : Using(g, p) = Using(f, p)
  BY DEF Using
<1> QED
  BY <1>1, UsesAre DEF Books, Sharing, Writing

LEMMA SameBooks ==
  ASSUME Balanced, UNCHANGED <<mem_map, dir, page, writable, task, hand>>
  PROVE  Balanced'
<1>1. SameBut({}, Named, Named')
  BY Changes
<1>2. \A x \in Uses : Named'[x] = Named[x]
  BY <1>1 DEF SameBut
<1> QED
  BY <1>2, BooksAgree DEF Balanced

\* An action that changes what slot one task, which may run, has in mind.
LEMMA MindKeeps ==
  ASSUME Inv, NEW s \in Slots, Live(s),
         ~Forking(s), Forking(s)' = FALSE, at[s] # "read", at'[s] # "read",
         at' \in [Slots -> Places], child' \in [Slots -> Slots],
         \A t \in Slots \ {s} : at'[t] = at[t] /\ child'[t] = child[t],
         UNCHANGED <<mem_map, dir, page, writable, task, zombie, hand, address, wild>>
  PROVE  Inv'
<1>1. /\ Types /\ Balanced /\ Forks /\ Still /\ Clean /\ Reads /\ Zombies /\ WritersMapped
      /\ \A t \in Slots : child[t] \in Slots
  BY DEF Inv, Types, Control
<1>2. Balanced'
  BY <1>1, SameBooks
<1>3. Types'
  BY <1>1 DEF Types
<1>4. \A t \in Slots : Forking(t)' => Forking(t) /\ t # s /\ child'[t] = child[t]
  BY DEF Forking
<1>5. \A t \in Slots : Forking(t) => Forking(t)' /\ t # s /\ child'[t] = child[t]
  BY DEF Forking
<1>6. Forks' /\ Zombies'
  BY <1>1, <1>4 DEF Forks, Zombies
<1>7. \A t \in Slots : Live(t) => Live(t)'
  BY <1>4 DEF Live
<1>8. Still'
  BY <1>1, <1>7 DEF Still
<1>9. \A t \in Slots : Empty(t)' => Empty(t)
  <2>1. \A r \in Slots : at'[r] = "fork" => at[r] = "fork" /\ child'[r] = child[r]
    BY DEF Forking
  <2> QED
    BY <2>1 DEF Empty
<1>10. Clean'
  BY <1>1, <1>9 DEF Clean
<1>11. Reads' /\ WritersMapped'
  BY <1>1 DEF Reads, WritersMapped
<1> QED
  BY <1>2, <1>3, <1>6, <1>8, <1>10, <1>11 DEF Inv, Control

LEMMA FindEmptyKeeps ==
  ASSUME Inv, NEW s \in Slots, FindEmpty(s)
  PROVE  Inv'
<1>1. /\ Live(s) /\ at[s] = "idle" /\ EmptySlots # {}
      /\ UNCHANGED <<mem_map, dir, page, writable, task, zombie, hand, address, wild>>
  BY DEF FindEmpty, At, Running, Live
<1>2. EmptySlots \in SUBSET Nat /\ EmptySlots \subseteq Slots
  BY MemoryAssumption DEF EmptySlots
<1>3. Min(EmptySlots) \in Slots
  BY <1>1, <1>2, MinIsLeast
<1>4. at' = [at EXCEPT ![s] = "find"] /\ child' = [child EXCEPT ![s] = Min(EmptySlots)]
  BY DEF FindEmpty, GoTo
<1>5. /\ at' \in [Slots -> Places] /\ at'[s] = "find" /\ child' \in [Slots -> Slots]
      /\ \A t \in Slots \ {s} : at'[t] = at[t] /\ child'[t] = child[t]
  BY <1>3, <1>4 DEF Inv, Types, Places
<1>6. ~Forking(s) /\ Forking(s)' = FALSE
  BY <1>1, <1>5 DEF Forking
<1> QED
  BY <1>1, <1>5, <1>6, MindKeeps

\* With no page to be had, the fork fails.
LEMMA NoPageKeeps ==
  ASSUME Inv, NEW s \in Slots, TakeSlot(s), FreePage(mem_map) = NoPage
  PROVE  Inv'
<1>1. /\ Live(s) /\ at[s] = "find"
      /\ UNCHANGED <<mem_map, dir, page, writable, task, zombie, hand, address, wild>>
  BY DEF TakeSlot, At, Running, Live
<1>2. at' = [at EXCEPT ![s] = "idle"] /\ child' = [child EXCEPT ![s] = 0]
  BY DEF TakeSlot, GoTo
<1>3. /\ at' \in [Slots -> Places] /\ at'[s] = "idle" /\ child' \in [Slots -> Slots]
      /\ \A t \in Slots \ {s} : at'[t] = at[t] /\ child'[t] = child[t]
  BY <1>2, Constants DEF Inv, Types, Places
<1>4. ~Forking(s) /\ Forking(s)' = FALSE
  BY <1>1, <1>3 DEF Forking
<1> QED
  BY <1>1, <1>3, <1>4, MindKeeps

\* A fork takes a slot that is empty still.
LEMMA TakeSlotKeeps ==
  ASSUME Inv, NEW s \in Slots, TakeSlot(s),
         FreePage(mem_map) # NoPage, task[child[s]] = NoPage
  PROVE  Inv'
<1> DEFINE p == FreePage(mem_map)
           u == child[s]
<1>1. /\ Live(s) /\ at[s] = "find" /\ task[u] = NoPage /\ u # s /\ u \in Slots
      /\ Free(mem_map) # {}
      /\ UNCHANGED <<dir, page, writable, zombie, hand, address, wild>>
      /\ mem_map' = Taken(mem_map, p)
  <2>1. child[s] \in Slots
    BY DEF Inv, Types
  <2> QED
    BY <2>1 DEF TakeSlot, At, Running, Live, FreePage
<1>2. p \in Free(mem_map) /\ p \in Pages /\ p # NoPage /\ p \in AllPages
  BY <1>1, FreePageIsFree, Constants DEF Free, AllPages
<1> HIDE DEF p, u
<1>3. /\ at' = [at EXCEPT ![s] = "fork"] /\ task' = [task EXCEPT ![u] = p]
      /\ child' = child /\ u = child[s]
  BY <1>2 DEF TakeSlot, GoTo, p, u
<1>4. /\ at' \in [Slots -> Places] /\ at'[s] = "fork"
      /\ \A t \in Slots \ {s} : at'[t] = at[t]
      /\ task' \in [Slots -> AllPages] /\ task'[u] = p
      /\ \A t \in Slots \ {u} : task'[t] = task[t]
      /\ child' \in [Slots -> Slots] /\ child'[s] = u
      /\ \A t \in Slots \ {s} : child'[t] = child[t]
  BY <1>2, <1>3 DEF Inv, Types, Places
<1>5. Balanced'
  <2>1. SameBut({TaskOf(u)}, Named, Named') /\ Named'[TaskOf(u)] = p
    BY <1>1, <1>4, Changes, NamesNext
  <2>2. Named[TaskOf(u)] \notin Pages /\ TaskOf(u) \in Uses
    BY <1>1, Names, UsesAre, Constants
  <2> QED
    BY <1>1, <1>2, <2>1, <2>2, BooksTaken DEF Inv, Balanced
<1>6. Types'
  BY <1>1, <1>4, <1>5 DEF Inv, Types, Balanced, Books
<1>7. /\ Forks /\ Still /\ Clean /\ Reads /\ Zombies /\ WritersMapped
      /\ zombie \subseteq Slots /\ \A t \in Slots : child[t] \in Slots
      /\ u \notin zombie /\ at[u] = "idle" /\ \A t \in Slots : Forking(t) => child[t] # u
  BY <1>1 DEF Inv, Types, Control, Zombies, Still, Live, Forks
<1>8. /\ Forking(s)' /\ \A t \in Slots \ {s} : Forking(t)' <=> Forking(t)
      /\ ~Forking(s)
  BY <1>1, <1>4 DEF Forking
<1>9. Forks'
  BY <1>1, <1>2, <1>4, <1>7, <1>8 DEF Forks
<1>10. \A t \in Slots : Live(t) => Live(t)'
  BY <1>1, <1>2, <1>4, <1>7, <1>8 DEF Live
<1>11. Still'
  BY <1>1, <1>4, <1>7, <1>10 DEF Still
<1>12. \A t \in Slots : Empty(t)' => Empty(t)
  BY <1>1, <1>4 DEF Empty
<1>13. Clean'
  BY <1>1, <1>7, <1>12 DEF Clean
<1>14. Reads'
  BY <1>1, <1>4, <1>7 DEF Reads
<1>15. Zombies' /\ WritersMapped'
  BY <1>1, <1>2, <1>4, <1>7 DEF Zombies, WritersMapped
<1> QED
  BY <1>5, <1>6, <1>9, <1>11, <1>13, <1>14, <1>15 DEF Inv, Control

-----------------------------------------------------------------------------
(* Page faults. *)

\* A fault changes the address space and the place of a task that may run.
LEMMA FaultControl ==
  ASSUME Inv, NEW s \in Slots, Live(s),
         ~Forking(s), Forking(s)' = FALSE, UNCHANGED <<task, zombie, child>>,
         \A t \in Slots \ {s} : at'[t] = at[t] /\ page'[t] = page[t] /\ dir'[t] = dir[t],
         Reads', WritersMapped'
  PROVE  Control'
<1>1. /\ Forks /\ Still /\ Clean /\ Zombies
      /\ \A t \in Slots : child[t] \in Slots
  BY DEF Inv, Types, Control
<1>2. \A t \in Slots : Forking(t)' <=> Forking(t)
  BY DEF Forking
<1>3. Forks' /\ Zombies'
  BY <1>1, <1>2 DEF Forks, Zombies
<1>4. \A t \in Slots : Live(t) => Live(t)'
  BY <1>2 DEF Live
<1>5. Still'
  BY <1>1, <1>4 DEF Still
<1>6. \A t \in Slots : Empty(t)' => Empty(t) /\ t # s
  <2> SUFFICES ASSUME NEW t \in Slots, Empty(t)'
               PROVE  Empty(t) /\ t # s
    OBVIOUS
  <2>1. \A r \in Slots : at'[r] = "fork" => at[r] = "fork"
    BY DEF Forking
  <2>2. Empty(t)
    BY <2>1 DEF Empty
  <2>3. ~Empty(s)
    BY DEF Empty, Live, Forking
  <2> QED
    BY <2>2, <2>3
<1>7. Clean'
  BY <1>1, <1>6 DEF Clean
<1> QED
  BY <1>3, <1>5, <1>7 DEF Control

\* What put_page changes.
LEMMA PutPageChanges ==
  ASSUME Types, NEW s \in Slots, NEW a \in Addresses, NEW p \in AllPages, NEW map,
         ~PutFails(s, a, map), PutPage(s, a, p, map)
  PROVE  /\ page' \in [Slots -> [Addresses -> AllPages]]
         /\ dir' \in [Slots -> [Dirs -> AllPages]]
         /\ writable' = writable \cup {<<s, a>>}
         /\ page'[s][a] = p
         /\ \A t \in Slots, b \in Addresses : t # s \/ b # a => page'[t][b] = page[t][b]
         /\ \A t \in Slots, d \in Dirs : t # s \/ d # a[1] => dir'[t][d] = dir[t][d]
         /\ \A t \in Slots \ {s} : page'[t] = page[t] /\ dir'[t] = dir[t]
         /\ \/ /\ NeedsTable(s, a) /\ FreePage(map) \in Free(map)
               /\ mem_map' = Taken(map, FreePage(map)) /\ dir'[s][a[1]] = FreePage(map)
            \/ /\ ~NeedsTable(s, a)
               /\ mem_map' = map /\ dir'[s][a[1]] = dir[s][a[1]]
<1>1. page' = [page EXCEPT ![s][a] = p] /\ writable' = writable \cup {<<s, a>>}
  BY DEF PutPage
<1>2. /\ page' \in [Slots -> [Addresses -> AllPages]]
      /\ page'[s][a] = p
      /\ \A t \in Slots, b \in Addresses : t # s \/ b # a => page'[t][b] = page[t][b]
      /\ \A t \in Slots \ {s} : page'[t] = page[t]
  BY <1>1 DEF Types
<1>3. a[1] \in Dirs
  BY Constants
<1>4. CASE NeedsTable(s, a)
  <2>1. FreePage(map) \in Free(map)
    BY <1>4, FreePageIsFree DEF PutFails
  <2>2. FreePage(map) \in AllPages
    BY <2>1 DEF Free, AllPages
  <2>3. mem_map' = Taken(map, FreePage(map)) /\ dir' = [dir EXCEPT ![s][a[1]] = FreePage(map)]
    BY <1>4 DEF PutPage
  <2>4. /\ dir' \in [Slots -> [Dirs -> AllPages]] /\ dir'[s][a[1]] = FreePage(map)
        /\ \A t \in Slots, d \in Dirs : t # s \/ d # a[1] => dir'[t][d] = dir[t][d]
        /\ \A t \in Slots \ {s} : dir'[t] = dir[t]
    BY <1>3, <2>2, <2>3 DEF Types
  <2> QED
    BY <1>1, <1>2, <1>4, <2>1, <2>3, <2>4
<1>5. CASE ~NeedsTable(s, a)
  <2>1. mem_map' = map /\ dir' = dir
    BY <1>5 DEF PutPage
  <2> QED
    BY <1>1, <1>2, <1>3, <1>5, <2>1 DEF Types
<1> QED
  BY <1>4, <1>5

\* The books after put_page, from what they are without the page table.
LEMMA PutPageBooks ==
  ASSUME Types, NEW s \in Slots, NEW a \in Addresses, NEW p \in AllPages, NEW map, NEW f,
         ~PutFails(s, a, map), PutPage(s, a, p, map),
         Books(map, f, writable \cup {<<s, a>>}),
         f[Table(s, a[1])] = dir[s][a[1]], SameBut({Table(s, a[1])}, f, Named')
  PROVE  Balanced'
<1> DEFINE x == Table(s, a[1])
           g == Named'
           V == writable \cup {<<s, a>>}
           q == FreePage(map)
<1>1. x \in Uses /\ g[x] = dir'[s][a[1]] /\ V = writable'
  <2>1. a[1] \in Dirs
    BY Constants
  <2>2. x \in Uses /\ g[x] = dir'[s][a[1]]
    BY <2>1, UsesAre, NamesNext
  <2>3. V = writable'
    BY DEF PutPage
  <2> QED
    BY <2>2, <2>3
<1>2. SameBut({x}, f, g) /\ Books(map, f, V) /\ f[x] = dir[s][a[1]]
  OBVIOUS
<1> HIDE DEF x, g, V, q
<1>3. Books(mem_map', g, V)
  <2>1. CASE /\ NeedsTable(s, a) /\ q \in Free(map)
             /\ mem_map' = Taken(map, q) /\ dir'[s][a[1]] = q
    <3>1. f[x] \notin Pages
      BY <2>1, <1>2, Constants DEF NeedsTable
    <3>2. g[x] = q
      BY <1>1, <2>1
    <3>3. Books(Taken(map, q), g, V)
      BY <1>1, <1>2, <2>1, <3>1, <3>2, BooksTaken
    <3> QED
      BY <2>1, <3>3
  <2>2. CASE ~NeedsTable(s, a) /\ mem_map' = map /\ dir'[s][a[1]] = dir[s][a[1]]
    <3>1. \A y \in Uses : g[y] = f[y]
      BY <1>1, <1>2, <2>2 DEF SameBut
    <3> QED
      BY <1>2, <2>2, <3>1, BooksAgree
  <2> QED
    BY <2>1, <2>2, PutPageChanges DEF q
<1> QED
  BY <1>1, <1>3 DEF Balanced, g

LEMMA Parts ==
  Inv => /\ Types /\ Balanced /\ Forks /\ Still /\ Clean /\ Reads /\ Zombies /\ WritersMapped
         /\ \A t \in Slots : Live(t) => ~Empty(t)
BY DEF Inv, Control, Live, Empty, Forking

LEMMA AtIs ==
  ASSUME Types, NEW s \in Slots, NEW where, At(s, where)
  PROVE  Live(s) /\ at[s] = where
BY DEF At, Running, Live

\* A task goes on, or into oom().
LEMMA GoToIs ==
  ASSUME Types, NEW s \in Slots, NEW where \in Places, GoTo(s, where)
  PROVE  /\ at' \in [Slots -> Places] /\ at'[s] = where
         /\ \A t \in Slots \ {s} : at'[t] = at[t]
BY DEF Types, GoTo

LEMMA GetEmptyPageKeeps ==
  ASSUME Inv, NEW s \in Slots, NEW a \in Addresses, GetEmptyPage(s, a)
  PROVE  Inv'
<1> DEFINE p == FreePage(mem_map)
           map == Taken(mem_map, p)
<1>1. /\ Types /\ Balanced /\ Reads /\ WritersMapped
      /\ Live(s) /\ at[s] = "idle" /\ page[s][a] = NoPage /\ ~Forking(s)
      /\ UNCHANGED <<task, zombie, child, hand, address, wild>>
  BY Parts DEF GetEmptyPage, At, Running, Live, Forking
<1>2. CASE GoTo(s, "oom") /\ UNCHANGED <<mem_map, dir, page, writable>>
  <2>1. /\ at' \in [Slots -> Places] /\ at'[s] = "oom"
        /\ \A t \in Slots \ {s} : at'[t] = at[t]
    BY <1>1, <1>2, GoToIs DEF Places
  <2>2. Balanced'
    BY <1>1, <1>2, SameBooks
  <2>3. Types'
    BY <1>1, <1>2, <2>1 DEF Types
  <2>4. Reads'
    BY <1>1, <1>2, <2>1 DEF Reads
  <2>5. WritersMapped'
    BY <1>1, <1>2 DEF WritersMapped
  <2>6. Forking(s)' = FALSE
    BY <2>1 DEF Forking
  <2> QED
    BY <1>1, <1>2, <2>1, <2>2, <2>3, <2>4, <2>5, <2>6, FaultControl DEF Inv
<1>3. CASE p # NoPage /\ ~PutFails(s, a, map) /\ PutPage(s, a, p, map) /\ UNCHANGED at
  <2>1. Free(mem_map) # {}
    BY <1>3 DEF FreePage
  <2>2. p \in Free(mem_map) /\ p \in Pages /\ p \in AllPages
    BY <2>1, FreePageIsFree DEF Free, AllPages
  <2> HIDE DEF p, map
  <2>3. /\ page' \in [Slots -> [Addresses -> AllPages]]
        /\ dir' \in [Slots -> [Dirs -> AllPages]]
        /\ writable' = writable \cup {<<s, a>>}
        /\ page'[s][a] = p
        /\ \A t \in Slots, b \in Addresses : t # s \/ b # a => page'[t][b] = page[t][b]
        /\ \A t \in Slots, d \in Dirs : t # s \/ d # a[1] => dir'[t][d] = dir[t][d]
        /\ \A t \in Slots \ {s} : page'[t] = page[t] /\ dir'[t] = dir[t]
    BY <1>1, <1>3, <2>2, PutPageChanges
  <2> DEFINE f == [x \in Uses |-> IF x = Addressed(s, a) THEN p ELSE Named[x]]
  <2>4. /\ Addressed(s, a) \in Uses /\ f[Addressed(s, a)] = p
        /\ SameBut({Addressed(s, a)}, Named, f)
        /\ Named[Addressed(s, a)] \notin Pages
    BY <1>1, UsesAre, Names, Constants DEF SameBut
  <2>5. f[Table(s, a[1])] = dir[s][a[1]] /\ SameBut({Table(s, a[1])}, f, Named')
    <3>1. a[1] \in Dirs /\ Table(s, a[1]) \in Uses /\ Table(s, a[1]) # Addressed(s, a)
      BY Constants, UsesAre DEF Addressed, Table
    <3>2. SameBut({Addressed(s, a), Table(s, a[1])}, Named, Named')
      BY <1>1, <2>3, Changes
    <3>3. Named'[Addressed(s, a)] = p
      BY <2>3, NamesNext
    <3>4. Named[Table(s, a[1])] = dir[s][a[1]]
      BY <3>1, Names
    <3> QED
      BY <2>4, <3>1, <3>2, <3>3, <3>4 DEF SameBut
  <2> HIDE DEF f
  <2>6. Books(map, f, writable \cup {<<s, a>>})
    <3>1. \A t \in Slots, b \in Addresses : <<t, b>> \in writable \cup {<<s, a>>} =>
             <<t, b>> \in writable \/ Addressed(s, a) = Addressed(t, b)
      OBVIOUS
    <3> QED
      BY <1>1, <2>2, <2>4, <3>1, BooksTaken DEF Balanced, map
  <2>7. Balanced'
    BY <1>1, <1>3, <2>2, <2>5, <2>6, PutPageBooks
  <2>8. Types'
    BY <1>1, <1>3, <2>3, <2>7 DEF Types, Balanced, Books
  <2>9. Reads'
    BY <1>1, <1>3, <2>3 DEF Reads
  <2>10. WritersMapped'
    BY <1>1, <2>2, <2>3, Constants DEF WritersMapped
  <2>11. Forking(s)' = FALSE
    BY <1>1, <1>3 DEF Forking
  <2> QED
    BY <1>1, <1>3, <2>3, <2>7, <2>8, <2>9, <2>10, <2>11, FaultControl DEF Inv
<1> QED
  BY <1>2, <1>3 DEF GetEmptyPage

LEMMA ReadPageKeeps ==
  ASSUME Inv, NEW s \in Slots, NEW a \in Addresses, ReadPage(s, a)
  PROVE  Inv'
<1> DEFINE p == FreePage(mem_map)
<1>1. /\ Types /\ Balanced /\ Reads /\ WritersMapped
      /\ Live(s) /\ at[s] = "idle" /\ page[s][a] = NoPage /\ ~Forking(s)
      /\ UNCHANGED <<dir, page, writable, task, zombie, child, wild>>
  BY Parts DEF ReadPage, At, Running, Live, Forking
<1>2. WritersMapped'
  BY <1>1 DEF WritersMapped
<1>3. CASE GoTo(s, "page0") /\ UNCHANGED <<mem_map, hand, address>>
  <2>1. /\ at' \in [Slots -> Places] /\ at'[s] = "page0"
        /\ \A t \in Slots \ {s} : at'[t] = at[t]
    BY <1>1, <1>3, GoToIs DEF Places
  <2>2. Balanced'
    BY <1>1, <1>3, SameBooks
  <2>3. Types'
    BY <1>1, <1>3, <2>1 DEF Types
  <2>4. Reads'
    BY <1>1, <1>3, <2>1 DEF Reads
  <2>5. Forking(s)' = FALSE
    BY <2>1 DEF Forking
  <2> QED
    BY <1>1, <1>2, <2>1, <2>2, <2>3, <2>4, <2>5, FaultControl DEF Inv
<1>4. CASE /\ p # NoPage
           /\ mem_map' = Taken(mem_map, p)
           /\ hand' = [hand EXCEPT ![s] = p]
           /\ address' = [address EXCEPT ![s] = a]
           /\ GoTo(s, "read")
  <2>1. Free(mem_map) # {}
    BY <1>4 DEF FreePage
  <2>2. p \in Free(mem_map) /\ p \in Pages /\ p \in AllPages
    BY <2>1, FreePageIsFree DEF Free, AllPages
  <2> HIDE DEF p
  <2>3. /\ at' \in [Slots -> Places] /\ at'[s] = "read"
        /\ \A t \in Slots \ {s} : at'[t] = at[t]
    BY <1>1, <1>4, GoToIs DEF Places
  <2>4. /\ hand' \in [Slots -> AllPages] /\ hand'[s] = p
        /\ \A t \in Slots \ {s} : hand'[t] = hand[t]
        /\ address' \in [Slots -> Addresses \cup {<<>>}] /\ address'[s] = a
        /\ \A t \in Slots \ {s} : address'[t] = address[t]
    BY <1>1, <1>4, <2>2 DEF Types
  <2>5. Balanced'
    <3>1. SameBut({HandOf(s)}, Named, Named')
      BY <1>1, <2>4, Changes
    <3>2. HandOf(s) \in Uses /\ Named'[HandOf(s)] = p /\ Named[HandOf(s)] \notin Pages
      BY <1>1, <2>4, UsesAre, Names, NamesNext, Constants DEF Reads
    <3> QED
      BY <1>1, <1>4, <2>2, <3>1, <3>2, BooksTaken DEF Balanced
  <2>6. Types'
    BY <1>1, <2>3, <2>4, <2>5 DEF Types, Balanced, Books
  <2>7. Reads'
    BY <1>1, <2>2, <2>3, <2>4 DEF Reads
  <2>8. Forking(s)' = FALSE
    BY <2>3 DEF Forking
  <2> QED
    BY <1>1, <1>2, <2>3, <2>5, <2>6, <2>7, <2>8, FaultControl DEF Inv
<1> QED
  BY <1>3, <1>4 DEF ReadPage

LEMMA PageReadKeeps ==
  ASSUME Inv, NEW s \in Slots, PageRead(s)
  PROVE  Inv'
<1> DEFINE a == address[s]
           p == hand[s]
<1>1. /\ Types /\ Balanced /\ Reads /\ WritersMapped
      /\ Live(s) /\ at[s] = "read" /\ ~Forking(s)
      /\ p \in Pages /\ p \in AllPages /\ a \in Addresses /\ page[s][a] = NoPage
      /\ UNCHANGED <<task, zombie, child, wild>>
  <2>1. Types /\ Balanced /\ Reads /\ WritersMapped
    BY Parts
  <2>2. Live(s) /\ at[s] = "read" /\ UNCHANGED <<task, zombie, child, wild>>
    BY DEF PageRead, At, Running, Live
  <2> QED
    BY <2>1, <2>2 DEF Reads, Forking, AllPages
<1>2. hand' = [hand EXCEPT ![s] = NoPage] /\ address' = [address EXCEPT ![s] = <<>>]
  BY DEF PageRead
<1>3. /\ hand' \in [Slots -> AllPages] /\ hand'[s] = NoPage
      /\ \A t \in Slots \ {s} : hand'[t] = hand[t]
      /\ address' \in [Slots -> Addresses \cup {<<>>}]
      /\ \A t \in Slots \ {s} : address'[t] = address[t]
  BY <1>1, <1>2 DEF Types, AllPages
<1>4. CASE mem_map' = Freed(mem_map, p) /\ GoTo(s, "oom") /\ UNCHANGED <<dir, page, writable>>
  <2>1. /\ at' \in [Slots -> Places] /\ at'[s] = "oom"
        /\ \A t \in Slots \ {s} : at'[t] = at[t]
    BY <1>1, <1>4, GoToIs DEF Places
  <2>2. Balanced'
    <3>1. SameBut({HandOf(s)}, Named, Named')
      BY <1>1, <1>3, <1>4, Changes
    <3>2. HandOf(s) \in Uses /\ Named'[HandOf(s)] \notin Pages /\ Named[HandOf(s)] = p
      BY <1>3, UsesAre, Names, NamesNext, Constants
    <3> QED
      BY <1>1, <1>4, <3>1, <3>2, BooksFreed DEF Balanced
  <2>3. Types'
    BY <1>1, <1>3, <1>4, <2>1, <2>2 DEF Types, Balanced, Books
  <2>4. Reads'
    BY <1>1, <1>3, <1>4, <2>1 DEF Reads
  <2>5. WritersMapped'
    BY <1>1, <1>4 DEF WritersMapped
  <2>6. Forking(s)' = FALSE
    BY <2>1 DEF Forking
  <2> QED
    BY <1>1, <1>4, <2>1, <2>2, <2>3, <2>4, <2>5, <2>6, FaultControl DEF Inv
<1>5. CASE ~PutFails(s, a, mem_map) /\ PutPage(s, a, p, mem_map) /\ GoTo(s, "idle")
  <2> HIDE DEF a, p
  <2>1. /\ at' \in [Slots -> Places] /\ at'[s] = "idle"
        /\ \A t \in Slots \ {s} : at'[t] = at[t]
    BY <1>1, <1>5, GoToIs DEF Places
  <2>2. /\ page' \in [Slots -> [Addresses -> AllPages]]
        /\ dir' \in [Slots -> [Dirs -> AllPages]]
        /\ writable' = writable \cup {<<s, a>>}
        /\ page'[s][a] = p
        /\ \A t \in Slots, b \in Addresses : t # s \/ b # a => page'[t][b] = page[t][b]
        /\ \A t \in Slots, d \in Dirs : t # s \/ d # a[1] => dir'[t][d] = dir[t][d]
        /\ \A t \in Slots \ {s} : page'[t] = page[t] /\ dir'[t] = dir[t]
    BY <1>1, <1>5, PutPageChanges
  <2> DEFINE f == [x \in Uses |-> IF x = Addressed(s, a) THEN p
                               ELSE IF x = HandOf(s) THEN NoPage ELSE Named[x]]
  <2>3. /\ Addressed(s, a) \in Uses /\ HandOf(s) \in Uses
        /\ \A t \in Slots, b \in Addresses : HandOf(s) # Addressed(t, b)
        /\ a[1] \in Dirs /\ Table(s, a[1]) \in Uses
        /\ Table(s, a[1]) # Addressed(s, a) /\ Table(s, a[1]) # HandOf(s)
    BY <1>1, Constants, UsesAre DEF Addressed, HandOf, Table
  <2>4. /\ f[Addressed(s, a)] = p /\ f[HandOf(s)] = NoPage
        /\ SameBut({HandOf(s), Addressed(s, a)}, Named, f)
    BY <1>1, <2>3 DEF SameBut
  <2>5. /\ Named[Addressed(s, a)] \notin Pages /\ Named[HandOf(s)] = p
        /\ Named[Table(s, a[1])] = dir[s][a[1]]
    BY <1>1, <2>3, Names, Constants DEF p
  <2>6. f[Table(s, a[1])] = dir[s][a[1]] /\ SameBut({Table(s, a[1])}, f, Named')
    <3>1. SameBut({HandOf(s), Addressed(s, a), Table(s, a[1])}, Named, Named')
      BY <1>1, <1>3, <2>2, Changes
    <3>2. Named'[Addressed(s, a)] = p /\ Named'[HandOf(s)] = NoPage
      BY <1>1, <1>3, <2>2, NamesNext
    <3> HIDE DEF f
    <3> QED
      BY <2>3, <2>4, <2>5, <3>1, <3>2 DEF SameBut
  <2> HIDE DEF f
  <2>7. Books(mem_map, f, writable \cup {<<s, a>>})
    <3>1. \A t \in Slots, b \in Addresses : <<t, b>> \in writable \cup {<<s, a>>} =>
             <<t, b>> \in writable \/ Addressed(s, a) = Addressed(t, b)
      OBVIOUS
    <3>2. Books(mem_map, Named, writable)
      BY <1>1 DEF Balanced
    <3> QED
      BY <1>1, <2>3, <2>4, <2>5, <3>1, <3>2, BooksMoved
  <2>8. Balanced'
    BY <1>1, <1>5, <2>6, <2>7, PutPageBooks
  <2>9. Types'
    BY <1>1, <1>3, <2>1, <2>2, <2>8 DEF Types, Balanced, Books
  <2>10. Reads'
    <3>1. \A t \in Slots \ {s} : /\ at'[t] = at[t] /\ hand'[t] = hand[t]
                                /\ address'[t] = address[t] /\ page'[t] = page[t]
      BY <1>3, <2>1, <2>2
    <3>2. at'[s] = "idle" /\ hand'[s] = NoPage
      BY <1>3, <2>1
    <3> QED
      BY <1>1, <3>1, <3>2 DEF Reads
  <2>11. WritersMapped'
    BY <1>1, <2>2, Constants DEF WritersMapped
  <2>12. Forking(s)' = FALSE
    BY <2>1 DEF Forking
  <2> QED
    BY <1>1, <2>1, <2>2, <2>8, <2>9, <2>10, <2>11, <2>12, FaultControl DEF Inv
<1> QED
  BY <1>4, <1>5 DEF PageRead

\* The books after un_wp_page: the only user may write, another one gets a copy.
LEMMA OnlyUserWrites ==
  ASSUME NEW map, NEW f, NEW W, Books(map, f, W), NEW s \in Slots, NEW a \in Addresses,
         OnlyUser(f[Addressed(s, a)]), mem_map = map
  PROVE  Books(map, f, W \cup {<<s, a>>})
<1> DEFINE p == f[Addressed(s, a)]
<1>1. p \in Pages /\ map[p] = 1 /\ Addressed(s, a) \in Using(f, p)
  BY UsesAre DEF OnlyUser, Using
<1>2. IsFiniteSet(Using(f, p)) /\ Cardinality(Using(f, p)) = 1
  <2>1. Using(f, p) \subseteq Uses
    BY DEF Using
  <2> QED
    BY <1>1, <2>1, UsesAreFinite, FS_Subset DEF Books
<1>3. PICK x : Using(f, p) = {x}
  BY <1>2, FS_Singleton
<1>4. \A y \in Uses : f[y] = p => y = Addressed(s, a)
  BY <1>1, <1>3 DEF Using
<1>5. Writing(f, W \cup {<<s, a>>})
  BY <1>4 DEF Books, Writing
<1> QED
  BY <1>5 DEF Books

LEMMA CopyIsWritten ==
  ASSUME NEW map, NEW f, NEW W, Books(map, f, W), NEW x \in Uses, NEW p \in Free(map),
         NEW g, g[x] = p, SameBut({x}, f, g), NEW h, h[x] = NoPage, SameBut({x}, f, h),
         NEW V, \A s \in Slots, a \in Addresses :
                  <<s, a>> \in V => <<s, a>> \in W \/ x = Addressed(s, a)
  PROVE  Books(Freed(Taken(map, p), f[x]), g, V)
<1> DEFINE freed == Freed(map, f[x])
<1>1. p \in Pages /\ map[p] = 0 /\ map \in [Pages -> Nat] /\ h[x] \notin Pages
  BY Constants DEF Free, Books
<1>2. f[x] # p
  BY <1>1, FreeIsUnused
<1>3. Books(freed, h, W)
  BY <1>1, BooksFreed
<1>4. freed[p] = 0
  BY <1>1, <1>2 DEF Freed
<1>5. Taken(freed, p) = Freed(Taken(map, p), f[x])
  BY <1>1, <1>2 DEF Freed, Taken
<1> HIDE DEF freed
<1>6. p \in Free(freed)
  BY <1>1, <1>4 DEF Free
<1>7. SameBut({x}, h, g)
  BY DEF SameBut
<1>8. Books(Taken(freed, p), g, V)
  BY <1>1, <1>3, <1>6, <1>7, BooksTaken
<1> QED
  BY <1>5, <1>8

LEMMA un_wp_pageKeeps ==
  ASSUME Inv, NEW s \in Slots, NEW a \in Addresses, un_wp_page(s, a)
  PROVE  Inv'
<1> DEFINE old == page[s][a]
           new == FreePage(mem_map)
<1>1. /\ Types /\ Balanced /\ Reads /\ WritersMapped
      /\ Live(s) /\ at[s] = "idle" /\ old # NoPage /\ ~Forking(s)
      /\ UNCHANGED <<dir, task, zombie, child, hand, address, wild>>
  BY Parts DEF un_wp_page, At, Running, Live, Forking
<1>2. /\ Named[Addressed(s, a)] = old /\ Addressed(s, a) \in Uses
      /\ Books(mem_map, Named, writable)
      /\ \A t \in Slots, b \in Addresses : <<t, b>> \in writable \cup {<<s, a>>} =>
           <<t, b>> \in writable \/ Addressed(s, a) = Addressed(t, b)
  BY <1>1, Names, UsesAre DEF Balanced
<1>3. CASE OnlyUser(old) /\ writable' = writable \cup {<<s, a>>} /\ UNCHANGED <<mem_map, page, at>>
  <2>1. Books(mem_map, Named, writable \cup {<<s, a>>})
    BY <1>2, <1>3, OnlyUserWrites
  <2>2. SameBut({}, Named, Named')
    BY <1>1, <1>3, Changes
  <2>3. \A x \in Uses : Named'[x] = Named[x]
    BY <2>2 DEF SameBut
  <2>4. Balanced'
    BY <1>3, <2>1, <2>3, BooksAgree DEF Balanced
  <2>5. Types'
    BY <1>1, <1>3 DEF Types
  <2>6. Reads'
    BY <1>1, <1>3 DEF Reads
  <2>7. WritersMapped'
    BY <1>1, <1>3 DEF WritersMapped
  <2>8. Forking(s)' = FALSE
    BY <1>1, <1>3 DEF Forking
  <2> QED
    BY <1>1, <1>3, <2>4, <2>5, <2>6, <2>7, <2>8, FaultControl DEF Inv
<1>4. CASE /\ new # NoPage
           /\ mem_map' = Freed(Taken(mem_map, new), old)
           /\ page' = [page EXCEPT ![s][a] = new]
           /\ writable' = writable \cup {<<s, a>>}
           /\ UNCHANGED at
  <2>1. Free(mem_map) # {}
    BY <1>4 DEF FreePage
  <2>2. new \in Free(mem_map) /\ new \in Pages /\ new \in AllPages
    BY <2>1, FreePageIsFree DEF Free, AllPages
  <2> HIDE DEF new
  <2>3. /\ page' \in [Slots -> [Addresses -> AllPages]] /\ page'[s][a] = new
        /\ \A t \in Slots, b \in Addresses : t # s \/ b # a => page'[t][b] = page[t][b]
        /\ \A t \in Slots \ {s} : page'[t] = page[t]
    BY <1>1, <1>4, <2>2 DEF Types
  <2>4. Balanced'
    <3> DEFINE x == Addressed(s, a)
               h == [y \in Uses |-> IF y = x THEN NoPage ELSE Named[y]]
    <3>1. x \in Uses /\ h[x] = NoPage /\ SameBut({x}, Named, h)
      BY <1>2 DEF SameBut
    <3>2. Named'[x] = new /\ SameBut({x}, Named, Named')
      BY <1>1, <2>3, Changes, NamesNext
    <3>3. \A t \in Slots, b \in Addresses : <<t, b>> \in writable' =>
            <<t, b>> \in writable \/ x = Addressed(t, b)
      BY <1>2, <1>4
    <3>4. mem_map' = Freed(Taken(mem_map, new), Named[x])
      BY <1>2, <1>4
    <3> HIDE DEF h, x, old
    <3>5. Books(Freed(Taken(mem_map, new), Named[x]), Named', writable')
      BY <1>2, <2>2, <3>1, <3>2, <3>3, CopyIsWritten
    <3> QED
      BY <3>4, <3>5 DEF Balanced
  <2>5. Types'
    BY <1>1, <1>4, <2>3, <2>4 DEF Types, Balanced, Books
  <2>6. Reads'
    <3>1. \A t \in Slots \ {s} : /\ at'[t] = at[t] /\ hand'[t] = hand[t]
                                /\ address'[t] = address[t] /\ page'[t] = page[t]
      BY <1>1, <1>4, <2>3
    <3>2. at'[s] = "idle" /\ hand'[s] = NoPage
      BY <1>1, <1>4 DEF Reads
    <3> QED
      BY <1>1, <3>1, <3>2 DEF Reads
  <2>7. WritersMapped'
    BY <1>1, <1>4, <2>2, <2>3, Constants DEF WritersMapped
  <2>8. Forking(s)' = FALSE
    BY <1>1, <1>4 DEF Forking
  <2> QED
    BY <1>1, <1>4, <2>3, <2>4, <2>5, <2>6, <2>7, <2>8, FaultControl DEF Inv
<1>5. CASE GoTo(s, "page0") /\ UNCHANGED <<mem_map, page, writable>>
  <2>1. /\ at' \in [Slots -> Places] /\ at'[s] = "page0"
        /\ \A t \in Slots \ {s} : at'[t] = at[t]
    BY <1>1, <1>5, GoToIs DEF Places
  <2>2. Balanced'
    BY <1>1, <1>5, SameBooks
  <2>3. Types'
    BY <1>1, <1>5, <2>1 DEF Types
  <2>4. Reads'
    BY <1>1, <1>5, <2>1 DEF Reads
  <2>5. WritersMapped'
    BY <1>1, <1>5 DEF WritersMapped
  <2>6. Forking(s)' = FALSE
    BY <2>1 DEF Forking
  <2> QED
    BY <1>1, <1>5, <2>1, <2>2, <2>3, <2>4, <2>5, <2>6, FaultControl DEF Inv
<1> QED
  BY <1>3, <1>4, <1>5 DEF un_wp_page

-----------------------------------------------------------------------------
(* exit and release. *)

\* free_page_tables of a slot whose other uses are as the books have them.
LEMMA FreePageTablesBooks ==
  ASSUME Types, NEW map, NEW f, NEW s \in Slots, Books(map, f, writable),
         FreePageTables(s, map),
         \A x \in Space(s) : f[x] = Named[x], SameBut(Space(s), f, Named')
  PROVE  /\ Balanced'
         /\ page' \in [Slots -> [Addresses -> AllPages]] /\ dir' \in [Slots -> [Dirs -> AllPages]]
         /\ \A t \in Slots \ {s} : page'[t] = page[t] /\ dir'[t] = dir[t]
         /\ \A a \in Addresses : page'[s][a] = NoPage
         /\ \A d \in Dirs : dir'[s][d] = NoPage
         /\ writable' = {w \in writable : w[1] # s}
<1>1. /\ dir' = [dir EXCEPT ![s] = [d \in Dirs |-> NoPage]]
      /\ page' = [page EXCEPT ![s] = [a \in Addresses |-> NoPage]]
      /\ writable' = {w \in writable : w[1] # s}
  BY DEF FreePageTables
<1>2. NoPage \in AllPages
  BY DEF AllPages
<1>3. /\ page' \in [Slots -> [Addresses -> AllPages]] /\ dir' \in [Slots -> [Dirs -> AllPages]]
      /\ \A t \in Slots \ {s} : page'[t] = page[t] /\ dir'[t] = dir[t]
      /\ \A a \in Addresses : page'[s][a] = NoPage
      /\ \A d \in Dirs : dir'[s][d] = NoPage
  BY <1>1, <1>2 DEF Types
<1>4. \A x \in Space(s) : Named'[x] = NoPage
  BY <1>3, NamesNext DEF Space
<1>5. writable' \in SUBSET writable
  BY <1>1
<1> DEFINE g == Named'
           V == writable'
<1>6. SameBut(Space(s), f, g) /\ (\A x \in Space(s) : g[x] = NoPage) /\ V \in SUBSET writable
  BY <1>4, <1>5
<1> HIDE DEF g, V
<1>7. Books([p \in Pages |-> Max({0, map[p] - Cardinality(AddressesOf(s, p))
                                            - Cardinality(TablesAt(s, p))})], g, V)
  BY <1>6, SpaceFreed
<1>8. Balanced'
  BY <1>7 DEF FreePageTables, Balanced, g, V
<1> QED
  BY <1>1, <1>3, <1>8

LEMMA ExitKeeps ==
  ASSUME Inv, NEW s \in Slots, Live(s), ~Forking(s), at[s] # "read", Exit(s)
  PROVE  Inv'
<1>1. /\ Types /\ Balanced /\ Forks /\ Still /\ Clean /\ Reads /\ Zombies /\ WritersMapped
      /\ task[s] # NoPage /\ s \notin zombie /\ hand[s] = NoPage
      /\ \A t \in Slots : Forking(t) => child[t] # s
      /\ FreePageTables(s, mem_map) /\ zombie' = zombie \cup {s}
      /\ UNCHANGED <<task, child, hand, address, wild>>
      /\ zombie \subseteq Slots /\ \A t \in Slots : child[t] \in Slots
  BY Parts DEF Exit, Live, Reads, Types
<1>2. /\ at' \in [Slots -> Places] /\ at'[s] = "idle"
      /\ \A t \in Slots \ {s} : at'[t] = at[t]
  BY <1>1, GoToIs DEF Exit, Places
<1>3. /\ Balanced'
      /\ page' \in [Slots -> [Addresses -> AllPages]] /\ dir' \in [Slots -> [Dirs -> AllPages]]
      /\ \A t \in Slots \ {s} : page'[t] = page[t] /\ dir'[t] = dir[t]
      /\ \A a \in Addresses : page'[s][a] = NoPage
      /\ \A d \in Dirs : dir'[s][d] = NoPage
      /\ writable' = {w \in writable : w[1] # s}
  <2> DEFINE f == Named
  <2>1. Books(mem_map, f, writable) /\ \A x \in Space(s) : f[x] = Named[x]
    BY <1>1 DEF Balanced
  <2>2. SameBut(Space(s), f, Named')
    <3>1. \A t \in Slots \ {s} : page'[t] = page[t] /\ dir'[t] = dir[t]
      BY <1>1 DEF FreePageTables, Types
    <3> QED
      BY <1>1, <3>1, SpaceIs, Changes
  <2> HIDE DEF f
  <2> QED
    BY <1>1, <2>1, <2>2, FreePageTablesBooks
<1>4. Types'
  BY <1>1, <1>2, <1>3 DEF Types, Balanced, Books
<1>5. \A t \in Slots : Forking(t)' <=> Forking(t)
  BY <1>2 DEF Forking
<1>6. Forks'
  BY <1>1, <1>5 DEF Forks
<1>7. \A t \in Slots \ {s} : Live(t) => Live(t)'
  BY <1>1, <1>5 DEF Live
<1>8. Still'
  BY <1>1, <1>2, <1>7 DEF Still
<1>9. \A t \in Slots \ {s} : Empty(t)' => Empty(t)
  <2>1. \A r \in Slots : at'[r] = "fork" => at[r] = "fork"
    BY <1>2
  <2> QED
    BY <1>1, <2>1 DEF Empty
<1>10. Clean'
  BY <1>1, <1>3, <1>9 DEF Clean
<1>11. Reads'
  BY <1>1, <1>2, <1>3 DEF Reads
<1>12. Zombies' /\ WritersMapped'
  BY <1>1, <1>3 DEF Zombies, WritersMapped
<1> QED
  BY <1>3, <1>4, <1>6, <1>8, <1>10, <1>11, <1>12 DEF Inv, Control

LEMMA OomKeeps ==
  ASSUME Inv, NEW s \in Slots, Oom(s)
  PROVE  Inv'
<1>1. /\ Types /\ Balanced /\ Reads /\ WritersMapped
      /\ Live(s) /\ at[s] \in {"oom", "page0"} /\ ~Forking(s)
  BY Parts DEF Oom, Running, Live, Forking
<1>2. CASE Exit(s)
  BY <1>1, <1>2, ExitKeeps
<1>3. CASE /\ GoTo(s, "idle") /\ wild' = (at[s] = "page0")
           /\ UNCHANGED <<mem_map, dir, page, writable, task, zombie, child, hand, address>>
  <2>1. /\ at' \in [Slots -> Places] /\ at'[s] = "idle"
        /\ \A t \in Slots \ {s} : at'[t] = at[t]
    BY <1>1, <1>3, GoToIs DEF Places
  <2>2. Balanced'
    BY <1>1, <1>3, SameBooks
  <2>3. Types'
    <3>1. wild' \in BOOLEAN
      BY <1>3
    <3> QED
      BY <1>1, <1>3, <2>1, <3>1 DEF Types
  <2>4. Reads'
    BY <1>1, <1>3, <2>1 DEF Reads
  <2>5. WritersMapped'
    BY <1>1, <1>3 DEF WritersMapped
  <2>6. Forking(s)' = FALSE
    BY <2>1 DEF Forking
  <2> QED
    BY <1>1, <1>3, <2>1, <2>2, <2>3, <2>4, <2>5, <2>6, FaultControl DEF Inv
<1> QED
  BY <1>2, <1>3 DEF Oom

LEMMA releaseKeeps ==
  ASSUME Inv, NEW s \in Slots, NEW u \in Slots, release(s, u)
  PROVE  Inv'
<1>1. /\ Types /\ Balanced /\ Forks /\ Still /\ Clean /\ Reads /\ Zombies /\ WritersMapped
      /\ u \in zombie
      /\ mem_map' = Freed(mem_map, task[u])
      /\ task' = [task EXCEPT ![u] = NoPage]
      /\ zombie' = zombie \ {u}
      /\ UNCHANGED <<dir, page, writable, at, child, hand, address, wild>>
      /\ zombie \subseteq Slots /\ \A t \in Slots : child[t] \in Slots
  BY Parts DEF release, Types
<1>2. /\ task' \in [Slots -> AllPages] /\ task'[u] = NoPage
      /\ \A t \in Slots \ {u} : task'[t] = task[t]
  BY <1>1 DEF Types, AllPages
<1>3. Balanced'
  <2>1. SameBut({TaskOf(u)}, Named, Named')
    BY <1>1, <1>2, Changes
  <2>2. TaskOf(u) \in Uses /\ Named'[TaskOf(u)] \notin Pages /\ Named[TaskOf(u)] = task[u]
    BY <1>2, UsesAre, Names, NamesNext, Constants
  <2> QED
    BY <1>1, <2>1, <2>2, BooksFreed DEF Balanced
<1>4. Types'
  BY <1>1, <1>2, <1>3 DEF Types, Balanced, Books
<1>5. \A t \in Slots : Forking(t)' <=> Forking(t)
  BY <1>1 DEF Forking
<1>6. Forks'
  BY <1>1, <1>2, <1>5 DEF Forks
<1>7. \A t \in Slots : Live(t) => Live(t)'
  BY <1>1, <1>2, <1>5 DEF Live
<1>8. Still'
  BY <1>1, <1>7 DEF Still
<1>9. \A t \in Slots : Empty(t)' => Empty(t)
  BY <1>1, <1>2 DEF Empty
<1>10. Clean'
  BY <1>1, <1>9 DEF Clean
<1>11. Reads' /\ Zombies' /\ WritersMapped'
  BY <1>1, <1>2 DEF Reads, Zombies, WritersMapped
<1> QED
  BY <1>3, <1>4, <1>6, <1>8, <1>10, <1>11 DEF Inv, Control

-----------------------------------------------------------------------------
(* copy_mem, and what undoes it. *)

LEMMA CopyMemKeeps ==
  ASSUME Inv, NEW s \in Slots, CopyMem(s)
  PROVE  Inv'
<1> DEFINE u == child[s]
<1>1. /\ Types /\ Balanced /\ Forks /\ Still /\ Clean /\ Reads /\ Zombies /\ WritersMapped
      /\ Live(s) /\ at[s] = "fork" /\ Forking(s)
      /\ u \in Slots /\ u # s /\ task[u] # NoPage /\ u \notin zombie
      /\ \A t \in Slots \ {s} : Forking(t) => child[t] # u
      /\ CopyPageTables(s, u)
      /\ UNCHANGED <<task, zombie, hand, address, wild>>
      /\ \A t \in Slots : child[t] \in Slots
  <2>1. Types /\ Balanced /\ Forks /\ Still /\ Clean /\ Reads /\ Zombies /\ WritersMapped
    BY Parts
  <2>2. /\ Live(s) /\ at[s] = "fork" /\ CopyPageTables(s, u)
        /\ UNCHANGED <<task, zombie, hand, address, wild>>
    BY DEF CopyMem, At, Running, Live
  <2>3. Forking(s) /\ \A t \in Slots : child[t] \in Slots
    BY <2>1, <2>2 DEF Forking, Types
  <2>4. u \in Slots /\ u # s
    BY <2>2, <2>3 DEF Live
  <2> QED
    BY <2>1, <2>2, <2>3, <2>4 DEF Forks
<1> HIDE DEF u
<1>2. Empty(u) /\ (\A d \in Dirs : dir[u][d] = NoPage) /\ \A a \in Addresses : page[u][a] = NoPage
  <2>1. Empty(u)
    BY <1>1 DEF Empty, u
  <2> QED
    BY <1>1, <2>1 DEF Clean
<1>3. \A x \in Space(u) : Named[x] \notin Pages
  BY <1>1, <1>2, Names, Constants DEF Space
<1>4. \A a \in Addresses : <<u, a>> \notin writable
  BY <1>1, <1>2 DEF WritersMapped
<1>5. Balanced'
  BY <1>1, <1>3, <1>4, SpaceCopied
<1>6. /\ dir' \in [Slots -> [Dirs -> AllPages]] /\ page' \in [Slots -> [Addresses -> AllPages]]
      /\ \A t \in Slots \ {u} : page'[t] = page[t] /\ dir'[t] = dir[t]
      /\ writable' \subseteq writable
  <2>1. dir' \in [Slots -> [Dirs -> AllPages]] /\ page' \in [Slots -> [Addresses -> AllPages]]
    BY <1>1, Copy
  <2>2. \A t \in Slots \ {u} : page'[t] = page[t] /\ dir'[t] = dir[t]
    BY <1>1 DEF CopyPageTables, Types
  <2>3. writable' \subseteq writable
    BY DEF CopyMem, CopyPageTables, u
  <2> QED
    BY <2>1, <2>2, <2>3
<1>7. /\ at' \in [Slots -> Places] /\ at'[s] \in {"idle", "undo"}
      /\ \A t \in Slots \ {s} : at'[t] = at[t]
      /\ child' \in [Slots -> Slots]
      /\ at'[s] = "undo" => child'[s] = u
      /\ \A t \in Slots \ {s} : child'[t] = child[t]
  <2>1. CASE GoTo(s, "idle") /\ child' = [child EXCEPT ![s] = 0]
    BY <1>1, <2>1, Constants DEF GoTo, Types, Places
  <2>2. CASE GoTo(s, "undo") /\ UNCHANGED child
    BY <1>1, <2>2 DEF GoTo, Types, Places, u
  <2> QED
    BY <2>1, <2>2 DEF CopyMem
<1>8. Types'
  BY <1>1, <1>5, <1>6, <1>7 DEF Types, Balanced, Books
<1>9. /\ \A t \in Slots : Forking(t)' => Forking(t) /\ child'[t] = child[t]
      /\ \A t \in Slots : at'[t] = "fork" => at[t] = "fork" /\ t # s
  BY <1>1, <1>7 DEF Forking, u
<1>10. Forks'
  BY <1>1, <1>9 DEF Forks
<1>11. \A t \in Slots : Live(t) => Live(t)'
  BY <1>1, <1>9 DEF Live
<1>12. Still'
  BY <1>1, <1>7, <1>11 DEF Still
<1>13. \A t \in Slots : Empty(t)' => Empty(t) /\ t # u
  <2> SUFFICES ASSUME NEW t \in Slots, Empty(t)'
               PROVE  Empty(t) /\ t # u
    OBVIOUS
  <2>1. CASE task[t] = NoPage \/ t \in zombie
    BY <1>1, <2>1 DEF Empty
  <2>2. CASE \E r \in Slots : at'[r] = "fork" /\ child'[r] = t
    <3>1. PICK r \in Slots : at[r] = "fork" /\ child[r] = t /\ r # s
      BY <1>7, <1>9, <2>2
    <3> QED
      BY <1>1, <3>1 DEF Empty, Forking
  <2> QED
    BY <1>1, <2>1, <2>2 DEF Empty
<1>14. Clean'
  BY <1>1, <1>6, <1>13 DEF Clean
<1>15. Reads'
  <2>1. at[u] = "idle"
    BY <1>1 DEF Still, Live, u
  <2>2. \A t \in Slots : at'[t] = "read" <=> at[t] = "read"
    BY <1>1, <1>7
  <2>3. hand' = hand /\ address' = address
    BY <1>1
  <2> QED
    BY <1>1, <1>6, <2>1, <2>2, <2>3 DEF Reads
<1>16. Zombies'
  BY <1>1 DEF Zombies
<1>17. WritersMapped'
  <2>1. \A t \in Slots, a \in Addresses : <<t, a>> \in writable' =>
           <<t, a>> \in writable /\ page'[t] = page[t]
    BY <1>4, <1>6
  <2> QED
    BY <1>1, <2>1 DEF WritersMapped
<1> QED
  BY <1>5, <1>8, <1>10, <1>12, <1>14, <1>15, <1>16, <1>17 DEF Inv, Control

LEMMA UndoKeeps ==
  ASSUME Inv, NEW s \in Slots, Undo(s)
  PROVE  Inv'
<1> DEFINE u == child[s]
<1>1. /\ Types /\ Balanced /\ Forks /\ Still /\ Clean /\ Reads /\ Zombies /\ WritersMapped
      /\ Live(s) /\ at[s] = "undo" /\ Forking(s)
      /\ u \in Slots /\ u # s /\ u \notin zombie
      /\ \A t \in Slots \ {s} : Forking(t) => child[t] # u
      /\ FreePageTables(u, Freed(mem_map, task[u]))
      /\ UNCHANGED <<zombie, hand, address, wild>>
      /\ \A t \in Slots : child[t] \in Slots
  <2>1. Types /\ Balanced /\ Forks /\ Still /\ Clean /\ Reads /\ Zombies /\ WritersMapped
    BY Parts
  <2>2. /\ Live(s) /\ at[s] = "undo" /\ FreePageTables(u, Freed(mem_map, task[u]))
        /\ UNCHANGED <<zombie, hand, address, wild>>
    BY DEF Undo, At, Running, Live
  <2>3. Forking(s) /\ \A t \in Slots : child[t] \in Slots
    BY <2>1, <2>2 DEF Forking, Types
  <2>4. u \in Slots /\ u # s
    BY <2>2, <2>3 DEF Live
  <2> QED
    BY <2>1, <2>2, <2>3, <2>4 DEF Forks
<1>2. /\ task' = [task EXCEPT ![u] = NoPage] /\ child' = [child EXCEPT ![s] = 0]
      /\ GoTo(s, "idle")
  BY DEF Undo
<1> HIDE DEF u
<1>3. /\ at' \in [Slots -> Places] /\ at'[s] = "idle"
      /\ \A t \in Slots \ {s} : at'[t] = at[t]
      /\ task' \in [Slots -> AllPages] /\ task'[u] = NoPage
      /\ \A t \in Slots \ {u} : task'[t] = task[t]
      /\ child' \in [Slots -> Slots]
      /\ \A t \in Slots \ {s} : child'[t] = child[t]
  BY <1>1, <1>2, Constants DEF GoTo, Types, Places, AllPages
<1>4. /\ Balanced'
      /\ page' \in [Slots -> [Addresses -> AllPages]] /\ dir' \in [Slots -> [Dirs -> AllPages]]
      /\ \A t \in Slots \ {u} : page'[t] = page[t] /\ dir'[t] = dir[t]
      /\ \A a \in Addresses : page'[u][a] = NoPage
      /\ \A d \in Dirs : dir'[u][d] = NoPage
      /\ writable' = {w \in writable : w[1] # u}
  <2> DEFINE f == [x \in Uses |-> IF x = TaskOf(u) THEN NoPage ELSE Named[x]]
             map == Freed(mem_map, task[u])
  <2>1. /\ TaskOf(u) \in Uses /\ TaskOf(u) \notin Space(u) /\ Space(u) \subseteq Uses
        /\ Named[TaskOf(u)] = task[u]
    BY <1>1, UsesAre, SpaceIs, Names
  <2>2. /\ f[TaskOf(u)] = NoPage /\ SameBut({TaskOf(u)}, Named, f)
        /\ \A x \in Space(u) : f[x] = Named[x]
    BY <2>1 DEF SameBut
  <2>3. SameBut(Space(u), f, Named')
    <3>1. \A t \in Slots \ {u} : page'[t] = page[t] /\ dir'[t] = dir[t]
      BY <1>1 DEF FreePageTables, Types
    <3>2. SameBut(Space(u) \cup {TaskOf(u)}, Named, Named')
      BY <1>1, <1>3, <3>1, SpaceIs, Changes
    <3>3. Named'[TaskOf(u)] = NoPage
      BY <1>1, <1>3, NamesNext
    <3> HIDE DEF f
    <3> QED
      BY <2>1, <2>2, <3>2, <3>3 DEF SameBut
  <2> HIDE DEF f
  <2>4. Books(map, f, writable)
    <3>1. Books(mem_map, Named, writable) /\ f[TaskOf(u)] \notin Pages
      BY <1>1, <2>2, Constants DEF Balanced
    <3> QED
      BY <2>1, <2>2, <3>1, BooksFreed
  <2> HIDE DEF map
  <2>5. FreePageTables(u, map)
    BY <1>1 DEF map
  <2> QED
    BY <1>1, <2>2, <2>3, <2>4, <2>5, FreePageTablesBooks
<1>5. Types'
  BY <1>1, <1>3, <1>4 DEF Types, Balanced, Books
<1>6. /\ \A t \in Slots : Forking(t)' => Forking(t) /\ child'[t] = child[t] /\ t # s
      /\ \A t \in Slots : at'[t] = "fork" => at[t] = "fork" /\ child'[t] = child[t]
  BY <1>1, <1>3 DEF Forking
<1>7. Forks'
  BY <1>1, <1>3, <1>6 DEF Forks
<1>8. \A t \in Slots : Live(t) => t # u
  BY <1>1 DEF Live, u
<1>9. \A t \in Slots : Live(t) => Live(t)'
  BY <1>1, <1>3, <1>6, <1>8 DEF Live
<1>10. Still'
  BY <1>1, <1>3, <1>9 DEF Still
<1>11. \A t \in Slots \ {u} : Empty(t)' => Empty(t)
  BY <1>1, <1>3, <1>6 DEF Empty
<1>12. Clean'
  BY <1>1, <1>4, <1>11 DEF Clean
<1>13. Reads'
  <2>1. at[u] = "idle"
    BY <1>1, <1>8 DEF Still
  <2>2. \A t \in Slots : at'[t] = "read" <=> at[t] = "read"
    BY <1>1, <1>3
  <2>3. hand' = hand /\ address' = address
    BY <1>1
  <2> QED
    BY <1>1, <1>4, <2>1, <2>2, <2>3 DEF Reads
<1>14. Zombies'
  <2>1. zombie \subseteq Slots /\ zombie' = zombie
    BY <1>1 DEF Types
  <2> QED
    BY <1>1, <1>3, <2>1 DEF Zombies
<1>15. WritersMapped'
  BY <1>1, <1>4 DEF WritersMapped
<1> QED
  BY <1>4, <1>5, <1>7, <1>10, <1>12, <1>13, <1>14, <1>15 DEF Inv, Control

-----------------------------------------------------------------------------
(* What follows from the invariant. *)

LEMMA InvTypeOK == Inv /\ collided \in BOOLEAN => TypeOK
<1> SUFFICES ASSUME Inv, collided \in BOOLEAN
             PROVE  TypeOK
  OBVIOUS
<1>1. Types /\ Books(mem_map, Named, writable)
  BY DEF Inv, Balanced
<1>2. \A p \in Pages : mem_map[p] \in 0 .. Cardinality(Slots)
  BY <1>1, CountsAreBounded
<1>3. mem_map \in [Pages -> 0 .. Cardinality(Slots)]
  BY <1>1, <1>2 DEF Types
<1> QED
  BY <1>1, <1>3 DEF TypeOK, Types, Places

LEMMA InvWritersAreAlone == Inv => WritersAreAlone
<1> SUFFICES ASSUME Inv, NEW w \in writable, page[w[1]][w[2]] \in Pages
             PROVE  Users(page[w[1]][w[2]]) = {<<"address", w>>}
  BY DEF WritersAreAlone
<1>1. PICK s \in Slots, a \in Addresses : w = <<s, a>>
  BY DEF Inv, Types
<1>2. Writing(Named, writable) /\ Named[Addressed(s, a)] = page[s][a]
  BY Names DEF Inv, Balanced, Books
<1>3. \A x \in Uses : Named[x] = page[s][a] => x = Addressed(s, a)
  BY <1>1, <1>2 DEF Writing
<1>4. Using(Named, page[s][a]) = {Addressed(s, a)}
  BY <1>2, <1>3, UsesAre DEF Using
<1>5. Users(page[s][a]) = {Addressed(s, a)}
  BY <1>4, UsersAreUses
<1> QED
  BY <1>1, <1>5 DEF Addressed

\* A fork takes a slot that is taken: the page of the task there is lost, but a page
\* that can be written still has one user.
LEMMA CollisionIsSafe ==
  ASSUME Inv, NEW s \in Slots, TakeSlot(s),
         FreePage(mem_map) # NoPage, task[child[s]] # NoPage
  PROVE  TypeOK' /\ WritersAreAlone' /\ collided' = TRUE
<1> DEFINE p == FreePage(mem_map)
           u == child[s]
<1>1. Types /\ Books(mem_map, Named, writable) /\ u \in Slots
  BY DEF Inv, Types, Balanced
<1>2. p \in Pages /\ p \in AllPages /\ mem_map[p] = 0
  BY FreePageIsFree DEF FreePage, Free, AllPages
<1> HIDE DEF p, u
<1>3. /\ mem_map' = [mem_map EXCEPT ![p] = 1] /\ task' = [task EXCEPT ![u] = p]
      /\ at' = [at EXCEPT ![s] = "fork"]
      /\ collided' = TRUE
      /\ UNCHANGED <<dir, page, writable, zombie, child, hand, address, wild>>
  BY DEF TakeSlot, Taken, GoTo, p, u
<1>4. TypeOK'
  <2>1. \A q \in Pages : mem_map[q] \in 0 .. Cardinality(Slots)
    BY <1>1, CountsAreBounded DEF Types
  <2>2. 1 \in 0 .. Cardinality(Slots)
    <3>1. Cardinality(Slots) \in Nat /\ Cardinality(Slots) # 0
      BY Constants, FS_CardinalityType, FS_EmptySet
    <3> QED
      BY <3>1
  <2> DEFINE B == 0 .. Cardinality(Slots)
  <2> HIDE DEF B
  <2>3. mem_map' \in [Pages -> B]
    <3>1. \A q \in Pages : mem_map[q] \in B
      BY <2>1 DEF B
    <3>2. 1 \in B
      BY <2>2 DEF B
    <3> QED
      BY <1>1, <1>2, <1>3, <3>1, <3>2 DEF Types
  <2>4. task' \in [Slots -> AllPages] /\ at' \in [Slots -> Places]
    BY <1>1, <1>2, <1>3 DEF Types, Places
  <2> QED
    BY <1>1, <1>3, <2>3, <2>4 DEF TypeOK, Types, Places, B
<1>5. WritersAreAlone'
  <2> SUFFICES ASSUME NEW w \in writable, page[w[1]][w[2]] \in Pages
               PROVE  Users(page[w[1]][w[2]])' = {<<"address", w>>}
    BY <1>3 DEF WritersAreAlone
  <2> DEFINE q == page[w[1]][w[2]]
  <2>1. Users(q) = {<<"address", w>>}
    BY InvWritersAreAlone DEF WritersAreAlone
  <2>2. q # p /\ task[u] # q
    <3>1. <<"address", w>> \in Using(Named, q) /\ TaskOf(u) \notin Using(Named, q)
      BY <2>1, UsersAreUses DEF TaskOf
    <3>2. q # p
      BY <1>1, <1>2, <3>1, FreeIsUnused DEF Using
    <3>3. TaskOf(u) \in Uses /\ Named[TaskOf(u)] = task[u]
      BY <1>1, UsesAre, Names
    <3> QED
      BY <3>1, <3>2, <3>3 DEF Using
  <2>3. \A t \in Slots : task'[t] = q <=> task[t] = q
    BY <1>1, <1>3, <2>2 DEF Types
  <2> HIDE DEF q
  <2>4. \A r : (\A t \in Slots : task'[t] = r <=> task[t] = r) => Users(r)' = Users(r)
    BY <1>3 DEF Users
  <2>5. page' = page
    BY <1>3
  <2> QED
    BY <2>1, <2>3, <2>4, <2>5 DEF q, Users
<1> QED
  BY <1>3, <1>4, <1>5

-----------------------------------------------------------------------------
(* Every step keeps the invariant until two forks take one slot. *)

Safe == collided \in BOOLEAN /\ TypeOK /\ WritersAreAlone /\ (~collided => Inv)

LEMMA InvNext ==
  ASSUME Inv, Next, ~collided, ~collided'
  PROVE  Inv'
<1>1. ASSUME NEW s \in Slots, CopyMem(s)
      PROVE  Inv'
  BY <1>1, CopyMemKeeps
<1>2. ASSUME NEW s \in Slots, Undo(s)
      PROVE  Inv'
  BY <1>2, UndoKeeps
<1>3. ASSUME NEW s \in Slots, PageRead(s)
      PROVE  Inv'
  BY <1>3, PageReadKeeps
<1>4. ASSUME NEW s \in Slots, sys_exit(s)
      PROVE  Inv'
  <2>1. Live(s) /\ ~Forking(s) /\ at[s] # "read" /\ Exit(s)
    BY <1>4 DEF sys_exit, At, Running, Live, Forking
  <2> QED
    BY <2>1, ExitKeeps
<1>5. ASSUME NEW s \in Slots, Oom(s)
      PROVE  Inv'
  BY <1>5, OomKeeps
<1>6. ASSUME NEW s \in Slots, NEW u \in Slots, release(s, u)
      PROVE  Inv'
  BY <1>6, releaseKeeps
<1>7. ASSUME NEW s \in Slots, NEW a \in Addresses,
             GetEmptyPage(s, a) \/ ReadPage(s, a) \/ un_wp_page(s, a)
      PROVE  Inv'
  BY <1>7, GetEmptyPageKeeps, ReadPageKeeps, un_wp_pageKeeps
<1>8. ASSUME NEW s \in Slots, FindEmpty(s)
      PROVE  Inv'
  BY <1>8, FindEmptyKeeps
<1>9. ASSUME NEW s \in Slots, TakeSlot(s)
      PROVE  Inv'
  <2>1. FreePage(mem_map) # NoPage => task[child[s]] = NoPage
    BY <1>9 DEF TakeSlot
  <2> QED
    BY <1>9, <2>1, NoPageKeeps, TakeSlotKeeps
<1> QED
  BY <1>1, <1>2, <1>3, <1>4, <1>5, <1>6, <1>7, <1>8, <1>9 DEF Next

\* Only TakeSlot makes two forks take one slot, and then no task goes on.
LEMMA Collides ==
  ASSUME Next, collided \in BOOLEAN
  PROVE  /\ ~collided
         /\ \/ collided' = collided
            \/ \E s \in Slots : /\ TakeSlot(s) /\ FreePage(mem_map) # NoPage
                              /\ collided' = (task[child[s]] # NoPage)
<1>1. \E s \in Slots : Running(s)
  BY DEF Next, FindEmpty, TakeSlot, CopyMem, Undo, PageRead, sys_exit, Oom, release,
         GetEmptyPage, ReadPage, un_wp_page, At
<1>2. ~collided
  BY <1>1 DEF Running
<1>3. \/ collided' = collided
      \/ \E s \in Slots : /\ TakeSlot(s) /\ FreePage(mem_map) # NoPage
                        /\ collided' = (task[child[s]] # NoPage)
  BY DEF Next, FindEmpty, TakeSlot, CopyMem, Undo, PageRead, sys_exit, Oom, release,
         GetEmptyPage, ReadPage, un_wp_page, Exit
<1> QED
  BY <1>2, <1>3

LEMMA SafeNext == Safe /\ [Next]_vars => Safe'
<1> SUFFICES ASSUME Safe, [Next]_vars
             PROVE  Safe'
  OBVIOUS
<1>1. CASE Next
  <2>1. ~collided /\ Inv /\ collided' \in BOOLEAN
    BY <1>1, Collides DEF Safe
  <2>2. CASE ~collided'
    <3>1. Inv'
      BY <1>1, <2>1, <2>2, InvNext
    <3>2. (collided \in BOOLEAN)'
      BY <2>1
    <3>3. TypeOK' /\ WritersAreAlone'
      BY <3>1, <3>2, InvTypeOK, InvWritersAreAlone, PTL
    <3> QED
      BY <2>1, <3>1, <3>3 DEF Safe
  <2>3. CASE collided'
    <3>1. PICK s \in Slots : /\ TakeSlot(s) /\ FreePage(mem_map) # NoPage
                             /\ collided' = (task[child[s]] # NoPage)
      BY <1>1, <2>1, <2>3, Collides DEF Safe
    <3>2. TypeOK' /\ WritersAreAlone' /\ collided' = TRUE
      BY <2>1, <2>3, <3>1, CollisionIsSafe
    <3> QED
      BY <3>2 DEF Safe
  <2> QED
    BY <2>1, <2>2, <2>3
<1>2. CASE UNCHANGED vars
  <2>1. TypeOK' /\ WritersAreAlone' /\ collided' \in BOOLEAN
    BY <1>2 DEF vars, Safe, TypeOK, WritersAreAlone, Users
  <2>2. CASE ~collided'
    <3>1. Types /\ Balanced /\ Control
      BY <1>2, <2>2 DEF vars, Safe, Inv
    <3>2. Types' /\ Balanced'
      BY <1>2, <3>1, SameBooks DEF vars, Types
    <3>3. Control'
      BY <1>2, <3>1 DEF vars, Control, Forks, Forking, Still, Live, Clean, Empty, Reads,
                        Zombies, WritersMapped
    <3> QED
      BY <2>1, <3>2, <3>3 DEF Safe, Inv
  <2> QED
    BY <2>1, <2>2 DEF Safe
<1> QED
  BY <1>1, <1>2

LEMMA SafeAlways == Spec => []Safe
<1>1. Init => Safe
  <2> SUFFICES ASSUME Init
               PROVE  Safe
    OBVIOUS
  <2>1. Inv /\ collided \in BOOLEAN
    BY InvInit DEF Init
  <2> QED
    BY <2>1, InvTypeOK, InvWritersAreAlone DEF Safe
<1> QED
  BY <1>1, SafeNext, PTL DEF Spec

-----------------------------------------------------------------------------
(* The theorems. *)

\* The variables have their types, and no page has more users than there are slots: a
\* page is named twice only at one address of two address spaces.
THEOREM TypeCorrect == Spec => []TypeOK
<1>1. Safe => TypeOK
  BY DEF Safe
<1> QED
  BY <1>1, SafeAlways, PTL

\* mem_map counts the users of every page, over any forks, copies that fail half way,
\* faults, exits and releases, until a fork takes a slot that another has taken after
\* it was chosen.
THEOREM UsersAreCounted == Spec => []MemMapCounts
<1>1. Safe => MemMapCounts
  BY UsersAreUses DEF Safe, Inv, Balanced, Books, MemMapCounts
<1> QED
  BY <1>1, SafeAlways, PTL

\* A page that can be written at an address has no other user, two forks that take one
\* slot included.
THEOREM CopyOnWriteKeepsApart == Spec => []WritersAreAlone
<1>1. Safe => WritersAreAlone
  BY DEF Safe
<1> QED
  BY <1>1, SafeAlways, PTL

\* copy_page_tables never finds a page table in its way, until a fork takes a slot that
\* another has taken after it was chosen.
THEOREM NoTableInTheWay == Spec => []EmptySlotsAreClean
<1>1. Safe => EmptySlotsAreClean
  <2> SUFFICES ASSUME Inv, NEW s \in Slots, Empty(s)
               PROVE  Present(s) = {} /\ \A a \in Addresses : page[s][a] = NoPage
    BY DEF Safe, EmptySlotsAreClean, Empty
  <2> QED
    BY Parts DEF Clean, Present
<1> QED
  BY <1>1, SafeAlways, PTL
=============================================================================
