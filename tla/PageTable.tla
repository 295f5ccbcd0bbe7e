------------------------------ MODULE PageTable ------------------------------
(***************************************************************************)
(* The page tables of an RV64MMU<sz> object (k_mmu.h): map, unmap, the     *)
(* walk that creates tables, the walk that only reads, enable, and the     *)
(* hardware's walk of the result.  Addresses are counted in a unit of half *)
(* a page, so that misaligned ones exist; Fan entries make a table and     *)
(* Levels tables a walk, 512 and 3 for sv39.                               *)
(*                                                                         *)
(* Physical memory is seen at Off, in the upper half.  The preloader's     *)
(* tables show it in the lower half too (preloader.S); the kernel's own    *)
(* show what was mapped.                                                   *)
(***************************************************************************)
EXTENDS Integers, FiniteSets, TLC

CONSTANTS
  Levels, Fan,
  Frames,      \* addresses of the pages alignedMalloc may hand out; the least
               \* is _ptes, the root
  Requests     \* what the kernel maps: [v, p, n, prot], n the size in bytes

PageSize == 2
Span(l) == PageSize * Fan ^ (Levels - 1 - l)  \* what an entry of level l maps
Half == (Span(0) * Fan) \div 2
Word == 4 * Half                              \* 2^64: more than is translated
Off  == Word - Half                           \* 0xFFFFFFC000000000
Root == CHOOSE f \in Frames : \A g \in Frames : f <= g

VARIABLES
  mem,      \* frames used as tables -> index -> entry
  satp,     \* "startup" or "sys": the tables of the preloader or these
  rc,       \* what the last call returned
  live,     \* the requests mapped and not unmapped since
  used,     \* pages ever asked for
  wild      \* "create", "get": that walk went to something that is no table

mmuVars == <<mem, satp, rc, live, used, wild>>

\* pte_t; perm is the set of its bits r w x u g, ad the accessed and dirty bits
NoPTE == [v |-> FALSE, perm |-> {}, ad |-> {}, ppn |-> 0]

Index(v, l) == (v \div Span(l)) % Fan

IsPointer(e) == e.perm \cap {"R", "W", "X"} = {}

\* pte_t::paddr() keeps 38 bits.
Paddr(e) == e.ppn % Half

-----------------------------------------------------------------------------
(* The hardware's walk: a pointer must have U, A and D clear, a leaf must   *)
(* be aligned to what it maps.                                              *)

Fault == [p |-> -1, prot |-> {}]

RECURSIVE Walk(_, _, _, _)
Walk(m, f, l, v) ==
  LET e == m[f][Index(v, l)] IN
  IF ~e.v THEN Fault
  ELSE IF ~IsPointer(e)
    THEN IF e.ppn % Span(l) # 0 THEN Fault
         ELSE [p |-> e.ppn + (v % Span(l)), prot |-> e.perm]
  ELSE IF "U" \in e.perm \/ e.ad # {} \/ l = Levels - 1
          \/ e.ppn \notin DOMAIN m THEN Fault
  ELSE Walk(m, e.ppn, l + 1, v)

\* What the kernel reaches when it reads or writes at virtual address a.
Reach(m, a) ==
  IF satp = "startup" THEN a % Half ELSE Walk(m, Root, 0, a).p

-----------------------------------------------------------------------------
(* _createPTE and _getPTE return the table that holds the entry of level l. *)

Bad == [mem |-> <<>>, tab |-> -1]

Access(m, a) ==
  IF Reach(m, a) \in DOMAIN m THEN [mem |-> m, tab |-> Reach(m, a)] ELSE Bad

\* Mutant: a fresh table is not taken off the heap.
NewTable_Shared(m) == CHOOSE f \in Frames : \A g \in Frames : f >= g

NewTable(m) == CHOOSE f \in Frames \ DOMAIN m : \A g \in Frames \ DOMAIN m : f <= g

\* Mutant: the walk dereferences physical addresses.
TableAt_Physical(m, e) == Access(m, Paddr(e))

TableAt(m, e) == Access(m, Paddr(e) + Off)

RECURSIVE CreatePTE(_, _, _)
CreatePTE(m, l, v) ==
  IF l = 0 THEN [mem |-> m, tab |-> Root]
  ELSE LET up == CreatePTE(m, l - 1, v)
           i  == Index(v, l - 1)
           e  == up.mem[up.tab][i]
           f  == NewTable(up.mem)
       IN IF up = Bad THEN Bad
          ELSE IF Paddr(e) # 0 THEN TableAt(up.mem, e)
          ELSE [mem |-> (f :> [j \in 0 .. Fan - 1 |-> NoPTE]) @@
                  [up.mem EXCEPT ![up.tab][i] =
                     [e EXCEPT !.v = TRUE, !.ppn = f, !.perm = @ \ {"R", "W", "X"}]],
                tab |-> f]

RECURSIVE GetPTE(_, _, _)
GetPTE(m, l, v) ==
  IF l = 0 THEN [mem |-> m, tab |-> Root]
  ELSE LET up == GetPTE(m, l - 1, v)
       IN IF up = Bad THEN Bad ELSE Access(m, Paddr(m[up.tab][Index(v, l - 1)]))

-----------------------------------------------------------------------------
(* map and unmap cut a range into the largest aligned blocks and stop at    *)
(* the first one that fails; the blocks done so far stay.                   *)

Done(m, c) == [mem |-> m, rc |-> c]

\* _map and _unmap of one block
MapBlock(m, l, v, p, prot) ==
  LET at == CreatePTE(m, l, v) IN
  IF at = Bad THEN Done(m, "wild")
  ELSE IF at.mem[at.tab][Index(v, l)].v THEN Done(at.mem, "K_EALREADY")
  ELSE Done([at.mem EXCEPT ![at.tab][Index(v, l)] =
               [v    |-> TRUE,
                perm |-> prot \ {"IO"},
                ad   |-> (IF "R" \in prot THEN {"A"} ELSE {})
                           \cup (IF "W" \in prot THEN {"D"} ELSE {}),
                ppn  |-> p]], "OK")

UnmapBlock(m, l, v) ==
  LET at == GetPTE(m, l, v) IN
  IF at = Bad THEN Done(m, "wild")
  ELSE IF ~m[at.tab][Index(v, l)].v THEN Done(m, "K_EALREADY")
  ELSE Done([m EXCEPT ![at.tab][Index(v, l)].v = FALSE,
                      ![at.tab][Index(v, l)].ppn = 0], "OK")

\* Mutant: the physical address may be misaligned.
BlockLevel_VirtualOnly(v, p, n) ==
  CHOOSE l \in 0 .. Levels - 1 :
    /\ v % Span(l) = 0 /\ n >= Span(l)
    /\ \A k \in 0 .. l - 1 : ~(v % Span(k) = 0 /\ n >= Span(k))

\* the level of the largest block that fits at v (and p) and in n bytes
BlockLevel(v, p, n) ==
  CHOOSE l \in 0 .. Levels - 1 :
    /\ v % Span(l) = 0 /\ p % Span(l) = 0 /\ n >= Span(l)
    /\ \A k \in 0 .. l - 1 : ~(v % Span(k) = 0 /\ p % Span(k) = 0 /\ n >= Span(k))

RECURSIVE MapBlocks(_, _, _, _, _)
MapBlocks(m, v, p, n, prot) ==
  LET l == BlockLevel(v, p, n)
      d == MapBlock(m, l, v, p, prot)
  IN IF d.rc # "OK" \/ n = Span(l) THEN d
     ELSE MapBlocks(d.mem, v + Span(l), p + Span(l), n - Span(l), prot)

RECURSIVE UnmapBlocks(_, _, _)
UnmapBlocks(m, v, n) ==
  LET l == BlockLevel(v, 0, n)
      d == UnmapBlock(m, l, v)
  IN IF d.rc # "OK" \/ n = Span(l) THEN d
     ELSE UnmapBlocks(d.mem, v + Span(l), n - Span(l))

Misaligned(r) == \E a \in {r.v, r.p, r.n} : a % PageSize # 0

\* vaddr + size or paddr + size wraps around; a range that ends at the last
\* address does too
Wraps(r) == \E a \in {r.v, r.p} : (a + r.n) % Word < a

-----------------------------------------------------------------------------
MMUInit ==
  /\ mem = Root :> [j \in 0 .. Fan - 1 |-> NoPTE]
  /\ satp = "startup"
  /\ rc = "OK"
  /\ live = {}
  /\ used = {}
  /\ wild = "no"

PagesOf(r) == { a \in r.v .. r.v + r.n - 1 : a % PageSize = 0 }

\* The arguments map() turns down, or has nothing to do for.
MapRefused(r) ==
  /\ rc' = IF Misaligned(r) THEN "K_EINVAL"
           ELSE IF r.n = 0 THEN "OK"
           ELSE IF Wraps(r) THEN "K_EINVALID_ADDR" ELSE "K_ENOSPC"
  /\ \/ Misaligned(r) \/ r.n = 0 \/ Wraps(r)
     \/ r.prot \cap {"R", "W", "X"} \in {{}, {"W"}, {"W", "X"}}
  /\ UNCHANGED <<mem, satp, live, used, wild>>

Map(r) ==
  /\ ~Misaligned(r) /\ r.n > 0 /\ ~Wraps(r)
  /\ r.prot \cap {"R", "W", "X"} \notin {{}, {"W"}, {"W", "X"}}
  /\ LET d == MapBlocks(mem, r.v, r.p, r.n, r.prot) IN
       /\ mem' = d.mem
       /\ rc' = d.rc
       /\ wild' = IF d.rc = "wild" THEN "create" ELSE "no"
       /\ live' = IF d.rc = "OK" THEN live \cup {r} ELSE live
  /\ used' = used \cup PagesOf(r)
  /\ UNCHANGED satp

\* unmap(vaddr, size) has no paddr to look at.
Virtual(r) == [r EXCEPT !.p = 0]

UnmapRefused(r) ==
  /\ rc' = IF Misaligned(Virtual(r)) THEN "K_EINVAL"
           ELSE IF r.n = 0 THEN "OK" ELSE "K_EINVALID_ADDR"
  /\ Misaligned(Virtual(r)) \/ r.n = 0 \/ Wraps(Virtual(r))
  /\ UNCHANGED <<mem, satp, live, used, wild>>

Unmap(r) ==
  /\ ~Misaligned(Virtual(r)) /\ r.n > 0 /\ ~Wraps(Virtual(r))
  /\ LET d == UnmapBlocks(mem, r.v, r.n) IN
       /\ mem' = d.mem
       /\ rc' = d.rc
       /\ wild' = IF d.rc = "wild" THEN "get" ELSE "no"
  /\ live' = live \ {r}
  /\ UNCHANGED <<satp, used>>

\* enable(true), from code that runs in the upper half
Enable ==
  /\ satp = "startup"
  /\ Walk(mem, Root, 0, Off) # Fault
  /\ satp' = "sys"
  /\ rc' = "OK"
  /\ UNCHANGED <<mem, live, used, wild>>

MMUNext ==
  \/ Enable
  \/ \E r \in Requests : MapRefused(r) \/ Map(r) \/ UnmapRefused(r) \/ Unmap(r)

MMUSpec == MMUInit /\ [][MMUNext]_mmuVars

-----------------------------------------------------------------------------
(* Properties *)

Pages == { a \in (0 .. Half - 1) \cup (Off .. Word - 1) : a % PageSize = 0 }

\* No two entries lead to the same table, so that no range sees what is
\* mapped in another.
TablesNotShared ==
  \A f \in DOMAIN mem :
    Cardinality({ <<g, i>> \in (DOMAIN mem) \X (0 .. Fan - 1) :
                    mem[g][i].v /\ IsPointer(mem[g][i]) /\ mem[g][i].ppn = f })
      <= IF f = Root THEN 0 ELSE 1

\* _createPTE and _getPTE only ever step from table to table.
NoWildWalk == wild = "no"

Abstract == INSTANCE AbstractMap WITH
  Unmapped <- Fault,
  pages <- [a \in Pages |-> Walk(mem, Root, 0, a)],
  ok <- rc = "OK"

\* What the hardware finds in the tables is the map that the callers asked
\* for: map() and unmap() change the pages of their range and no others, and
\* a range that was never used before is mapped completely.
ImplementsMap == Abstract!Spec
=============================================================================
