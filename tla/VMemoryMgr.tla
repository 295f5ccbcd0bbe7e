----------------------------- MODULE VMemoryMgr -----------------------------
(***************************************************************************)
(* The virtual memory managers (k_vmmgr.hpp): each keeps a list of pending *)
(* and done mappings for one MMU object, confirm() carries the pending     *)
(* ones out, and global mappings are also kept in a list that every new    *)
(* manager starts from.                                                    *)
(*                                                                         *)
(* A mapping is a model value for its vaddr and size.  The MMU is the set  *)
(* of what is mapped: it refuses to map what is mapped and to unmap what   *)
(* is not (K_EALREADY), see PageTable.                                     *)
(***************************************************************************)
EXTENDS Integers, Sequences

CONSTANTS
  Mgrs,      \* managers
  Maps,      \* mappings
  Globals,   \* those asked for with PROT_G
  MaxLen     \* bound on the length of a list

ASSUME VMAssumption == Globals \subseteq Maps /\ MaxLen \in Nat

VARIABLES
  global_maps,   \* _global_maps
  made,          \* the managers constructed
  maps,          \* _maps of each
  mmu,           \* what each one's MMU has mapped
  wanted,        \* what its caller added or inherited, and did not remove
  turn,          \* the entry its confirm() is at, 0 outside confirm()
  confirmed      \* what its last confirm() returned, "none" since a change

vmVars == <<global_maps, made, maps, mmu, wanted, turn, confirmed>>

\* One hart calls the managers, and nothing of them is locked.
Idle == \A m \in Mgrs : turn[m] = 0

Mapped(list) == { list[k].map : k \in 1 .. Len(list) }

VMInit ==
  /\ global_maps = <<>>
  /\ made = {}
  /\ maps = [m \in Mgrs |-> <<>>]
  /\ mmu = [m \in Mgrs |-> {}]
  /\ wanted = [m \in Mgrs |-> {}]
  /\ turn = [m \in Mgrs |-> 0]
  /\ confirmed = [m \in Mgrs |-> "none"]

\* Mutant: a new manager starts with an empty list.
New_NoGlobals(m) ==
  /\ m \notin made /\ Idle
  /\ made' = made \cup {m}
  /\ wanted' = [wanted EXCEPT ![m] = Mapped(global_maps)]
  /\ UNCHANGED <<global_maps, maps, mmu, turn, confirmed>>

\* the constructor
New(m) ==
  /\ m \notin made /\ Idle
  /\ made' = made \cup {m}
  /\ maps' = [maps EXCEPT ![m] = global_maps]
  /\ wanted' = [wanted EXCEPT ![m] = Mapped(global_maps)]
  /\ UNCHANGED <<global_maps, mmu, turn, confirmed>>

addMap(m, r) ==
  LET e == [map |-> r, pending |-> "MAP"] IN
  /\ m \in made /\ Idle
  /\ Len(maps[m]) < MaxLen /\ Len(global_maps) < MaxLen
  /\ global_maps' = IF r \in Globals THEN Append(global_maps, e) ELSE global_maps
  /\ maps' = [maps EXCEPT ![m] = Append(@, e)]
  /\ wanted' = [wanted EXCEPT ![m] = @ \cup {r}]
  /\ confirmed' = [confirmed EXCEPT ![m] = "none"]
  /\ UNCHANGED <<made, mmu, turn>>

\* the first entry of a list for r is to be unmapped
MarkFirst(list, r) ==
  LET hits == { i \in 1 .. Len(list) : list[i].map = r } IN
  [i \in 1 .. Len(list) |->
     IF i \in hits /\ \A j \in hits : i <= j
       THEN [list[i] EXCEPT !.pending = "UNMAP"] ELSE list[i]]

\* PROT_G chooses the list.
removeMap(m, r) ==
  /\ m \in made /\ Idle
  /\ IF r \in Globals
       THEN global_maps' = MarkFirst(global_maps, r) /\ UNCHANGED maps
       ELSE maps' = [maps EXCEPT ![m] = MarkFirst(@, r)] /\ UNCHANGED global_maps
  /\ wanted' = [wanted EXCEPT ![m] = @ \ {r}]
  /\ confirmed' = [confirmed EXCEPT ![m] = "none"]
  /\ UNCHANGED <<made, mmu, turn>>

Fails(e, on) == \/ e.pending = "MAP" /\ e.map \in on
                \/ e.pending = "UNMAP" /\ e.map \notin on

\* confirm() is called.
confirm(m) ==
  /\ m \in made /\ Idle
  /\ turn' = [turn EXCEPT ![m] = 1]
  /\ UNCHANGED <<global_maps, made, maps, mmu, wanted, confirmed>>

\* Mutant: an entry that was carried out stays pending.
Carry_StaysPending(m) ==
  LET e == maps[m][turn[m]] IN
  /\ turn[m] \in 1 .. Len(maps[m]) /\ ~Fails(e, mmu[m])
  /\ mmu' = [mmu EXCEPT ![m] = CASE e.pending = "MAP"   -> @ \cup {e.map}
                                 [] e.pending = "UNMAP" -> @ \ {e.map}
                                 [] OTHER               -> @]
  /\ turn' = [turn EXCEPT ![m] = @ + 1]
  /\ UNCHANGED <<global_maps, made, maps, wanted, confirmed>>

\* one turn of its loop
Carry(m) ==
  LET e == maps[m][turn[m]] IN
  /\ turn[m] \in 1 .. Len(maps[m]) /\ ~Fails(e, mmu[m])
  /\ mmu' = [mmu EXCEPT ![m] = CASE e.pending = "MAP"   -> @ \cup {e.map}
                                 [] e.pending = "UNMAP" -> @ \ {e.map}
                                 [] OTHER               -> @]
  /\ maps' = [maps EXCEPT ![m][turn[m]].pending = "NONE"]
  /\ turn' = [turn EXCEPT ![m] = @ + 1]
  /\ UNCHANGED <<global_maps, made, wanted, confirmed>>

\* It returns at the first entry that fails, and leaves the rest as it is, or
\* behind the last one.
Return(m) ==
  /\ turn[m] > 0
  /\ \/ /\ turn[m] <= Len(maps[m]) /\ Fails(maps[m][turn[m]], mmu[m])
        /\ confirmed' = [confirmed EXCEPT ![m] = "K_EALREADY"]
     \/ turn[m] > Len(maps[m]) /\ confirmed' = [confirmed EXCEPT ![m] = "OK"]
  /\ turn' = [turn EXCEPT ![m] = 0]
  /\ UNCHANGED <<global_maps, made, maps, mmu, wanted>>

VMNext ==
  \E m \in Mgrs :
    \/ New(m) \/ confirm(m) \/ Carry(m) \/ Return(m)
    \/ \E r \in Maps : addMap(m, r) \/ removeMap(m, r)

VMSpec == VMInit /\ [][VMNext]_vmVars

-----------------------------------------------------------------------------
(* A caller adds what it does not have, and a global mapping only if no     *)
(* manager has added it.  It removes what confirm() has mapped, and leaves  *)
(* global mappings where they are.                                          *)

Settled(m, r) == \A k \in 1 .. Len(maps[m]) : maps[m][k].map = r => maps[m][k].pending = "NONE"

NewGlobal(r) == r \in Globals => r \notin Mapped(global_maps)

CarefulNext ==
  \E m \in Mgrs :
    \/ New(m) \/ confirm(m) \/ Carry(m) \/ Return(m)
    \/ \E r \in Maps \ wanted[m] : NewGlobal(r) /\ addMap(m, r)
    \/ \E r \in wanted[m] \ Globals : Settled(m, r) /\ removeMap(m, r)

CarefulSpec == VMInit /\ [][CarefulNext]_vmVars

\* "Actually do the map and unmap" (k_vmmgr.hpp:36): when confirm() has
\* succeeded, the MMU maps exactly what the caller wants.
ConfirmExact == \A m \in Mgrs : confirmed[m] = "OK" => mmu[m] = wanted[m]

\* confirm() never fails a careful caller, so that no mapping behind a failed
\* one is held up, in whatever order mappings came, went and came again.
ConfirmSucceeds == \A m \in Mgrs : confirmed[m] # "K_EALREADY"
=============================================================================
