-------------------------- MODULE VMemoryMgrProofs --------------------------
(***************************************************************************)
(* confirm() and its callers, for any managers, any mappings and lists of  *)
(* any length: a careful caller always gets what it asked for.             *)
(***************************************************************************)
EXTENDS VMemoryMgr, WellFoundedInduction, TLAPS

Entry == [map : Maps, pending : {"NONE", "MAP", "UNMAP"}]

VMTypeOK ==
  /\ global_maps \in Seq(Entry)
  /\ made \in SUBSET Mgrs
  /\ maps \in [Mgrs -> Seq(Entry)]
  /\ mmu \in [Mgrs -> SUBSET Maps]
  /\ wanted \in [Mgrs -> SUBSET Maps]
  /\ turn \in [Mgrs -> Nat]
  /\ confirmed \in [Mgrs -> {"none", "OK", "K_EALREADY"}]

\* Entry k of a list waits to have mapping r mapped or unmapped.
Waits(list, k, r, what) ==
  k \in 1 .. Len(list) /\ list[k].map = r /\ list[k].pending = what

Has(list, r, what) == \E k \in 1 .. Len(list) : Waits(list, k, r, what)

\* A list has at most one entry waiting to map r and one to unmap it, and the
\* one to unmap it is in front.
Ordered(list) ==
  \A r \in Maps : \A k, l \in 1 .. Len(list) :
    /\ Waits(list, k, r, "MAP") /\ Waits(list, l, r, "MAP") => k = l
    /\ Waits(list, k, r, "UNMAP") /\ Waits(list, l, r, "UNMAP") => k = l
    /\ Waits(list, k, r, "UNMAP") /\ Waits(list, l, r, "MAP") => k < l

\* What waits in a list leads from what the MMU has (on) to what is wanted.
Leads(list, on, want) ==
  \A r \in Maps :
    /\ Has(list, r, "MAP") => r \in want
    /\ Has(list, r, "UNMAP") => r \in on
    /\ Has(list, r, "MAP") /\ ~Has(list, r, "UNMAP") => r \notin on
    /\ Has(list, r, "UNMAP") /\ ~Has(list, r, "MAP") => r \notin want
    /\ ~Has(list, r, "MAP") /\ ~Has(list, r, "UNMAP") => (r \in on <=> r \in want)
    /\ r \in want => r \in Mapped(list)

\* Of the global list every entry waits to be mapped, each mapping once.
GlobalInv ==
  /\ \A k \in 1 .. Len(global_maps) : global_maps[k].pending = "MAP"
  /\ \A k, l \in 1 .. Len(global_maps) : global_maps[k].map = global_maps[l].map => k = l

MgrInv(m) ==
  /\ m \notin made => mmu[m] = {} /\ turn[m] = 0 /\ confirmed[m] = "none"
  /\ Ordered(maps[m])
  /\ Leads(maps[m], mmu[m], wanted[m])
  /\ \A k \in 1 .. Len(maps[m]) : k < turn[m] => maps[m][k].pending = "NONE"
  /\ confirmed[m] = "OK" => \A k \in 1 .. Len(maps[m]) : maps[m][k].pending = "NONE"
  /\ confirmed[m] # "K_EALREADY"

IInv == VMTypeOK /\ GlobalInv /\ \A m \in Mgrs : MgrInv(m)

-----------------------------------------------------------------------------
(* What the operations do to a list *)

LEMMA Least ==
  ASSUME NEW S, S \subseteq Nat, S # {}
  PROVE  \E x \in S : \A y \in S : x <= y
<1>1. PICK x \in S : \A y \in S : ~(<<y, x>> \in OpToRel(<, Nat))
  BY NatLessThanWellFounded, WFMin, Zenon
<1>2. \A y \in S : ~(y < x)
  BY <1>1 DEF OpToRel
<1> QED
  BY <1>2

\* addMap() of what is not wanted
LEMMA AppendLeads ==
  ASSUME NEW list \in Seq(Entry), NEW on \in SUBSET Maps, NEW want \in SUBSET Maps,
         NEW r \in Maps, r \notin want, Ordered(list), Leads(list, on, want)
  PROVE  LET e == [map |-> r, pending |-> "MAP"] IN
           /\ Append(list, e) \in Seq(Entry)
           /\ Ordered(Append(list, e))
           /\ Leads(Append(list, e), on, want \cup {r})
<1> DEFINE e == [map |-> r, pending |-> "MAP"]
           new == Append(list, e)
<1>1. e \in Entry /\ e.map = r /\ e.pending = "MAP"
  BY DEF Entry
<1>2. /\ new \in Seq(Entry) /\ Len(list) \in Nat /\ Len(new) = Len(list) + 1
      /\ \A k \in 1 .. Len(list) : new[k] = list[k]
      /\ new[Len(list) + 1] = e
  BY <1>1
<1> HIDE DEF e, new
<1>3. \A k, q, what : Waits(new, k, q, what) <=>
        Waits(list, k, q, what) \/ (k = Len(list) + 1 /\ q = r /\ what = "MAP")
  BY <1>1, <1>2 DEF Waits
<1>4. ~Has(list, r, "MAP")
  BY DEF Leads
<1>5. Ordered(new)
  <2> SUFFICES ASSUME NEW q \in Maps, NEW k \in 1 .. Len(new), NEW l \in 1 .. Len(new)
               PROVE  /\ Waits(new, k, q, "MAP") /\ Waits(new, l, q, "MAP") => k = l
                      /\ Waits(new, k, q, "UNMAP") /\ Waits(new, l, q, "UNMAP") => k = l
                      /\ Waits(new, k, q, "UNMAP") /\ Waits(new, l, q, "MAP") => k < l
    BY DEF Ordered
  <2>1. \A j : Waits(list, j, q, "MAP") => j \in 1 .. Len(list) /\ q # r
    BY <1>4 DEF Waits, Has
  <2>2. \A j : Waits(list, j, q, "UNMAP") => j \in 1 .. Len(list)
    BY DEF Waits
  <2> QED
    BY <1>2, <1>3, <2>1, <2>2 DEF Ordered
<1>6. \A q, what : Has(new, q, what) <=> Has(list, q, what) \/ (q = r /\ what = "MAP")
  <2>1. 1 .. Len(list) \subseteq 1 .. Len(new) /\ Len(list) + 1 \in 1 .. Len(new)
    BY <1>2
  <2>2. \A k, q, what : Waits(list, k, q, what) => k \in 1 .. Len(list)
    BY DEF Waits
  <2>3. Waits(new, Len(list) + 1, r, "MAP")
    BY <1>3
  <2> SUFFICES ASSUME NEW q, NEW what
               PROVE  Has(new, q, what) <=> Has(list, q, what) \/ (q = r /\ what = "MAP")
    OBVIOUS
  <2>4. Has(new, q, what) => Has(list, q, what) \/ (q = r /\ what = "MAP")
    <3> SUFFICES ASSUME NEW k, Waits(new, k, q, what), ~(q = r /\ what = "MAP")
                 PROVE  Has(list, q, what)
      BY Zenon DEF Has
    <3>1. Waits(list, k, q, what)
      BY <1>3
    <3> QED
      BY <3>1, <2>2, Zenon DEF Has
  <2>5. Has(list, q, what) => Has(new, q, what)
    BY <2>1, <1>3, Zenon DEF Has
  <2>6. q = r /\ what = "MAP" => Has(new, q, what)
    BY <2>1, <2>3, Zenon DEF Has
  <2> QED
    BY <2>4, <2>5, <2>6
<1>7. \A q : q \in Mapped(new) <=> q \in Mapped(list) \/ q = r
  BY <1>1, <1>2 DEF Mapped
<1>8. Leads(new, on, want \cup {r})
  BY <1>4, <1>6, <1>7 DEF Leads
<1> QED
  BY <1>2, <1>5, <1>8 DEF e, new

\* removeMap() of what is wanted and waits for nothing
LEMMA MarkLeads ==
  ASSUME NEW list \in Seq(Entry), NEW on \in SUBSET Maps, NEW want \in SUBSET Maps,
         NEW r \in want, Ordered(list), Leads(list, on, want),
         \A k \in 1 .. Len(list) : list[k].map = r => list[k].pending = "NONE"
  PROVE  /\ MarkFirst(list, r) \in Seq(Entry)
         /\ Len(MarkFirst(list, r)) = Len(list)
         /\ Ordered(MarkFirst(list, r))
         /\ Leads(MarkFirst(list, r), on, want \ {r})
<1> DEFINE hits == { i \in 1 .. Len(list) : list[i].map = r }
           new == MarkFirst(list, r)
<1>0. r \in Maps /\ Len(list) \in Nat
  OBVIOUS
<1>1. hits # {} /\ hits \subseteq Nat
  BY <1>0 DEF Leads, Mapped
<1>2. PICK f \in hits : \A j \in hits : f <= j
  BY <1>1, Least, Zenon
<1>3. \A i \in 1 .. Len(list) : (i \in hits /\ \A j \in hits : i <= j) <=> i = f
  BY <1>1, <1>2
<1>4. new = [i \in 1 .. Len(list) |-> IF i = f THEN [list[i] EXCEPT !.pending = "UNMAP"] ELSE list[i]]
  BY <1>3, Zenon DEF MarkFirst
<1>5. f \in 1 .. Len(list) /\ list[f].map = r
  BY <1>2
<1>6. \A i \in 1 .. Len(list) : list[i] \in Entry
  OBVIOUS
<1>7. /\ [list[f] EXCEPT !.pending = "UNMAP"] \in Entry
      /\ [list[f] EXCEPT !.pending = "UNMAP"].map = r
      /\ [list[f] EXCEPT !.pending = "UNMAP"].pending = "UNMAP"
  BY <1>5, <1>6 DEF Entry
<1>8. new \in [1 .. Len(list) -> Entry]
  <2>1. \A i \in 1 .. Len(list) :
          (IF i = f THEN [list[i] EXCEPT !.pending = "UNMAP"] ELSE list[i]) \in Entry
    BY <1>6, <1>7, Zenon
  <2> HIDE DEF new
  <2> QED
    BY <1>4, <2>1, Zenon
<1>9. new \in Seq(Entry) /\ Len(new) = Len(list)
  <2> HIDE DEF new
  <2> QED
    BY <1>8, <1>0
<1>10. /\ \A i \in 1 .. Len(list) : i # f => new[i] = list[i]
       /\ new[f].map = r /\ new[f].pending = "UNMAP"
  BY <1>4, <1>5, <1>7, Zenon
<1> HIDE DEF new, hits
<1>11. \A k, q, what : Waits(new, k, q, what) <=>
         (k # f /\ Waits(list, k, q, what)) \/ (k = f /\ q = r /\ what = "UNMAP")
  BY <1>5, <1>9, <1>10, Zenon DEF Waits
<1>12. \A k : ~Waits(list, k, r, "MAP") /\ ~Waits(list, k, r, "UNMAP")
  BY DEF Waits
<1>13. \A k, q : q # r => ~Waits(list, f, q, "MAP") /\ ~Waits(list, f, q, "UNMAP")
  BY <1>5 DEF Waits
<1>14. Ordered(new)
  <2> SUFFICES ASSUME NEW q \in Maps, NEW k \in 1 .. Len(new), NEW l \in 1 .. Len(new)
               PROVE  /\ Waits(new, k, q, "MAP") /\ Waits(new, l, q, "MAP") => k = l
                      /\ Waits(new, k, q, "UNMAP") /\ Waits(new, l, q, "UNMAP") => k = l
                      /\ Waits(new, k, q, "UNMAP") /\ Waits(new, l, q, "MAP") => k < l
    BY DEF Ordered
  <2>1. CASE q = r
    BY <2>1, <1>11, <1>12
  <2>2. CASE q # r
    BY <2>2, <1>9, <1>11 DEF Ordered
  <2> QED
    BY <2>1, <2>2
<1>15. \A q : q # r => (Has(new, q, "MAP") <=> Has(list, q, "MAP"))
                       /\ (Has(new, q, "UNMAP") <=> Has(list, q, "UNMAP"))
  BY <1>9, <1>11, <1>13, Zenon DEF Has
<1>16. ~Has(new, r, "MAP") /\ Has(new, r, "UNMAP") /\ ~Has(list, r, "MAP") /\ ~Has(list, r, "UNMAP")
  BY <1>5, <1>9, <1>11, <1>12 DEF Has
<1>17. \A q : q \in Mapped(list) => q \in Mapped(new)
  <2> SUFFICES ASSUME NEW k \in 1 .. Len(list) PROVE list[k].map \in Mapped(new)
    BY DEF Mapped
  <2>1. new[k].map = list[k].map
    BY <1>5, <1>10
  <2> QED
    BY <2>1, <1>9 DEF Mapped
<1>18. Leads(new, on, want \ {r})
  BY <1>0, <1>15, <1>16, <1>17, Zenon DEF Leads
<1> QED
  BY <1>9, <1>14, <1>18 DEF new

\* The entry confirm() comes to is not turned down.
LEMMA NoFailure ==
  ASSUME NEW list \in Seq(Entry), NEW on \in SUBSET Maps, NEW want \in SUBSET Maps,
         NEW t \in 1 .. Len(list), Ordered(list), Leads(list, on, want),
         \A k \in 1 .. Len(list) : k < t => list[k].pending = "NONE"
  PROVE  ~Fails(list[t], on)
<1> DEFINE q == list[t].map
<1>1. q \in Maps
  <2>1. list[t] \in Entry
    OBVIOUS
  <2> QED
    BY <2>1 DEF Entry
<1>2. ASSUME list[t].pending = "MAP" PROVE q \notin on
  <2>1. Waits(list, t, q, "MAP") /\ Has(list, q, "MAP")
    BY <1>2 DEF Waits, Has
  <2>2. ~Has(list, q, "UNMAP")
    <3> SUFFICES ASSUME NEW k \in 1 .. Len(list), Waits(list, k, q, "UNMAP") PROVE FALSE
      BY DEF Has
    <3>1. k < t
      BY <2>1, <1>1 DEF Ordered
    <3> QED
      BY <3>1 DEF Waits
  <2> QED
    BY <1>1, <2>1, <2>2, Zenon DEF Leads
<1>3. ASSUME list[t].pending = "UNMAP" PROVE q \in on
  <2>1. Has(list, q, "UNMAP")
    BY <1>3 DEF Waits, Has
  <2> QED
    BY <1>1, <2>1, Zenon DEF Leads
<1> QED
  BY <1>2, <1>3, Zenon DEF Fails

\* The list when entry t has been carried out, and what the MMU has then.
Cleared(list, t, new) ==
  /\ new \in Seq(Entry) /\ Len(new) = Len(list)
  /\ \A k \in 1 .. Len(list) : k # t => new[k] = list[k]
  /\ new[t].map = list[t].map /\ new[t].pending = "NONE"

Carried(e, on, now) ==
  /\ e.pending = "MAP" => now = on \cup {e.map}
  /\ e.pending = "UNMAP" => now = on \ {e.map}
  /\ e.pending = "NONE" => now = on

CarryDone(list, new, now, want) ==
  /\ \A k \in 1 .. Len(list) : list[k].pending = "NONE" => new[k].pending = "NONE"
  /\ now \in SUBSET Maps
  /\ Ordered(new)
  /\ Leads(new, now, want)

\* one turn of confirm()
LEMMA CarryLeads ==
  ASSUME NEW list \in Seq(Entry), NEW on \in SUBSET Maps, NEW want \in SUBSET Maps,
         NEW t \in 1 .. Len(list), Ordered(list), Leads(list, on, want),
         ~Fails(list[t], on),
         NEW new, Cleared(list, t, new), NEW now, Carried(list[t], on, now)
  PROVE  CarryDone(list, new, now, want)
<1> DEFINE q == list[t].map
<1>1. /\ list[t] \in Entry /\ q \in Maps /\ Len(list) \in Nat
      /\ list[t].pending \in {"NONE", "MAP", "UNMAP"}
  <2>1. list[t] \in Entry /\ Len(list) \in Nat
    OBVIOUS
  <2> QED
    BY <2>1 DEF Entry
<1>2. /\ new \in Seq(Entry) /\ Len(new) = Len(list)
      /\ \A k \in 1 .. Len(list) : k # t => new[k] = list[k]
      /\ new[t].map = q /\ new[t].pending = "NONE"
  BY DEF Cleared
<1>3. /\ list[t].pending = "MAP" => now = on \cup {q}
      /\ list[t].pending = "UNMAP" => now = on \ {q}
      /\ list[t].pending = "NONE" => now = on
  BY DEF Carried
<1>4. \A k, r : /\ Waits(new, k, r, "MAP") <=> k # t /\ Waits(list, k, r, "MAP")
                /\ Waits(new, k, r, "UNMAP") <=> k # t /\ Waits(list, k, r, "UNMAP")
  BY <1>2 DEF Waits
<1>5. Ordered(new)
  BY <1>2, <1>4, Zenon DEF Ordered
<1>6. \A r : r # q => (Has(new, r, "MAP") <=> Has(list, r, "MAP"))
                      /\ (Has(new, r, "UNMAP") <=> Has(list, r, "UNMAP"))
  <2>1. \A r : r # q => ~Waits(list, t, r, "MAP") /\ ~Waits(list, t, r, "UNMAP")
    BY DEF Waits
  <2> QED
    BY <2>1, <1>2, <1>4, Zenon DEF Has
<1>7. \A r : r \in Mapped(list) => r \in Mapped(new)
  <2> SUFFICES ASSUME NEW k \in 1 .. Len(list) PROVE list[k].map \in Mapped(new)
    BY DEF Mapped
  <2>1. new[k].map = list[k].map
    BY <1>2
  <2> QED
    BY <2>1, <1>2 DEF Mapped
<1>8. now \in SUBSET Maps /\ \A r : r # q => (r \in now <=> r \in on)
  BY <1>1, <1>3
<1>9. ASSUME list[t].pending = "MAP" PROVE Leads(new, now, want)
  <2>1. Waits(list, t, q, "MAP") /\ Has(list, q, "MAP")
    BY <1>9 DEF Waits, Has
  <2>2. q \in want /\ q \in now /\ ~Has(list, q, "UNMAP")
    BY <2>1, <1>1, <1>3, <1>9 DEF Leads, Fails
  <2>3. ~Has(new, q, "MAP") /\ ~Has(new, q, "UNMAP")
    <3>1. \A k \in 1 .. Len(list) : Waits(list, k, q, "MAP") => k = t
      BY <2>1, <1>1 DEF Ordered
    <3> QED
      BY <3>1, <2>2, <1>2, <1>4, Zenon DEF Has
  <2> QED
    BY <2>2, <2>3, <1>6, <1>7, <1>8, Zenon DEF Leads
<1>10. ASSUME list[t].pending = "UNMAP" PROVE Leads(new, now, want)
  <2>1. Waits(list, t, q, "UNMAP") /\ Has(list, q, "UNMAP")
    BY <1>10 DEF Waits, Has
  <2>2. ~Has(new, q, "UNMAP") /\ (Has(new, q, "MAP") <=> Has(list, q, "MAP"))
    <3>1. \A k \in 1 .. Len(list) : Waits(list, k, q, "UNMAP") => k = t
      BY <2>1, <1>1 DEF Ordered
    <3>2. ~Waits(list, t, q, "MAP")
      BY <1>10 DEF Waits
    <3> QED
      BY <3>1, <3>2, <1>2, <1>4, Zenon DEF Has
  <2>3. q \notin now /\ (Has(list, q, "MAP") <=> q \in want)
    BY <2>1, <1>1, <1>3, <1>10 DEF Leads
  <2> QED
    BY <2>2, <2>3, <1>6, <1>7, <1>8, Zenon DEF Leads
<1>11. ASSUME list[t].pending = "NONE" PROVE Leads(new, now, want)
  <2>1. ~Waits(list, t, q, "MAP") /\ ~Waits(list, t, q, "UNMAP")
    BY <1>11 DEF Waits
  <2>2. (Has(new, q, "MAP") <=> Has(list, q, "MAP")) /\ (Has(new, q, "UNMAP") <=> Has(list, q, "UNMAP"))
    BY <2>1, <1>2, <1>4, Zenon DEF Has
  <2> QED
    BY <2>2, <1>3, <1>11, <1>6, <1>7, Zenon DEF Leads
<1>12. \A k \in 1 .. Len(list) : list[k].pending = "NONE" => new[k].pending = "NONE"
  BY <1>2
<1> QED
  BY <1>1, <1>2, <1>5, <1>8, <1>9, <1>10, <1>11, <1>12 DEF CarryDone

\* the list a new manager starts from
LEMMA GlobalLeads ==
  ASSUME GlobalInv, global_maps \in Seq(Entry)
  PROVE  /\ Ordered(global_maps)
         /\ Leads(global_maps, {}, Mapped(global_maps))
         /\ Mapped(global_maps) \in SUBSET Maps
<1>1. Mapped(global_maps) \in SUBSET Maps
  <2>1. \A k \in 1 .. Len(global_maps) : global_maps[k] \in Entry
    OBVIOUS
  <2> QED
    BY <2>1 DEF Mapped, Entry
<1>2. \A k, r : ~Waits(global_maps, k, r, "UNMAP")
  BY DEF GlobalInv, Waits
<1>3. Ordered(global_maps)
  BY <1>2 DEF GlobalInv, Waits, Ordered
<1>4. \A r : ~Has(global_maps, r, "UNMAP") /\ (Has(global_maps, r, "MAP") <=> r \in Mapped(global_maps))
  BY <1>2 DEF GlobalInv, Waits, Has, Mapped
<1>5. Leads(global_maps, {}, Mapped(global_maps))
  BY <1>4, Zenon DEF Leads
<1> QED
  BY <1>1, <1>3, <1>5

-----------------------------------------------------------------------------
(* The invariant *)

\* A manager that a step leaves alone.
LEMMA Frame ==
  ASSUME NEW g \in Mgrs, MgrInv(g), maps'[g] = maps[g], mmu'[g] = mmu[g],
         wanted'[g] = wanted[g], turn'[g] = turn[g], confirmed'[g] = confirmed[g],
         g \in made => g \in made'
  PROVE  MgrInv(g)'
  BY Zenon DEF MgrInv

LEMMA InitInv == VMInit => IInv
<1> SUFFICES ASSUME VMInit PROVE IInv
  OBVIOUS
<1>1. VMTypeOK
  BY DEF VMInit, VMTypeOK
<1>2. GlobalInv
  BY DEF VMInit, GlobalInv
<1>3. ASSUME NEW m \in Mgrs PROVE MgrInv(m)
  <2>1. maps[m] = <<>> /\ mmu[m] = {} /\ wanted[m] = {} /\ turn[m] = 0 /\ confirmed[m] = "none"
    BY DEF VMInit
  <2>2. \A r, what : ~Has(<<>>, r, what)
    BY DEF Has
  <2>3. Ordered(<<>>) /\ Leads(<<>>, {}, {})
    BY <2>2 DEF Ordered, Leads
  <2> QED
    BY <2>1, <2>3 DEF MgrInv
<1> QED
  BY <1>1, <1>2, <1>3 DEF IInv

LEMMA NewInv ==
  ASSUME IInv, NEW m \in Mgrs, New(m)
  PROVE  IInv'
<1> USE DEF IInv
<1>1. /\ Ordered(global_maps) /\ Leads(global_maps, {}, Mapped(global_maps))
      /\ Mapped(global_maps) \in SUBSET Maps
  BY GlobalLeads DEF VMTypeOK
<1>2. VMTypeOK'
  BY <1>1, Zenon DEF New, VMTypeOK
<1>3. GlobalInv'
  BY Zenon DEF New, GlobalInv
<1>4. ASSUME NEW g \in Mgrs, g # m PROVE MgrInv(g)'
  BY <1>4, Frame, Zenon DEF New, VMTypeOK
<1>5. MgrInv(m)'
  <2>1. maps'[m] = global_maps /\ wanted'[m] = Mapped(global_maps) /\ m \in made'
    BY DEF New, VMTypeOK
  <2>2. mmu'[m] = {} /\ confirmed'[m] = "none" /\ turn'[m] = 0
    BY Zenon DEF New, MgrInv, Idle
  <2>3. \A k \in 1 .. Len(maps'[m]) : ~(k < turn'[m])
    BY <2>2
  <2> QED
    BY <1>1, <2>1, <2>2, <2>3, Zenon DEF MgrInv
<1> QED
  BY <1>2, <1>3, <1>4, <1>5

LEMMA AddInv ==
  ASSUME IInv, NEW m \in Mgrs, NEW r \in Maps \ wanted[m], NewGlobal(r), addMap(m, r)
  PROVE  IInv'
<1> DEFINE e == [map |-> r, pending |-> "MAP"]
<1> USE DEF IInv
<1>1. /\ Append(maps[m], e) \in Seq(Entry)
      /\ Ordered(Append(maps[m], e))
      /\ Leads(Append(maps[m], e), mmu[m], wanted[m] \cup {r})
  BY AppendLeads DEF VMTypeOK, MgrInv
<1>2. /\ maps' = [maps EXCEPT ![m] = Append(maps[m], e)]
      /\ wanted' = [wanted EXCEPT ![m] = wanted[m] \cup {r}]
      /\ confirmed' = [confirmed EXCEPT ![m] = "none"]
      /\ global_maps' = IF r \in Globals THEN Append(global_maps, e) ELSE global_maps
      /\ UNCHANGED <<made, mmu, turn>> /\ m \in made /\ turn[m] = 0
  BY Zenon DEF addMap, Idle
<1>3. e \in Entry /\ e.map = r /\ e.pending = "MAP"
  BY DEF Entry
<1>4. VMTypeOK'
  <2>1. global_maps' \in Seq(Entry)
    BY <1>2, <1>3 DEF VMTypeOK
  <2>2. wanted[m] \cup {r} \in SUBSET Maps
    BY DEF VMTypeOK
  <2> HIDE DEF e
  <2> QED
    BY <1>1, <1>2, <2>1, <2>2, Zenon DEF VMTypeOK
<1>5. GlobalInv'
  <2>1. CASE r \notin Globals
    BY <2>1, <1>2, Zenon DEF GlobalInv
  <2>2. CASE r \in Globals
    <3>1. \A k \in 1 .. Len(global_maps) : global_maps[k].map # r
      BY <2>2 DEF NewGlobal, Mapped
    <3>2. /\ Len(global_maps) \in Nat /\ Len(global_maps') = Len(global_maps) + 1
          /\ \A k \in 1 .. Len(global_maps) : global_maps'[k] = global_maps[k]
          /\ global_maps'[Len(global_maps) + 1] = e
      BY <2>2, <1>2, <1>3 DEF VMTypeOK
    <3> HIDE DEF e
    <3> QED
      BY <1>3, <3>1, <3>2 DEF GlobalInv
  <2> QED
    BY <2>1, <2>2
<1>6. ASSUME NEW g \in Mgrs, g # m PROVE MgrInv(g)'
  BY <1>2, <1>6, Frame, Zenon DEF VMTypeOK
<1>7. MgrInv(m)'
  <2>1. maps'[m] = Append(maps[m], e) /\ wanted'[m] = wanted[m] \cup {r} /\ confirmed'[m] = "none"
    BY <1>2, Zenon DEF VMTypeOK
  <2>2. \A k \in 1 .. Len(maps'[m]) : ~(k < turn'[m])
    BY <1>2
  <2> HIDE DEF e
  <2> QED
    BY <1>1, <1>2, <2>1, <2>2, Zenon DEF MgrInv
<1> QED
  BY <1>4, <1>5, <1>6, <1>7

LEMMA RemoveInv ==
  ASSUME IInv, NEW m \in Mgrs, NEW r \in wanted[m] \ Globals, Settled(m, r), removeMap(m, r)
  PROVE  IInv'
<1> USE DEF IInv
<1>1. /\ MarkFirst(maps[m], r) \in Seq(Entry)
      /\ Ordered(MarkFirst(maps[m], r))
      /\ Leads(MarkFirst(maps[m], r), mmu[m], wanted[m] \ {r})
  <2>1. \A k \in 1 .. Len(maps[m]) : maps[m][k].map = r => maps[m][k].pending = "NONE"
    BY DEF Settled
  <2>2. maps[m] \in Seq(Entry) /\ mmu[m] \in SUBSET Maps /\ wanted[m] \in SUBSET Maps /\ r \in wanted[m]
    BY DEF VMTypeOK
  <2>3. Ordered(maps[m]) /\ Leads(maps[m], mmu[m], wanted[m])
    BY Zenon DEF MgrInv
  <2> QED
    BY <2>1, <2>2, <2>3, MarkLeads, Zenon
<1>2. /\ maps' = [maps EXCEPT ![m] = MarkFirst(maps[m], r)]
      /\ wanted' = [wanted EXCEPT ![m] = wanted[m] \ {r}]
      /\ confirmed' = [confirmed EXCEPT ![m] = "none"]
      /\ UNCHANGED <<global_maps, made, mmu, turn>> /\ m \in made /\ turn[m] = 0
  BY Zenon DEF removeMap, Idle
<1>3. VMTypeOK'
  <2>1. wanted[m] \ {r} \in SUBSET Maps
    BY DEF VMTypeOK
  <2> QED
    BY <1>1, <1>2, <2>1, Zenon DEF VMTypeOK
<1>4. GlobalInv'
  BY <1>2, Zenon DEF GlobalInv
<1>5. ASSUME NEW g \in Mgrs, g # m PROVE MgrInv(g)'
  BY <1>2, <1>5, Frame, Zenon DEF VMTypeOK
<1>6. MgrInv(m)'
  <2>1. maps'[m] = MarkFirst(maps[m], r) /\ wanted'[m] = wanted[m] \ {r} /\ confirmed'[m] = "none"
    BY <1>2, Zenon DEF VMTypeOK
  <2>2. \A k \in 1 .. Len(maps'[m]) : ~(k < turn'[m])
    BY <1>2
  <2> QED
    BY <1>1, <1>2, <2>1, <2>2, Zenon DEF MgrInv
<1> QED
  BY <1>3, <1>4, <1>5, <1>6

\* confirm() is called, or returns behind the last entry or at one that fails.
LEMMA CallInv ==
  ASSUME IInv, NEW m \in Mgrs, confirm(m)
  PROVE  IInv'
<1> USE DEF IInv
<1>1. turn' = [turn EXCEPT ![m] = 1] /\ UNCHANGED <<global_maps, made, maps, mmu, wanted, confirmed>>
      /\ m \in made
  BY DEF confirm
<1>2. VMTypeOK'
  BY <1>1 DEF VMTypeOK
<1>3. GlobalInv'
  BY <1>1, Zenon DEF GlobalInv
<1>4. ASSUME NEW g \in Mgrs, g # m PROVE MgrInv(g)'
  BY <1>1, <1>4, Frame, Zenon DEF VMTypeOK
<1>5. MgrInv(m)'
  <2>1. \A k \in 1 .. Len(maps[m]) : ~(k < turn'[m])
    BY <1>1 DEF VMTypeOK
  <2> QED
    BY <1>1, <2>1, Zenon DEF MgrInv
<1> QED
  BY <1>2, <1>3, <1>4, <1>5

LEMMA CarryInv ==
  ASSUME IInv, NEW m \in Mgrs, Carry(m)
  PROVE  IInv'
<1> DEFINE t == turn[m]
           new == [maps[m] EXCEPT ![t].pending = "NONE"]
           now == CASE maps[m][t].pending = "MAP"   -> mmu[m] \cup {maps[m][t].map}
                    [] maps[m][t].pending = "UNMAP" -> mmu[m] \ {maps[m][t].map}
                    [] OTHER                        -> mmu[m]
<1> USE DEF IInv
<1>1. t \in 1 .. Len(maps[m]) /\ maps[m] \in Seq(Entry) /\ mmu[m] \in SUBSET Maps
      /\ wanted[m] \in SUBSET Maps
  BY DEF Carry, VMTypeOK
<1>2. /\ Ordered(maps[m]) /\ Leads(maps[m], mmu[m], wanted[m])
      /\ \A k \in 1 .. Len(maps[m]) : k < t => maps[m][k].pending = "NONE"
  BY Zenon DEF MgrInv
<1>3. /\ new \in Seq(Entry) /\ Len(new) = Len(maps[m])
      /\ new[t].pending = "NONE"
      /\ \A k \in 1 .. Len(maps[m]) : maps[m][k].pending = "NONE" => new[k].pending = "NONE"
      /\ now \in SUBSET Maps
      /\ Ordered(new)
      /\ Leads(new, now, wanted[m])
  <2>1. Carried(maps[m][t], mmu[m], now)
    BY DEF Carried
  <2>2. ~Fails(maps[m][t], mmu[m])
    BY DEF Carry
  <2>3. Cleared(maps[m], t, new)
    <3>1. maps[m][t] \in Entry
      BY <1>1
    <3> QED
      BY <1>1, <3>1 DEF Entry, Cleared
  <2> HIDE DEF new, now, t
  <2>4. CarryDone(maps[m], new, now, wanted[m])
    BY <1>1, <1>2, <2>1, <2>2, <2>3, CarryLeads, Zenon
  <2> QED
    BY <2>3, <2>4, Zenon DEF Cleared, CarryDone
<1>4. /\ maps' = [maps EXCEPT ![m] = new] /\ mmu' = [mmu EXCEPT ![m] = now]
      /\ turn' = [turn EXCEPT ![m] = t + 1]
      /\ UNCHANGED <<global_maps, made, wanted, confirmed>>
  BY DEF Carry
<1> HIDE DEF new, now
<1>5. VMTypeOK'
  <2>1. t + 1 \in Nat
    BY <1>1
  <2> QED
    BY <1>3, <1>4, <2>1, Zenon DEF VMTypeOK
<1>6. GlobalInv'
  BY <1>4, Zenon DEF GlobalInv
<1>7. ASSUME NEW g \in Mgrs, g # m PROVE MgrInv(g)'
  BY <1>4, <1>7, Frame, Zenon DEF VMTypeOK
<1>8. MgrInv(m)'
  <2>1. maps'[m] = new /\ mmu'[m] = now /\ turn'[m] = t + 1
    BY <1>4, Zenon DEF VMTypeOK
  <2>2. \A k \in 1 .. Len(new) : k < turn'[m] => new[k].pending = "NONE"
    BY <1>1, <1>2, <1>3, <2>1
  <2>3. m \in made
    BY <1>1 DEF MgrInv
  <2> QED
    BY <1>3, <1>4, <2>1, <2>2, <2>3, Zenon DEF MgrInv
<1> QED
  BY <1>5, <1>6, <1>7, <1>8

LEMMA ReturnInv ==
  ASSUME IInv, NEW m \in Mgrs, Return(m)
  PROVE  IInv'
<1> USE DEF IInv
<1>1. /\ turn' = [turn EXCEPT ![m] = 0]
      /\ UNCHANGED <<global_maps, made, maps, mmu, wanted>>
  BY DEF Return
<1>2. turn[m] \in Nat /\ Len(maps[m]) \in Nat /\ turn[m] > 0
  BY DEF VMTypeOK, Return
<1>3. turn[m] > Len(maps[m]) /\ confirmed' = [confirmed EXCEPT ![m] = "OK"]
  <2>1. CASE turn[m] <= Len(maps[m])
    <3>1. ~Fails(maps[m][turn[m]], mmu[m])
      <4>1. turn[m] \in 1 .. Len(maps[m]) /\ maps[m] \in Seq(Entry) /\ mmu[m] \in SUBSET Maps
            /\ wanted[m] \in SUBSET Maps
        BY <1>2, <2>1 DEF VMTypeOK
      <4>2. /\ Ordered(maps[m]) /\ Leads(maps[m], mmu[m], wanted[m])
            /\ \A k \in 1 .. Len(maps[m]) : k < turn[m] => maps[m][k].pending = "NONE"
        BY Zenon DEF MgrInv
      <4> QED
        BY <4>1, <4>2, NoFailure
    <3> QED
      BY <1>2, <2>1, <3>1 DEF Return
  <2>2. CASE turn[m] > Len(maps[m])
    BY <1>2, <2>2 DEF Return
  <2> QED
    BY <1>2, <2>1, <2>2
<1>4. VMTypeOK'
  BY <1>1, <1>3 DEF VMTypeOK
<1>5. GlobalInv'
  BY <1>1, Zenon DEF GlobalInv
<1>6. ASSUME NEW g \in Mgrs, g # m PROVE MgrInv(g)'
  BY <1>1, <1>3, <1>6, Frame, Zenon DEF VMTypeOK
<1>7. MgrInv(m)'
  <2>1. \A k \in 1 .. Len(maps[m]) : k < turn[m]
    BY <1>2, <1>3
  <2>2. \A k \in 1 .. Len(maps[m]) : maps[m][k].pending = "NONE"
    BY <2>1, Zenon DEF MgrInv
  <2>3. confirmed'[m] = "OK"
    BY <1>3 DEF VMTypeOK
  <2>4. m \in made /\ turn'[m] = 0
    BY <1>1, <1>2 DEF MgrInv, VMTypeOK
  <2>5. \A k \in 1 .. Len(maps[m]) : ~(k < turn'[m])
    BY <2>4
  <2> QED
    BY <1>1, <2>2, <2>3, <2>4, <2>5, Zenon DEF MgrInv
<1> QED
  BY <1>4, <1>5, <1>6, <1>7

LEMMA StepInv == IInv /\ [CarefulNext]_vmVars => IInv'
<1> SUFFICES ASSUME IInv, [CarefulNext]_vmVars PROVE IInv'
  OBVIOUS
<1>1. CASE UNCHANGED vmVars
  <2>1. VMTypeOK' /\ GlobalInv'
    BY <1>1, Zenon DEF vmVars, IInv, VMTypeOK, GlobalInv
  <2>2. ASSUME NEW m \in Mgrs PROVE MgrInv(m)'
    BY <1>1, Frame, Zenon DEF vmVars, IInv
  <2> QED
    BY <2>1, <2>2 DEF IInv
<1> QED
  BY <1>1, NewInv, CallInv, CarryInv, ReturnInv, AddInv, RemoveInv, Zenon DEF CarefulNext

LEMMA AlwaysInv == CarefulSpec => []IInv
  BY InitInv, StepInv, PTL DEF CarefulSpec

\* When confirm() has returned success, the MMU maps what the caller added or
\* inherited and did not remove, and nothing else, whatever the managers did
\* before and however long their lists are.
THEOREM ConfirmedIsWanted == CarefulSpec => []ConfirmExact
<1>1. IInv => ConfirmExact
  <2> SUFFICES ASSUME IInv, NEW m \in Mgrs, confirmed[m] = "OK" PROVE mmu[m] = wanted[m]
    BY DEF ConfirmExact
  <2>1. MgrInv(m) /\ mmu[m] \in SUBSET Maps /\ wanted[m] \in SUBSET Maps
    BY DEF IInv, VMTypeOK
  <2>2. \A r : ~Has(maps[m], r, "MAP") /\ ~Has(maps[m], r, "UNMAP")
    BY <2>1 DEF MgrInv, Has, Waits
  <2> QED
    BY <2>1, <2>2 DEF MgrInv, Leads
<1> QED
  BY <1>1, AlwaysInv, PTL

\* No entry of a list that a careful caller made is turned down by the MMU,
\* so that confirm() never stops in the middle.
THEOREM ConfirmNeverFails == CarefulSpec => []ConfirmSucceeds
<1>1. IInv => ConfirmSucceeds
  BY Zenon DEF IInv, MgrInv, ConfirmSucceeds
<1> QED
  BY <1>1, AlwaysInv, PTL
=============================================================================
