----------------------------- MODULE AbstractMap -----------------------------
(***************************************************************************)
(* What an MMU object promises its caller: a partial map from virtual      *)
(* pages to physical pages with a protection.  map() of a range that was   *)
(* never used before maps all of it; a range that was used and given back  *)
(* may come out mapped in part or not at all.  No call touches a page      *)
(* outside its range.                                                      *)
(***************************************************************************)
EXTENDS Integers

CONSTANTS
  PageSize,   \* the size of a page, in the unit of addresses
  Pages,      \* addresses of virtual pages
  Requests,   \* what callers map: [v, p, n, prot], n the size
  Unmapped    \* no mapping

VARIABLES
  pages,   \* page -> what it maps to
  used,    \* the pages that map() has ever been asked for
  ok       \* whether the last call succeeded

Range(r) == { a \in Pages : r.v <= a /\ a < r.v + r.n }

Image(r, a) == [p |-> r.p + (a - r.v), prot |-> r.prot \ {"IO"}]

Init == pages = [a \in Pages |-> Unmapped] /\ used = {} /\ ok = TRUE

Map(r) ==
  LET fresh == Range(r) \cap used = {} IN
  /\ used' = used \cup Range(r)
  /\ ok' \in (IF fresh THEN {TRUE} ELSE BOOLEAN)
  /\ \A a \in Pages :
       IF a \in Range(r) THEN pages'[a] \in {Image(r, a)} \cup
                                   (IF fresh THEN {} ELSE {pages[a]})
                         ELSE pages'[a] = pages[a]

Unmap(r) ==
  /\ UNCHANGED used
  /\ ok'
  /\ pages' = [a \in Pages |-> IF a \in Range(r) THEN Unmapped ELSE pages[a]]

\* a call that has nothing to do, or is turned down
Nothing == ok' \in BOOLEAN /\ UNCHANGED <<pages, used>>

Next == Nothing \/ \E r \in Requests : Map(r) \/ Unmap(r)

Spec == Init /\ [][Next]_<<pages, used, ok>>
=============================================================================
