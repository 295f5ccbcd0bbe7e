---------------------------- MODULE MCPageTable ----------------------------
(***************************************************************************)
(* Three levels of four entries.  A caller maps what does not overlap      *)
(* anything mapped, unmaps what it mapped, and gives up after a failure,   *)
(* as k_boot_sysdev does.                                                  *)
(***************************************************************************)
EXTENDS PageTable

Req(v, p, n, prot) == [v |-> v, p |-> p, n |-> n, prot |-> prot]

\* the kernel's own mapping of physical memory, one block of the top level
Kernel == Req(Off, 0, 32, {"R", "W", "X", "G"})

\* a block, a page of it, pages that no block fits, and a range of mixed sizes
\* across the border of two entries of the root
Users == { Req(0, 8, 8, {"R", "W", "U"}), Req(2, 6, 2, {"R", "X", "U"}),
           Req(8, 12, 10, {"R", "W", "IO"}), Req(30, 30, 12, {"R"}) }

\* wrapping, misaligned, empty and unreadable ones
Refusable == { Req(224, 0, 32, {"R"}), Req(0, 224, 32, {"R"}), Req(1, 0, 2, {"R"}), Req(0, 0, 0, {"R"}),
               Req(0, 0, 2, {"W"}) }

MCFrames == {16, 18, 20, 22, 24, 26, 28, 30}

MCRequests == {Kernel} \cup Users \cup Refusable

Overlap(r, q) == PagesOf(r) \cap PagesOf(q) # {}

Working == rc \notin {"K_EALREADY", "wild"}

\* bound: no request needs more than four new tables
Room == Cardinality(Frames \ DOMAIN mem) >= 4

MayMap(r) == Working /\ Room /\ \A q \in live : ~Overlap(r, q)

CallerNext ==
  \/ Working /\ Enable
  \/ \E r \in Refusable : Working /\ (MapRefused(r) \/ UnmapRefused(r))
  \/ \E r \in Users \cup {Kernel} : MayMap(r) /\ Map(r)
  \/ \E r \in live : Working /\ satp = "startup" /\ Unmap(r)
=============================================================================
