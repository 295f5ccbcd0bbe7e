----------------------------- MODULE MCFdtHelper -----------------------------
(***************************************************************************)
(* Cells of three values: addresses 0 to 8.  A node below a bus below the  *)
(* root, and lists of up to three phandles.                                *)
(***************************************************************************)
EXTENDS FdtHelper

Cells(n, c) == IF c = 1 THEN <<n>> ELSE <<n \div Base, n % Base>>

Top(c) == IF c = 1 THEN Base - 1 ELSE Base * Base - 1

Bus(ac, sc, map) ==
  [ac |-> ac, sc |-> sc, map |-> map,
   ranges |-> FlattenSeq([k \in 1 .. Len(map) |->
      Cells(map[k].child, ac) \o Cells(map[k].above, ac) \o Cells(map[k].size, sc)])]

Window(child, above, length) == [child |-> child, above |-> above, size |-> length]

Names(n) == IF n = 1 THEN <<"csr">> ELSE <<"csr", "mmio">>

Call(buses, regs, i, named) ==
  [buses |-> buses, regs |-> regs, index |-> i,
   names |-> IF named THEN Names(Len(regs)) ELSE <<>>,
   name |-> IF i < Len(regs) THEN Names(Len(regs))[i + 1] ELSE "none",
   reg |-> FlattenSeq([k \in 1 .. Len(regs) |->
      Cells(regs[k].a, buses[1].ac) \o Cells(regs[k].s, buses[1].sc)])]

Buses(ac) ==
  { Bus(ac, 1, <<>>) } \cup
  { Bus(ac, 1, <<Window(child, above, length)>>) :
      child \in 0 .. 1, above \in {0, 2}, length \in 1 .. 2 }

\* the bus and its parent have the same cells; one or two entries of reg
Calls(ac) ==
  { Call(<<b, u, Bus(2, 1, <<>>)>>, regs, i, named) :
      named \in BOOLEAN,
      b \in Buses(ac), u \in Buses(ac), i \in 0 .. 2,
      regs \in { << [a |-> a, s |-> 1] >> : a \in 0 .. Top(ac) } \cup
               { << [a |-> 0, s |-> 2], [a |-> a, s |-> 1] >> : a \in 0 .. Top(ac) } }

AllCalls == Calls(1) \cup Calls(2)

Reaches(c) ==
  c.index < Len(c.regs) => PhysicalOf(c) # -1

InRangeCalls == { c \in AllCalls : Reaches(c) }

Args == { <<>>, <<1>>, <<2, 1>> }
Entries == { [args |-> a, declared |-> Len(a)] : a \in Args } \cup
           { [args |-> <<1>>, declared |-> d] : d \in {-1, 2, MaxArgs + 1} }

MCPhandleCalls ==
  { [entries |-> e, index |-> i] : e \in UNION { [1 .. n -> Entries] : n \in 1 .. 3 },
                                   i \in 0 .. 3 }
=============================================================================
