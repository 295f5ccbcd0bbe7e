------------------------------ MODULE FdtHelper ------------------------------
(***************************************************************************)
(* The device tree helpers (fdt_helper.c): fdt_get_node_addr_size, which   *)
(* reads the index-th entry of "reg" and translates it through the buses   *)
(* above the node, and fdt_parse_phandle_with_args, which finds the        *)
(* index-th entry of a list of phandles with arguments.                    *)
(*                                                                         *)
(* A cell holds Base values and a word two cells, for 2^32 and 64 bits.    *)
(* A call is chosen at the start; each turn of its loop is one step.       *)
(***************************************************************************)
EXTENDS Integers, Sequences, SequencesExt

CONSTANTS
  Base,
  MaxArgs,       \* FDT_MAX_PHANDLE_ARGS
  AddrCalls,     \* [buses, regs, reg, names, name, index]: buses from the parent up, each
                 \* [ac, sc, map, ranges]; reg and ranges are the cells of the
                 \* addresses and sizes in regs and map; names is
                 \* "reg-names" when the call is by name, <<>> otherwise
  PhandleCalls   \* [entries, index]: entries [args, declared], the arguments
                 \* in the list and the provider's #cells, -1 for none

ASSUME FdtAssumption == Base \in Nat \ {0}

VARIABLES
  call,      \* the call under way
  fdtPC,        \* "name", "reg", "translate", "list", "done"
  ret,
  place,        \* the bus, or the place in the list, the loop is at
  index,     \* the entry of reg, or the entries of the list to skip
  temp,      \* the address translated so far
  addr,      \* *addr, -1 while nothing has been written to it
  size,      \* *size
  out        \* args of the entry found

fdtVars == <<call, fdtPC, ret, place, index, temp, addr, size, out>>

\* temp = (temp << 32) | cell, over a sequence of cells: a word keeps the last two
Number(cells) ==
  LET n == Len(cells)
  IN (IF n > 1 THEN cells[n - 1] * Base ELSE 0) + (IF n > 0 THEN cells[n] ELSE 0)

-----------------------------------------------------------------------------
(* fdt_get_node_addr_size *)

Parent == call.buses[1]
Stride == Parent.ac + Parent.sc
Entry == SubSeq(call.reg, index * Stride + 1, (index + 1) * Stride)

\* fdt_get_node_addr_size_by_name: the place of the name among the names
FindName ==
  /\ fdtPC = "name"
  /\ IF \E j \in 1 .. Len(call.names) : call.names[j] = call.name
       THEN /\ index' = SelectInSeq(call.names, LAMBDA n : n = call.name) - 1
            /\ fdtPC' = "reg" /\ UNCHANGED ret
       ELSE fdtPC' = "done" /\ ret' = "K_ENODEV" /\ UNCHANGED index
  /\ UNCHANGED <<call, place, temp, addr, size, out>>

\* Mutant: one entry too many is read.
PastEnd_OffByOne == Len(call.reg) < index * Stride

PastEnd == Len(call.reg) <= index * Stride

ReadReg ==
  /\ fdtPC = "reg"
  /\ IF PastEnd
       THEN ret' = "K_EINVAL" /\ fdtPC' = "done" /\ UNCHANGED <<temp, size>>
       ELSE /\ temp' = Number(SubSeq(Entry, 1, Parent.ac))
            /\ size' = Number(SubSeq(Entry, Parent.ac + 1, Stride))
            /\ fdtPC' = "translate" /\ UNCHANGED ret
  /\ UNCHANGED <<call, place, index, addr, out>>

\* The first entry of ranges; the bus's own address cells count for both of
\* its addresses.
Child(bus) == Number(SubSeq(bus.ranges, 1, bus.ac))
Above(bus) == Number(SubSeq(bus.ranges, bus.ac + 1, 2 * bus.ac))
Length(bus)  == Number(SubSeq(bus.ranges, 2 * bus.ac + 1, 2 * bus.ac + bus.sc))

\* Mutant: the offset in the bus is forgotten.
Translated_NoOffset(bus, a) == IF bus.ranges = <<>> THEN a ELSE Above(bus)

Translated(bus, a) ==
  IF bus.ranges = <<>> THEN a ELSE (Above(bus) + (a - Child(bus))) % (Base * Base)

\* the test of fdt_translate_address
Rejected(bus, a) ==
  bus.ranges # <<>> /\ (a < Child(bus) \/ Child(bus) >= (a + Length(bus)) % (Base * Base))

\* fdt_translate_address for one bus; a failure ends the loop, not the call
Translate ==
  /\ fdtPC = "translate" /\ place <= Len(call.buses)
  /\ IF Rejected(call.buses[place], temp)
       THEN place' = Len(call.buses) + 1 /\ UNCHANGED <<temp, addr>>
       ELSE /\ place' = place + 1
            /\ addr' = Translated(call.buses[place], temp) /\ temp' = addr'
  /\ UNCHANGED <<call, fdtPC, ret, index, size, out>>

Return ==
  /\ fdtPC = "translate" /\ place > Len(call.buses)
  /\ fdtPC' = "done" /\ ret' = "OK"
  /\ UNCHANGED <<call, place, index, temp, addr, size, out>>

-----------------------------------------------------------------------------
(* fdt_parse_phandle_with_args: a cell of the list is a phandle, written as *)
(* the number of its entry, or an argument                                  *)

List == FlattenSeq([k \in 1 .. Len(call.entries) |-> <<k>> \o call.entries[k].args])

Declared == call.entries[List[place]].declared

\* What is wrong with the entry at this place of the list.
Fault ==
  IF List[place] \notin 1 .. Len(call.entries) THEN "FDT_ERR"
  ELSE IF Declared < 0 THEN "K_ENOENT"
  ELSE IF MaxArgs < Declared THEN "K_EINVAL"
  ELSE IF place + Declared > Len(List) THEN "K_ENOENT"
  ELSE "OK"

\* Mutant: the arguments of a skipped entry are not skipped.
NextEntry_KeepsArgs == place + 1

NextEntry == place + 1 + Declared

ParseStep ==
  /\ fdtPC = "list" /\ place <= Len(List)
  /\ \/ /\ Fault = "OK" /\ index > 0
        /\ place' = NextEntry /\ index' = index - 1 /\ UNCHANGED <<ret, fdtPC, out>>
     \/ /\ Fault = "OK" /\ index = 0
        /\ out' = SubSeq(List, place + 1, place + Declared)
        /\ ret' = "OK" /\ fdtPC' = "done" /\ UNCHANGED <<place, index>>
     \/ /\ Fault # "OK"
        /\ ret' = Fault /\ fdtPC' = "done" /\ UNCHANGED <<place, index, out>>
  /\ UNCHANGED <<call, temp, addr, size>>

ParseEnd ==
  /\ fdtPC = "list" /\ place > Len(List)
  /\ ret' = "K_ENOENT" /\ fdtPC' = "done"
  /\ UNCHANGED <<call, place, index, temp, addr, size, out>>

-----------------------------------------------------------------------------
FdtStart(c, begin) ==
  /\ call = c /\ fdtPC = begin
  /\ index = IF begin = "name" THEN 0 ELSE c.index
  /\ ret = "none" /\ place = 1 /\ temp = 0 /\ addr = -1 /\ size = -1 /\ out = <<>>

FdtInit ==
  \/ \E c \in AddrCalls : FdtStart(c, IF c.names = <<>> THEN "reg" ELSE "name")
  \/ \E c \in PhandleCalls : FdtStart(c, "list")

FdtNext == FindName \/ ReadReg \/ Translate \/ Return \/ ParseStep \/ ParseEnd

FdtSpec == FdtInit /\ [][FdtNext]_fdtVars

-----------------------------------------------------------------------------
(* The reference: what the tree means                                       *)

Inside(e, a) == e.child <= a /\ a < e.child + e.size

\* The address above a bus, -1 if the bus does not translate a.
Up(a, bus) ==
  IF a = -1 \/ bus.map = <<>> THEN a
  ELSE IF \E k \in 1 .. Len(bus.map) : Inside(bus.map[k], a)
    THEN LET e == bus.map[CHOOSE k \in 1 .. Len(bus.map) : Inside(bus.map[k], a)]
         IN e.above + (a - e.child)
    ELSE -1

PhysicalOf(c) ==
  LET up[k \in 0 .. Len(c.buses)] ==
        IF k = 0 THEN c.regs[c.index + 1].a ELSE Up(up[k - 1], c.buses[k])
  IN up[Len(c.buses)]

\* fdt_get_node_addr_size finds the physical address and the size of each
\* entry of "reg", through buses that translate it by their first range, and
\* says so when there is no such entry, by index or by name.
AddrCorrect ==
  fdtPC = "done" /\ "regs" \in (DOMAIN call) =>
    IF call.index < Len(call.regs)
      THEN ret = "OK" /\ addr = PhysicalOf(call) /\ size = call.regs[call.index + 1].s
      ELSE ret = IF call.names = <<>> THEN "K_EINVAL" ELSE "K_ENODEV"

\* fdt_parse_phandle_with_args returns the arguments of entry index, if the
\* providers declare as many cells as the list has.
ParseCorrect ==
  /\ fdtPC = "done" /\ "entries" \in (DOMAIN call)
  /\ \A k \in 1 .. Len(call.entries) :
       call.entries[k].declared = Len(call.entries[k].args)
  => IF call.index < Len(call.entries)
       THEN ret = "OK" /\ out = call.entries[call.index + 1].args
       ELSE ret = "K_ENOENT"
=============================================================================
