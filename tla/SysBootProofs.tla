---------------------------- MODULE SysBootProofs ----------------------------
(***************************************************************************)
(* What the probes find, for every well-formed device tree.                *)
(***************************************************************************)
EXTENDS SysBoot, FiniteSetTheorems, WellFoundedInduction, TLAPS

\* The nodes that a driver claims together with what is below them.
Covering == MemNames \cup {"cpu-map", "cpu"}

SysNames == {"", "chosen", "cpus"} \cup Covering

TypeInv ==
  /\ tree \in Trees
  /\ type \in {"none", "SYS", "PERIP"}
  /\ at \in 1 .. Len(tree.nodes) + 1
  /\ DOMAIN devhdl \subseteq Nodes
  /\ cpus \in Seq(Nodes) /\ avail \in Seq(Nodes) /\ uarts \in Seq(Nodes)

\* How far the boot is.
StageInv ==
  /\ bootStage \in {"sysdev", "perip", "done"}
  /\ bootStage = "sysdev" => type \in {"none", "SYS"}
  /\ bootStage = "perip" => type = "PERIP"
  /\ bootStage = "done" => type # "none" /\ (type = "SYS" => at = Len(tree.nodes) + 1)
  /\ bootStage # "done" => rc = "none" /\ console = 0

\* An installed device is the one its handler leads to, and a driver has only
\* nodes that it claims.
HandlerOK(i) ==
  /\ devhdl[i].drv = "uart" => /\ devhdl[i].hdl \in 0 .. Len(uarts) - 1
                               /\ uarts[devhdl[i].hdl + 1] = i
  /\ devhdl[i].drv # "uart" => Node(i).name \in SysNames
  /\ devhdl[i].cap \in {1, 2}
  /\ devhdl[i].cap = 2 => Node(i).name \in Covering
  /\ Node(i).name \in MemNames => devhdl[i].cap = 2
  /\ i = 1 => ByName("chosen") # 0

HandlerInv == \A i \in DOMAIN devhdl : HandlerOK(i)

\* The list has the usable CPUs that are installed, each at its handler.
CpuListed(i) == devhdl[i].hdl \in 0 .. Len(cpus) - 1 /\ cpus[devhdl[i].hdl + 1] = i

CpuInv ==
  /\ \A k \in 1 .. Len(cpus) : /\ cpus[k] \in GoodCpus \cap DOMAIN devhdl
                               /\ devhdl[cpus[k]].hdl = k - 1
  /\ \A i \in DOMAIN devhdl : Node(i).name = "cpu" => CpuListed(i)

\* What the probe for the system's devices installs when it comes to it.
Due(i) ==
  \/ i = 1 /\ ByName("chosen") # 0
  \/ Node(i).up = 1 /\ Node(i).name \in {"cpus", "memory"}
  \/ i \in GoodCpus

Past(i) == (type = "SYS" /\ i < at) \/ type = "PERIP"

VisitInv == \A i \in Nodes : Past(i) /\ Due(i) => i \in DOMAIN devhdl

\* The walk for the system's devices has left the subtree of node r if it is
\* behind r.
Left(r) == type = "SYS" /\ r < at => \E k \in r + 1 .. at : k \in Nodes => Node(k).up < r

ReservedInv ==
  LET r == ByName("reserved-memory") IN
  r # 0 => /\ Left(r)
           /\ \A k \in 1 .. Len(avail) : Node(avail[k]).up # r

\* What the boot has found out about the machine when it goes on.
Kinds == { Node(i).mmu : i \in GoodCpus }

PeripInv ==
  bootStage = "perip" =>
    /\ \A name \in {"chosen", "cpus", "memory"} : ByName(name) # 0
    /\ mmu_type \in Kinds /\ \A m \in Kinds : mmu_type <= m

IInv ==
  /\ TypeInv /\ StageInv /\ HandlerInv /\ CpuInv /\ VisitInv /\ ReservedInv
  /\ PeripInv /\ BootOutcome /\ ConsoleIsUart

-----------------------------------------------------------------------------
(* Trees and the walk *)

LEMMA LowestFacts ==
  ASSUME NEW S, S \subseteq Nat, S # {}
  PROVE  Lowest(S) \in S /\ \A y \in S : Lowest(S) <= y
<1>1. PICK x \in S : \A y \in S : ~(<<y, x>> \in OpToRel(<, Nat))
  BY NatLessThanWellFounded, WFMin, Zenon
<1>2. \A y \in S : ~(y < x)
  BY <1>1 DEF OpToRel
<1>3. \A y \in S : x <= y
  BY <1>2
<1> QED
  BY <1>3, Zenon DEF Lowest

LEMMA TreeFacts ==
  ASSUME TypeInv
  PROVE  /\ Len(tree.nodes) \in Nat \ {0} /\ Nodes = 1 .. Len(tree.nodes) /\ 1 \in Nodes
         /\ Node(1).name = "" /\ Node(1).up = 0 /\ tree.satp \in Nat
         /\ \A i \in Nodes \ {1} : /\ Node(i).up \in 1 .. i - 1 /\ Node(i).bad \in BOOLEAN
                                   /\ \A k \in Node(i).up + 1 .. i : Node(k).up >= Node(i).up
         /\ \A i \in Nodes : Node(i).name = "cpu" =>
              /\ Node(i).up \in Nodes /\ Node(Node(i).up).name = "cpus" /\ Node(Node(i).up).up = 1
              /\ ~Node(i).bad => Node(i).mmu \in {32, 39, 48, 57}
         /\ tree.stdout \in Nodes => Node(tree.stdout).name \notin SysNames
<1>1. WellFormed(tree)
  BY TreesAssumption DEF TypeInv
<1>2. /\ Len(tree.nodes) \in Nat \ {0} /\ Nodes = 1 .. Len(tree.nodes) /\ 1 \in Nodes
      /\ Node(1).name = "" /\ Node(1).up = 0 /\ tree.satp \in Nat
  <2>1. /\ Len(tree.nodes) \in Nat \ {0} /\ Nodes = 1 .. Len(tree.nodes)
        /\ Node(1).name = "" /\ Node(1).up = 0 /\ tree.satp \in Nat
    BY <1>1, Zenon DEF WellFormed, Nodes, Node
  <2>2. Len(tree.nodes) \in Nat \ {0} => 1 \in 1 .. Len(tree.nodes)
    OBVIOUS
  <2> QED
    BY <2>1, <2>2, Zenon
<1>3. \A i \in Nodes \ {1} : i \in 2 .. Len(tree.nodes)
  <2>1. Len(tree.nodes) \in Nat \ {0} /\ Nodes = 1 .. Len(tree.nodes)
    BY <1>2
  <2> QED
    BY <2>1
<1>4. ASSUME NEW i \in Nodes \ {1}
      PROVE  /\ Node(i).up \in 1 .. i - 1 /\ Node(i).bad \in BOOLEAN
             /\ \A k \in Node(i).up + 1 .. i : Node(k).up >= Node(i).up
  BY <1>1, <1>3, Zenon DEF WellFormed, Node
<1>5. ASSUME NEW i \in Nodes, Node(i).name = "cpu"
      PROVE  /\ Node(i).up \in Nodes /\ Node(Node(i).up).name = "cpus" /\ Node(Node(i).up).up = 1
             /\ ~Node(i).bad => Node(i).mmu \in {32, 39, 48, 57}
  <2>1. i \in Nodes \ {1}
    BY <1>2, <1>5
  <2>2. Node(i).up \in Nodes
    <3>1. Node(i).up \in 1 .. i - 1 /\ i \in 1 .. Len(tree.nodes)
      BY <1>2, <1>4, <2>1, Zenon
    <3>2. Len(tree.nodes) \in Nat /\ Nodes = 1 .. Len(tree.nodes)
      BY <1>2
    <3> QED
      BY <3>1, <3>2
  <2> QED
    BY <1>1, <1>3, <1>5, <2>1, <2>2, Zenon DEF WellFormed, Node
<1>6. tree.stdout \in Nodes => Node(tree.stdout).name \notin SysNames
  BY <1>1 DEF WellFormed, Nodes, Node, SysNames, Covering, MemNames
<1> QED
  BY <1>2, <1>4, <1>5, <1>6

\* fdt_path_offset finds a child of the root by its name if there is one.
LEMMA ByNameFacts ==
  ASSUME TypeInv, NEW name
  PROVE  /\ ByName(name) # 0 => /\ ByName(name) \in Nodes \ {1}
                                /\ Node(ByName(name)).up = 1
                                /\ Node(ByName(name)).name = name
         /\ ByName(name) = 0 => \A j \in Nodes : ~(Node(j).up = 1 /\ Node(j).name = name)
<1> DEFINE found == { j \in Children(1) : Node(j).name = name }
<1>1. found = { j \in Nodes : Node(j).up = 1 /\ Node(j).name = name }
  BY DEF Children
<1>2. ByName(name) = IF found = {} THEN 0 ELSE Lowest(found)
  BY DEF ByName
<1>3. found \subseteq Nodes \ {1} /\ found \subseteq Nat /\ 0 \notin Nodes
  <2>1. Len(tree.nodes) \in Nat /\ Nodes = 1 .. Len(tree.nodes) /\ Node(1).up = 0
    BY TreeFacts
  <2>2. 0 \notin Nodes /\ Nodes \subseteq Nat
    BY <2>1
  <2>3. 1 \notin found
    BY <1>1, <2>1
  <2> QED
    BY <1>1, <2>2, <2>3
<1> HIDE DEF found
<1>4. CASE found = {}
  BY <1>1, <1>2, <1>4
<1>5. CASE found # {}
  <2>1. ByName(name) \in found
    BY <1>2, <1>3, <1>5, LowestFacts, Zenon
  <2> QED
    BY <1>1, <1>3, <2>1
<1> QED
  BY <1>4, <1>5

\* The walk goes on behind what it has covered, and skips nothing else.
LEMMA AfterFacts ==
  ASSUME TypeInv, NEW i \in Nodes, NEW cap \in {0, 1, 2}
  PROVE  /\ After(i, cap) \in i + 1 .. Len(tree.nodes) + 1
         /\ \A j \in i + 1 .. After(i, cap) - 1 : cap = 2 /\ Node(j).up >= i
         /\ cap = 2 /\ After(i, cap) \in Nodes => Node(After(i, cap)).up < i
<1> DEFINE out == { j \in i + 1 .. Len(tree.nodes) : cap < 2 \/ Node(j).up < i }
           a == After(i, cap)
<1>1. a = IF out = {} THEN Len(tree.nodes) + 1 ELSE Lowest(out)
  BY DEF After
<1>2. Len(tree.nodes) \in Nat /\ i \in 1 .. Len(tree.nodes) /\ Nodes = 1 .. Len(tree.nodes)
  BY TreeFacts
<1>3. out \subseteq Nat
  BY <1>2
<1>4. \A j \in i + 1 .. Len(tree.nodes) : j \notin out => cap = 2 /\ Node(j).up >= i
  <2> SUFFICES ASSUME NEW j \in i + 1 .. Len(tree.nodes), j \notin out
               PROVE  cap = 2 /\ Node(j).up >= i
    OBVIOUS
  <2>1. cap = 2 /\ ~(Node(j).up < i)
    OBVIOUS
  <2>2. j \in Nodes \ {1}
    BY <1>2
  <2>3. Node(j).up \in Int
    <3>1. Node(j).up \in 1 .. j - 1
      BY <2>2, TreeFacts, Zenon
    <3> QED
      BY <3>1
  <2> QED
    BY <1>2, <2>1, <2>3
<1>5. CASE out = {}
  <2>1. a = Len(tree.nodes) + 1
    BY <1>1, <1>5
  <2> HIDE DEF a, out
  <2>2. a \in i + 1 .. Len(tree.nodes) + 1 /\ a \notin Nodes
    BY <1>2, <2>1
  <2>3. \A j \in i + 1 .. a - 1 : cap = 2 /\ Node(j).up >= i
    BY <1>2, <1>4, <1>5, <2>1
  <2> QED
    BY <2>2, <2>3 DEF a
<1>6. CASE out # {}
  <2>2. a \in out /\ \A k \in out : a <= k
    <3> HIDE DEF out
    <3> QED
      BY <1>1, <1>3, <1>6, LowestFacts, Zenon
  <2>3. a \in i + 1 .. Len(tree.nodes) /\ (cap = 2 => Node(a).up < i)
    <3> HIDE DEF a
    <3> QED
      BY <2>2
  <2>4. \A j \in i + 1 .. a - 1 : j \in i + 1 .. Len(tree.nodes) /\ j \notin out
    <3> HIDE DEF a, out
    <3> QED
      BY <1>2, <1>3, <2>2, <2>3
  <2>5. a \in i + 1 .. Len(tree.nodes) + 1
    <3> HIDE DEF a, out
    <3> QED
      BY <1>2, <2>3
  <2> QED
    BY <1>4, <2>3, <2>4, <2>5, Zenon DEF a
<1> QED
  BY <1>5, <1>6

-----------------------------------------------------------------------------
(* Drivers *)

\* The driver that installs a node wants it and claims it, and a node that
\* some driver wants and claims is not passed over.
LEMMA DriverFacts ==
  ASSUME TypeInv, NEW i \in Nodes
  PROVE  /\ Takers(i) # {} => /\ Driver(i) \in {"root", "mem", "cpu", "uart"}
                              /\ Wanted(Driver(i))
                              /\ Claims(Driver(i), Node(i).name) > 0
         /\ Takers(i) = {} => \A d \in {"root", "mem", "cpu", "uart"} :
                                Wanted(d) => ~(Claims(d, Node(i).name) > 0)
<1>1. /\ Len(DrvList) = 4 /\ DrvList[1] = "root" /\ DrvList[2] = "mem"
      /\ DrvList[3] = "cpu" /\ DrvList[4] = "uart"
  BY DEF DrvList
<1>2. Takers(i) \subseteq Nat
  BY <1>1 DEF Takers
<1>3. ASSUME Takers(i) # {}
      PROVE  /\ Driver(i) \in {"root", "mem", "cpu", "uart"}
             /\ Wanted(Driver(i))
             /\ Claims(Driver(i), Node(i).name) > 0
  <2> DEFINE k == Lowest(Takers(i))
  <2>2. k \in Takers(i)
    BY <1>2, <1>3, LowestFacts, Zenon
  <2>3. Driver(i) = DrvList[k]
    BY DEF Driver
  <2> HIDE DEF k
  <2>4. k \in 1 .. 4 /\ Wanted(DrvList[k]) /\ Claims(DrvList[k], Node(i).name) > 0
    BY <1>1, <2>2, Zenon DEF Takers
  <2>5. k \in {1, 2, 3, 4}
    BY <2>4
  <2> QED
    BY <1>1, <2>3, <2>4, <2>5, Zenon
<1>4. ASSUME NEW d \in {"root", "mem", "cpu", "uart"}, Wanted(d), Claims(d, Node(i).name) > 0
      PROVE  Takers(i) # {}
  <2>1. PICK k \in {1, 2, 3, 4} : DrvList[k] = d
    BY <1>1, Zenon
  <2>2. k \in 1 .. Len(DrvList)
    BY <1>1
  <2>3. k \in Takers(i)
    BY <1>4, <2>1, <2>2, Zenon DEF Takers
  <2> QED
    BY <2>3
<1> QED
  BY <1>3, <1>4

\* What a driver claims, by name.
LEMMA ClaimFacts ==
  ASSUME NEW name
  PROVE  /\ Claims("root", name) \in {0, 1} /\ (Claims("root", name) > 0 <=> name = "")
         /\ Claims("mem", name) \in {0, 2} /\ (Claims("mem", name) > 0 <=> name \in MemNames)
         /\ Claims("cpu", name) \in {0, 1, 2}
         /\ (Claims("cpu", name) > 0 <=> name \in {"cpus", "cpu-map", "cpu"})
         /\ (Claims("cpu", name) = 2 => name \in {"cpu-map", "cpu"})
         /\ Claims("uart", name) \in {0, 1} /\ (Claims("uart", name) > 0 <=> name = "uart")
<1>1. /\ Claims("root", name) = ProbeRoot(name) /\ Claims("mem", name) = ProbeMem(name)
      /\ Claims("cpu", name) = ProbeCpu(name) /\ Claims("uart", name) = ProbeUart(name)
  BY DEF Claims
<1>2. ProbeRoot(name) \in {0, 1} /\ (ProbeRoot(name) > 0 <=> name = "")
  <2>1. (name = "" => ProbeRoot(name) = 1) /\ (name # "" => ProbeRoot(name) = 0)
    BY Zenon DEF ProbeRoot
  <2>2. 1 > 0 /\ ~(0 > 0)
    OBVIOUS
  <2> QED
    BY <2>1, <2>2, Zenon
<1>3. ProbeMem(name) \in {0, 2} /\ (ProbeMem(name) > 0 <=> name \in MemNames)
  BY DEF ProbeMem
<1>4. /\ ProbeCpu(name) \in {0, 1, 2}
      /\ (ProbeCpu(name) > 0 <=> name \in {"cpus", "cpu-map", "cpu"})
      /\ (ProbeCpu(name) = 2 => name \in {"cpu-map", "cpu"})
  BY DEF ProbeCpu
<1>5. ProbeUart(name) \in {0, 1} /\ (ProbeUart(name) > 0 <=> name = "uart")
  BY DEF ProbeUart
<1> QED
  BY <1>1, <1>2, <1>3, <1>4, <1>5, Zenon

LEMMA CapFacts ==
  ASSUME NEW d \in {"root", "mem", "cpu", "uart"}, NEW name, Claims(d, name) > 0
  PROVE  /\ Claims(d, name) \in {0, 1, 2}
         /\ Claims(d, name) = 2 => name \in Covering
         /\ name \in MemNames => Claims(d, name) = 2
<1>0. 1 # 2 /\ 0 # 2 /\ ~(0 > 0)
  OBVIOUS
<1>1. "" \notin MemNames /\ "uart" \notin MemNames /\ {"cpus", "cpu-map", "cpu"} \cap MemNames = {}
  BY Zenon DEF MemNames
<1>2. CASE d = "root"
  BY <1>0, <1>1, <1>2, ClaimFacts, Zenon
<1>3. CASE d = "mem"
  BY <1>0, <1>3, ClaimFacts, Zenon DEF Covering
<1>4. CASE d = "cpu"
  BY <1>0, <1>1, <1>4, ClaimFacts, Zenon DEF Covering
<1>5. CASE d = "uart"
  BY <1>0, <1>1, <1>5, ClaimFacts, Zenon
<1> QED
  BY <1>2, <1>3, <1>4, <1>5, Zenon

LEMMA WantedFacts ==
  /\ type = "SYS" => Wanted("root") /\ Wanted("mem") /\ Wanted("cpu") /\ ~Wanted("uart")
  /\ type = "PERIP" => ~Wanted("root") /\ ~Wanted("mem") /\ ~Wanted("cpu") /\ Wanted("uart")
  BY DEF Wanted, DevType

\* The effect of _try on a node that a driver claims.
TryDone(d, fails, hdl, more) ==
  /\ type \in {"SYS", "PERIP"} /\ at \in Nodes /\ at \notin DOMAIN devhdl
  /\ d \in {"root", "mem", "cpu", "uart"} /\ Wanted(d) /\ Claims(d, Node(at).name) > 0
  /\ tree' = tree /\ type' = type /\ at' = After(at, Claims(d, Node(at).name))
  /\ fails => devhdl' = devhdl
  /\ ~fails =>
       /\ DOMAIN devhdl' = DOMAIN devhdl \cup more \cup {at}
       /\ \A i \in DOMAIN devhdl : devhdl'[i] = devhdl[i]
       /\ devhdl'[at] = [drv |-> d, cap |-> Claims(d, Node(at).name), hdl |-> hdl]
       /\ \A i \in more : i # at /\ i \notin DOMAIN devhdl =>
            devhdl'[i] = [drv |-> d, cap |-> 1, hdl |-> hdl]

LEMMA TryFacts ==
  ASSUME TypeInv, NEW d, NEW fails \in BOOLEAN, NEW hdl, NEW more, Try(d, fails, hdl, more)
  PROVE  TryDone(d, fails, hdl, more)
<1> DEFINE cap == Claims(d, Node(at).name)
           rec == [drv |-> d, cap |-> cap, hdl |-> hdl]
<1>1. type \in {"SYS", "PERIP"} /\ at \in Nodes /\ at \notin DOMAIN devhdl
  BY DEF Try, Probing, Installed, TypeInv
<1>2. d \in {"root", "mem", "cpu", "uart"} /\ Wanted(d) /\ Claims(d, Node(at).name) > 0
  BY <1>1, DriverFacts, Zenon DEF Try
<1>3. tree' = tree /\ type' = type /\ at' = After(at, cap) /\ (fails => devhdl' = devhdl)
  BY DEF Try
<1>4. [rec EXCEPT !.cap = 1] = [drv |-> d, cap |-> 1, hdl |-> hdl]
  <2> HIDE DEF cap
  <2> QED
    OBVIOUS
<1>5. ~fails => devhdl' = [i \in DOMAIN devhdl \cup more \cup {at} |->
                             IF i = at THEN rec
                             ELSE IF i \in DOMAIN devhdl THEN devhdl[i]
                             ELSE [drv |-> d, cap |-> 1, hdl |-> hdl]]
  BY <1>4, Zenon DEF Try
<1> HIDE DEF rec
<1>6. ~fails => /\ DOMAIN devhdl' = DOMAIN devhdl \cup more \cup {at}
                /\ \A i \in DOMAIN devhdl : devhdl'[i] = devhdl[i]
                /\ devhdl'[at] = rec
                /\ \A i \in more : i # at /\ i \notin DOMAIN devhdl =>
                     devhdl'[i] = [drv |-> d, cap |-> 1, hdl |-> hdl]
  BY <1>1, <1>5
<1> QED
  BY <1>1, <1>2, <1>3, <1>6 DEF rec, TryDone

-----------------------------------------------------------------------------
(* A step of the walk *)

LEMMA SameTree ==
  ASSUME tree' = tree
  PROVE  /\ Nodes' = Nodes /\ GoodCpus' = GoodCpus /\ Kinds' = Kinds
         /\ \A i : Node(i)' = Node(i)
         /\ \A name : ByName(name)' = ByName(name)
         /\ \A i : Due(i)' <=> Due(i)
<1>1. Nodes' = Nodes /\ \A i : Node(i)' = Node(i)
  BY Zenon DEF Nodes, Node
<1>2. GoodCpus' = GoodCpus
  BY <1>1 DEF GoodCpus
<1>3. ASSUME NEW name PROVE ByName(name)' = ByName(name)
  <2> DEFINE found == { j \in Children(1) : Node(j).name = name }
  <2>1. found' = found
    BY <1>1 DEF Children
  <2>2. ByName(name) = IF found = {} THEN 0 ELSE Lowest(found)
    BY DEF ByName
  <2>3. ByName(name)' = IF found' = {} THEN 0 ELSE Lowest(found')
    BY DEF ByName
  <2> HIDE DEF found
  <2> QED
    BY <2>1, <2>2, <2>3, Zenon
<1>4. Kinds' = Kinds
  BY <1>1, <1>2 DEF Kinds
<1> QED
  BY <1>1, <1>2, <1>3, <1>4, Zenon DEF Due

\* The walk comes to every node that is due, and leaves the subtree of a child
\* of the root that is covered.
LEMMA AdvanceFacts ==
  ASSUME TypeInv, type # "none", at \in Nodes, NEW cap \in {0, 1, 2},
         cap = 2 => Node(at).name \in Covering,
         at' = After(at, cap), tree' = tree, type' = type
  PROVE  /\ at' \in 1 .. Len(tree.nodes) + 1 /\ at' > at
         /\ \A i \in Nodes : Due(i) => i <= at \/ i >= at'
         /\ \A r \in Nodes : Node(r).up = 1 /\ Left(r) /\ (r = at => cap = 2) => Left(r)'
<1>0. Len(tree.nodes) \in Nat \ {0} /\ Nodes = 1 .. Len(tree.nodes)
  BY TreeFacts
<1>1. /\ at' \in at + 1 .. Len(tree.nodes) + 1
      /\ \A j \in at + 1 .. at' - 1 : cap = 2 /\ Node(j).up >= at
      /\ cap = 2 /\ at' \in Nodes => Node(at').up < at
  BY AfterFacts
<1>2. at' \in 1 .. Len(tree.nodes) + 1 /\ at' > at
  BY <1>0, <1>1
<1>3. ASSUME NEW i \in Nodes, Due(i), ~(i <= at \/ i >= at') PROVE FALSE
  <2>1. i \in at + 1 .. at' - 1
    BY <1>0, <1>1, <1>3
  <2>2. cap = 2 /\ Node(i).up >= at /\ Node(at).name \in Covering
    BY <1>1, <2>1, Zenon
  <2>3. at # 1 /\ Node(at).name # "cpus"
    BY <2>2, TreeFacts DEF Covering, MemNames
  <2>4. CASE i = 1
    BY <1>0, <2>1, <2>4
  <2>5. CASE Node(i).up = 1
    BY <1>0, <2>2, <2>3, <2>5
  <2>6. CASE i \in GoodCpus
    <3> DEFINE c == Node(i).up
    <3>1. Node(i).name = "cpu"
      BY <2>6 DEF GoodCpus
    <3>2. c \in Nodes /\ Node(c).name = "cpus" /\ Node(c).up = 1
      BY <3>1, TreeFacts, Zenon
    <3>3. i # 1
      BY <1>0, <2>1
    <3>4. c \in 1 .. i - 1
      BY <3>3, TreeFacts, Zenon
    <3>5. c # at /\ c >= at
      BY <2>2, <2>3, <3>2
    <3> HIDE DEF c
    <3>6. c \in at + 1 .. at' - 1
      BY <1>0, <1>1, <2>1, <3>4, <3>5
    <3>7. Node(c).up >= at
      BY <1>1, <3>6, Zenon
    <3> QED
      BY <1>0, <2>3, <3>2, <3>7
  <2> QED
    BY <1>3, <2>4, <2>5, <2>6, Zenon DEF Due
<1>4. ASSUME NEW r \in Nodes, Node(r).up = 1, Left(r), r = at => cap = 2 PROVE Left(r)'
  <2> SUFFICES ASSUME type = "SYS", r < at'
               PROVE  \E k \in r + 1 .. at' : k \in Nodes => Node(k).up < r
    BY SameTree, Zenon DEF Left
  <2>1. CASE r < at
    <3>1. PICK k \in r + 1 .. at : k \in Nodes => Node(k).up < r
      BY <1>4, <2>1, Zenon DEF Left
    <3>2. k \in r + 1 .. at'
      BY <1>0, <1>1, <3>1
    <3> QED
      BY <3>1, <3>2, Zenon
  <2>2. CASE r = at
    <3>1. at' \in Nodes => Node(at').up < r
      BY <1>1, <1>4, <2>2, Zenon
    <3>2. at' \in r + 1 .. at'
      BY <1>0, <1>1, <2>2
    <3> QED
      BY <3>1, <3>2, Zenon
  <2>3. CASE r > at
    <3>1. r \in at + 1 .. at' - 1
      BY <1>0, <1>1, <2>3
    <3>2. cap = 2 /\ Node(r).up >= at
      BY <1>1, <3>1, Zenon
    <3>3. at = 1
      BY <1>0, <1>4, <3>2
    <3> QED
      BY <3>2, <3>3, TreeFacts DEF Covering, MemNames
  <2> QED
    BY <1>0, <2>1, <2>2, <2>3
<1> QED
  BY <1>2, <1>3, <1>4, Zenon

\* The walk for the system's devices is never inside /reserved-memory.
LEMMA OutsideReserved ==
  ASSUME TypeInv, at \in Nodes, type = "SYS", NEW r \in Nodes, Left(r)
  PROVE  Node(at).up # r
<1> SUFFICES ASSUME Node(at).up = r PROVE FALSE
  OBVIOUS
<1>0. Len(tree.nodes) \in Nat \ {0} /\ Nodes = 1 .. Len(tree.nodes)
  BY TreeFacts
<1>1. at # 1
  <2>1. Node(1).up = 0
    BY TreeFacts
  <2>2. 0 \notin Nodes
    BY <1>0
  <2> QED
    BY <2>1, <2>2, Zenon
<1>2. r \in 1 .. at - 1 /\ \A k \in r + 1 .. at : Node(k).up >= r
  BY <1>1, TreeFacts, Zenon
<1>3. PICK k \in r + 1 .. at : k \in Nodes => Node(k).up < r
  <2>1. r < at
    BY <1>0, <1>2
  <2> QED
    BY <2>1, Zenon DEF Left
<1>4. k \in Nodes \ {1}
  BY <1>0, <1>2
<1>5. Node(k).up >= r /\ Node(k).up < r /\ Node(k).up \in 1 .. k - 1
  BY <1>2, <1>3, <1>4, TreeFacts, Zenon
<1> QED
  BY <1>0, <1>5

-----------------------------------------------------------------------------
(* The invariant *)

LEMMA InitInv == SysBootInit => IInv
<1> SUFFICES ASSUME NEW t \in Trees, SysBootStart(t) PROVE IInv
  BY DEF SysBootInit
<1>1. /\ tree \in Trees /\ type = "none" /\ at = 1 /\ devhdl = <<>> /\ cpus = <<>> /\ avail = <<>>
      /\ uarts = <<>> /\ bootStage = "sysdev" /\ rc = "none" /\ mmu_type = 255 /\ console = 0
  BY DEF SysBootStart, DrvStart
<1>2. Len(tree.nodes) \in Nat
  BY <1>1, TreesAssumption DEF WellFormed
<1>3. DOMAIN devhdl = {} /\ Len(cpus) = 0 /\ Len(avail) = 0
  BY <1>1
<1>4. TypeInv
  BY <1>1, <1>2, <1>3 DEF TypeInv
<1>5. StageInv /\ VisitInv /\ PeripInv /\ ConsoleIsUart
  BY <1>1, Zenon DEF StageInv, VisitInv, Past, PeripInv, ConsoleIsUart
<1>6. HandlerInv /\ CpuInv /\ ReservedInv
  BY <1>1, <1>3 DEF HandlerInv, CpuInv, ReservedInv, Left
<1>7. BootOutcome
  BY <1>1 DEF BootOutcome
<1> QED
  BY <1>4, <1>5, <1>6, <1>7 DEF IInv

\* A list that only grows.
Grows(list, new) ==
  Len(list) <= Len(new) /\ \A k \in 1 .. Len(list) : new[k] = list[k]

LEMMA OutcomeKept ==
  ASSUME BootOutcome, rc' = rc, mmu_type' = mmu_type, tree' = tree
  PROVE  BootOutcome'
<1>1. /\ \A name : ByName(name)' = ByName(name)
      /\ { Node(i).mmu : i \in GoodCpus }' = { Node(i).mmu : i \in GoodCpus }
  BY SameTree DEF Kinds
<1> QED
  BY <1>1, Zenon DEF BootOutcome

\* A step of the walk from node at: what it has to do there for the walk to
\* keep the invariant.
LEMMA WalkInv ==
  ASSUME IInv, bootStage # "done", type # "none", at \in Nodes, NEW cap \in {0, 1, 2},
         cap = 2 => Node(at).name \in Covering,
         at' = After(at, cap), UNCHANGED <<tree, type, bootStage, rc, mmu_type, console>>,
         DOMAIN devhdl \subseteq DOMAIN devhdl', DOMAIN devhdl' \subseteq Nodes,
         \A i \in DOMAIN devhdl : devhdl'[i] = devhdl[i],
         cpus' \in Seq(Nodes), uarts' \in Seq(Nodes),
         avail' = avail \/ (avail' = Append(avail, at) /\ type = "SYS"),
         HandlerInv', CpuInv',
         type = "SYS" /\ Due(at) => at \in DOMAIN devhdl',
         type = "SYS" /\ Node(at).name \in MemNames => cap = 2
  PROVE  IInv'
<1>0. TypeInv /\ StageInv /\ VisitInv /\ ReservedInv /\ PeripInv /\ BootOutcome
  BY DEF IInv
<1>1. /\ Nodes' = Nodes /\ GoodCpus' = GoodCpus /\ Kinds' = Kinds
      /\ \A i : Node(i)' = Node(i)
      /\ \A name : ByName(name)' = ByName(name)
      /\ \A i : Due(i)' <=> Due(i)
  BY SameTree, Zenon
<1>2. /\ at' \in 1 .. Len(tree.nodes) + 1 /\ at' > at
      /\ \A i \in Nodes : Due(i) => i <= at \/ i >= at'
      /\ \A q \in Nodes : Node(q).up = 1 /\ Left(q) /\ (q = at => cap = 2) => Left(q)'
  BY <1>0, AdvanceFacts
<1>10. Len(tree.nodes) \in Nat /\ Nodes = 1 .. Len(tree.nodes)
  BY <1>0, TreeFacts
<1>3. avail \in Seq(Nodes) /\ avail' \in Seq(Nodes)
  <2>1. avail \in Seq(Nodes)
    BY <1>0, Zenon DEF TypeInv
  <2>2. Append(avail, at) \in Seq(Nodes)
    BY <2>1
  <2> QED
    BY <2>1, <2>2, Zenon
<1>4. TypeInv'
  BY <1>0, <1>1, <1>2, <1>3, Zenon DEF TypeInv
<1>5. StageInv' /\ ConsoleIsUart'
  BY <1>0, Zenon DEF StageInv, ConsoleIsUart
<1>6. PeripInv'
  BY <1>0, <1>1, Zenon DEF PeripInv
<1>7. BootOutcome'
  BY <1>0, OutcomeKept
<1>8. VisitInv'
  <2> SUFFICES ASSUME NEW i \in Nodes, Past(i)', Due(i) PROVE i \in DOMAIN devhdl'
    BY <1>1, Zenon DEF VisitInv
  <2>1. Past(i) => i \in DOMAIN devhdl
    BY <1>0, Zenon DEF VisitInv
  <2>2. ASSUME ~Past(i) PROVE i = at /\ type = "SYS"
    <3>1. type = "SYS" /\ i < at' /\ ~(i < at)
      BY <2>2, Zenon DEF Past
    <3>2. i <= at
      <4>1. i <= at \/ i >= at'
        BY <1>2, Zenon
      <4> QED
        BY <1>2, <1>10, <3>1, <4>1
    <3> QED
      BY <1>10, <3>1, <3>2
  <2> QED
    BY <2>1, <2>2
<1>9. ReservedInv'
  <2> SUFFICES ASSUME NEW r, r = ByName("reserved-memory"), r # 0
               PROVE  Left(r)' /\ \A k \in 1 .. Len(avail') : Node(avail'[k]).up # r
    <3>1. ReservedInv' <=>
            LET q == ByName("reserved-memory") IN
            q # 0 => /\ type' = "SYS" /\ q < at' => \E k \in q + 1 .. at' : k \in Nodes => Node(k).up < q
                     /\ \A k \in 1 .. Len(avail') : Node(avail'[k]).up # q
      BY <1>1, Zenon DEF ReservedInv, Left
    <3> QED
      BY <1>1, <3>1, Zenon DEF Left
  <2>1. r \in Nodes /\ Node(r).up = 1 /\ Node(r).name = "reserved-memory"
    BY <1>0, ByNameFacts
  <2>2. Left(r) /\ \A k \in 1 .. Len(avail) : Node(avail[k]).up # r
    BY <1>0, Zenon DEF ReservedInv
  <2>3. Left(r)'
    <3>1. type = "SYS" => (r = at => cap = 2)
      BY <2>1 DEF MemNames
    <3>2. type # "SYS" => Left(r)'
      BY Zenon DEF Left
    <3> QED
      BY <1>2, <2>1, <2>2, <3>1, <3>2, Zenon
  <2>4. type = "SYS" => Node(at).up # r
    BY <1>0, <2>1, <2>2, OutsideReserved
  <2>5. CASE avail' = avail
    BY <2>2, <2>3, <2>5
  <2>6. CASE avail' = Append(avail, at) /\ type = "SYS"
    <3>1. \A k \in 1 .. Len(avail') : avail'[k] = at \/ (k \in 1 .. Len(avail) /\ avail'[k] = avail[k])
      BY <1>3, <2>6
    <3> QED
      BY <2>2, <2>3, <2>4, <2>6, <3>1, Zenon
  <2> QED
    BY <2>5, <2>6
<1> QED
  BY <1>4, <1>5, <1>6, <1>7, <1>8, <1>9 DEF IInv

\* What _try leaves behind if addDevice returns a handler.
LEMMA HandlersKept ==
  ASSUME TypeInv, HandlerInv, tree' = tree, uarts' \in Seq(Nodes), Grows(uarts, uarts'),
         \A i \in DOMAIN devhdl' : \/ i \in DOMAIN devhdl /\ devhdl'[i] = devhdl[i]
                                   \/ HandlerOK(i)'
  PROVE  HandlerInv'
<1> SUFFICES ASSUME NEW i \in DOMAIN devhdl, devhdl'[i] = devhdl[i] PROVE HandlerOK(i)'
  BY Zenon DEF HandlerInv
<1>1. HandlerOK(i)
  BY Zenon DEF HandlerInv
<1>2. Node(i)' = Node(i) /\ ByName("chosen")' = ByName("chosen")
  BY SameTree, Zenon
<1>3. ASSUME devhdl[i].drv = "uart"
      PROVE  devhdl[i].hdl \in 0 .. Len(uarts') - 1 /\ uarts'[devhdl[i].hdl + 1] = i
  <2>1. Len(uarts) \in Nat /\ Len(uarts') \in Nat /\ Len(uarts) <= Len(uarts')
    BY DEF TypeInv, Grows
  <2>2. devhdl[i].hdl \in 0 .. Len(uarts) - 1 /\ uarts[devhdl[i].hdl + 1] = i
    BY <1>1, <1>3, Zenon DEF HandlerOK
  <2>3. devhdl[i].hdl + 1 \in 1 .. Len(uarts) /\ devhdl[i].hdl \in 0 .. Len(uarts') - 1
    BY <2>1, <2>2
  <2> QED
    BY <2>2, <2>3, Zenon DEF Grows
<1> QED
  BY <1>1, <1>2, <1>3, Zenon DEF HandlerOK

LEMMA CpusKept ==
  ASSUME CpuInv, tree' = tree, cpus' = cpus,
         \A i \in DOMAIN devhdl : i \in DOMAIN devhdl' /\ devhdl'[i] = devhdl[i],
         \A i \in DOMAIN devhdl' : i \in DOMAIN devhdl \/ Node(i).name # "cpu"
  PROVE  CpuInv'
<1>1. GoodCpus' = GoodCpus /\ \A i : Node(i)' = Node(i)
  BY SameTree
<1>2. \A k \in 1 .. Len(cpus) : cpus[k] \in GoodCpus \cap DOMAIN devhdl' /\ devhdl'[cpus[k]].hdl = k - 1
  BY Zenon DEF CpuInv
<1>3. ASSUME NEW i \in DOMAIN devhdl', Node(i).name = "cpu" PROVE CpuListed(i)'
  BY <1>3, Zenon DEF CpuInv, CpuListed
<1> QED
  BY <1>1, <1>2, <1>3, Zenon DEF CpuInv

LEMMA PassInv ==
  ASSUME IInv, bootStage # "done", Pass, UNCHANGED <<bootStage, rc, mmu_type, stack, console>>
  PROVE  IInv'
<1> DEFINE cap == IF Installed(at) THEN devhdl[at].cap ELSE 0
<1>0. TypeInv /\ HandlerInv /\ CpuInv
  BY DEF IInv
<1>1. /\ type # "none" /\ at \in Nodes /\ at' = After(at, cap)
      /\ at \in DOMAIN devhdl \/ Takers(at) = {}
      /\ UNCHANGED <<tree, type, devhdl, cpus, avail, rsv, uarts>>
  BY DEF Pass, Probing, Installed
<1>2. ASSUME at \in DOMAIN devhdl
      PROVE  /\ cap \in {1, 2} /\ (cap = 2 => Node(at).name \in Covering)
             /\ Node(at).name \in MemNames => cap = 2
  BY <1>0, <1>2, Zenon DEF HandlerInv, HandlerOK, Installed
<1>3. at \notin DOMAIN devhdl => cap = 0
  BY DEF Installed
<1> HIDE DEF cap
<1>4. cap \in {0, 1, 2} /\ (cap = 2 => Node(at).name \in Covering)
  <2>1. 0 # 2
    OBVIOUS
  <2> QED
    BY <1>2, <1>3, <2>1, Zenon
<1>5. Grows(uarts, uarts') /\ cpus' \in Seq(Nodes) /\ uarts' \in Seq(Nodes)
      /\ DOMAIN devhdl' \subseteq Nodes
  BY <1>0, <1>1 DEF Grows, TypeInv
<1>6. HandlerInv'
  BY <1>0, <1>1, <1>5, HandlersKept, Zenon
<1>7. CpuInv'
  BY <1>0, <1>1, CpusKept, Zenon
<1>8. ASSUME type = "SYS", at \notin DOMAIN devhdl
      PROVE  Node(at).name \notin MemNames \cup {"", "cpus", "cpu"}
  <2>1. Takers(at) = {}
    BY <1>1, <1>8
  <2>2. /\ ~(Claims("root", Node(at).name) > 0) /\ ~(Claims("mem", Node(at).name) > 0)
        /\ ~(Claims("cpu", Node(at).name) > 0)
    BY <1>0, <1>1, <1>8, <2>1, DriverFacts, WantedFacts, Zenon
  <2> QED
    BY <2>2, ClaimFacts, Zenon
<1>9. ASSUME type = "SYS", Due(at) PROVE at \in DOMAIN devhdl'
  <2>1. CASE at = 1
    BY <1>0, <1>1, <1>8, <1>9, <2>1, TreeFacts, Zenon
  <2>2. CASE Node(at).name \in {"cpus", "memory"}
    BY <1>1, <1>8, <1>9, <2>2, Zenon DEF MemNames
  <2>3. CASE at \in GoodCpus
    BY <1>1, <1>8, <1>9, <2>3, Zenon DEF GoodCpus
  <2> QED
    BY <1>9, <2>1, <2>2, <2>3, Zenon DEF Due
<1>10. type = "SYS" /\ Node(at).name \in MemNames => cap = 2
  BY <1>2, <1>8, Zenon
<1>11. \A i \in DOMAIN devhdl : devhdl'[i] = devhdl[i]
  BY <1>1
<1> QED
  BY <1>1, <1>4, <1>5, <1>6, <1>7, <1>9, <1>10, <1>11, WalkInv, Zenon

\* _try of a node that a driver claims: what is left to show of addDevice.
LEMMA InstallInv ==
  ASSUME IInv, bootStage # "done", UNCHANGED <<bootStage, rc, mmu_type, stack, console>>,
         NEW d, NEW fails \in BOOLEAN, NEW hdl, NEW more, Try(d, fails, hdl, more),
         ~fails => more \subseteq Nodes,
         cpus' \in Seq(Nodes), uarts' \in Seq(Nodes),
         avail' = avail \/ (avail' = Append(avail, at) /\ type = "SYS"),
         HandlerInv', CpuInv',
         type = "SYS" /\ Due(at) => ~fails
  PROVE  IInv'
<1> DEFINE cap == Claims(d, Node(at).name)
<1>0. TypeInv
  BY DEF IInv
<1>1. /\ type \in {"SYS", "PERIP"} /\ at \in Nodes /\ at \notin DOMAIN devhdl
      /\ d \in {"root", "mem", "cpu", "uart"} /\ cap > 0
      /\ tree' = tree /\ type' = type /\ at' = After(at, cap)
      /\ fails => devhdl' = devhdl
      /\ ~fails => /\ DOMAIN devhdl' = DOMAIN devhdl \cup more \cup {at}
                   /\ \A i \in DOMAIN devhdl : devhdl'[i] = devhdl[i]
  <2>1. TryDone(d, fails, hdl, more)
    BY <1>0, TryFacts, Zenon
  <2> QED
    BY <2>1, Zenon DEF TryDone
<1>2. /\ cap \in {0, 1, 2} /\ (cap = 2 => Node(at).name \in Covering)
      /\ Node(at).name \in MemNames => cap = 2
  BY <1>1, CapFacts, Zenon
<1> HIDE DEF cap
<1>3. /\ DOMAIN devhdl \subseteq DOMAIN devhdl' /\ DOMAIN devhdl' \subseteq Nodes
      /\ \A i \in DOMAIN devhdl : devhdl'[i] = devhdl[i]
      /\ ~fails => at \in DOMAIN devhdl'
  BY <1>0, <1>1, Zenon DEF TypeInv
<1>4. type # "none"
  BY <1>1
<1> QED
  BY <1>1, <1>2, <1>3, <1>4, WalkInv, Zenon

LEMMA RootInv ==
  ASSUME IInv, bootStage # "done", AddRoot, UNCHANGED <<bootStage, rc, mmu_type, stack, console>>
  PROVE  IInv'
<1> DEFINE c == ByName("chosen")
<1>0. TypeInv /\ HandlerInv /\ CpuInv
  BY DEF IInv
<1>1. Try("root", c = 0, 0, {c}) /\ UNCHANGED <<cpus, avail, rsv, uarts>>
  BY DEF AddRoot
<1>2. c # 0 => c \in Nodes \ {1} /\ Node(c).name = "chosen"
  BY <1>0, ByNameFacts
<1> HIDE DEF c
<1>3. (c = 0) \in BOOLEAN
  OBVIOUS
<1>4. /\ at \in Nodes /\ at \notin DOMAIN devhdl /\ Claims("root", Node(at).name) > 0
      /\ tree' = tree
      /\ c = 0 => devhdl' = devhdl
      /\ c # 0 =>
           /\ DOMAIN devhdl' = DOMAIN devhdl \cup {c} \cup {at}
           /\ \A i \in DOMAIN devhdl : devhdl'[i] = devhdl[i]
           /\ devhdl'[at] = [drv |-> "root", cap |-> Claims("root", Node(at).name), hdl |-> 0]
           /\ c # at /\ c \notin DOMAIN devhdl => devhdl'[c] = [drv |-> "root", cap |-> 1, hdl |-> 0]
  <2>1. TryDone("root", c = 0, 0, {c})
    BY <1>0, <1>1, <1>3, TryFacts, Zenon
  <2> QED
    BY <2>1, Zenon DEF TryDone
<1>5. Node(at).name = "" /\ Claims("root", Node(at).name) = 1
  <2>1. ~(0 > 0)
    OBVIOUS
  <2> QED
    BY <1>4, <2>1, ClaimFacts, Zenon
<1>6. /\ Node(at)' = tree.nodes[at'] /\ (\A i : Node(i)' = Node(i)) /\ c = ByName("chosen")'
  BY <1>4, SameTree DEF c, Node
<1>7. ASSUME NEW i \in DOMAIN devhdl', ~(i \in DOMAIN devhdl /\ devhdl'[i] = devhdl[i])
      PROVE  HandlerOK(i)' /\ Node(i).name # "cpu"
  <2>1. c # 0 /\ (i = c \/ i = at) /\ i \notin DOMAIN devhdl
    BY <1>4, <1>7, Zenon
  <2>2. Node(i).name \in {"", "chosen"}
    BY <1>2, <1>5, <2>1, Zenon
  <2>3. devhdl'[i].drv = "root" /\ devhdl'[i].cap = 1
    <3>1. CASE i = at
      <4>1. devhdl'[i] = [drv |-> "root", cap |-> 1, hdl |-> 0]
        BY <1>4, <1>5, <2>1, <3>1, Zenon
      <4> QED
        BY <4>1
    <3>2. CASE i # at
      BY <1>4, <2>1, <3>2
    <3> QED
      BY <3>1, <3>2
  <2>4. Node(i).name \in SysNames /\ Node(i).name \notin MemNames /\ Node(i).name # "cpu"
    BY <2>2 DEF SysNames, MemNames
  <2>5. "root" # "uart" /\ 1 # 2
    OBVIOUS
  <2> QED
    BY <1>6, <2>1, <2>3, <2>4, <2>5, Zenon DEF HandlerOK
<1>8. cpus' \in Seq(Nodes) /\ uarts' \in Seq(Nodes) /\ Grows(uarts, uarts')
  BY <1>0, <1>1 DEF TypeInv, Grows
<1>9. HandlerInv'
  BY <1>0, <1>4, <1>7, <1>8, HandlersKept, Zenon
<1>10. CpuInv'
  <2>1. \A i \in DOMAIN devhdl : i \in DOMAIN devhdl' /\ devhdl'[i] = devhdl[i]
    BY <1>4, Zenon
  <2>2. \A i \in DOMAIN devhdl' : i \in DOMAIN devhdl \/ Node(i).name # "cpu"
    BY <1>7, Zenon
  <2> QED
    BY <1>0, <1>1, <1>4, <2>1, <2>2, CpusKept, Zenon
<1>11. Due(at) => c # 0
  <2>1. Node(at).name \notin {"cpus", "memory"} /\ at \notin GoodCpus
    BY <1>5 DEF GoodCpus
  <2> QED
    BY <2>1, Zenon DEF Due, c
<1>12. c # 0 => {c} \subseteq Nodes
  BY <1>2
<1> QED
  BY <1>1, <1>3, <1>8, <1>9, <1>10, <1>11, <1>12, InstallInv, Zenon

LEMMA MemInv ==
  ASSUME IInv, bootStage # "done", AddMem, UNCHANGED <<bootStage, rc, mmu_type, stack, console>>
  PROVE  IInv'
<1>0. TypeInv /\ HandlerInv /\ CpuInv
  BY DEF IInv
<1>1. /\ Try("mem", FALSE, 0, {}) /\ UNCHANGED <<cpus, uarts>>
      /\ avail' = avail \/ avail' = Append(avail, at)
  BY DEF AddMem
<1>2. /\ type \in {"SYS", "PERIP"} /\ at \in Nodes /\ at \notin DOMAIN devhdl
      /\ Wanted("mem") /\ Claims("mem", Node(at).name) > 0
      /\ tree' = tree
      /\ DOMAIN devhdl' = DOMAIN devhdl \cup {at}
      /\ \A i \in DOMAIN devhdl : devhdl'[i] = devhdl[i]
      /\ devhdl'[at] = [drv |-> "mem", cap |-> Claims("mem", Node(at).name), hdl |-> 0]
  <2>1. FALSE \in BOOLEAN
    OBVIOUS
  <2>2. TryDone("mem", FALSE, 0, {})
    BY <1>0, <1>1, <2>1, TryFacts, Zenon
  <2> QED
    BY <2>2, Zenon DEF TryDone
<1>3. Node(at).name \in MemNames /\ Claims("mem", Node(at).name) = 2 /\ type = "SYS"
  <2>1. ~(0 > 0)
    OBVIOUS
  <2> QED
    BY <1>2, <2>1, ClaimFacts, WantedFacts, Zenon
<1>4. devhdl'[at].drv = "mem" /\ devhdl'[at].cap = 2
  BY <1>2, <1>3
<1>5. ASSUME NEW i \in DOMAIN devhdl', ~(i \in DOMAIN devhdl /\ devhdl'[i] = devhdl[i])
      PROVE  HandlerOK(i)' /\ Node(i).name # "cpu"
  <2>1. i = at
    BY <1>2, <1>5, Zenon
  <2>2. Node(i)' = Node(i)
    BY <1>2, SameTree, Zenon
  <2>3. Node(i).name \in SysNames /\ Node(i).name \in Covering /\ Node(i).name # "cpu" /\ i # 1
    <3>1. Node(i).name \in {"memory", "memory-controller", "reserved-memory"}
      BY <1>3, <2>1 DEF MemNames
    <3>2. Node(1).name = ""
      BY <1>0, TreeFacts
    <3> QED
      BY <3>1, <3>2 DEF SysNames, Covering, MemNames
  <2>4. "mem" # "uart"
    OBVIOUS
  <2> QED
    BY <1>3, <1>4, <2>1, <2>2, <2>3, <2>4 DEF HandlerOK
<1>6. cpus' \in Seq(Nodes) /\ uarts' \in Seq(Nodes) /\ Grows(uarts, uarts')
  BY <1>0, <1>1 DEF TypeInv, Grows
<1>7. HandlerInv'
  BY <1>0, <1>2, <1>5, <1>6, HandlersKept, Zenon
<1>8. CpuInv'
  <2>1. \A i \in DOMAIN devhdl' : i \in DOMAIN devhdl \/ Node(i).name # "cpu"
    BY <1>5, Zenon
  <2>2. \A i \in DOMAIN devhdl : i \in DOMAIN devhdl' /\ devhdl'[i] = devhdl[i]
    BY <1>2, Zenon
  <2> QED
    BY <1>0, <1>1, <1>2, <2>1, <2>2, CpusKept, Zenon
<1>9. avail' = avail \/ (avail' = Append(avail, at) /\ type = "SYS")
  BY <1>1, <1>3, Zenon
<1>10. PICK fails, more : fails \in BOOLEAN /\ Try("mem", fails, 0, more) /\ ~fails /\ more = {}
  <2>1. FALSE \in BOOLEAN
    OBVIOUS
  <2> QED
    BY <1>1, <2>1, Zenon
<1>11. more \subseteq Nodes
  BY <1>10
<1> QED
  BY <1>6, <1>7, <1>8, <1>9, <1>10, <1>11, InstallInv, Zenon

LEMMA ListedKept ==
  ASSUME NEW i \in DOMAIN devhdl, devhdl'[i] = devhdl[i], CpuListed(i),
         cpus \in Seq(Nodes), cpus' \in Seq(Nodes'), Grows(cpus, cpus')
  PROVE  CpuListed(i)'
<1>1. Len(cpus) \in Nat /\ Len(cpus') \in Nat /\ Len(cpus) <= Len(cpus')
  BY DEF Grows
<1>2. devhdl[i].hdl \in 0 .. Len(cpus) - 1 /\ devhdl[i].hdl + 1 \in 1 .. Len(cpus)
  BY <1>1 DEF CpuListed
<1>3. cpus'[devhdl[i].hdl + 1] = i
  BY <1>2, Zenon DEF Grows, CpuListed
<1>4. devhdl[i].hdl \in 0 .. Len(cpus') - 1
  BY <1>1, <1>2
<1> QED
  BY <1>3, <1>4, Zenon DEF CpuListed

LEMMA CpuStepInv ==
  ASSUME IInv, bootStage # "done", AddCpu, UNCHANGED <<bootStage, rc, mmu_type, stack, console>>
  PROVE  IInv'
<1> DEFINE name == Node(at).name
<1>0. TypeInv /\ HandlerInv /\ CpuInv
  BY DEF IInv
<1>1. at \in Nodes /\ name \in {"cpus", "cpu-map", "cpu"} /\ UNCHANGED <<avail, rsv, uarts>>
  BY Zenon DEF AddCpu, Probing
<1>2. at # 1
  <2>1. "" \notin {"cpus", "cpu-map", "cpu"}
    BY Zenon
  <2>2. Node(1).name = ""
    BY <1>0, TreeFacts
  <2> QED
    BY <1>1, <2>1, <2>2, Zenon
<1>3. Node(at).bad \in BOOLEAN
  BY <1>0, <1>1, <1>2, TreeFacts, Zenon
<1>4. PICK fails, hdl, more :
        /\ fails \in BOOLEAN /\ Try("cpu", fails, hdl, more) /\ more = {}
        /\ \/ name # "cpu" /\ ~fails /\ cpus' = cpus
           \/ name = "cpu" /\ fails /\ Node(at).bad /\ cpus' = cpus
           \/ name = "cpu" /\ ~fails /\ ~Node(at).bad /\ hdl = Len(cpus) /\ cpus' = Append(cpus, at)
  <2>0. FALSE \in BOOLEAN /\ TRUE \in BOOLEAN /\ "cpus" # "cpu" /\ "cpu-map" # "cpu"
    OBVIOUS
  <2>1. CASE name # "cpu"
    BY <2>0, <2>1, Zenon DEF AddCpu
  <2>2. CASE name = "cpu"
    <3>1. Try("cpu", Node(at).bad, Len(cpus), {})
      BY <2>0, <2>2, Zenon DEF AddCpu
    <3>2. cpus' = IF Node(at).bad THEN cpus ELSE Append(cpus, at)
      BY <2>0, <2>2, Zenon DEF AddCpu
    <3> QED
      BY <1>3, <2>2, <3>1, <3>2, Zenon
  <2> QED
    BY <2>1, <2>2, Zenon
<1>5. /\ type \in {"SYS", "PERIP"} /\ Wanted("cpu") /\ at \notin DOMAIN devhdl /\ tree' = tree
      /\ Claims("cpu", name) > 0
      /\ fails => devhdl' = devhdl
      /\ ~fails => /\ DOMAIN devhdl' = DOMAIN devhdl \cup {at}
                   /\ \A i \in DOMAIN devhdl : devhdl'[i] = devhdl[i]
                   /\ devhdl'[at] = [drv |-> "cpu", cap |-> Claims("cpu", name), hdl |-> hdl]
  <2>1. TryDone("cpu", fails, hdl, more)
    BY <1>0, <1>4, TryFacts, Zenon
  <2>2. DOMAIN devhdl \cup more \cup {at} = DOMAIN devhdl \cup {at}
    BY <1>4
  <2> QED
    BY <2>1, <2>2, Zenon DEF TryDone
<1>6. /\ Claims("cpu", name) \in {1, 2}
      /\ Claims("cpu", name) = 2 => name \in Covering
      /\ name \in MemNames => Claims("cpu", name) = 2
  <2>1. ~(0 > 0)
    OBVIOUS
  <2> QED
    BY <1>5, <2>1, CapFacts, Zenon
<1>7. ~fails => /\ devhdl'[at].drv = "cpu" /\ devhdl'[at].cap = Claims("cpu", name)
                /\ devhdl'[at].hdl = hdl
  BY <1>5
<1>8. (\A i : Node(i)' = Node(i)) /\ GoodCpus' = GoodCpus
  BY <1>5, SameTree, Zenon
<1>9. ASSUME NEW i \in DOMAIN devhdl', ~(i \in DOMAIN devhdl /\ devhdl'[i] = devhdl[i])
      PROVE  i = at /\ ~fails
  BY <1>5, <1>9, Zenon
<1>10. cpus' \in Seq(Nodes) /\ uarts' \in Seq(Nodes) /\ Grows(uarts, uarts')
  <2>1. cpus \in Seq(Nodes) /\ uarts \in Seq(Nodes) /\ uarts' = uarts
    BY <1>0, <1>1, Zenon DEF TypeInv
  <2>2. cpus' = cpus \/ cpus' = Append(cpus, at)
    BY <1>4, Zenon
  <2>3. cpus' \in Seq(Nodes)
    BY <1>1, <2>1, <2>2
  <2> QED
    BY <2>1, <2>3 DEF Grows
<1>11. HandlerInv'
  <2>1. ASSUME ~fails, NEW i, i = at PROVE HandlerOK(i)'
    <3>1. name \in SysNames /\ "cpu" # "uart"
      BY <1>1 DEF SysNames, Covering
    <3> QED
      BY <1>2, <1>6, <1>7, <1>8, <2>1, <3>1, Zenon DEF HandlerOK
  <2> QED
    BY <1>0, <1>5, <1>9, <1>10, <2>1, HandlersKept, Zenon
<1>12. CASE cpus' = cpus
  <2>1. \A i \in DOMAIN devhdl : i \in DOMAIN devhdl' /\ devhdl'[i] = devhdl[i]
    BY <1>5, Zenon
  <2>2. ~fails => name # "cpu"
    <3>1. Append(cpus, at) # cpus
      BY <1>0, <1>1 DEF TypeInv
    <3> QED
      BY <1>4, <1>12, <3>1, Zenon
  <2>3. \A i \in DOMAIN devhdl' : i \in DOMAIN devhdl \/ Node(i).name # "cpu"
    BY <1>9, <2>2, Zenon
  <2>4. CpuInv'
    BY <1>0, <1>5, <1>12, <2>1, <2>3, CpusKept, Zenon
  <2>5. Due(at) => ~fails
    <3>1. fails => name = "cpu" /\ Node(at).bad
      BY <1>4, Zenon
    <3>2. fails => name \notin {"cpus", "memory"} /\ at \notin GoodCpus
      BY <3>1 DEF GoodCpus
    <3> QED
      BY <1>2, <3>2, Zenon DEF Due
  <2>6. more \subseteq Nodes
    BY <1>4
  <2> QED
    BY <1>1, <1>4, <1>10, <1>11, <2>4, <2>5, <2>6, InstallInv, Zenon
<1>13. CASE name = "cpu" /\ ~fails /\ ~Node(at).bad /\ hdl = Len(cpus) /\ cpus' = Append(cpus, at)
  <2>0. Len(cpus) \in Nat /\ Len(cpus') = Len(cpus) + 1 /\ cpus'[Len(cpus) + 1] = at
        /\ \A k \in 1 .. Len(cpus) : cpus'[k] = cpus[k]
    BY <1>0, <1>1, <1>13 DEF TypeInv
  <2>1. ASSUME NEW k \in 1 .. Len(cpus')
        PROVE  cpus'[k] \in GoodCpus \cap DOMAIN devhdl' /\ devhdl'[cpus'[k]].hdl = k - 1
    <3>1. CASE k \in 1 .. Len(cpus)
      <4>1. cpus[k] \in GoodCpus \cap DOMAIN devhdl /\ devhdl[cpus[k]].hdl = k - 1
        BY <1>0, <3>1, Zenon DEF CpuInv
      <4>2. cpus'[k] = cpus[k] /\ devhdl'[cpus[k]] = devhdl[cpus[k]] /\ cpus[k] \in DOMAIN devhdl'
        BY <1>5, <1>13, <2>0, <3>1, <4>1, Zenon
      <4> QED
        BY <4>1, <4>2, Zenon
    <3>2. CASE k = Len(cpus) + 1
      <4>1. cpus'[k] = at /\ at \in GoodCpus /\ at \in DOMAIN devhdl' /\ devhdl'[at].hdl = Len(cpus)
        BY <1>1, <1>5, <1>7, <1>13, <2>0, <3>2, Zenon DEF GoodCpus
      <4>2. Len(cpus) = k - 1
        BY <2>0, <3>2
      <4> QED
        BY <4>1, <4>2, Zenon
    <3> QED
      BY <2>0, <3>1, <3>2
  <2>2. ASSUME NEW i \in DOMAIN devhdl', Node(i).name = "cpu" PROVE CpuListed(i)'
    <3>1. CASE i \in DOMAIN devhdl
      <4>1. CpuListed(i) /\ devhdl'[i] = devhdl[i]
        BY <1>0, <1>5, <1>13, <2>2, <3>1, Zenon DEF CpuInv
      <4>2. cpus \in Seq(Nodes) /\ cpus' \in Seq(Nodes') /\ Grows(cpus, cpus')
        <5>1. Nodes' = Nodes /\ cpus \in Seq(Nodes)
          BY <1>0, <1>5, SameTree, Zenon DEF TypeInv
        <5>2. Grows(cpus, cpus')
          BY <2>0 DEF Grows
        <5> QED
          BY <1>10, <5>1, <5>2, Zenon
      <4> QED
        BY <3>1, <4>1, <4>2, ListedKept, Zenon
    <3>2. CASE i = at
      <4>1. devhdl'[i].hdl = Len(cpus)
        BY <1>7, <1>13, <3>2, Zenon
      <4>2. Len(cpus) \in 0 .. Len(cpus') - 1
        BY <2>0
      <4> QED
        BY <2>0, <3>2, <4>1, <4>2, Zenon DEF CpuListed
    <3> QED
      BY <1>5, <1>13, <2>2, <3>1, <3>2, Zenon
  <2>3. CpuInv'
    BY <1>8, <2>1, <2>2, Zenon DEF CpuInv
  <2>4. more \subseteq Nodes
    BY <1>4
  <2> QED
    BY <1>1, <1>4, <1>10, <1>11, <1>13, <2>3, <2>4, InstallInv, Zenon
<1> QED
  BY <1>4, <1>12, <1>13, Zenon

LEMMA UartInv ==
  ASSUME IInv, bootStage # "done", AddUart, UNCHANGED <<bootStage, rc, mmu_type, stack, console>>
  PROVE  IInv'
<1> DEFINE name == Node(at).name
<1>0. TypeInv /\ HandlerInv /\ CpuInv
  BY DEF IInv
<1>1. Try("uart", Node(at).bad, Len(uarts), {}) /\ UNCHANGED <<cpus, avail, rsv>>
      /\ uarts' = IF Node(at).bad THEN uarts ELSE Append(uarts, at)
  BY DEF AddUart
<1>2. at \in Nodes /\ name = "uart"
  <2>1. at \in Nodes /\ Takers(at) # {} /\ Driver(at) = "uart"
    BY <1>1 DEF Try, Probing
  <2>2. Claims("uart", name) > 0
    BY <1>0, <2>1, DriverFacts, Zenon
  <2> QED
    BY <2>1, <2>2, ClaimFacts, Zenon
<1>3. at # 1
  <2>1. "" # "uart"
    BY Zenon
  <2>2. Node(1).name = ""
    BY <1>0, TreeFacts
  <2> QED
    BY <1>2, <2>1, <2>2, Zenon
<1>4. PICK fails, more :
        /\ fails \in BOOLEAN /\ Try("uart", fails, Len(uarts), more) /\ more = {}
        /\ uarts' = IF fails THEN uarts ELSE Append(uarts, at)
  <2>1. Node(at).bad \in BOOLEAN
    BY <1>0, <1>2, <1>3, TreeFacts, Zenon
  <2> QED
    BY <1>1, <2>1, Zenon
<1>5. /\ type \in {"SYS", "PERIP"} /\ Wanted("uart") /\ at \notin DOMAIN devhdl /\ tree' = tree
      /\ Claims("uart", name) > 0
      /\ fails => devhdl' = devhdl
      /\ ~fails => /\ DOMAIN devhdl' = DOMAIN devhdl \cup {at}
                   /\ \A i \in DOMAIN devhdl : devhdl'[i] = devhdl[i]
                   /\ devhdl'[at] = [drv |-> "uart", cap |-> Claims("uart", name), hdl |-> Len(uarts)]
  <2>1. TryDone("uart", fails, Len(uarts), more)
    BY <1>0, <1>4, TryFacts, Zenon
  <2>2. DOMAIN devhdl \cup more \cup {at} = DOMAIN devhdl \cup {at}
    BY <1>4
  <2> QED
    BY <2>1, <2>2, Zenon DEF TryDone
<1>6. Claims("uart", name) = 1 /\ type = "PERIP"
  <2>1. ~(0 > 0)
    OBVIOUS
  <2> QED
    BY <1>5, <2>1, ClaimFacts, WantedFacts, Zenon
<1>7. ~fails => /\ devhdl'[at].drv = "uart" /\ devhdl'[at].cap = 1
                /\ devhdl'[at].hdl = Len(uarts)
  <2>1. ~fails => devhdl'[at] = [drv |-> "uart", cap |-> 1, hdl |-> Len(uarts)]
    BY <1>5, <1>6, Zenon
  <2> QED
    BY <2>1
<1>8. /\ cpus' \in Seq(Nodes) /\ uarts \in Seq(Nodes) /\ uarts' \in Seq(Nodes) /\ Grows(uarts, uarts')
      /\ ~fails => Len(uarts) \in 0 .. Len(uarts') - 1 /\ uarts'[Len(uarts) + 1] = at
  <2>1. cpus' \in Seq(Nodes) /\ uarts \in Seq(Nodes)
    BY <1>0, <1>1 DEF TypeInv
  <2> QED
    BY <1>2, <1>4, <2>1 DEF Grows
<1>9. ASSUME NEW i \in DOMAIN devhdl', ~(i \in DOMAIN devhdl /\ devhdl'[i] = devhdl[i])
      PROVE  i = at /\ ~fails
  BY <1>5, <1>9, Zenon
<1>10. HandlerInv'
  <2>1. ASSUME ~fails, NEW i, i = at PROVE HandlerOK(i)'
    <3>1. "uart" \notin MemNames /\ 1 # 2
      BY DEF MemNames
    <3>2. Node(i)' = Node(i)
      BY <1>5, SameTree, Zenon
    <3> QED
      BY <1>2, <1>3, <1>7, <1>8, <2>1, <3>1, <3>2, Zenon DEF HandlerOK
  <2> QED
    BY <1>0, <1>5, <1>8, <1>9, <2>1, HandlersKept, Zenon
<1>11. CpuInv'
  <2>1. \A i \in DOMAIN devhdl : i \in DOMAIN devhdl' /\ devhdl'[i] = devhdl[i]
    BY <1>5, Zenon
  <2>2. \A i \in DOMAIN devhdl' : i \in DOMAIN devhdl \/ Node(i).name # "cpu"
    <3>1. "uart" # "cpu"
      OBVIOUS
    <3> QED
      BY <1>2, <1>9, <3>1, Zenon
  <2> QED
    BY <1>0, <1>1, <1>5, <2>1, <2>2, CpusKept, Zenon
<1>12. more \subseteq Nodes /\ type # "SYS"
  BY <1>4, <1>6
<1> QED
  BY <1>1, <1>4, <1>8, <1>10, <1>11, <1>12, InstallInv, Zenon

-----------------------------------------------------------------------------
(* Behind the probes *)

\* The walk for the system's devices is over: every usable CPU is listed, and
\* the nodes that are looked up by path are installed if they are there.
LEMMA ProbedFacts ==
  ASSUME IInv, type = "PERIP" \/ (type = "SYS" /\ at = Len(tree.nodes) + 1)
  PROVE  /\ \A i \in Nodes : Due(i) => i \in DOMAIN devhdl
         /\ \A i \in GoodCpus : i \in DOMAIN devhdl /\ CpuListed(i)
         /\ { Node(cpus[k]).mmu : k \in 1 .. Len(cpus) } = Kinds
         /\ NotInstalled <=> \E name \in {"chosen", "cpus", "memory"} : ByName(name) = 0
<1>0. TypeInv /\ VisitInv /\ CpuInv /\ HandlerInv
  BY DEF IInv
<1>1. Len(tree.nodes) \in Nat /\ Nodes = 1 .. Len(tree.nodes) /\ 1 \in Nodes
  BY <1>0, TreeFacts
<1>2. ASSUME NEW i \in Nodes, Due(i) PROVE i \in DOMAIN devhdl
  <2>1. i < Len(tree.nodes) + 1
    BY <1>1
  <2>2. Past(i)
    BY <2>1, Zenon DEF Past
  <2> QED
    BY <1>0, <1>2, <2>2, Zenon DEF VisitInv
<1>3. ASSUME NEW i \in GoodCpus PROVE i \in DOMAIN devhdl /\ CpuListed(i)
  <2>1. i \in Nodes /\ Node(i).name = "cpu" /\ Due(i)
    BY Zenon DEF GoodCpus, Due
  <2> QED
    BY <1>0, <1>2, <2>1, Zenon DEF CpuInv
<1>4. { Node(cpus[k]).mmu : k \in 1 .. Len(cpus) } = Kinds
  <2>0. Len(cpus) \in Nat
    BY <1>0 DEF TypeInv
  <2>1. ASSUME NEW k \in 1 .. Len(cpus) PROVE cpus[k] \in GoodCpus
    BY <1>0, Zenon DEF CpuInv
  <2>2. ASSUME NEW i \in GoodCpus PROVE \E k \in 1 .. Len(cpus) : cpus[k] = i
    <3>1. devhdl[i].hdl \in 0 .. Len(cpus) - 1 /\ cpus[devhdl[i].hdl + 1] = i
      BY <1>3, Zenon DEF CpuListed
    <3>2. devhdl[i].hdl + 1 \in 1 .. Len(cpus)
      BY <2>0, <3>1
    <3> QED
      BY <3>1, <3>2, Zenon
  <2> QED
    BY <2>1, <2>2 DEF Kinds
<1>5. 0 \notin DOMAIN devhdl
  BY <1>0, <1>1 DEF TypeInv
<1>6. 1 \in DOMAIN devhdl <=> ByName("chosen") # 0
  BY <1>0, <1>1, <1>2, Zenon DEF HandlerInv, HandlerOK, Due
<1>7. ASSUME NEW name \in {"cpus", "memory"}
      PROVE  ByName(name) \in DOMAIN devhdl <=> ByName(name) # 0
  BY <1>0, <1>2, <1>5, <1>7, ByNameFacts, Zenon DEF Due
<1>8. NotInstalled <=> \/ 1 \notin DOMAIN devhdl \/ ByName("cpus") \notin DOMAIN devhdl
                       \/ ByName("memory") \notin DOMAIN devhdl
  BY Zenon DEF NotInstalled
<1>9. NotInstalled <=> ByName("chosen") = 0 \/ ByName("cpus") = 0 \/ ByName("memory") = 0
  <2>1. /\ ByName("cpus") \in DOMAIN devhdl <=> ByName("cpus") # 0
        /\ ByName("memory") \in DOMAIN devhdl <=> ByName("memory") # 0
    BY <1>7, Zenon
  <2> QED
    BY <1>6, <1>8, <2>1, Zenon
<1>10. (\E name \in {"chosen", "cpus", "memory"} : ByName(name) = 0)
         <=> ByName("chosen") = 0 \/ ByName("cpus") = 0 \/ ByName("memory") = 0
  BY Zenon
<1> QED
  BY <1>2, <1>3, <1>4, <1>9, <1>10, Zenon

\* The MMU that k_boot_sysdev goes for.
LEMMA MMUFacts ==
  ASSUME IInv, type = "SYS", at = Len(tree.nodes) + 1
  PROVE  /\ MinMMU(cpus) = 255 => Kinds = {}
         /\ MinMMU(cpus) # 255 => /\ MinMMU(cpus) \in Kinds /\ MinMMU(cpus) \in Nat
                                  /\ \A m \in Kinds : m \in Nat /\ MinMMU(cpus) <= m
<1> DEFINE kinds == { Node(cpus[k]).mmu : k \in 1 .. Len(cpus) }
<1>1. kinds = Kinds
  BY ProbedFacts
<1>2. MinMMU(cpus) = IF kinds = {} THEN 255 ELSE Lowest(kinds)
  BY Zenon DEF MinMMU
<1> HIDE DEF kinds
<1>3. Kinds \subseteq {32, 39, 48, 57}
  <2>1. ASSUME NEW i \in GoodCpus PROVE Node(i).mmu \in {32, 39, 48, 57}
    <3>1. i \in Nodes /\ Node(i).name = "cpu" /\ ~Node(i).bad
      BY DEF GoodCpus
    <3>2. TypeInv
      BY DEF IInv
    <3> QED
      BY <3>1, <3>2, TreeFacts
  <2> QED
    BY <2>1 DEF Kinds
<1>4. CASE Kinds = {}
  BY <1>1, <1>2, <1>4
<1>5. CASE Kinds # {}
  <2>1. Kinds \subseteq Nat /\ 255 \notin Kinds
    BY <1>3
  <2>2. Lowest(Kinds) \in Kinds /\ \A y \in Kinds : Lowest(Kinds) <= y
    BY <1>5, <2>1, LowestFacts, Zenon
  <2>3. MinMMU(cpus) = Lowest(Kinds)
    BY <1>1, <1>2, <1>5, Zenon
  <2> QED
    BY <2>1, <2>2, <2>3, Zenon
<1> QED
  BY <1>4, <1>5, Zenon

\* A way out of the boot.
LEMMA LeaveInv ==
  ASSUME IInv, SysProbed, NEW code, Leave(code), BootOutcome'
  PROVE  IInv'
<1>0. /\ TypeInv /\ StageInv /\ HandlerInv /\ CpuInv /\ VisitInv /\ ReservedInv
      /\ ConsoleIsUart
  BY DEF IInv
<1>1. UNCHANGED <<tree, type, at, devhdl, cpus, avail, uarts, console>> /\ bootStage' = "done"
  BY DEF Leave, drvVars
<1>2. type = "SYS" /\ at = Len(tree.nodes) + 1
  <2>1. bootStage = "sysdev" /\ type # "none" /\ at = Len(tree.nodes) + 1
    BY Zenon DEF SysProbed, ProbeDone
  <2> QED
    BY <1>0, <2>1 DEF StageInv
<1>3. /\ Nodes' = Nodes /\ GoodCpus' = GoodCpus
      /\ \A i : Node(i)' = Node(i)
      /\ \A name : ByName(name)' = ByName(name)
      /\ \A i : Due(i)' <=> Due(i)
  BY <1>1, SameTree, Zenon
<1>4. TypeInv' /\ StageInv'
  BY <1>0, <1>1, <1>2, <1>3 DEF TypeInv, StageInv
<1>5. HandlerInv' /\ CpuInv'
  BY <1>0, <1>1, <1>3, Zenon DEF HandlerInv, HandlerOK, CpuInv, CpuListed
<1>6. VisitInv' /\ ConsoleIsUart'
  BY <1>0, <1>1, <1>3, Zenon DEF VisitInv, Past, ConsoleIsUart
<1>7. ReservedInv'
  BY <1>0, <1>1, <1>3, Zenon DEF ReservedInv, Left
<1>8. PeripInv'
  BY <1>1 DEF PeripInv
<1> QED
  BY <1>4, <1>5, <1>6, <1>7, <1>8 DEF IInv

LEMMA WaysOutInv ==
  ASSUME IInv, NoDevice \/ NoMMU \/ EnableFails \/ NoMemory
  PROVE  IInv'
<1> DEFINE missing == \E name \in {"chosen", "cpus", "memory"} : ByName(name) = 0
           m == MinMMU(cpus)
<1>0. TypeInv /\ StageInv
  BY DEF IInv
<1>1. SysProbed /\ UNCHANGED tree
  BY DEF NoDevice, NoMMU, EnableFails, NoMemory, Leave, drvVars
<1>2. type = "SYS" /\ at = Len(tree.nodes) + 1
  <2>1. bootStage = "sysdev" /\ type # "none" /\ at = Len(tree.nodes) + 1
    BY <1>1, Zenon DEF SysProbed, ProbeDone
  <2> QED
    BY <1>0, <2>1 DEF StageInv
<1>3. NotInstalled <=> missing
  BY <1>2, ProbedFacts, Zenon
<1>4. /\ m = 255 => Kinds = {}
      /\ m # 255 => m \in Kinds /\ m \in Nat /\ \A l \in Kinds : l \in Nat /\ m <= l
  BY <1>2, MMUFacts, Zenon
<1>5. Kinds' = Kinds /\ (missing' <=> missing) /\ tree.satp \in Nat
  BY <1>0, <1>1, SameTree, TreeFacts, Zenon
<1> HIDE DEF missing, m
<1>6. ASSUME NEW code, rc' = code, code # "none", code # "OK",
             code = "K_ENOSPC" <=> missing,
             code = "K_EINVAL" => Kinds = {} \/ 32 \in Kinds,
             code = "K_EFAIL" => \A l \in Kinds : tree.satp < l
      PROVE  BootOutcome'
  <2>1. /\ rc' # "none" => (rc' = "K_ENOSPC" <=> missing')
        /\ rc' = "K_EINVAL" => Kinds' = {} \/ 32 \in Kinds'
        /\ rc' = "K_EFAIL" => tree'.initrd = "broken" \/ \A l \in Kinds' : tree'.satp < l
        /\ rc' = "OK" => mmu_type' \in Kinds' /\ \A l \in Kinds' : mmu_type' <= l
    BY <1>1, <1>5, <1>6, Zenon
  <2>2. BootOutcome' <=>
          /\ rc' # "none" => (rc' = "K_ENOSPC" <=> missing')
          /\ rc' = "K_EINVAL" => Kinds' = {} \/ 32 \in Kinds'
          /\ rc' = "K_EFAIL" => tree'.initrd = "broken" \/ \A l \in Kinds' : tree'.satp < l
          /\ rc' = "OK" => mmu_type' \in Kinds' /\ \A l \in Kinds' : mmu_type' <= l
    BY Zenon DEF BootOutcome, Kinds, missing
  <2> QED
    BY <2>1, <2>2
<1>7. CASE NoDevice
  <2>1. missing /\ Leave("K_ENOSPC")
    BY <1>3, <1>7, Zenon DEF NoDevice
  <2>2. BootOutcome'
    BY <1>6, <2>1 DEF Leave
  <2> QED
    BY <1>1, <2>1, <2>2, LeaveInv, Zenon
<1>8. CASE NoMMU
  <2>1. ~missing /\ m \in {255, 32} /\ Leave("K_EINVAL")
    BY <1>3, <1>8, Zenon DEF NoMMU, m
  <2>2. Kinds = {} \/ 32 \in Kinds
    BY <1>4, <2>1
  <2>3. BootOutcome'
    BY <1>6, <2>1, <2>2 DEF Leave
  <2> QED
    BY <1>1, <2>1, <2>3, LeaveInv, Zenon
<1>9. CASE EnableFails
  <2>1. ~missing /\ m # 255 /\ ~(m <= tree.satp) /\ Leave("K_EFAIL")
    BY <1>3, <1>9 DEF EnableFails, EnableWorks, m
  <2>2. \A l \in Kinds : tree.satp < l
    BY <1>4, <1>5, <2>1
  <2>3. BootOutcome'
    BY <1>6, <2>1, <2>2 DEF Leave
  <2> QED
    BY <1>1, <2>1, <2>3, LeaveInv, Zenon
<1>10. CASE NoMemory
  <2>1. ~missing /\ Leave("K_ENOMEM")
    BY <1>3, <1>10, Zenon DEF NoMemory
  <2>2. BootOutcome'
    BY <1>6, <2>1 DEF Leave
  <2> QED
    BY <1>1, <2>1, <2>2, LeaveInv, Zenon
<1> QED
  BY <1>7, <1>8, <1>9, <1>10

\* A probe begins, the first one or the one for the peripherals.
LEMMA StartInv ==
  ASSUME IInv, NEW t \in {"SYS", "PERIP"}, StartProbe(t),
         t = "SYS" => type = "none",
         t = "PERIP" => type = "SYS" /\ at = Len(tree.nodes) + 1,
         StageInv', PeripInv', UNCHANGED <<rc, console>>, bootStage # "done",
         BootOutcome'
  PROVE  IInv'
<1>0. /\ TypeInv /\ StageInv /\ HandlerInv /\ CpuInv /\ VisitInv /\ ReservedInv
      /\ ConsoleIsUart
  BY DEF IInv
<1>1. UNCHANGED <<tree, devhdl, cpus, avail, uarts, console>> /\ type' = t /\ at' = 1
  BY DEF StartProbe
<1>2. /\ Nodes' = Nodes /\ GoodCpus' = GoodCpus
      /\ \A i : Node(i)' = Node(i)
      /\ \A name : ByName(name)' = ByName(name)
      /\ \A i : Due(i)' <=> Due(i)
  BY <1>1, SameTree, Zenon
<1>3. /\ Len(tree.nodes) \in Nat \ {0} /\ 1 \in 1 .. Len(tree.nodes) + 1
      /\ \A i \in Nodes : ~(i < 1)
  <2>1. Len(tree.nodes) \in Nat \ {0} /\ Nodes = 1 .. Len(tree.nodes)
    BY <1>0, TreeFacts
  <2> QED
    BY <2>1
<1>4. TypeInv'
  BY <1>0, <1>1, <1>2, <1>3, Zenon DEF TypeInv
<1>5. HandlerInv' /\ CpuInv' /\ ConsoleIsUart'
  BY <1>0, <1>1, <1>2, Zenon DEF HandlerInv, HandlerOK, CpuInv, CpuListed, ConsoleIsUart
<1>6. VisitInv'
  <2>1. CASE t = "SYS"
    <3>1. ASSUME NEW i \in Nodes PROVE ~Past(i)'
      BY <1>1, <1>3, <2>1 DEF Past
    <3> QED
      BY <1>2, <3>1, Zenon DEF VisitInv
  <2>2. CASE t = "PERIP"
    <3>1. \A i \in Nodes : Due(i) => i \in DOMAIN devhdl
      BY <2>2, ProbedFacts, Zenon
    <3> QED
      BY <1>1, <1>2, <3>1, Zenon DEF VisitInv
  <2> QED
    BY <2>1, <2>2
<1>7. ReservedInv'
  <2> DEFINE r == ByName("reserved-memory")
  <2>1. r # 0 => ~(r < 1)
    BY <1>0, <1>3, ByNameFacts, Zenon
  <2>2. r' = r /\ (r # 0 => \A k \in 1 .. Len(avail) : Node(avail[k]).up # r)
    BY <1>0, <1>2, Zenon DEF ReservedInv
  <2> QED
    BY <1>1, <1>2, <2>1, <2>2, Zenon DEF ReservedInv, Left
<1> QED
  BY <1>4, <1>5, <1>6, <1>7 DEF IInv

LEMMA BeginInv ==
  ASSUME IInv, Begin
  PROVE  IInv'
<1>0. StageInv /\ BootOutcome
  BY DEF IInv
<1>1. /\ type = "none" /\ bootStage = "sysdev" /\ StartProbe("SYS")
      /\ UNCHANGED <<bootStage, rc, mmu_type, console>>
  BY DEF Begin
<1>2. tree' = tree /\ type' = "SYS"
  BY <1>1 DEF StartProbe
<1>3. StageInv' /\ PeripInv'
  BY <1>0, <1>1, <1>2 DEF StageInv, PeripInv
<1>4. BootOutcome'
  BY <1>0, <1>1, <1>2, OutcomeKept
<1>5. "SYS" # "PERIP" /\ bootStage # "done"
  BY <1>1
<1> QED
  BY <1>1, <1>3, <1>4, <1>5, StartInv, Zenon

LEMMA SysdevOKInv ==
  ASSUME IInv, SysdevOK
  PROVE  IInv'
<1>0. TypeInv /\ StageInv
  BY DEF IInv
<1>1. /\ bootStage = "sysdev" /\ type # "none" /\ at = Len(tree.nodes) + 1 /\ ~NotInstalled
      /\ MinMMU(cpus) # 255 /\ mmu_type' = MinMMU(cpus) /\ bootStage' = "perip"
      /\ StartProbe("PERIP") /\ UNCHANGED <<rc, console>>
  BY Zenon DEF SysdevOK, SysProbed, ProbeDone
<1>2. type = "SYS" /\ rc = "none" /\ console = 0
  BY <1>0, <1>1 DEF StageInv
<1>3. tree' = tree /\ type' = "PERIP"
  BY <1>1 DEF StartProbe
<1>4. StageInv'
  BY <1>1, <1>2, <1>3 DEF StageInv
<1>5. PeripInv'
  <2>1. Kinds' = Kinds /\ \A name : ByName(name)' = ByName(name)
    BY <1>3, SameTree, Zenon
  <2>2. \A name \in {"chosen", "cpus", "memory"} : ByName(name) # 0
    BY <1>1, <1>2, ProbedFacts, Zenon
  <2>3. MinMMU(cpus) \in Kinds /\ \A m \in Kinds : MinMMU(cpus) <= m
    BY <1>1, <1>2, MMUFacts, Zenon
  <2> QED
    BY <1>1, <2>1, <2>2, <2>3, Zenon DEF PeripInv
<1>6. BootOutcome'
  BY <1>1, <1>2 DEF BootOutcome
<1>7. "PERIP" # "SYS" /\ bootStage # "done"
  BY <1>1
<1> QED
  BY <1>1, <1>2, <1>4, <1>5, <1>6, <1>7, StartInv, Zenon

LEMMA PeripStepInv ==
  ASSUME IInv, Perip
  PROVE  IInv'
<1>0. /\ TypeInv /\ StageInv /\ HandlerInv /\ CpuInv /\ VisitInv /\ ReservedInv /\ PeripInv
  BY DEF IInv
<1>1. /\ bootStage = "perip" /\ bootStage' = "done" /\ console' = Console
      /\ UNCHANGED <<tree, type, at, devhdl, cpus, avail, uarts, mmu_type>>
      /\ rc' = (IF tree.initrd = "broken" THEN "K_EFAIL" ELSE "OK")
  BY DEF Perip, drvVars
<1>2. /\ Nodes' = Nodes /\ GoodCpus' = GoodCpus /\ Kinds' = Kinds
      /\ \A i : Node(i)' = Node(i)
      /\ \A name : ByName(name)' = ByName(name)
      /\ \A i : Due(i)' <=> Due(i)
  BY <1>1, SameTree, Zenon
<1>3. TypeInv' /\ StageInv' /\ PeripInv'
  BY <1>0, <1>1, <1>2 DEF TypeInv, StageInv, PeripInv
<1>4. HandlerInv' /\ CpuInv' /\ VisitInv'
  BY <1>0, <1>1, <1>2, Zenon DEF HandlerInv, HandlerOK, CpuInv, CpuListed, VisitInv, Past
<1>5. ReservedInv'
  BY <1>0, <1>1, <1>2, Zenon DEF ReservedInv, Left
<1>6. BootOutcome'
  <2> DEFINE missing == \E name \in {"chosen", "cpus", "memory"} : ByName(name) = 0
  <2>1. ~missing' /\ mmu_type' \in Kinds' /\ \A m \in Kinds' : mmu_type' <= m
    BY <1>0, <1>1, <1>2, Zenon DEF PeripInv
  <2>2. rc' # "K_ENOSPC" /\ rc' # "K_EINVAL" /\ (rc' = "K_EFAIL" => tree'.initrd = "broken")
    BY <1>1
  <2>3. BootOutcome' <=>
          /\ rc' # "none" => (rc' = "K_ENOSPC" <=> missing')
          /\ rc' = "K_EINVAL" => Kinds' = {} \/ 32 \in Kinds'
          /\ rc' = "K_EFAIL" => tree'.initrd = "broken" \/ \A l \in Kinds' : tree'.satp < l
          /\ rc' = "OK" => mmu_type' \in Kinds' /\ \A l \in Kinds' : mmu_type' <= l
    BY Zenon DEF BootOutcome, Kinds
  <2> HIDE DEF missing
  <2> QED
    BY <2>1, <2>2, <2>3, Zenon
<1>7. ConsoleIsUart'
  <2> SUFFICES ASSUME Console # 0
               PROVE  /\ Console \in DOMAIN devhdl /\ devhdl[Console].drv = "uart"
                      /\ uarts[devhdl[Console].hdl + 1] = Console
    BY <1>1, Zenon DEF ConsoleIsUart
  <2>1. Console = tree.stdout /\ tree.stdout \in DOMAIN devhdl
    BY Zenon DEF Console
  <2>2. tree.stdout \in Nodes
    BY <1>0, <2>1, Zenon DEF TypeInv
  <2>3. Node(tree.stdout).name \notin SysNames
    BY <1>0, <2>2, TreeFacts, Zenon
  <2> QED
    BY <1>0, <2>1, <2>3, Zenon DEF HandlerInv, HandlerOK
<1> QED
  BY <1>3, <1>4, <1>5, <1>6, <1>7 DEF IInv

LEMMA StepInv ==
  ASSUME IInv, [SysBootNext]_sysBootVars
  PROVE  IInv'
<1>1. CASE Begin
  BY <1>1, BeginInv
<1>2. CASE Step
  <2>0. bootStage # "done" /\ UNCHANGED <<bootStage, rc, mmu_type, stack, console>>
    BY <1>2 DEF Step
  <2>1. CASE Pass
    BY <2>0, <2>1, PassInv
  <2>2. CASE AddRoot
    BY <2>0, <2>2, RootInv
  <2>3. CASE AddMem
    BY <2>0, <2>3, MemInv
  <2>4. CASE AddCpu
    BY <2>0, <2>4, CpuStepInv
  <2>5. CASE AddUart
    BY <2>0, <2>5, UartInv
  <2> QED
    BY <1>2, <2>1, <2>2, <2>3, <2>4, <2>5 DEF Step, ProbeStep
<1>3. CASE NoDevice \/ NoMMU \/ EnableFails \/ NoMemory
  BY <1>3, WaysOutInv
<1>4. CASE SysdevOK
  BY <1>4, SysdevOKInv
<1>5. CASE Perip
  BY <1>5, PeripStepInv
<1>6. CASE UNCHANGED sysBootVars
  <2>1. UNCHANGED <<tree, type, at, devhdl, cpus, avail, uarts, bootStage, rc, mmu_type, console>>
    BY <1>6 DEF sysBootVars, drvVars
  <2>2. /\ Nodes' = Nodes /\ GoodCpus' = GoodCpus /\ Kinds' = Kinds
        /\ \A i : Node(i)' = Node(i)
        /\ \A name : ByName(name)' = ByName(name)
        /\ \A i : Due(i)' <=> Due(i)
    BY <2>1, SameTree, Zenon
  <2>3. TypeInv' /\ StageInv' /\ PeripInv'
    BY <2>1, <2>2, Zenon DEF IInv, TypeInv, StageInv, PeripInv
  <2>4. HandlerInv' /\ CpuInv' /\ VisitInv'
    BY <2>1, <2>2, Zenon DEF IInv, HandlerInv, HandlerOK, CpuInv, CpuListed, VisitInv, Past
  <2>5. ReservedInv' /\ ConsoleIsUart'
    BY <2>1, <2>2, Zenon DEF IInv, ReservedInv, Left, ConsoleIsUart
  <2>6. BootOutcome'
    BY <2>1, OutcomeKept DEF IInv
  <2> QED
    BY <2>3, <2>4, <2>5, <2>6 DEF IInv
<1> QED
  BY <1>1, <1>2, <1>3, <1>4, <1>5, <1>6 DEF SysBootNext

LEMMA AlwaysInv == SysBootSpec => []IInv
  BY InitInv, StepInv, PTL DEF SysBootSpec

-----------------------------------------------------------------------------
(* Theorems *)

\* k_boot_sysdev and k_boot_perip: whatever the tree is, the CPU driver has
\* every usable CPU once, at the handler it returned for it.
THEOREM EveryCpuOnce == SysBootSpec => []CpusExact
<1>1. ASSUME IInv PROVE CpusExact
  <2> SUFFICES ASSUME bootStage # "sysdev"
               PROVE  /\ Len(cpus) = Cardinality(GoodCpus)
                      /\ \A i \in GoodCpus : i \in DOMAIN devhdl /\ cpus[devhdl[i].hdl + 1] = i
    BY DEF CpusExact
  <2>1. type = "PERIP" \/ (type = "SYS" /\ at = Len(tree.nodes) + 1)
    BY <1>1 DEF IInv, StageInv, TypeInv
  <2>2. \A i \in GoodCpus : i \in DOMAIN devhdl /\ CpuListed(i)
    BY <1>1, <2>1, ProbedFacts, Zenon
  <2>3. Len(cpus) \in Nat /\ cpus \in [1 .. Len(cpus) -> Nodes]
    BY <1>1 DEF IInv, TypeInv
  <2>4. \A k \in 1 .. Len(cpus) : cpus[k] \in GoodCpus /\ devhdl[cpus[k]].hdl = k - 1
    BY <1>1, Zenon DEF IInv, CpuInv
  <2>5. cpus \in [1 .. Len(cpus) -> GoodCpus]
    BY <2>3, <2>4
  <2>6. \A k, l \in 1 .. Len(cpus) : cpus[k] = cpus[l] => k = l
    <3>1. \A k, l \in 1 .. Len(cpus) : cpus[k] = cpus[l] => k - 1 = l - 1
      BY <2>4, Zenon
    <3> QED
      BY <2>3, <3>1
  <2>7. ASSUME NEW i \in GoodCpus PROVE \E k \in 1 .. Len(cpus) : cpus[k] = i
    <3>1. devhdl[i].hdl \in 0 .. Len(cpus) - 1 /\ cpus[devhdl[i].hdl + 1] = i
      BY <2>2, Zenon DEF CpuListed
    <3>2. devhdl[i].hdl + 1 \in 1 .. Len(cpus)
      BY <2>3, <3>1
    <3> QED
      BY <3>1, <3>2, Zenon
  <2>8. DOMAIN cpus = 1 .. Len(cpus)
    BY <2>3
  <2>9. cpus \in Bijection(1 .. Len(cpus), GoodCpus)
    BY <2>5, <2>6, <2>7, <2>8, Zenon DEF Bijection, Injection, Surjection, IsInjective
  <2>10. Cardinality(GoodCpus) = Len(cpus)
    BY <2>3, <2>9, FS_CountingElements, Zenon DEF ExistsBijection
  <2> QED
    BY <2>2, <2>10, Zenon DEF CpuListed
<1> QED
  BY <1>1, AlwaysInv, PTL

\* GenericMem::addDevice and DriverManager::probe: memory below
\* /reserved-memory is never offered as available.
THEOREM ReservedStaysReserved == SysBootSpec => []ReservedNotAvailable
<1>1. IInv => ReservedNotAvailable
  BY Zenon DEF IInv, ReservedInv, ReservedNotAvailable
<1> QED
  BY <1>1, AlwaysInv, PTL

\* k_boot_sysdev and k_boot_perip: what they return is decided by the tree and
\* by the satp of the boot hart.
THEOREM OutcomeIsTheMachines == SysBootSpec => []BootOutcome
<1>1. IInv => BootOutcome
  BY DEF IInv
<1> QED
  BY <1>1, AlwaysInv, PTL

\* k_boot_perip: stdout goes to the SBI or to a UART that is set up, and the
\* handler it keeps leads to that UART.
THEOREM StdoutHasUart == SysBootSpec => []ConsoleIsUart
<1>1. IInv => ConsoleIsUart
  BY DEF IInv
<1> QED
  BY <1>1, AlwaysInv, PTL
=============================================================================
