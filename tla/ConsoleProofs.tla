---------------------------- MODULE ConsoleProofs ----------------------------
(***************************************************************************)
(* The UART never overflows, for any set of harts that is not larger than  *)
(* its FIFO is deep.                                                       *)
(***************************************************************************)
EXTENDS Console, FiniteSetTheorems, SequenceTheorems, TLAPS

\* Harts between the test of UART_LSR_THRE and the write of UART_THR.
Seen == {h \in Harts : pc[h] = "thr"}

\* What the loops keep: each byte in the UART and each hart that has seen it
\* empty uses up one hart; the driver is used only after it set the UART up.
FifoBound ==
  /\ Len(fifo) + Cardinality(Seen) <= Cardinality(Harts)
  /\ switched => fifoOn
  /\ stage # "boot" => fifoOn
  /\ \A h \in Harts : pc[h] \in {"poll", "thr"} => fifoOn
  /\ \A h \in Harts : pc[h] \in {"sbi", "poll", "thr"} => left[h] \in 1 .. Size

IInv == ConsoleTypeOK /\ FifoBound

\* The harts are finitely many, so every set of them has a size.
LEMMA SubsetSize ==
  ASSUME NEW S \in SUBSET Harts
  PROVE  IsFiniteSet(S) /\ Cardinality(S) \in Nat /\ Cardinality(S) <= Cardinality(Harts)
  BY ConsoleAssumption, FS_Subset, FS_CardinalityType

LEMMA HartsSize == Cardinality(Harts) \in Nat
  BY ConsoleAssumption, FS_CardinalityType

LEMMA InitInv == ConsoleInit => IInv
<1> SUFFICES ASSUME ConsoleInit PROVE IInv
  OBVIOUS
<1>1. ConsoleTypeOK
  <2>1. fifo \in Seq(Byte) /\ line \in Seq(Byte)
    BY DEF ConsoleInit
  <2>2. left \in [Harts -> 0 .. Size] /\ sent \in [Harts -> Nat]
    BY ConsoleAssumption DEF ConsoleInit
  <2>3. dbcn \in {-1, 0, 1}
    BY DEF ConsoleInit
  <2> QED
    BY <2>1, <2>2, <2>3, Zenon DEF ConsoleInit, ConsoleTypeOK
<1>2. Seen = {}
  BY DEF Seen, ConsoleInit
<1>3. Cardinality(Seen) = 0
  BY <1>2, FS_EmptySet
<1>4. Len(fifo) + Cardinality(Seen) <= Cardinality(Harts)
  BY <1>3, HartsSize DEF ConsoleInit
<1> QED
  BY <1>1, <1>4 DEF IInv, FifoBound, ConsoleInit

\* A step that takes no byte to the UART and lets no hart see it empty.
LEMMA BoundKept ==
  ASSUME IInv, ConsoleTypeOK', Seen' \subseteq Seen, Len(fifo') <= Len(fifo)
  PROVE  Len(fifo') + Cardinality(Seen') <= Cardinality(Harts)
<1>1. Seen \in SUBSET Harts
  BY DEF Seen
<1>2. IsFiniteSet(Seen) /\ Cardinality(Seen) \in Nat
  BY <1>1, SubsetSize
<1>3. Cardinality(Seen') \in Nat /\ Cardinality(Seen') <= Cardinality(Seen)
  BY <1>2, FS_Subset, FS_CardinalityType
<1>4. Len(fifo) \in Nat /\ Len(fifo') \in Nat
  BY DEF IInv, ConsoleTypeOK
<1> QED
  BY <1>2, <1>3, <1>4, HartsSize DEF IInv, FifoBound

LEMMA StepInv == IInv /\ [ConsoleNext]_consoleVars => IInv'
<1> SUFFICES ASSUME IInv, [ConsoleNext]_consoleVars PROVE IInv'
  OBVIOUS
<1> USE ConsoleAssumption DEF IInv
<1>1. ASSUME NEW h \in Harts, Write(h) PROVE IInv'
  <2>1. ConsoleTypeOK'
    BY <1>1 DEF Write, ConsoleTypeOK
  <2>2. Seen' \subseteq Seen
    BY <1>1 DEF Write, ConsoleTypeOK, Seen
  <2>3. Len(fifo') + Cardinality(Seen') <= Cardinality(Harts)
    BY <1>1, <2>1, <2>2, BoundKept, SMTT(40) DEF Write, ConsoleTypeOK
  <2> QED
    BY <1>1, <2>1, <2>3 DEF Write, ConsoleTypeOK, FifoBound
<1>2. ASSUME NEW h \in Harts, SbiWrite(h) PROVE IInv'
  <2> DEFINE n == IF dbcn = 1 THEN left[h] ELSE 1
  <2>0. n \in 1 .. left[h] /\ left[h] \in 1 .. Size
    BY <1>2 DEF SbiWrite, ConsoleTypeOK, FifoBound
  <2> DEFINE bytes == [k \in 1 .. n |-> <<h, sent[h] + k>>]
  <2>1. \A k \in 1 .. n : <<h, sent[h] + k>> \in Byte
    BY <2>0 DEF ConsoleTypeOK, Byte
  <2>a. n \in Nat
    BY <2>0
  <2>b. bytes \in [1 .. n -> Byte]
    BY <2>1
  <2>c. bytes \in Seq(Byte)
    <3> HIDE DEF bytes, n
    <3> QED
      BY <2>a, <2>b, SeqDef
  <2>2. line' \in Seq(Byte)
    <3>1. line' = line \o bytes
      BY <1>2 DEF SbiWrite
    <3> HIDE DEF bytes
    <3> QED
      BY <3>1, <2>c, ConcatProperties DEF ConsoleTypeOK
  <2>3. ConsoleTypeOK'
    <3>1. left' = [left EXCEPT ![h] = @ - n] /\ sent' = [sent EXCEPT ![h] = @ + n]
      BY <1>2, Zenon DEF SbiWrite
    <3>2. left[h] - n \in 0 .. Size /\ sent[h] + n \in Nat
      BY <2>0, SMTT(40) DEF ConsoleTypeOK
    <3>3. left' \in [Harts -> 0 .. Size] /\ sent' \in [Harts -> Nat]
      <4> HIDE DEF n
      <4> QED
        BY <3>1, <3>2 DEF ConsoleTypeOK
    <3> QED
      BY <1>2, <3>3, <2>2, Zenon DEF SbiWrite, ConsoleTypeOK
  <2>4. Seen' \subseteq Seen
    BY <1>2 DEF SbiWrite, ConsoleTypeOK, Seen
  <2>5. Len(fifo') + Cardinality(Seen') <= Cardinality(Harts)
    <3>1. fifo' = fifo /\ Len(fifo) \in Nat
      BY <1>2 DEF SbiWrite, ConsoleTypeOK
    <3> QED
      BY <3>1, <2>3, <2>4, BoundKept
  <2>6. \A g \in Harts : pc'[g] \in {"sbi", "poll", "thr"} => left'[g] \in 1 .. Size
    <3> SUFFICES ASSUME NEW g \in Harts, pc'[g] \in {"sbi", "poll", "thr"}
                 PROVE  left'[g] \in 1 .. Size
      OBVIOUS
    <3>1. left' = [left EXCEPT ![h] = @ - n] /\ (left[h] = n => pc'[h] = "run")
      BY <1>2 DEF SbiWrite, ConsoleTypeOK
    <3>2. CASE g = h
      BY <3>1, <3>2, <2>0 DEF ConsoleTypeOK
    <3>3. CASE g # h
      BY <1>2, <3>3 DEF SbiWrite, ConsoleTypeOK, FifoBound
    <3> QED
      BY <3>2, <3>3
  <2> QED
    BY <1>2, <2>3, <2>5, <2>6, Zenon DEF SbiWrite, ConsoleTypeOK, FifoBound
<1>3. ASSUME NEW h \in Harts, Poll(h) PROVE IInv'
  <2>1. ConsoleTypeOK'
    BY <1>3 DEF Poll, ConsoleTypeOK
  <2>2. Seen' \in SUBSET Harts
    BY DEF Seen
  <2>3. Len(fifo') + Cardinality(Seen') <= Cardinality(Harts)
    BY <1>3, <2>2, SubsetSize, HartsSize DEF Poll
  <2> QED
    BY <1>3, <2>1, <2>3 DEF Poll, ConsoleTypeOK, FifoBound
<1>4. ASSUME NEW h \in Harts, Thr(h) PROVE IInv'
  <2>0. left[h] \in 1 .. Size
    BY <1>4 DEF Thr, FifoBound
  <2>1. fifo' \in Seq(Byte) /\ Len(fifo') <= Len(fifo) + 1
    <3>1. <<h, sent[h] + 1>> \in Byte
      BY DEF ConsoleTypeOK, Byte
    <3>2. Append(fifo, <<h, sent[h] + 1>>) \in Seq(Byte)
          /\ Len(Append(fifo, <<h, sent[h] + 1>>)) = Len(fifo) + 1
      BY <3>1, AppendProperties DEF ConsoleTypeOK
    <3>3. fifo' = fifo \/ fifo' = Append(fifo, <<h, sent[h] + 1>>)
      BY <1>4 DEF Thr
    <3>4. fifo \in Seq(Byte) /\ Len(fifo) \in Nat
      BY DEF ConsoleTypeOK
    <3>5. CASE fifo' = fifo
      BY <3>4, <3>5
    <3>6. CASE fifo' = Append(fifo, <<h, sent[h] + 1>>)
      BY <3>2, <3>4, <3>6
    <3> QED
      BY <3>3, <3>5, <3>6
  <2>2. ConsoleTypeOK'
    <3>0. /\ left' = [left EXCEPT ![h] = left[h] - 1]
          /\ sent' = [sent EXCEPT ![h] = sent[h] + 1]
          /\ left[h] - 1 \in 0 .. Size /\ sent[h] + 1 \in Nat
      BY <1>4, <2>0, SMTT(40) DEF Thr, ConsoleTypeOK
    <3>1. left' \in [Harts -> 0 .. Size] /\ sent' \in [Harts -> Nat]
      BY <3>0, Zenon DEF ConsoleTypeOK
    <3> QED
      BY <1>4, <3>1, <2>1, Zenon DEF Thr, ConsoleTypeOK
  <2>3. h \in Seen /\ Seen' = Seen \ {h}
    BY <1>4, Zenon DEF Thr, ConsoleTypeOK, Seen
  <2>4. Seen \in SUBSET Harts
    BY DEF Seen
  <2>5. IsFiniteSet(Seen) /\ Cardinality(Seen) \in Nat
    BY <2>4, SubsetSize
  <2>6. Cardinality(Seen') = Cardinality(Seen) - 1
    BY <2>3, <2>5, FS_RemoveElement, Zenon
  <2>7. Len(fifo') + Cardinality(Seen') <= Cardinality(Harts)
    BY <2>1, <2>5, <2>6, HartsSize, SMTT(40) DEF ConsoleTypeOK, FifoBound
  <2>8. \A g \in Harts : pc'[g] \in {"sbi", "poll", "thr"} => left'[g] \in 1 .. Size
    <3> SUFFICES ASSUME NEW g \in Harts, pc'[g] \in {"sbi", "poll", "thr"}
                 PROVE  left'[g] \in 1 .. Size
      OBVIOUS
    <3>1. left' = [left EXCEPT ![h] = left[h] - 1] /\ (left[h] = 1 => pc'[h] = "run")
      BY <1>4 DEF Thr, ConsoleTypeOK
    <3>2. CASE g = h
      BY <3>1, <3>2, <2>0 DEF ConsoleTypeOK
    <3>3. CASE g # h
      <4>1. pc'[g] = pc[g] /\ left'[g] = left[g]
        BY <1>4, <3>3 DEF Thr, ConsoleTypeOK
      <4> QED
        BY <4>1 DEF FifoBound
    <3> QED
      BY <3>2, <3>3
  <2>9. fifoOn /\ fifoOn' = fifoOn
    BY <1>4 DEF Thr, FifoBound
  <2> QED
    BY <2>2, <2>7, <2>8, <2>9 DEF FifoBound
<1>5. ASSUME NEW h \in Harts, AfterMain(h) PROVE IInv'
  <2>1. ConsoleTypeOK'
    BY <1>5 DEF AfterMain, ConsoleTypeOK
  <2>2. Seen' \subseteq Seen
    BY <1>5 DEF AfterMain, ConsoleTypeOK, Seen
  <2>3. Len(fifo') + Cardinality(Seen') <= Cardinality(Harts)
    BY <1>5, <2>1, <2>2, BoundKept DEF AfterMain, ConsoleTypeOK
  <2> QED
    BY <1>5, <2>1, <2>3 DEF AfterMain, ConsoleTypeOK, FifoBound
<1>6. CASE Drain
  <2>1. ConsoleTypeOK'
    <3>1. Head(fifo) \in Byte /\ Tail(fifo) \in Seq(Byte)
      BY <1>6, HeadTailProperties DEF Drain, ConsoleTypeOK
    <3>2. line' \in Seq(Byte)
      BY <1>6, <3>1, AppendProperties DEF Drain, ConsoleTypeOK
    <3> QED
      BY <1>6, <3>1, <3>2 DEF Drain, ConsoleTypeOK
  <2>2. Seen' \subseteq Seen /\ Len(fifo') <= Len(fifo)
    BY <1>6 DEF Drain, ConsoleTypeOK, Seen
  <2>3. Len(fifo') + Cardinality(Seen') <= Cardinality(Harts)
    BY <2>1, <2>2, BoundKept
  <2> QED
    BY <1>6, <2>1, <2>3 DEF Drain, FifoBound
<1>7. CASE AddDevice \/ SwitchStdout \/ Multicore \/ BeforeCleanup \/ UNCHANGED consoleVars
  <2>1. ConsoleTypeOK'
    BY <1>7, Zenon DEF AddDevice, SwitchStdout, Multicore, BeforeCleanup, consoleVars, ConsoleTypeOK
  <2>2. Seen' = Seen /\ fifo' = fifo
    BY <1>7 DEF AddDevice, SwitchStdout, Multicore, BeforeCleanup, consoleVars, Seen
  <2>3. Len(fifo') + Cardinality(Seen') <= Cardinality(Harts)
    BY <2>2 DEF FifoBound
  <2> QED
    BY <1>7, <2>1, <2>3, Zenon
    DEF AddDevice, SwitchStdout, Multicore, BeforeCleanup, consoleVars, FifoBound, ConsoleTypeOK
<1> QED
  BY <1>1, <1>2, <1>3, <1>4, <1>5, <1>6, <1>7 DEF ConsoleNext, HartStep

\* The variables of the console keep their types: the loop of UART8250::write
\* never counts below zero, and a byte is a byte of some hart.
THEOREM TypeCorrect == ConsoleSpec => []ConsoleTypeOK
<1> QED
  BY InitInv, StepInv, PTL DEF ConsoleSpec, IInv

\* A hart that writes finds room, if the FIFO has room for a byte of each.
LEMMA Room ==
  ASSUME Cardinality(Harts) <= Depth, IInv
  PROVE  NothingDropped
<1> SUFFICES ASSUME NEW h \in Harts, pc[h] = "thr" PROVE Len(fifo) < Capacity
  BY DEF NothingDropped
<1>1. Seen \in SUBSET Harts /\ h \in Seen
  BY DEF Seen
<1>2. IsFiniteSet(Seen) /\ Cardinality(Seen) \in Nat
  BY <1>1, SubsetSize
<1>3. Cardinality(Seen) # 0
  BY <1>1, <1>2, FS_EmptySet
<1>4. Capacity = Depth
  BY DEF Capacity, IInv, FifoBound
<1> QED
  BY <1>2, <1>3, <1>4, HartsSize, ConsoleAssumption DEF IInv, ConsoleTypeOK, FifoBound

\* UART8250::write never drops a byte, without a lock and for any number of
\* harts up to the depth of the FIFO, although each of them may have seen the
\* UART empty at the same time.
THEOREM NoOverflow ==
  ASSUME Cardinality(Harts) <= Depth
  PROVE  ConsoleSpec => []NothingDropped
  BY Room, InitInv, StepInv, PTL DEF ConsoleSpec

-----------------------------------------------------------------------------
(* The bytes on the line *)

\* new is out with the next n bytes of hart h behind it.
Follows(new, out, num, h, n) ==
  /\ Len(new) = Len(out) + n
  /\ \A p \in 1 .. Len(out) : new[p] = out[p]
  /\ \A k \in 1 .. n : new[Len(out) + k] = <<h, num[h] + k>>

LEMMA StaysComplete ==
  ASSUME NEW out \in Seq(Byte), NEW new \in Seq(Byte), NEW num \in [Harts -> Nat],
         NEW h \in Harts, NEW n \in Nat, Complete(out, num), Follows(new, out, num, h, n)
  PROVE  Complete(new, [num EXCEPT ![h] = @ + n])
<1> DEFINE more == [num EXCEPT ![h] = @ + n]
<1>0. /\ Len(out) \in Nat /\ Len(new) = Len(out) + n /\ more[h] = num[h] + n /\ num[h] \in Nat
      /\ \A g \in Harts : g # h => more[g] = num[g]
  BY DEF Follows
<1> HIDE DEF more
<1>1. \A p \in 1 .. Len(out) : new[p] = out[p]
  BY DEF Follows
<1>2. ASSUME NEW p \in 1 .. Len(new), p \notin 1 .. Len(out)
      PROVE  new[p] = <<h, num[h] + (p - Len(out))>> /\ p - Len(out) \in 1 .. n
  <2>1. p - Len(out) \in 1 .. n /\ Len(out) + (p - Len(out)) = p
    BY <1>0, <1>2
  <2> QED
    BY <2>1 DEF Follows
<1>3. ASSUME NEW p \in 1 .. Len(out)
      PROVE  out[p][1] \in Harts /\ out[p][2] \in 1 .. num[out[p][1]]
  <2>1. out[p] \in Byte
    BY ElementOfSeq
  <2> QED
    BY <2>1, Zenon DEF Byte, Complete
<1>4. ASSUME NEW p \in 1 .. Len(new) PROVE new[p][2] \in 1 .. more[new[p][1]]
  <2>1. CASE p \in 1 .. Len(out)
    <3>1. CASE out[p][1] = h
      BY <1>0, <1>1, <1>3, <2>1, <3>1
    <3>2. CASE out[p][1] # h
      BY <1>0, <1>1, <1>3, <2>1, <3>2
    <3> QED
      BY <3>1, <3>2
  <2>2. CASE p \notin 1 .. Len(out)
    <3>1. new[p][1] = h /\ new[p][2] = num[h] + (p - Len(out)) /\ p - Len(out) \in 1 .. n
      BY <1>2, <2>2
    <3> QED
      BY <1>0, <3>1
  <2> QED
    BY <2>1, <2>2
<1>5. ASSUME NEW g \in Harts, NEW k \in 1 .. more[g]
      PROVE  \E p \in 1 .. Len(new) : new[p] = <<g, k>>
  <2>1. CASE k \in 1 .. num[g]
    <3>1. PICK p \in 1 .. Len(out) : out[p] = <<g, k>>
      BY <2>1, Zenon DEF Complete
    <3>2. p \in 1 .. Len(new) /\ new[p] = out[p]
      BY <1>0, <1>1, <3>1
    <3> QED
      BY <3>1, <3>2, Zenon
  <2>2. CASE k \notin 1 .. num[g]
    <3>1. g = h /\ k - num[h] \in 1 .. n /\ num[h] + (k - num[h]) = k
      BY <1>0, <2>2, SMTT(40)
    <3>2. new[Len(out) + (k - num[h])] = <<h, k>>
      BY <3>1 DEF Follows
    <3>3. Len(out) + (k - num[h]) \in 1 .. Len(new)
      BY <1>0, <3>1
    <3> QED
      BY <3>1, <3>2, <3>3, Zenon
  <2> QED
    BY <2>1, <2>2
<1>6. ASSUME NEW p \in 1 .. Len(new), NEW q \in 1 .. Len(new), p < q, new[p][1] = new[q][1]
      PROVE  new[p][2] < new[q][2]
  <2>1. CASE q \in 1 .. Len(out)
    <3>1. p \in 1 .. Len(out)
      BY <1>0, <1>6, <2>1
    <3>2. new[p] = out[p] /\ new[q] = out[q]
      BY <1>1, <2>1, <3>1, Zenon
    <3> QED
      BY <1>6, <2>1, <3>1, <3>2, Zenon DEF Complete
  <2>2. CASE q \notin 1 .. Len(out)
    <3>1. /\ new[q][1] = h /\ new[q][2] = num[h] + (q - Len(out)) /\ q - Len(out) \in 1 .. n
      BY <1>2, <2>2
    <3>2. CASE p \in 1 .. Len(out)
      <4>1. new[p][2] \in 1 .. num[h]
        BY <1>1, <1>3, <1>6, <3>1, <3>2, Zenon
      <4> QED
        BY <1>0, <3>1, <4>1
    <3>3. CASE p \notin 1 .. Len(out)
      <4>1. new[p][2] = num[h] + (p - Len(out)) /\ p - Len(out) \in 1 .. n
        BY <1>2, <3>3
      <4> QED
        BY <1>0, <1>6, <3>1, <4>1
    <3> QED
      BY <3>2, <3>3
  <2> QED
    BY <2>1, <2>2
<1> QED
  BY <1>4, <1>5, <1>6, Zenon DEF Complete, more

LEMMA OrderStep ==
  ASSUME Cardinality(Harts) <= Depth, IInv, IInv', BytesInOrder, [ConsoleNext]_consoleVars
  PROVE  BytesInOrder'
<1> DEFINE out == line \o fifo
<1>0. /\ line \in Seq(Byte) /\ fifo \in Seq(Byte) /\ line' \in Seq(Byte) /\ fifo' \in Seq(Byte)
      /\ sent \in [Harts -> Nat] /\ sent' \in [Harts -> Nat]
  BY DEF IInv, ConsoleTypeOK
<1>1. out \in Seq(Byte) /\ out' \in Seq(Byte) /\ Len(out) = Len(line) + Len(fifo)
      /\ Len(out') = Len(line') + Len(fifo')
  BY <1>0, ConcatProperties
<1>2. ASSUME NEW h \in Harts, NEW n \in Nat, Follows(out', out, sent, h, n),
             sent' = [sent EXCEPT ![h] = @ + n]
      PROVE  BytesInOrder'
  <2> HIDE DEF out
  <2>1. Complete(out, sent)
    BY DEF BytesInOrder, out
  <2>2. \A new \in Seq(Byte) : Follows(new, out, sent, h, n) =>
          Complete(new, [sent EXCEPT ![h] = @ + n])
    BY <1>0, <1>1, <2>1, StaysComplete, Zenon
  <2>3. Complete(out', sent')
    BY <1>1, <1>2, <2>2, Zenon
  <2> QED
    BY <2>3 DEF BytesInOrder, out
<1>3. ASSUME out' = out, sent' = sent PROVE BytesInOrder'
  BY <1>3 DEF BytesInOrder
<1>4. ASSUME NEW h \in Harts, SbiWrite(h) PROVE BytesInOrder'
  <2> DEFINE n == IF dbcn = 1 THEN left[h] ELSE 1
             bytes == [k \in 1 .. n |-> <<h, sent[h] + k>>]
  <2>1. n \in Nat /\ \A k \in 1 .. n : <<h, sent[h] + k>> \in Byte
    BY <1>0 DEF IInv, ConsoleTypeOK, Byte
  <2>2. fifo = <<>> /\ fifo' = <<>> /\ line' = line \o bytes /\ sent' = [sent EXCEPT ![h] = @ + n]
    BY <1>4, Zenon DEF SbiWrite
  <2> HIDE DEF n
  <2>3. bytes \in Seq(Byte) /\ Len(bytes) = n /\ \A k \in 1 .. n : bytes[k] = <<h, sent[h] + k>>
    <3>1. bytes \in [1 .. n -> Byte]
      BY <2>1
    <3>2. \A k \in 1 .. n : bytes[k] = <<h, sent[h] + k>>
      OBVIOUS
    <3> HIDE DEF bytes
    <3> QED
      BY <2>1, <3>1, <3>2, SeqDef, LenProperties
  <2> HIDE DEF bytes
  <2>4. out = line /\ out' = line'
    BY <1>0, <2>2, ConcatEmptySeq
  <2>5. Follows(line', line, sent, h, n)
    <3>1. /\ Len(line') = Len(line) + n
          /\ \A p \in 1 .. Len(line) + n :
               line'[p] = IF p <= Len(line) THEN line[p] ELSE bytes[p - Len(line)]
      <4>1. /\ Len(line \o bytes) = Len(line) + Len(bytes)
            /\ \A p \in 1 .. Len(line) + Len(bytes) :
                 (line \o bytes)[p] = IF p <= Len(line) THEN line[p] ELSE bytes[p - Len(line)]
        BY <1>0, <2>3, ConcatProperties, Zenon
      <4> QED
        BY <2>2, <2>3, <4>1, Zenon
    <3>2. Len(line) \in Nat
      BY <1>0
    <3>3. ASSUME NEW k \in 1 .. n PROVE line'[Len(line) + k] = <<h, sent[h] + k>>
      <4>1. /\ Len(line) + k \in 1 .. Len(line) + n /\ ~(Len(line) + k <= Len(line))
            /\ (Len(line) + k) - Len(line) = k
        BY <2>1, <3>2
      <4> QED
        BY <2>3, <3>1, <4>1, Zenon
    <3>4. ASSUME NEW p \in 1 .. Len(line) PROVE line'[p] = line[p]
      <4>1. p \in 1 .. Len(line) + n /\ p <= Len(line)
        BY <2>1, <3>2
      <4> QED
        BY <3>1, <4>1, Zenon
    <3> QED
      BY <3>1, <3>3, <3>4, Zenon DEF Follows
  <2> QED
    BY <1>2, <2>1, <2>2, <2>4, <2>5, Zenon
<1>5. ASSUME NEW h \in Harts, Thr(h) PROVE BytesInOrder'
  <2> DEFINE b == <<h, sent[h] + 1>>
  <2>1. Len(fifo) < Capacity
    BY <1>5, Room DEF NothingDropped, Thr
  <2>2. fifo' = Append(fifo, b) /\ line' = line /\ sent' = [sent EXCEPT ![h] = @ + 1]
    BY <1>5, <2>1, Zenon DEF Thr
  <2>3. b \in Byte
    BY <1>0 DEF Byte
  <2> HIDE DEF b
  <2>4. /\ Len(fifo') = Len(fifo) + 1 /\ fifo'[Len(fifo) + 1] = b
        /\ \A k \in 1 .. Len(fifo) : fifo'[k] = fifo[k]
    BY <1>0, <2>2, <2>3, AppendProperties
  <2>5. /\ \A p \in 1 .. Len(line) + Len(fifo) : out[p] = IF p <= Len(line) THEN line[p] ELSE fifo[p - Len(line)]
        /\ \A p \in 1 .. Len(line) + Len(fifo') : out'[p] = IF p <= Len(line) THEN line[p] ELSE fifo'[p - Len(line)]
    <3>1. \A s \in Seq(Byte) : \A p \in 1 .. Len(line) + Len(s) :
            (line \o s)[p] = IF p <= Len(line) THEN line[p] ELSE s[p - Len(line)]
      BY <1>0, ConcatProperties, Zenon
    <3>2. out = line \o fifo /\ out' = line \o fifo'
      BY <2>2
    <3> HIDE DEF out
    <3> QED
      BY <1>0, <3>1, <3>2, Zenon
  <2>6. Len(line) \in Nat /\ Len(fifo) \in Nat
    BY <1>0
  <2> HIDE DEF out
  <2>7. Len(out') = Len(out) + 1
    BY <1>1, <2>2, <2>4, <2>6
  <2>8. ASSUME NEW p \in 1 .. Len(out) PROVE out'[p] = out[p]
    <3>1. p \in 1 .. Len(line) + Len(fifo) /\ p \in 1 .. Len(line) + Len(fifo')
      BY <1>1, <2>4, <2>6
    <3>2. CASE p <= Len(line)
      BY <2>5, <3>1, <3>2, Zenon
    <3>3. CASE ~(p <= Len(line))
      <4>1. p - Len(line) \in 1 .. Len(fifo)
        BY <2>6, <3>1, <3>3
      <4> QED
        BY <2>4, <2>5, <3>1, <3>3, <4>1, Zenon
    <3> QED
      BY <3>2, <3>3
  <2>9. out'[Len(out) + 1] = b
    <3>1. PICK p : p = Len(out) + 1
      OBVIOUS
    <3>2. p \in 1 .. Len(line) + Len(fifo') /\ ~(p <= Len(line)) /\ p - Len(line) = Len(fifo) + 1
      BY <1>1, <2>4, <2>6, <3>1
    <3>3. out'[p] = fifo'[p - Len(line)]
      BY <2>5, <3>2, Zenon
    <3> QED
      BY <2>4, <3>1, <3>2, <3>3, Zenon
  <2>10. Follows(out', out, sent, h, 1)
    <3>1. \A k \in 1 .. 1 : k = 1
      OBVIOUS
    <3> QED
      BY <2>7, <2>8, <2>9, <3>1, Zenon DEF Follows, b
  <2>11. 1 \in Nat
    OBVIOUS
  <2> QED
    BY <1>2, <2>2, <2>10, <2>11, Zenon
<1>6. CASE Drain
  <2>1. fifo # <<>> /\ line' = Append(line, Head(fifo)) /\ fifo' = Tail(fifo) /\ sent' = sent
    BY <1>6 DEF Drain
  <2>2. Head(fifo) \in Byte /\ Tail(fifo) \in Seq(Byte) /\ <<Head(fifo)>> \in Seq(Byte)
    BY <1>0, <2>1, HeadTailProperties
  <2>3. fifo = <<Head(fifo)>> \o Tail(fifo)
    BY <1>0, <2>1
  <2>4. line' = line \o <<Head(fifo)>>
    BY <1>0, <2>1, <2>2, AppendIsConcat
  <2>5. out' = line \o (<<Head(fifo)>> \o Tail(fifo))
    BY <1>0, <2>1, <2>2, <2>4, ConcatAssociative
  <2> QED
    BY <1>3, <2>1, <2>3, <2>5
<1>7. ASSUME UNCHANGED <<line, fifo, sent>> PROVE BytesInOrder'
  BY <1>3, <1>7
<1>8. ASSUME NEW h \in Harts, Write(h) \/ Poll(h) \/ AfterMain(h) PROVE BytesInOrder'
  BY <1>7, <1>8 DEF Write, Poll, AfterMain
<1>9. CASE AddDevice \/ SwitchStdout \/ Multicore \/ BeforeCleanup \/ UNCHANGED consoleVars
  BY <1>7, <1>9 DEF AddDevice, SwitchStdout, Multicore, BeforeCleanup, consoleVars
<1> QED
  BY <1>4, <1>5, <1>6, <1>8, <1>9 DEF ConsoleNext, HartStep

\* _write_stdout: every byte that it has returned as written is on the line or
\* in the UART once, and the bytes of each hart are in order, while other harts
\* write without a lock and the boot hart switches to the driver and back.
THEOREM NothingLost ==
  ASSUME Cardinality(Harts) <= Depth
  PROVE  ConsoleSpec => []BytesInOrder
<1>1. ConsoleInit => BytesInOrder
  <2> SUFFICES ASSUME ConsoleInit PROVE BytesInOrder
    OBVIOUS
  <2>1. line \o fifo = <<>> /\ Len(<<>>) = 0 /\ \A h \in Harts : sent[h] = 0
    BY DEF ConsoleInit
  <2> QED
    BY <2>1 DEF BytesInOrder, Complete
<1>2. IInv /\ IInv' /\ BytesInOrder /\ [ConsoleNext]_consoleVars => BytesInOrder'
  BY OrderStep
<1> QED
  BY <1>1, <1>2, InitInv, StepInv, PTL DEF ConsoleSpec
=============================================================================
