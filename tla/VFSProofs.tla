------------------------------ MODULE VFSProofs ------------------------------
(***************************************************************************)
(* The descriptor tables of VFS stay exact, positions stay in their files  *)
(* and iterators stay good, for any set of harts, archives, paths, counts  *)
(* and offsets, any number of control blocks and any width of the word;    *)
(* and every call is one step of AbstractFiles if no sum wraps.            *)
(***************************************************************************)
EXTENDS VFS, TLAPS

\* A mounted path leads to a live instance of its own.
MountInv ==
  /\ \A p \in DOMAIN _fs_map : _fs_map[p] \in DOMAIN _insts /\ _insts[_fs_map[p]].live
  /\ \A p, q \in DOMAIN _fs_map : _fs_map[p] = _fs_map[q] => p = q
  /\ \A p \in DOMAIN _fs_map : _insts[_fs_map[p]].type = "cpiofs" =>
       _insts[_fs_map[p]].device \in DOMAIN Archives

\* A descriptor is below the counter and leads to a block, in use and of a
\* live instance and holding a file, that no other descriptor leads to; every
\* block in use has one.
FdInv ==
  /\ \A fd \in DOMAIN _global_fd_map :
       /\ fd \in Nat /\ fd < _global_fd_counter
       /\ _global_fd_map[fd] \in [fs : DOMAIN _insts, fd : Slots]
       /\ _insts[_global_fd_map[fd].fs].live
       /\ Fcb(fd).used
       /\ Fcb(fd).file \in ArchiveFiles /\ Fcb(fd).size = SizeOf(Fcb(fd).file)
  /\ \A c, d \in DOMAIN _global_fd_map : _global_fd_map[c] = _global_fd_map[d] => c = d
  /\ \A i \in DOMAIN _insts, s \in Slots : _insts[i].fcb[s].used =>
       \E fd \in DOMAIN _global_fd_map : _global_fd_map[fd] = [fs |-> i, fd |-> s]

\* A descriptor a hart has opened is there, and no other hart's.
OwnInv ==
  /\ \A h \in Harts : mine[h] \subseteq DOMAIN _global_fd_map
  /\ \A g, h \in Harts : g # h => mine[g] \cap mine[h] = {}

\* A call is about a descriptor of its hart, and its locals are what it has
\* found in the block so far.
CallOf(h) ==
  pc[h] # "out" =>
    /\ "fd" \in DOMAIN arg[h] /\ arg[h].fd \in mine[h]
    /\ pc[h] \in Reading => "count" \in DOMAIN arg[h]
    /\ pc[h] \in {"read", "read_cut"} => arg[h].count \in Counts
    /\ pc[h] \in {"read_copy", "read_advance"} =>
         \E n \in Counts : arg[h].count = ReadCount(Fcb(arg[h].fd), n)
    /\ pc[h] = "read_advance" =>
         arg[h].file = Fcb(arg[h].fd).file /\ arg[h].from = Fcb(arg[h].fd).lpos
    /\ pc[h] \in Seeking => \E s \in Seeks : arg[h].offset = s[1]

CallInv == \A h \in Harts : CallOf(h)

IInv == TypeOK /\ MountInv /\ FdInv /\ OwnInv /\ CallInv /\ PosInFile

-----------------------------------------------------------------------------
(* Types and modular arithmetic                                            *)

LEMMA WordIsNat == /\ WORD \in Nat \ {0} /\ 0 \in Word
                   /\ \A n \in Int : n % WORD \in Word
                   /\ \A n \in Word : n % WORD = n
BY CPIOFSAssumption DEF Word

LEMMA FileOfArchive ==
  ASSUME NEW d \in DOMAIN Archives, NEW n \in DOMAIN Archives[d]
  PROVE  /\ <<d, n>> \in ArchiveFiles /\ <<d, n>> \in Files
         /\ SizeOf(<<d, n>>) = Archives[d][n]
BY DEF ArchiveFiles, Files, SizeOf

LEMMA FreeTable ==
  /\ FreeFcb \in Blocks
  /\ NewTable \in [Slots -> Blocks]
  /\ \A s \in Slots : NewTable[s] = FreeFcb
<1>1. <<>> \in Files
  BY Zenon DEF Files
<1>2. FreeFcb \in Blocks
  BY <1>1, WordIsNat, Zenon DEF FreeFcb, Blocks
<1> QED
  BY <1>2, Zenon DEF NewTable

LEMMA SameEntry ==
  ASSUME NEW A, NEW B, NEW r \in [fs : A, fd : B], NEW q \in [fs : A, fd : B],
         r.fs = q.fs, r.fd = q.fd
  PROVE  r = q
OBVIOUS

\* J is I with block s of instance i set to b.
Stored(J, I, i, s, b) ==
  /\ J \in Seq(Instances)
  /\ DOMAIN J = DOMAIN I
  /\ \A j \in DOMAIN I :
       J[j].live = I[j].live /\ J[j].type = I[j].type /\ J[j].device = I[j].device
  /\ \A j \in DOMAIN I, t \in Slots :
       J[j].fcb[t] = IF j = i /\ t = s THEN b ELSE I[j].fcb[t]

\* Storing one control block changes that block and nothing else.
LEMMA StoreBlock ==
  ASSUME NEW I \in Seq(Instances), NEW i \in DOMAIN I, NEW s \in Slots, NEW b \in Blocks,
         NEW J, J = [I EXCEPT ![i].fcb = [@ EXCEPT ![s] = b]]
  PROVE  Stored(J, I, i, s, b)
<1> DEFINE x == [I[i] EXCEPT !.fcb = [@ EXCEPT ![s] = b]]
<1>1. DOMAIN I = 1 .. Len(I) /\ I[i] \in Instances
  OBVIOUS
<1>2. /\ x \in Instances /\ x.live = I[i].live /\ x.type = I[i].type
      /\ x.device = I[i].device /\ x.fcb = [I[i].fcb EXCEPT ![s] = b]
  BY <1>1, Zenon DEF Instances
<1>3. \A t \in Slots : x.fcb[t] = IF t = s THEN b ELSE I[i].fcb[t]
  BY <1>1, <1>2, Zenon DEF Instances
<1> HIDE DEF x
<1>4. J = [I EXCEPT ![i] = x]
  BY Zenon DEF x
<1>5. /\ J \in Seq(Instances) /\ Len(J) = Len(I)
      /\ \A j \in 1 .. Len(I) : J[j] = IF j = i THEN x ELSE I[j]
  BY <1>1, <1>2, <1>4, SMTT(30)
<1> QED
  BY <1>1, <1>2, <1>3, <1>5, Zenon DEF Stored

-----------------------------------------------------------------------------
(* The inductive invariant                                                 *)

LEMMA InitInv == Init => IInv
<1> SUFFICES ASSUME Init PROVE IInv
  BY Zenon
<1>1. DOMAIN _insts = {} /\ _insts \in Seq(Instances)
  BY DEF Init
<1>2. DOMAIN _fs_map = {} /\ DOMAIN _global_fd_map = {}
  BY Zenon DEF Init
<1>3. TypeOK
  BY <1>1 DEF Init, TypeOK
<1> QED
  BY <1>1, <1>2, <1>3, Zenon DEF Init, IInv, MountInv, FdInv, OwnInv, CallInv, CallOf, PosInFile

\* The cursors stay where they are if the blocks do.
LEMMA SameCursors ==
  ASSUME UNCHANGED _global_fd_map, \A d \in DOMAIN _global_fd_map : Fcb(d)' = Fcb(d)
  PROVE  Cursor' = Cursor
BY Zenon DEF Cursor

\* A call under way is left alone by what keeps its descriptor's block.
LEMMA OthersCall ==
  ASSUME IInv, NEW g \in Harts, pc'[g] = pc[g], arg'[g] = arg[g],
         pc[g] # "out" => arg[g].fd \in mine'[g] /\ Fcb(arg[g].fd)' = Fcb(arg[g].fd)
  PROVE  CallOf(g)'
BY Zenon DEF IInv, CallInv, CallOf

\* A step of a hart that changes only its program point and its locals.
LEMMA LocalStep ==
  ASSUME IInv, NEW h \in Harts,
         UNCHANGED <<_fs_map, _insts, _global_fd_map, _global_fd_counter, mine>>,
         pc' \in [Harts -> {"out"} \cup Reading \cup Seeking], DOMAIN arg' = Harts,
         \A g \in Harts \ {h} : pc'[g] = pc[g] /\ arg'[g] = arg[g],
         CallOf(h)'
  PROVE  IInv'
<1>1. TypeOK' /\ MountInv' /\ FdInv' /\ OwnInv' /\ PosInFile'
  <2>1. TypeOK'
    BY Zenon DEF IInv, TypeOK
  <2>2. MountInv' /\ OwnInv' /\ PosInFile'
    BY Zenon DEF IInv, MountInv, OwnInv, PosInFile
  <2>3. \A fd : Fcb(fd)' = Fcb(fd)
    BY Zenon DEF Fcb
  <2>4. FdInv'
    BY <2>3 DEF IInv, FdInv
  <2> QED
    BY <2>1, <2>2, <2>4, Zenon
<1>2. ASSUME NEW g \in Harts \ {h} PROVE CallOf(g)'
  <2>1. Fcb(arg[g].fd)' = Fcb(arg[g].fd)
    BY <1>2, ZenonT(30) DEF Fcb
  <2>2. pc[g] # "out" => arg[g].fd \in mine'[g]
    BY Zenon DEF IInv, CallInv, CallOf
  <2> QED
    BY <2>1, <2>2, OthersCall, Zenon
<1> QED
  BY <1>1, <1>2, Zenon DEF IInv, CallInv

\* A block of one hart is stored at the end of its call.
LEMMA StoreStep ==
  ASSUME IInv, NEW h \in Harts, pc[h] # "out", NEW b \in Blocks, b.used, b.lpos <= b.size,
         b.file = Fcb(arg[h].fd).file, b.size = Fcb(arg[h].fd).size,
         SetFcb(arg[h].fd, b), pc' = [pc EXCEPT ![h] = "out"],
         arg' = [arg EXCEPT ![h] = <<>>],
         UNCHANGED <<_fs_map, _global_fd_map, _global_fd_counter, mine>>
  PROVE  IInv' /\ Cursor' = [Cursor EXCEPT ![arg[h].fd].pos = b.lpos]
<1> DEFINE fd == arg[h].fd
           e == _global_fd_map[fd]
<1> USE DEF IInv
<1>1. fd \in mine[h] /\ fd \in DOMAIN _global_fd_map /\ e.fs \in DOMAIN _insts /\ e.fd \in Slots
  BY Zenon DEF CallInv, CallOf, OwnInv, FdInv
<1>2. Stored(_insts', _insts, e.fs, e.fd, b)
  BY <1>1, StoreBlock, ZenonT(30) DEF SetFcb, TypeOK
<1> HIDE DEF e
<1>3. TypeOK'
  BY <1>2, Zenon DEF TypeOK, Stored
<1>4. MountInv'
  BY <1>2, ZenonT(30) DEF MountInv, Stored
<1>5. FdInv'
  <2>1. /\ _insts[e.fs].fcb[e.fd].used /\ b.file = _insts[e.fs].fcb[e.fd].file
        /\ b.size = _insts[e.fs].fcb[e.fd].size
    BY <1>1, ZenonT(30) DEF FdInv, Fcb, e
  <2>2. \A j \in DOMAIN _insts, t \in Slots :
          /\ _insts'[j].fcb[t].used <=> _insts[j].fcb[t].used
          /\ _insts'[j].fcb[t].file = _insts[j].fcb[t].file
          /\ _insts'[j].fcb[t].size = _insts[j].fcb[t].size
    <3> TAKE j \in DOMAIN _insts, t \in Slots
    <3>1. CASE j = e.fs /\ t = e.fd
      <4>1. _insts'[j].fcb[t] = b
        BY <1>2, <3>1, Zenon DEF Stored
      <4> QED
        BY <2>1, <3>1, <4>1, Zenon
    <3>2. CASE ~(j = e.fs /\ t = e.fd)
      <4>1. _insts'[j].fcb[t] = _insts[j].fcb[t]
        BY <1>2, <3>2, Zenon DEF Stored
      <4> QED
        BY <4>1, Zenon
    <3> QED
      BY <3>1, <3>2, Zenon
  <2>3. ASSUME NEW d \in DOMAIN _global_fd_map
        PROVE  /\ Fcb(d)'.used
               /\ Fcb(d)'.file \in ArchiveFiles /\ Fcb(d)'.size = SizeOf(Fcb(d)'.file)
    <3> DEFINE r == _global_fd_map[d]
    <3>1. r.fs \in DOMAIN _insts /\ r.fd \in Slots
      BY Zenon DEF FdInv
    <3>2. Fcb(d)' = _insts'[r.fs].fcb[r.fd] /\ Fcb(d) = _insts[r.fs].fcb[r.fd]
      BY ZenonT(30) DEF Fcb
    <3> HIDE DEF r
    <3>3. /\ _insts'[r.fs].fcb[r.fd].used <=> _insts[r.fs].fcb[r.fd].used
          /\ _insts'[r.fs].fcb[r.fd].file = _insts[r.fs].fcb[r.fd].file
          /\ _insts'[r.fs].fcb[r.fd].size = _insts[r.fs].fcb[r.fd].size
      BY <2>2, <3>1, Zenon
    <3>4. Fcb(d).used /\ Fcb(d).file \in ArchiveFiles /\ Fcb(d).size = SizeOf(Fcb(d).file)
      BY Zenon DEF FdInv
    <3> QED
      BY <3>2, <3>3, <3>4, Zenon
  <2> QED
    BY <1>1, <1>2, <2>2, <2>3 DEF FdInv, Stored
<1>6. OwnInv'
  BY Zenon DEF OwnInv
<1>7. \A d \in DOMAIN _global_fd_map : Fcb(d)' = IF d = fd THEN b ELSE Fcb(d)
  <2> TAKE d \in DOMAIN _global_fd_map
  <2> DEFINE r == _global_fd_map[d]
  <2>1. r \in [fs : DOMAIN _insts, fd : Slots] /\ e \in [fs : DOMAIN _insts, fd : Slots]
    BY <1>1, Zenon DEF FdInv, e
  <2>2. d # fd => r.fs # e.fs \/ r.fd # e.fd
    BY <1>1, <2>1, SameEntry, Zenon DEF FdInv, e
  <2>3. _insts'[r.fs].fcb[r.fd] = IF d = fd THEN b ELSE _insts[r.fs].fcb[r.fd]
    BY <1>2, <2>1, <2>2, SMTT(40) DEF Stored, e
  <2> QED
    BY <2>3, ZenonT(30) DEF Fcb
<1>8. CallInv'
  <2> SUFFICES ASSUME NEW g \in Harts, pc'[g] # "out" PROVE CallOf(g)'
    BY Zenon DEF CallInv, CallOf
  <2>1. g # h /\ pc'[g] = pc[g] /\ arg'[g] = arg[g]
    BY Zenon DEF TypeOK
  <2>2. arg[g].fd \in mine[g] /\ arg[g].fd # fd /\ arg[g].fd \in DOMAIN _global_fd_map
    BY <1>1, <2>1 DEF CallInv, CallOf, OwnInv
  <2>3. \A d \in DOMAIN _global_fd_map : d # fd => Fcb(d)' = Fcb(d)
    BY <1>7, Zenon
  <2>4. Fcb(arg[g].fd)' = Fcb(arg[g].fd)
    BY <2>1, <2>2, <2>3, ZenonT(30) DEF Fcb
  <2> QED
    BY <2>1, <2>2, <2>4, OthersCall, Zenon
<1>9. PosInFile'
  BY <1>2 DEF PosInFile, Stored
<1>10. Cursor' = [Cursor EXCEPT ![fd].pos = b.lpos]
  BY <1>7, <1>1, ZenonT(30) DEF Cursor
<1> QED
  BY <1>3, <1>4, <1>5, <1>6, <1>8, <1>9, <1>10, Zenon

-----------------------------------------------------------------------------
(* read and lseek                                                          *)

\* A call that returns keeps the invariant if it stores nothing.
LEMMA ReturnStep ==
  ASSUME IInv, NEW h \in Harts, NEW a, Return(h, a),
         UNCHANGED <<_fs_map, _insts, _global_fd_map, _global_fd_counter, mine>>
  PROVE  IInv'
<1>1. /\ pc' \in [Harts -> {"out"} \cup Reading \cup Seeking] /\ DOMAIN arg' = Harts
      /\ \A g \in Harts \ {h} : pc'[g] = pc[g] /\ arg'[g] = arg[g]
      /\ pc'[h] = "out"
  BY Zenon DEF IInv, TypeOK, Return, Goto
<1> QED
  BY <1>1, LocalStep, Zenon DEF CallOf

LEMMA FindStep ==
  ASSUME IInv, NEW h \in Harts, NEW op \in {"read", "lseek"}, NEW a, Find(h, op, a),
         "fd" \in DOMAIN a, a.fd \in mine[h],
         op = "read" => "count" \in DOMAIN a /\ a.count \in Counts,
         op = "lseek" => \E s \in Seeks : a.offset = s[1]
  PROVE  IInv'
<1>1. a.fd \in DOMAIN _global_fd_map
  BY Zenon DEF IInv, OwnInv
<1>2. /\ pc' \in [Harts -> {"out"} \cup Reading \cup Seeking] /\ DOMAIN arg' = Harts
      /\ \A g \in Harts \ {h} : pc'[g] = pc[g] /\ arg'[g] = arg[g]
      /\ pc'[h] = op /\ arg'[h] = a
  BY <1>1, Zenon DEF Find, IInv, TypeOK, Goto, Reading, Seeking
<1>3. UNCHANGED <<_fs_map, _insts, _global_fd_map, _global_fd_counter, mine>>
  BY Zenon DEF Find
<1>4. CallOf(h)'
  BY <1>2, <1>3, Zenon DEF CallOf, Reading, Seeking
<1> QED
  BY <1>2, <1>3, <1>4, LocalStep, Zenon

LEMMA ReadFindStep == ASSUME IInv, NEW h \in Harts, ReadFind(h) PROVE IInv'
<1>1. PICK fd \in mine[h], count \in Counts : Find(h, "read", [fd |-> fd, count |-> count])
  BY Zenon DEF ReadFind
<1> DEFINE a == [fd |-> fd, count |-> count]
<1>2. "fd" \in DOMAIN a /\ a.fd \in mine[h] /\ "count" \in DOMAIN a /\ a.count \in Counts
  BY Zenon
<1>3. Find(h, "read", a)
  BY <1>1, Zenon
<1> HIDE DEF a
<1> QED
  BY <1>2, <1>3, FindStep, Zenon

LEMMA SeekFindStep == ASSUME IInv, NEW h \in Harts, SeekFind(h) PROVE IInv'
<1>1. PICK fd \in mine[h], s \in Seeks :
        Find(h, "lseek", [fd |-> fd, offset |-> s[1], whence |-> s[2]])
  BY Zenon DEF SeekFind
<1> DEFINE a == [fd |-> fd, offset |-> s[1], whence |-> s[2]]
<1>2. "fd" \in DOMAIN a /\ a.fd \in mine[h] /\ a.offset = s[1]
  BY Zenon
<1>3. Find(h, "lseek", a)
  BY <1>1, Zenon
<1> HIDE DEF a
<1> QED
  BY <1>2, <1>3, FindStep, Zenon

\* The block of a call under way, and its hart's locals.
LEMMA BlockOfCall ==
  ASSUME IInv, NEW h \in Harts, pc[h] # "out"
  PROVE  /\ arg[h].fd \in mine[h] /\ arg[h].fd \in DOMAIN _global_fd_map
         /\ Fcb(arg[h].fd) \in Blocks /\ Fcb(arg[h].fd).used
         /\ Fcb(arg[h].fd).lpos <= Fcb(arg[h].fd).size
<1> DEFINE e == _global_fd_map[arg[h].fd]
<1>1. /\ arg[h].fd \in mine[h] /\ arg[h].fd \in DOMAIN _global_fd_map
      /\ e \in [fs : DOMAIN _insts, fd : Slots] /\ Fcb(arg[h].fd).used
  BY Zenon DEF IInv, CallInv, CallOf, OwnInv, FdInv
<1>2. _insts[e.fs] \in Instances
  BY <1>1 DEF IInv, TypeOK
<1>3. _insts[e.fs].fcb[e.fd] \in Blocks
  BY <1>1, <1>2, Zenon DEF Instances
<1>4. _insts[e.fs].fcb[e.fd].lpos <= _insts[e.fs].fcb[e.fd].size
  BY <1>1, ZenonT(30) DEF IInv, PosInFile
<1> QED
  BY <1>1, <1>3, <1>4, ZenonT(30) DEF Fcb

LEMMA TestUsedStep == ASSUME IInv, NEW h \in Harts, TestUsed(h) PROVE IInv'
<1>1. pc[h] \in {"read", "lseek"} /\ Fcb(arg[h].fd).used
  BY BlockOfCall, Zenon DEF TestUsed
<1>2. /\ Goto(h, IF pc[h] = "read" THEN "read_cut" ELSE "lseek_set")
      /\ UNCHANGED <<arg, _fs_map, _insts, _global_fd_map, _global_fd_counter, mine>>
  BY <1>1, Zenon DEF TestUsed
<1>3. /\ pc' \in [Harts -> {"out"} \cup Reading \cup Seeking] /\ DOMAIN arg' = Harts
      /\ \A g \in Harts \ {h} : pc'[g] = pc[g] /\ arg'[g] = arg[g]
      /\ pc'[h] = IF pc[h] = "read" THEN "read_cut" ELSE "lseek_set"
  BY <1>2, Zenon DEF IInv, TypeOK, Goto, Reading, Seeking
<1>4. CallOf(h)'
  BY <1>1, <1>2, <1>3, Zenon DEF IInv, CallInv, CallOf, Reading, Seeking
<1> QED
  BY <1>2, <1>3, <1>4, LocalStep, Zenon

\* The count of read after the cut: a word that leads to a position in the file.
LEMMA CutFits ==
  ASSUME NEW b \in Blocks, b.lpos <= b.size, NEW n \in Word
  PROVE  ReadCount(b, n) \in Word /\ (b.lpos + ReadCount(b, n)) % WORD <= b.size
<1>1. b.size \in Word /\ b.lpos \in Word /\ b.size - b.lpos \in Word
  BY WordIsNat, SMTT(40) DEF Blocks, Word
<1>2. CASE (b.lpos + n) % WORD > b.size
  <2>1. ReadCount(b, n) = b.size - b.lpos
    BY <1>1, <1>2, WordIsNat, Zenon DEF ReadCount
  <2>2. b.lpos + (b.size - b.lpos) = b.size
    BY <1>1, WordIsNat DEF Word
  <2> QED
    BY <1>1, <2>1, <2>2, WordIsNat DEF Word
<1>3. CASE ~((b.lpos + n) % WORD > b.size)
  <2>1. ReadCount(b, n) = n
    BY <1>3, Zenon DEF ReadCount
  <2>2. (b.lpos + n) % WORD \in Word
    BY <1>1, WordIsNat DEF Word
  <2> QED
    BY <1>1, <1>3, <2>1, <2>2 DEF Word
<1> QED
  BY <1>2, <1>3, Zenon

LEMMA ReadCutStep == ASSUME IInv, NEW h \in Harts, ReadCut(h) PROVE IInv'
<1> DEFINE b == Fcb(arg[h].fd)
           n == ReadCount(b, arg[h].count)
<1>1. /\ pc[h] = "read_cut" /\ "fd" \in DOMAIN arg[h] /\ "count" \in DOMAIN arg[h]
      /\ arg[h].count \in Counts /\ arg[h].fd \in mine[h]
  BY Zenon DEF ReadCut, IInv, CallInv, CallOf, Reading
<1>2. /\ arg' = [arg EXCEPT ![h] = [@ EXCEPT !.count = n]] /\ Goto(h, "read_copy")
      /\ UNCHANGED <<_fs_map, _insts, _global_fd_map, _global_fd_counter, mine>>
  BY Zenon DEF ReadCut
<1>3. \E k \in Counts : n = ReadCount(b, k)
  BY <1>1, Zenon
<1> HIDE DEF n
<1>4. /\ pc' \in [Harts -> {"out"} \cup Reading \cup Seeking] /\ DOMAIN arg' = Harts
      /\ \A g \in Harts \ {h} : pc'[g] = pc[g] /\ arg'[g] = arg[g]
      /\ pc'[h] = "read_copy" /\ arg'[h] = [arg[h] EXCEPT !.count = n]
  BY <1>2, Zenon DEF IInv, TypeOK, Goto, Reading, Seeking
<1>5. /\ "fd" \in DOMAIN arg'[h] /\ "count" \in DOMAIN arg'[h]
      /\ arg'[h].fd = arg[h].fd /\ arg'[h].count = n
  BY <1>1, <1>4, Zenon
<1>6. Fcb(arg[h].fd)' = b
  BY <1>2, <1>5, Zenon DEF Fcb
<1>7. CallOf(h)'
  BY <1>1, <1>2, <1>3, <1>4, <1>5, <1>6, Zenon DEF CallOf, Reading, Seeking
<1> QED
  BY <1>2, <1>4, <1>7, LocalStep, Zenon

LEMMA ReadCopyStep == ASSUME IInv, NEW h \in Harts, ReadCopy(h) PROVE IInv'
<1> DEFINE b == Fcb(arg[h].fd)
           a == [fd |-> arg[h].fd, count |-> arg[h].count, file |-> b.file, from |-> b.lpos]
<1>1. /\ pc[h] = "read_copy" /\ arg[h].fd \in mine[h]
      /\ \E n \in Counts : arg[h].count = ReadCount(b, n)
  BY Zenon DEF ReadCopy, IInv, CallInv, CallOf, Reading
<1>2. /\ arg' = [arg EXCEPT ![h] = a] /\ Goto(h, "read_advance")
      /\ UNCHANGED <<_fs_map, _insts, _global_fd_map, _global_fd_counter, mine>>
  BY Zenon DEF ReadCopy
<1>3. /\ "fd" \in DOMAIN a /\ "count" \in DOMAIN a
      /\ a.fd = arg[h].fd /\ a.count = arg[h].count /\ a.file = b.file /\ a.from = b.lpos
  BY Zenon
<1> HIDE DEF a
<1>4. /\ pc' \in [Harts -> {"out"} \cup Reading \cup Seeking] /\ DOMAIN arg' = Harts
      /\ \A g \in Harts \ {h} : pc'[g] = pc[g] /\ arg'[g] = arg[g]
      /\ pc'[h] = "read_advance" /\ arg'[h] = a
  BY <1>2, Zenon DEF IInv, TypeOK, Goto, Reading, Seeking
<1>5. Fcb(arg[h].fd)' = b
  BY <1>2, <1>3, <1>4, ZenonT(30) DEF Fcb
<1>6. CallOf(h)'
  BY <1>1, <1>2, <1>3, <1>4, <1>5, Zenon DEF CallOf, Reading, Seeking
<1> QED
  BY <1>2, <1>4, <1>6, LocalStep, Zenon

LEMMA ReadAdvanceStep ==
  ASSUME IInv, NEW h \in Harts, ReadAdvance(h)
  PROVE  /\ IInv'
         /\ Cursor' = [Cursor EXCEPT ![arg[h].fd].pos =
                         (Fcb(arg[h].fd).lpos + arg[h].count) % WORD]
<1> DEFINE b == Fcb(arg[h].fd)
           c == Advance(b, arg[h].count)
<1>1. pc[h] = "read_advance" /\ \E n \in Counts : arg[h].count = ReadCount(b, n)
  BY Zenon DEF ReadAdvance, IInv, CallInv, CallOf
<1>2. b \in Blocks /\ b.used /\ b.lpos <= b.size
  BY <1>1, BlockOfCall, Zenon
<1>3. arg[h].count \in Word /\ (b.lpos + arg[h].count) % WORD <= b.size
  BY <1>1, <1>2, CutFits, VFSAssumption, Zenon DEF Word
<1>4. (b.lpos + arg[h].count) % WORD \in Word
  BY <1>3, <1>2, WordIsNat DEF Blocks, Word
<1>5. c \in Blocks /\ c.used /\ c.lpos <= c.size /\ c.file = b.file /\ c.size = b.size
  BY <1>3, <1>2, <1>4, Zenon DEF Advance, Blocks
<1>6. /\ SetFcb(arg[h].fd, c) /\ pc' = [pc EXCEPT ![h] = "out"]
      /\ arg' = [arg EXCEPT ![h] = <<>>]
      /\ UNCHANGED <<_fs_map, _global_fd_map, _global_fd_counter, mine>>
  BY Zenon DEF ReadAdvance, Return, Goto
<1>7. c.lpos = (b.lpos + arg[h].count) % WORD
  BY <1>2, Zenon DEF Advance, Blocks
<1> HIDE DEF c
<1> QED
  BY <1>1, <1>5, <1>6, <1>7, StoreStep, ZenonT(30)

LEMMA Below ==
  ASSUME NEW n \in Word, NEW k \in Int
  PROVE  /\ ~(k < 0 \/ k > n) => k \in Word /\ k <= n
         /\ ~(k > 0 \/ k < -n) => n + k \in Word /\ n + k <= n
BY WordIsNat DEF Word

\* Where lseek goes to: nowhere, or to a position in the file.
LEMMA SeekFits ==
  ASSUME NEW b \in Blocks, NEW offset \in Int, NEW whence
  PROVE  LET to == SeekTo(b, offset, whence) IN to < 0 \/ (to \in Word /\ to <= b.size)
<1>1. /\ b.size \in Word /\ b.lpos \in Word
      /\ (b.lpos + offset) % WORD \in Word /\ (b.size + offset) % WORD \in Word
  BY WordIsNat DEF Blocks, Word
<1>2. CASE whence = "SEEK_SET"
  <2>1. ~(offset < 0 \/ offset > b.size) => offset \in Word /\ offset <= b.size
    BY <1>1, Below, Zenon
  <2> QED
    BY <1>2, <2>1 DEF SeekTo, K_EINVAL
<1>3. CASE whence = "SEEK_CUR"
  BY <1>1, <1>3, WordIsNat DEF SeekTo, K_EINVAL, Word
<1>4. CASE whence = "SEEK_END"
  <2>1. ~(offset > 0 \/ offset < -b.size) => b.size + offset \in Word /\ b.size + offset <= b.size
    BY <1>1, Below, Zenon
  <2> QED
    BY <1>1, <1>4, <2>1, WordIsNat DEF SeekTo, K_EINVAL
<1>5. CASE whence \notin {"SEEK_SET", "SEEK_CUR", "SEEK_END"}
  BY <1>5 DEF SeekTo, K_EINVAL
<1> QED
  BY <1>2, <1>3, <1>4, <1>5, Zenon

LEMMA SeekSetStep ==
  ASSUME IInv, NEW h \in Harts, SeekSet(h)
  PROVE  LET to == SeekTo(Fcb(arg[h].fd), arg[h].offset, arg[h].whence)
         IN IInv' /\ (to < 0 \/ Cursor' = [Cursor EXCEPT ![arg[h].fd].pos = to])
<1> DEFINE b == Fcb(arg[h].fd)
           to == SeekTo(b, arg[h].offset, arg[h].whence)
<1>1. pc[h] = "lseek_set" /\ arg[h].offset \in Int
  BY VFSAssumption, Zenon DEF SeekSet, IInv, CallInv, CallOf, Seeking
<1>2. b \in Blocks /\ b.used
  BY <1>1, BlockOfCall, Zenon
<1>3. to < 0 \/ (to \in Word /\ to <= b.size)
  BY <1>1, <1>2, SeekFits, Zenon
<1>4. CASE to < 0
  BY <1>4, ReturnStep, Zenon DEF SeekSet
<1>5. CASE ~(to < 0)
  <2> DEFINE c == [b EXCEPT !.lpos = to]
  <2>1. c \in Blocks /\ c.used /\ c.lpos <= c.size /\ c.file = b.file /\ c.size = b.size
    BY <1>2, <1>3, <1>5, Zenon DEF Blocks
  <2>2. /\ SetFcb(arg[h].fd, c) /\ pc' = [pc EXCEPT ![h] = "out"]
        /\ arg' = [arg EXCEPT ![h] = <<>>]
        /\ UNCHANGED <<_fs_map, _global_fd_map, _global_fd_counter, mine>>
    BY <1>5, Zenon DEF SeekSet, Return, Goto
  <2>3. c.lpos = to
    BY <1>2, Zenon DEF Blocks
  <2> HIDE DEF c
  <2> QED
    BY <1>1, <2>1, <2>2, <2>3, StoreStep, ZenonT(30)
<1> QED
  BY <1>4, <1>5, Zenon

-----------------------------------------------------------------------------
(* mount and umount                                                        *)

\* A step that leaves everything but the answer as it is.
LEMMA AnswerStep ==
  ASSUME IInv, UNCHANGED <<_fs_map, _insts, _global_fd_map, _global_fd_counter, pc, arg, mine>>
  PROVE  IInv' /\ Cursor' = Cursor
<1>1. Fcb(arg[BootHart].fd)' = Fcb(arg[BootHart].fd)
  BY Zenon DEF Fcb
<1>2. pc[BootHart] # "out" => arg[BootHart].fd \in mine'[BootHart]
  BY VFSAssumption, Zenon DEF IInv, CallInv, CallOf
<1>3. CallOf(BootHart)'
  BY <1>1, <1>2, OthersCall, VFSAssumption, Zenon
<1> QED
  BY <1>3, LocalStep, VFSAssumption, Zenon DEF IInv, TypeOK, Cursor, Fcb

\* A new instance has no open file, and at most one path leads to it.
LEMMA AddInstance ==
  ASSUME IInv, NEW path, NEW x \in Instances, x.live, x.fcb = NewTable,
         x.type = "cpiofs" => x.device \in DOMAIN Archives,
         _insts' = Append(_insts, x),
         _fs_map' = [p \in DOMAIN _fs_map \cup {path} |->
                       IF p \in DOMAIN _fs_map THEN _fs_map[p] ELSE Len(_insts) + 1],
         UNCHANGED <<_global_fd_map, _global_fd_counter, pc, arg, mine>>
  PROVE  IInv' /\ Cursor' = Cursor
<1> USE DEF IInv
<1> DEFINE n == Len(_insts)
<1>1. n \in Nat /\ DOMAIN _insts = 1 .. n
  BY DEF TypeOK
<1>2. /\ _insts' \in Seq(Instances) /\ Len(_insts') = n + 1
      /\ \A i \in 1 .. n : _insts'[i] = _insts[i]
      /\ _insts'[n + 1] = x
  BY DEF TypeOK
<1>3. DOMAIN _insts' = 1 .. (n + 1)
  BY <1>2
<1> HIDE DEF n
<1>4. \A s \in Slots : ~x.fcb[s].used /\ x.fcb[s].lpos = 0 /\ x.fcb[s].size = 0
  BY FreeTable DEF FreeFcb
<1>5. TypeOK'
  BY <1>2, Zenon DEF TypeOK
<1>6. MountInv'
  <2>1. \A p \in DOMAIN _fs_map : _fs_map[p] \in 1 .. n /\ _fs_map'[p] = _fs_map[p]
    BY <1>1, Zenon DEF MountInv
  <2>2. \A p \in DOMAIN _fs_map' : p \notin DOMAIN _fs_map => p = path /\ _fs_map'[p] = n + 1
    BY Zenon DEF n
  <2> QED
    BY <1>1, <1>2, <1>3, <2>1, <2>2 DEF MountInv
<1>7. \A fd \in DOMAIN _global_fd_map :
        /\ _global_fd_map[fd] \in [fs : 1 .. n, fd : Slots]
        /\ _global_fd_map[fd].fs \in 1 .. (n + 1)
        /\ Fcb(fd)' = Fcb(fd)
  <2> TAKE fd \in DOMAIN _global_fd_map
  <2>1. _global_fd_map[fd] \in [fs : 1 .. n, fd : Slots]
    BY <1>1, Zenon DEF FdInv
  <2> DEFINE k == _global_fd_map[fd].fs
  <2>2. k \in 1 .. n
    BY <2>1, Zenon
  <2> HIDE DEF k
  <2>3. k \in 1 .. (n + 1)
    BY <1>1, <2>2
  <2>4. _insts'[k] = _insts[k]
    BY <1>2, <2>2, Zenon
  <2> QED
    BY <2>1, <2>3, <2>4, Zenon DEF Fcb, k
<1>8. FdInv'
  <2>1. ASSUME NEW fd \in DOMAIN _global_fd_map
        PROVE  /\ _global_fd_map[fd] \in [fs : DOMAIN _insts', fd : Slots]
               /\ _insts'[_global_fd_map[fd].fs].live
    BY <1>1, <1>2, <1>3, <1>7, Zenon DEF FdInv
  <2>2. ASSUME NEW i \in DOMAIN _insts', NEW s \in Slots, _insts'[i].fcb[s].used
        PROVE  \E fd \in DOMAIN _global_fd_map : _global_fd_map[fd] = [fs |-> i, fd |-> s]
    <3>1. i \in 1 .. n
      BY <1>1, <1>2, <1>3, <1>4, <2>2
    <3> QED
      BY <1>1, <1>2, <2>2, <3>1 DEF FdInv
  <2> QED
    BY <1>7, <2>1, <2>2 DEF FdInv
<1>9. OwnInv'
  BY Zenon DEF OwnInv
<1>10. CallInv'
  <2> SUFFICES ASSUME NEW g \in Harts, pc[g] # "out" PROVE CallOf(g)'
    BY Zenon DEF CallInv, CallOf
  <2>1. CallOf(g) /\ arg[g].fd \in DOMAIN _global_fd_map
    BY Zenon DEF CallInv, CallOf, OwnInv
  <2>2. Fcb(arg[g].fd)' = Fcb(arg[g].fd)
    BY <1>7, <2>1, ZenonT(30) DEF Fcb
  <2> QED
    BY <2>1, <2>2, Zenon DEF CallOf
<1>11. PosInFile'
  BY <1>1, <1>2, <1>3, <1>4 DEF PosInFile
<1> QED
  BY <1>5, <1>6, <1>7, <1>8, <1>9, <1>10, <1>11, SameCursors, Zenon

LEMMA FactoryNames == \A i \in DOMAIN _fs_factories : _fs_factories[i] \in {"cpiofs", "cpio"}
BY DEF _fs_factories

LEMMA MountStep ==
  ASSUME IInv, NEW h \in Harts, Mount(h) PROVE IInv' /\ Cursor' = Cursor
<1>1. UNCHANGED <<_global_fd_map, _global_fd_counter, pc, arg, mine>>
  BY Zenon DEF Mount
<1>2. CASE UNCHANGED <<_fs_map, _insts>>
  BY <1>1, <1>2, AnswerStep, Zenon
<1>3. CASE ~UNCHANGED <<_fs_map, _insts>>
  <2>1. PICK path \in MountPaths, device \in DOMAIN Archives \cup {BadDevice},
             i \in DOMAIN _fs_factories :
          /\ K_OK \in newInstance(_fs_factories[i], device)
          /\ _insts' = Append(_insts, [type |-> _fs_factories[i],
                                       device |-> device, live |-> TRUE, fcb |-> NewTable])
          /\ _fs_map' = [p \in DOMAIN _fs_map \cup {path} |->
                           IF p \in DOMAIN _fs_map THEN _fs_map[p] ELSE Len(_insts) + 1]
    <3>1. PICK path \in MountPaths, device \in DOMAIN Archives \cup {BadDevice},
               fs_name \in {"", "cpiofs", "cpio"},
               answer \in [{"cpiofs", "cpio"} -> {K_OK, K_EFAIL, K_ENOTSUPP}] :
            /\ \A f \in DOMAIN answer : answer[f] \in newInstance(f, device)
            /\ \E i \in Decides(fs_name, answer) :
                 /\ answer[_fs_factories[i]] = K_OK
                 /\ _insts' = Append(_insts, [type |-> _fs_factories[i],
                              device |-> device, live |-> TRUE, fcb |-> NewTable])
                 /\ _fs_map' = [p \in DOMAIN _fs_map \cup {path} |->
                      IF p \in DOMAIN _fs_map THEN _fs_map[p] ELSE Len(_insts) + 1]
      BY <1>3, ZenonT(60) DEF Mount
    <3>2. PICK i \in Decides(fs_name, answer) :
            /\ answer[_fs_factories[i]] = K_OK
            /\ _insts' = Append(_insts, [type |-> _fs_factories[i],
                              device |-> device, live |-> TRUE, fcb |-> NewTable])
            /\ _fs_map' = [p \in DOMAIN _fs_map \cup {path} |->
                      IF p \in DOMAIN _fs_map THEN _fs_map[p] ELSE Len(_insts) + 1]
      BY <3>1, Zenon
    <3>3. i \in DOMAIN _fs_factories
      BY Zenon DEF Decides
    <3>4. _fs_factories[i] \in {"cpiofs", "cpio"}
      BY <3>3, FactoryNames, Zenon
    <3>5. K_OK \in newInstance(_fs_factories[i], device)
      BY <3>1, <3>2, <3>4, Zenon
    <3> QED
      BY <3>2, <3>3, <3>5, Zenon
  <2> DEFINE x == [type |-> _fs_factories[i], device |-> device, live |-> TRUE, fcb |-> NewTable]
  <2>2. _fs_factories[i] \in {"cpiofs", "cpio"}
    BY FactoryNames, Zenon
  <2>3. _fs_factories[i] = "cpiofs" => device \in DOMAIN Archives
    BY <2>1 DEF newInstance, K_OK, K_EFAIL, K_ENOTSUPP
  <2>4. x \in Instances /\ x.live /\ x.fcb = NewTable /\ (x.type = "cpiofs" => x.device \in DOMAIN Archives)
    BY <2>2, <2>3, FreeTable, Zenon DEF Instances
  <2> HIDE DEF x
  <2>5. _insts' = Append(_insts, x)
    BY <2>1, Zenon DEF x
  <2> QED
    BY <1>1, <2>1, <2>4, <2>5, AddInstance, ZenonT(30)
<1> QED
  BY <1>2, <1>3, Zenon

LEMMA UmountStep ==
  ASSUME IInv, NEW h \in Harts, Umount(h) PROVE IInv' /\ Cursor' = Cursor
<1> USE DEF IInv
<1>1. UNCHANGED <<_global_fd_map, _global_fd_counter, pc, arg, mine>>
  BY Zenon DEF Umount
<1>2. CASE UNCHANGED <<_fs_map, _insts>>
  BY <1>1, <1>2, AnswerStep, Zenon
<1>3. CASE ~UNCHANGED <<_fs_map, _insts>>
  <2>1. PICK path \in DOMAIN _fs_map :
          /\ Idle(_fs_map[path])
          /\ _insts' = [_insts EXCEPT ![_fs_map[path]].live = FALSE,
                                      ![_fs_map[path]].fcb = NewTable]
          /\ _fs_map' = [p \in DOMAIN _fs_map \ {path} |-> _fs_map[p]]
    BY <1>3, ZenonT(30) DEF Umount
  <2> DEFINE k == _fs_map[path]
             x == [[_insts[k] EXCEPT !.live = FALSE] EXCEPT !.fcb = NewTable]
  <2>2. k \in DOMAIN _insts /\ DOMAIN _insts = 1 .. Len(_insts) /\ _insts[k] \in Instances
    BY DEF MountInv, TypeOK
  <2>3. x \in Instances /\ x.type = _insts[k].type /\ x.device = _insts[k].device /\ x.fcb = NewTable
    BY <2>2, FreeTable, ZenonT(30) DEF Instances
  <2>4. _insts' = [_insts EXCEPT ![k] = x]
    BY <2>1, <2>2, ZenonT(30) DEF TypeOK
  <2> HIDE DEF x
  <2>5. /\ _insts' \in Seq(Instances) /\ Len(_insts') = Len(_insts)
        /\ \A j \in 1 .. Len(_insts) : _insts'[j] = IF j = k THEN x ELSE _insts[j]
    BY <2>2, <2>3, <2>4 DEF TypeOK
  <2>6. DOMAIN _insts' = DOMAIN _insts
    BY <2>2, <2>5
  <2>7. \A s \in Slots : ~x.fcb[s].used /\ x.fcb[s].lpos = 0 /\ x.fcb[s].size = 0
    BY <2>3, FreeTable DEF FreeFcb
  <2>8. \A fd \in DOMAIN _global_fd_map :
          /\ _global_fd_map[fd] \in [fs : DOMAIN _insts, fd : Slots]
          /\ _global_fd_map[fd].fs # k
          /\ _insts'[_global_fd_map[fd].fs] = _insts[_global_fd_map[fd].fs]
          /\ Fcb(fd)' = Fcb(fd)
    BY <1>1, <2>1, <2>2, <2>5, Zenon DEF FdInv, Fcb, Idle
  <2>9. TypeOK'
    BY <1>1, <2>5, Zenon DEF TypeOK
  <2>10. MountInv'
    BY <2>1, <2>2, <2>5, <2>6, Zenon DEF MountInv
  <2>11. FdInv'
    BY <1>1, <2>2, <2>5, <2>6, <2>7, <2>8 DEF FdInv
  <2>12. OwnInv'
    BY <1>1, Zenon DEF OwnInv
  <2>13. CallInv'
    <3> SUFFICES ASSUME NEW g \in Harts, pc[g] # "out" PROVE CallOf(g)'
      BY <1>1, Zenon DEF CallInv, CallOf
    <3>1. CallOf(g) /\ arg[g].fd \in DOMAIN _global_fd_map
      BY Zenon DEF CallInv, CallOf, OwnInv
    <3>2. Fcb(arg[g].fd)' = Fcb(arg[g].fd)
      BY <1>1, <2>8, <3>1, Zenon DEF Fcb
    <3> QED
      BY <1>1, <3>1, <3>2, Zenon DEF CallOf
  <2>14. PosInFile'
    BY <2>2, <2>5, <2>6, <2>7 DEF PosInFile
  <2> QED
    BY <1>1, <2>8, <2>9, <2>10, <2>11, <2>12, <2>13, <2>14, SameCursors, Zenon
<1> QED
  BY <1>2, <1>3, Zenon

-----------------------------------------------------------------------------
(* open and close                                                          *)

\* A block that was free is taken, and the next descriptor leads to it.
LEMMA TakeBlock ==
  ASSUME IInv, NEW h \in Harts, NEW i \in DOMAIN _insts, NEW s \in Slots, NEW b \in Blocks,
         pc[h] = "out", _insts[i].live, ~_insts[i].fcb[s].used, b.used, b.lpos <= b.size,
         b.file \in ArchiveFiles, b.size = SizeOf(b.file),
         Stored(_insts', _insts, i, s, b),
         _global_fd_map' = [d \in DOMAIN _global_fd_map \cup {_global_fd_counter} |->
                              IF d \in DOMAIN _global_fd_map THEN _global_fd_map[d]
                              ELSE [fs |-> i, fd |-> s]],
         mine' = [mine EXCEPT ![h] = @ \cup {_global_fd_counter}],
         _global_fd_counter' = _global_fd_counter + 1,
         UNCHANGED <<_fs_map, pc, arg>>
  PROVE  /\ IInv'
         /\ _global_fd_counter \notin DOMAIN Cursor
         /\ Cursor' = [d \in DOMAIN Cursor \cup {_global_fd_counter} |->
                         IF d = _global_fd_counter THEN [file |-> b.file, pos |-> b.lpos]
                         ELSE Cursor[d]]
<1> USE DEF IInv
<1> DEFINE new == _global_fd_counter
<1>1. new \in Nat /\ new \notin DOMAIN _global_fd_map
  BY DEF TypeOK, FdInv
<1>2. /\ DOMAIN _global_fd_map' = DOMAIN _global_fd_map \cup {new}
      /\ _global_fd_map'[new] = [fs |-> i, fd |-> s]
      /\ \A d \in DOMAIN _global_fd_map : _global_fd_map'[d] = _global_fd_map[d]
  BY <1>1, Zenon
<1>3. \A d \in DOMAIN _global_fd_map :
        /\ _global_fd_map[d] \in [fs : DOMAIN _insts, fd : Slots]
        /\ _global_fd_map[d] # [fs |-> i, fd |-> s]
        /\ _global_fd_map[d].fs # i \/ _global_fd_map[d].fd # s
  <2> TAKE d \in DOMAIN _global_fd_map
  <2>1. _global_fd_map[d] \in [fs : DOMAIN _insts, fd : Slots]
    BY Zenon DEF FdInv
  <2>2. _insts[_global_fd_map[d].fs].fcb[_global_fd_map[d].fd].used
    BY Zenon DEF FdInv, Fcb
  <2> QED
    BY <2>1, <2>2
<1>4. \A d \in DOMAIN _global_fd_map : Fcb(d)' = Fcb(d)
  <2> TAKE d \in DOMAIN _global_fd_map
  <2> DEFINE r == _global_fd_map[d]
  <2>1. _insts'[r.fs].fcb[r.fd] = _insts[r.fs].fcb[r.fd]
    BY <1>3 DEF Stored
  <2> QED
    BY <1>2, <2>1, Zenon DEF Fcb
<1>5. \A d : d = new => Fcb(d)' = b
  <2>1. _insts'[i].fcb[s] = b
    BY Zenon DEF Stored
  <2> QED
    BY <1>2, <2>1 DEF Fcb
<1>6. TypeOK'
  BY <1>1 DEF TypeOK, Stored
<1>7. MountInv'
  BY DEF MountInv, Stored
<1>8. FdInv'
  <2>1. \A d \in DOMAIN _global_fd_map' : d \in Nat /\ d < new + 1
    <3>1. \A d \in DOMAIN _global_fd_map : d \in Nat /\ d < new
      BY Zenon DEF FdInv
    <3> QED
      BY <1>1, <1>2, <3>1
  <2>2. \A d \in DOMAIN _global_fd_map' :
          /\ _global_fd_map'[d] \in [fs : DOMAIN _insts', fd : Slots]
          /\ _insts'[_global_fd_map'[d].fs].live
    <3> TAKE d \in DOMAIN _global_fd_map'
    <3>1. CASE d = new
      BY <1>2, <3>1 DEF Stored
    <3>2. CASE d \in DOMAIN _global_fd_map
      BY <1>2, <1>3, <3>2, Zenon DEF FdInv, Stored
    <3> QED
      BY <1>2, <3>1, <3>2, Zenon
  <2>3. \A d \in DOMAIN _global_fd_map' :
          /\ Fcb(d)'.used
          /\ Fcb(d)'.file \in ArchiveFiles /\ Fcb(d)'.size = SizeOf(Fcb(d)'.file)
    <3> TAKE d \in DOMAIN _global_fd_map'
    <3>1. CASE d = new
      BY <1>5, <3>1
    <3>2. CASE d \in DOMAIN _global_fd_map
      BY <1>4, <3>2 DEF FdInv
    <3> QED
      BY <1>2, <3>1, <3>2, Zenon
  <2>4. \A c, d \in DOMAIN _global_fd_map' : _global_fd_map'[c] = _global_fd_map'[d] => c = d
    BY <1>2, <1>3, Zenon DEF FdInv
  <2>5. ASSUME NEW j \in DOMAIN _insts', NEW t \in Slots, _insts'[j].fcb[t].used
        PROVE  \E d \in DOMAIN _global_fd_map' : _global_fd_map'[d] = [fs |-> j, fd |-> t]
    <3>1. CASE j = i /\ t = s
      BY <1>2, <3>1, Zenon
    <3>2. CASE ~(j = i /\ t = s)
      <4>1. j \in DOMAIN _insts /\ _insts[j].fcb[t].used
        BY <2>5, <3>2, Zenon DEF Stored
      <4> QED
        BY <1>2, <4>1 DEF FdInv
    <3> QED
      BY <3>1, <3>2, ZenonT(30)
  <2> QED
    BY <2>1, <2>2, <2>3, <2>4, <2>5, ZenonT(30) DEF FdInv
<1>9. OwnInv'
  <2>1. \A g \in Harts : mine[g] \subseteq DOMAIN _global_fd_map
    BY Zenon DEF OwnInv
  <2>2. \A g \in Harts : mine'[g] = IF g = h THEN mine[g] \cup {new} ELSE mine[g]
    BY ZenonT(30) DEF TypeOK
  <2> QED
    BY <1>1, <1>2, <2>1, <2>2 DEF OwnInv
<1>10. CallInv'
  <2> SUFFICES ASSUME NEW g \in Harts, pc[g] # "out" PROVE CallOf(g)'
    BY Zenon DEF CallInv, CallOf
  <2>1. arg[g].fd \in mine[g] /\ arg[g].fd \in DOMAIN _global_fd_map
    BY BlockOfCall, Zenon
  <2>2. Fcb(arg[g].fd)' = Fcb(arg[g].fd)
    BY <1>4, <2>1, ZenonT(30) DEF Fcb
  <2>3. arg[g].fd \in mine'[g]
    BY <2>1, Zenon DEF TypeOK
  <2> QED
    BY <2>2, <2>3, OthersCall, Zenon
<1>11. PosInFile'
  BY DEF PosInFile, Stored
<1>12. DOMAIN Cursor = DOMAIN _global_fd_map
  BY Zenon DEF Cursor
<1>13. Cursor' = [d \in DOMAIN Cursor \cup {new} |->
                    IF d = new THEN [file |-> b.file, pos |-> b.lpos] ELSE Cursor[d]]
  BY <1>1, <1>2, <1>4, <1>5, <1>12, Zenon DEF Cursor
<1> QED
  BY <1>1, <1>6, <1>7, <1>8, <1>9, <1>10, <1>11, <1>12, <1>13, ZenonT(30)

LEMMA OpenStep ==
  ASSUME IInv, NEW h \in Harts, Open(h) PROVE IInv' /\ Abstract!Open(h)
<1>1. PICK path \in OpenPaths : \E p \in Resolve(path), s \in Slots :
        LET i == _fs_map[p]
            name == SubSeq(path, Len(p) + 1, Len(path))
            fd == _global_fd_counter
        IN /\ _insts[i].type = "cpiofs"
           /\ name \in DOMAIN Archives[_insts[i].device]
           /\ IsFirstFree(_insts[i].fcb, s)
           /\ _insts' = [_insts EXCEPT ![i].fcb = OpenFcb(@, s,
                           <<_insts[i].device, name>>, Archives[_insts[i].device][name])]
           /\ _global_fd_map' = [d \in DOMAIN _global_fd_map \cup {fd} |->
                IF d \in DOMAIN _global_fd_map THEN _global_fd_map[d]
                ELSE [fs |-> i, fd |-> s]]
           /\ mine' = [mine EXCEPT ![h] = @ \cup {fd}]
           /\ Answer(h, [op |-> "open", val |-> fd])
  BY ZenonT(30) DEF Open, OpenWith
<1>2. PICK p \in Resolve(path), s \in Slots :
        LET i == _fs_map[p]
            name == SubSeq(path, Len(p) + 1, Len(path))
            fd == _global_fd_counter
        IN /\ _insts[i].type = "cpiofs"
           /\ name \in DOMAIN Archives[_insts[i].device]
           /\ IsFirstFree(_insts[i].fcb, s)
           /\ _insts' = [_insts EXCEPT ![i].fcb = OpenFcb(@, s,
                           <<_insts[i].device, name>>, Archives[_insts[i].device][name])]
           /\ _global_fd_map' = [d \in DOMAIN _global_fd_map \cup {fd} |->
                IF d \in DOMAIN _global_fd_map THEN _global_fd_map[d]
                ELSE [fs |-> i, fd |-> s]]
           /\ mine' = [mine EXCEPT ![h] = @ \cup {fd}]
           /\ Answer(h, [op |-> "open", val |-> fd])
  BY <1>1, ZenonT(30)
<1> DEFINE i == _fs_map[p]
           device == _insts[i].device
           name == SubSeq(path, Len(p) + 1, Len(path))
           b == [used |-> TRUE, file |-> <<device, name>>, size |-> Archives[device][name],
                 lpos |-> 0]
<1>3. /\ i \in DOMAIN _insts /\ _insts[i].live /\ device \in DOMAIN Archives
      /\ name \in DOMAIN Archives[device] /\ ~_insts[i].fcb[s].used
  BY <1>2, Zenon DEF IInv, MountInv, Resolve, IsFirstFree
<1>4. /\ b \in Blocks /\ b.used /\ b.lpos <= b.size
      /\ b.file \in ArchiveFiles /\ b.size = SizeOf(b.file)
  <2>1. /\ <<device, name>> \in ArchiveFiles /\ <<device, name>> \in Files
        /\ Archives[device][name] \in Word
        /\ SizeOf(<<device, name>>) = Archives[device][name]
    BY <1>3, FileOfArchive, VFSAssumption, ZenonT(30) DEF Word
  <2> HIDE DEF name
  <2> QED
    BY <2>1, WordIsNat, SMTT(40) DEF Blocks, Word
<1>5. _insts' = [_insts EXCEPT ![i].fcb = [@ EXCEPT ![s] = b]]
  BY <1>2, Zenon DEF OpenFcb
<1>6. pc[h] = "out" /\ _global_fd_counter' = _global_fd_counter + 1 /\ UNCHANGED <<_fs_map, pc, arg>>
  BY Zenon DEF Open, OpenWith
<1>7. /\ _global_fd_map' = [d \in DOMAIN _global_fd_map \cup {_global_fd_counter} |->
                IF d \in DOMAIN _global_fd_map THEN _global_fd_map[d]
                ELSE [fs |-> i, fd |-> s]]
      /\ mine' = [mine EXCEPT ![h] = @ \cup {_global_fd_counter}]
  BY <1>2, Zenon
<1> HIDE DEF b, i
<1>8. Stored(_insts', _insts, i, s, b)
  BY <1>3, <1>4, <1>5, StoreBlock, ZenonT(30) DEF IInv, TypeOK
<1>9. /\ IInv' /\ _global_fd_counter \notin DOMAIN Cursor
      /\ Cursor' = [d \in DOMAIN Cursor \cup {_global_fd_counter} |->
                      IF d = _global_fd_counter THEN [file |-> b.file, pos |-> b.lpos]
                      ELSE Cursor[d]]
  BY <1>3, <1>4, <1>6, <1>7, <1>8, TakeBlock, ZenonT(30)
<1>10. _global_fd_counter \in 3 .. MaxFd /\ b.lpos = 0
  BY VFSAssumption DEF Open, OpenWith, IInv, TypeOK, b
<1>11. out' = [out EXCEPT ![h] = [op |-> "open", val |-> _global_fd_counter]]
  BY <1>2, Zenon DEF Answer
<1>12. Abstract!Open(h)
  BY <1>4, <1>9, <1>10, <1>11, ZenonT(30) DEF Abstract!Open, Abstract!Answer
<1> QED
  BY <1>9, <1>12, Zenon

\* The block of a hart's descriptor is freed with the descriptor.
LEMMA FreeBlock ==
  ASSUME IInv, NEW h \in Harts, pc[h] = "out", NEW fd \in mine[h],
         Stored(_insts', _insts, _global_fd_map[fd].fs, _global_fd_map[fd].fd, FreeFcb),
         _global_fd_map' = [d \in DOMAIN _global_fd_map \ {fd} |-> _global_fd_map[d]],
         mine' = [mine EXCEPT ![h] = @ \ {fd}],
         UNCHANGED <<_fs_map, _global_fd_counter, pc, arg>>
  PROVE  /\ IInv' /\ fd \in DOMAIN Cursor
         /\ Cursor' = [d \in DOMAIN Cursor \ {fd} |-> Cursor[d]]
<1> USE DEF IInv
<1> DEFINE e == _global_fd_map[fd]
<1>1. fd \in DOMAIN _global_fd_map /\ e \in [fs : DOMAIN _insts, fd : Slots]
  BY Zenon DEF OwnInv, FdInv
<1>2. /\ DOMAIN _global_fd_map' = DOMAIN _global_fd_map \ {fd}
      /\ \A d \in DOMAIN _global_fd_map' : _global_fd_map'[d] = _global_fd_map[d]
  BY Zenon
<1>3. \A d \in DOMAIN _global_fd_map' :
        /\ _global_fd_map[d] \in [fs : DOMAIN _insts, fd : Slots]
        /\ _global_fd_map[d].fs # e.fs \/ _global_fd_map[d].fd # e.fd
  BY <1>1, <1>2, SameEntry, SMTT(40) DEF FdInv
<1>4. \A d \in DOMAIN _global_fd_map' : Fcb(d)' = Fcb(d)
  <2> TAKE d \in DOMAIN _global_fd_map'
  <2> DEFINE r == _global_fd_map[d]
  <2>1. _insts'[r.fs].fcb[r.fd] = _insts[r.fs].fcb[r.fd]
    BY <1>1, <1>3 DEF Stored
  <2> QED
    BY <1>2, <2>1, Zenon DEF Fcb
<1>5. TypeOK'
  BY Zenon DEF TypeOK, Stored
<1>6. MountInv'
  BY ZenonT(30) DEF MountInv, Stored
<1>7. FdInv'
  <2>1. \A d \in DOMAIN _global_fd_map' :
          /\ d \in Nat /\ d < _global_fd_counter'
          /\ _global_fd_map'[d] \in [fs : DOMAIN _insts', fd : Slots]
          /\ _insts'[_global_fd_map'[d].fs].live
    BY <1>2, Zenon DEF FdInv, Stored
  <2>2. \A d \in DOMAIN _global_fd_map' :
          /\ Fcb(d)'.used
          /\ Fcb(d)'.file \in ArchiveFiles /\ Fcb(d)'.size = SizeOf(Fcb(d)'.file)
    BY <1>2, <1>4 DEF FdInv
  <2>3. \A c, d \in DOMAIN _global_fd_map' : _global_fd_map'[c] = _global_fd_map'[d] => c = d
    BY <1>2, Zenon DEF FdInv
  <2>4. ASSUME NEW j \in DOMAIN _insts', NEW t \in Slots, _insts'[j].fcb[t].used
        PROVE  \E d \in DOMAIN _global_fd_map' : _global_fd_map'[d] = [fs |-> j, fd |-> t]
    <3>1. ~(j = e.fs /\ t = e.fd)
      BY <2>4 DEF Stored, FreeFcb
    <3>2. j \in DOMAIN _insts /\ _insts[j].fcb[t].used
      BY <2>4, <3>1 DEF Stored
    <3>3. PICK d \in DOMAIN _global_fd_map : _global_fd_map[d] = [fs |-> j, fd |-> t]
      BY <3>2, Zenon DEF FdInv
    <3>4. d # fd
      BY <3>1, <3>3
    <3> QED
      BY <1>2, <3>3, <3>4, Zenon
  <2> QED
    BY <2>1, <2>2, <2>3, <2>4, Zenon DEF FdInv
<1>8. OwnInv'
  <2>1. \A g \in Harts : mine'[g] = IF g = h THEN mine[g] \ {fd} ELSE mine[g]
    BY ZenonT(30) DEF TypeOK
  <2>2. \A g \in Harts : mine[g] \subseteq DOMAIN _global_fd_map /\ fd \notin mine'[g]
    BY <2>1 DEF OwnInv
  <2> QED
    BY <1>2, <2>1, <2>2 DEF OwnInv
<1>9. CallInv'
  <2> SUFFICES ASSUME NEW g \in Harts, pc[g] # "out" PROVE CallOf(g)'
    BY Zenon DEF CallInv, CallOf
  <2>1. g # h /\ arg[g].fd \in mine[g] /\ arg[g].fd \in DOMAIN _global_fd_map
    BY BlockOfCall, Zenon
  <2>2. arg[g].fd # fd /\ arg[g].fd \in mine'[g]
    BY <2>1, Zenon DEF TypeOK, OwnInv
  <2>3. Fcb(arg[g].fd)' = Fcb(arg[g].fd)
    BY <1>2, <1>4, <2>1, <2>2, ZenonT(30) DEF Fcb
  <2> QED
    BY <2>2, <2>3, OthersCall, Zenon
<1>10. PosInFile'
  BY DEF PosInFile, Stored, FreeFcb
<1>11. fd \in DOMAIN Cursor /\ Cursor' = [d \in DOMAIN Cursor \ {fd} |-> Cursor[d]]
  BY <1>1, <1>2, <1>4, Zenon DEF Cursor
<1> QED
  BY <1>5, <1>6, <1>7, <1>8, <1>9, <1>10, <1>11, Zenon

LEMMA CloseStep ==
  ASSUME IInv, NEW h \in Harts, Close(h) PROVE IInv' /\ Abstract!Close(h)
<1>1. pc[h] = "out" /\ UNCHANGED <<_fs_map, _global_fd_counter, pc, arg>>
  BY Zenon DEF Close
<1>2. PICK fd \in mine[h] :
        /\ fd \in DOMAIN _global_fd_map
        /\ _insts' = [_insts EXCEPT ![_global_fd_map[fd].fs].fcb =
                                      CloseFcb(@, _global_fd_map[fd].fd)]
        /\ _global_fd_map' = [d \in DOMAIN _global_fd_map \ {fd} |-> _global_fd_map[d]]
        /\ mine' = [mine EXCEPT ![h] = @ \ {fd}]
        /\ Answer(h, [op |-> "close", val |-> K_OK])
  BY ZenonT(30) DEF Close, IInv, OwnInv, FdInv, Fcb
<1> DEFINE e == _global_fd_map[fd]
<1>3. e.fs \in DOMAIN _insts /\ e.fd \in Slots
  BY <1>2, Zenon DEF IInv, FdInv
<1>4. _insts' = [_insts EXCEPT ![e.fs].fcb = [@ EXCEPT ![e.fd] = FreeFcb]]
  BY <1>2, Zenon DEF CloseFcb
<1>5. Stored(_insts', _insts, e.fs, e.fd, FreeFcb)
  BY <1>3, <1>4, FreeTable, StoreBlock, ZenonT(30) DEF IInv, TypeOK
<1>6. IInv' /\ fd \in DOMAIN Cursor /\ Cursor' = [d \in DOMAIN Cursor \ {fd} |-> Cursor[d]]
  BY <1>1, <1>2, <1>5, FreeBlock, ZenonT(30)
<1>7. out' = [out EXCEPT ![h] = [op |-> "close", val |-> 0]]
  BY <1>2, Zenon DEF Answer, K_OK
<1> QED
  BY <1>6, <1>7, Zenon DEF Abstract!Close, Abstract!Answer

-----------------------------------------------------------------------------
(* The theorems                                                            *)

LEMMA StepInv == IInv /\ [Next]_vars => IInv'
<1> SUFFICES ASSUME IInv, [Next]_vars PROVE IInv'
  BY Zenon
<1>1. CASE UNCHANGED vars
  BY <1>1, AnswerStep, Zenon DEF vars
<1>2. ASSUME NEW h \in Harts, Mount(h) \/ Umount(h) \/ Open(h) \/ Close(h) PROVE IInv'
  BY <1>2, MountStep, UmountStep, OpenStep, CloseStep, Zenon
<1>3. ASSUME NEW h \in Harts, OpenFails(h) PROVE IInv'
  BY <1>3, AnswerStep, Zenon DEF OpenFails
<1>4. ASSUME NEW h \in Harts, ReadFind(h) \/ SeekFind(h) \/ TestUsed(h) PROVE IInv'
  BY <1>4, ReadFindStep, SeekFindStep, TestUsedStep, Zenon
<1>5. ASSUME NEW h \in Harts, ReadCut(h) \/ ReadCopy(h) \/ ReadAdvance(h) \/ SeekSet(h)
      PROVE  IInv'
  BY <1>5, ReadCutStep, ReadCopyStep, ReadAdvanceStep, SeekSetStep, ZenonT(30)
<1> QED
  BY <1>1, <1>2, <1>3, <1>4, <1>5, Zenon DEF Next

LEMMA AlwaysInv == Spec => []IInv
BY InitInv, StepInv, PTL DEF Spec

\* Every file system has the control blocks of a CPIOFS, with sizes and
\* positions that are words, and descriptors start after the reserved three.
THEOREM TypeCorrect == Spec => []TypeOK
<1>1. IInv => TypeOK
  BY Zenon DEF IInv
<1> QED
  BY <1>1, AlwaysInv, PTL

\* However many harts open and close files at once, a control block of CPIOFS
\* is in use exactly if one descriptor of VirtualFS leads to it.
THEOREM TablesAgree == Spec => []DescriptorsExact
<1>1. IInv => DescriptorsExact
  <2> SUFFICES ASSUME IInv, NEW i \in DOMAIN _insts, NEW s \in Slots
               PROVE  LET fds == {fd \in DOMAIN _global_fd_map :
                                    _global_fd_map[fd] = [fs |-> i, fd |-> s]}
                      IN /\ _insts[i].fcb[s].used <=> fds # {}
                         /\ \A c, d \in fds : c = d
    BY Zenon DEF DescriptorsExact
  <2>1. _insts[i].fcb[s].used => \E fd \in DOMAIN _global_fd_map :
                                    _global_fd_map[fd] = [fs |-> i, fd |-> s]
    BY Zenon DEF IInv, FdInv
  <2>2. ASSUME NEW fd \in DOMAIN _global_fd_map, _global_fd_map[fd] = [fs |-> i, fd |-> s]
        PROVE  _insts[i].fcb[s].used
    <3>1. _insts[_global_fd_map[fd].fs].fcb[_global_fd_map[fd].fd].used
      BY Zenon DEF IInv, FdInv, Fcb
    <3> QED
      BY <2>2, <3>1
  <2> QED
    BY <2>1, <2>2, Zenon DEF IInv, FdInv
<1> QED
  BY <1>1, AlwaysInv, PTL

\* Whatever is read, and wherever a caller seeks, with sums modulo any word
\* that holds the sizes, read and lseek leave the position within the file.
THEOREM PositionsInFiles == Spec => []PosInFile
<1>1. IInv => PosInFile
  BY Zenon DEF IInv
<1> QED
  BY <1>1, AlwaysInv, PTL

\* What read and lseek use after they have released the lock is still there.
THEOREM IteratorsStayGood == Spec => []IteratorValid
<1>1. IInv => IteratorValid
  BY DEF IInv, IteratorValid, CallInv, CallOf, OwnInv, FdInv
<1> QED
  BY <1>1, AlwaysInv, PTL

-----------------------------------------------------------------------------
(* VFS implements AbstractFiles if no sum of a size and an argument wraps, *)
(* as with counts and offsets of 63 bits in words of 64.                   *)

NoWrap ==
  /\ \A f \in ArchiveFiles, n \in Counts : SizeOf(f) + n < WORD
  /\ \A f \in ArchiveFiles, s \in Seeks : SizeOf(f) + s[1] < WORD /\ SizeOf(f) - s[1] < WORD

LEMMA SmallMod ==
  /\ \A n \in Int : 0 <= n /\ n < WORD => n % WORD = n
  /\ \A n \in Int : n < 0 /\ 0 <= n + WORD => n % WORD = n + WORD
BY CPIOFSAssumption

\* The cut of read is the lesser of the count and of what is left.
LEMMA CutIsMinimum ==
  ASSUME NEW b \in Blocks, b.lpos <= b.size, NEW n \in Word, b.size + n < WORD
  PROVE  /\ ReadCount(b, n) = IF n <= b.size - b.lpos THEN n ELSE b.size - b.lpos
         /\ (b.lpos + ReadCount(b, n)) % WORD = b.lpos + ReadCount(b, n)
<1>1. /\ b.size \in Nat /\ b.lpos \in Nat /\ n \in Nat /\ WORD \in Nat
      /\ b.size < WORD
  BY WordIsNat DEF Blocks, Word
<1>2. (b.lpos + n) % WORD = b.lpos + n /\ (b.size - b.lpos) % WORD = b.size - b.lpos
      /\ b.size % WORD = b.size
  BY <1>1, SmallMod
<1> QED
  BY <1>1, <1>2 DEF ReadCount

\* A seek that succeeds goes to the sum of the offset and one of the bases.
LEMMA SeekIsSum ==
  ASSUME NEW b \in Blocks, b.lpos <= b.size, NEW offset \in Int, NEW whence,
         b.size + offset < WORD, b.size - offset < WORD
  PROVE  LET to == SeekTo(b, offset, whence)
         IN to < 0 \/ \E base \in {0, b.lpos, b.size} :
                        to = base + offset /\ base + offset \in 0 .. b.size
<1>1. /\ b.size \in Nat /\ b.lpos \in Nat /\ WORD \in Nat
      /\ b.size < WORD
  BY WordIsNat DEF Blocks, Word
<1>2. CASE whence = "SEEK_SET"
  <2>1. ~(offset < 0 \/ offset > b.size) => offset = 0 + offset /\ 0 + offset \in 0 .. b.size
    BY <1>1
  <2> QED
    BY <1>2, <2>1 DEF SeekTo, K_EINVAL
<1>3. CASE whence = "SEEK_CUR"
  <2>1. b.lpos + offset >= 0 => (b.lpos + offset) % WORD = b.lpos + offset
    BY <1>1, SmallMod
  <2>2. b.lpos + offset < 0 => (b.lpos + offset) % WORD > b.size
    <3>1. b.lpos + offset < 0 =>
            (b.lpos + offset) % WORD = b.lpos + offset + WORD /\ b.lpos + offset + WORD > b.size
      BY <1>1, SmallMod
    <3> QED
      BY <3>1, Zenon
  <2>3. ~((b.lpos + offset) % WORD > b.size) =>
          (b.lpos + offset) % WORD = b.lpos + offset /\ b.lpos + offset \in 0 .. b.size
    BY <1>1, <2>1, <2>2
  <2> QED
    BY <1>3, <2>3 DEF SeekTo, K_EINVAL
<1>4. CASE whence = "SEEK_END"
  <2>1. ~(offset > 0 \/ offset < -b.size) =>
          (b.size + offset) % WORD = b.size + offset /\ b.size + offset \in 0 .. b.size
    BY <1>1, SmallMod
  <2> QED
    BY <1>4, <2>1 DEF SeekTo, K_EINVAL
<1>5. CASE whence \notin {"SEEK_SET", "SEEK_CUR", "SEEK_END"}
  BY <1>5 DEF SeekTo, K_EINVAL
<1> QED
  BY <1>2, <1>3, <1>4, <1>5, Zenon

\* The end of a read is the whole read of the abstract files.
LEMMA ReadRefines ==
  ASSUME NoWrap, IInv, NEW h \in Harts, ReadAdvance(h) PROVE Abstract!Read(h)
<1> DEFINE fd == arg[h].fd
           b == Fcb(fd)
<1>1. pc[h] = "read_advance"
  BY Zenon DEF ReadAdvance
<1>2. PICK n \in Counts : arg[h].count = ReadCount(b, n)
  BY <1>1, Zenon DEF IInv, CallInv, CallOf
<1>3. /\ b \in Blocks /\ b.lpos <= b.size /\ fd \in DOMAIN _global_fd_map
      /\ b.file \in ArchiveFiles /\ b.size = SizeOf(b.file)
      /\ arg[h].file = b.file /\ arg[h].from = b.lpos
  BY <1>1, BlockOfCall, Zenon DEF IInv, CallInv, CallOf, FdInv
<1>4. n \in Word /\ b.size + n < WORD
  BY <1>3, VFSAssumption, Zenon DEF NoWrap, Word
<1>5. /\ arg[h].count = IF n <= b.size - b.lpos THEN n ELSE b.size - b.lpos
      /\ (b.lpos + arg[h].count) % WORD = b.lpos + arg[h].count
  BY <1>2, <1>3, <1>4, CutIsMinimum, Zenon
<1>6. fd \in DOMAIN Cursor /\ Cursor[fd] = [file |-> b.file, pos |-> b.lpos]
  BY <1>3, Zenon DEF Cursor
<1>7. Cursor' = [Cursor EXCEPT ![fd].pos = b.lpos + arg[h].count]
  BY <1>5, ReadAdvanceStep, Zenon
<1>8. out' = [out EXCEPT ![h] = [op |-> "read", file |-> b.file, from |-> b.lpos,
                                 val |-> arg[h].count]]
  BY <1>3, Zenon DEF ReadAdvance, Return, Answer
<1> HIDE DEF b, fd
<1>9. Cursor' = [Cursor EXCEPT ![fd].pos = @ + arg[h].count]
  BY <1>6, <1>7
<1> DEFINE left == SizeOf(Cursor[fd].file) - Cursor[fd].pos
           min == IF n <= left THEN n ELSE left
<1>10. arg[h].count = min /\ b.file = Cursor[fd].file /\ b.lpos = Cursor[fd].pos
  BY <1>3, <1>5, <1>6
<1>11. /\ Abstract!Answer(h, [op |-> "read", file |-> Cursor[fd].file,
                              from |-> Cursor[fd].pos, val |-> min])
       /\ Cursor' = [Cursor EXCEPT ![fd].pos = @ + min]
  BY <1>8, <1>9, <1>10, Zenon DEF Abstract!Answer
<1> QED
  BY <1>6, <1>11, Zenon DEF Abstract!Read

\* lseek is one step of the abstract files, or fails.
LEMMA SeekRefines ==
  ASSUME NoWrap, IInv, NEW h \in Harts, SeekSet(h)
  PROVE  Abstract!Seek(h) \/ Abstract!Fail(h)
<1> DEFINE fd == arg[h].fd
           b == Fcb(fd)
           to == SeekTo(b, arg[h].offset, arg[h].whence)
<1>1. pc[h] = "lseek_set"
  BY Zenon DEF SeekSet
<1>2. PICK s \in Seeks : arg[h].offset = s[1]
  BY <1>1, Zenon DEF IInv, CallInv, CallOf, Seeking
<1>3. /\ b \in Blocks /\ b.lpos <= b.size /\ fd \in DOMAIN _global_fd_map
      /\ b.file \in ArchiveFiles /\ b.size = SizeOf(b.file)
  BY <1>1, BlockOfCall, Zenon DEF IInv, FdInv
<1>4. s[1] \in Int /\ b.size + s[1] < WORD /\ b.size - s[1] < WORD
  BY <1>3, VFSAssumption, Zenon DEF NoWrap
<1>5. to < 0 \/ \E base \in {0, b.lpos, b.size} :
                  to = base + s[1] /\ base + s[1] \in 0 .. b.size
  BY <1>2, <1>3, <1>4, SeekIsSum, Zenon
<1>6. fd \in DOMAIN Cursor /\ Cursor[fd].file = b.file /\ Cursor[fd].pos = b.lpos
  BY <1>3, Zenon DEF Cursor
<1>7. CASE to < 0
  <2>1. /\ out' = [out EXCEPT ![h] = [op |-> "lseek", val |-> K_EINVAL]]
        /\ UNCHANGED <<_insts, _global_fd_map>>
    BY <1>7, Zenon DEF SeekSet, Return, Answer
  <2>2. Cursor' = Cursor
    BY <2>1, Zenon DEF Cursor, Fcb
  <2> QED
    BY <2>1, <2>2, Zenon DEF Abstract!Fail, Abstract!Answer
<1>8. CASE ~(to < 0)
  <2>1. /\ out' = [out EXCEPT ![h] = [op |-> "lseek", fd |-> fd, val |-> 0]]
        /\ Cursor' = [Cursor EXCEPT ![fd].pos = to]
    BY <1>8, SeekSetStep, ZenonT(30) DEF SeekSet, Return, Answer, K_OK
  <2>2. PICK base \in {0, b.lpos, b.size} : to = base + s[1] /\ base + s[1] \in 0 .. b.size
    BY <1>5, <1>8, Zenon
  <2> HIDE DEF to, b, fd
  <2>3. /\ base \in {0, Cursor[fd].pos, SizeOf(Cursor[fd].file)}
        /\ base + s[1] \in 0 .. SizeOf(Cursor[fd].file)
        /\ Cursor' = [Cursor EXCEPT ![fd].pos = base + s[1]]
    BY <1>3, <1>6, <2>1, <2>2, Zenon
  <2>4. s[1] \in {t[1] : t \in Seeks}
    BY Zenon
  <2>5. Abstract!Answer(h, [op |-> "lseek", fd |-> fd, val |-> 0])
    BY <2>1, Zenon DEF Abstract!Answer
  <2> QED
    BY <1>6, <2>3, <2>4, <2>5, Zenon DEF Abstract!Seek
<1> QED
  BY <1>7, <1>8, Zenon

\* The steps of mount, umount and open that fail are failures, and the others
\* of mount and umount do not move a cursor.
LEMMA MountRefines ==
  ASSUME IInv, NEW h \in Harts, Mount(h) \/ Umount(h) \/ OpenFails(h)
  PROVE  Abstract!Fail(h) \/ Abstract!Other(h)
<1>1. Cursor' = Cursor
  BY MountStep, UmountStep, AnswerStep, Zenon DEF OpenFails
<1>2. CASE Mount(h)
  <2>1. \E v \in {0, K_ENOTSUPP, K_EFAIL} : Answer(h, [op |-> "mount", val |-> v])
    <3>1. CASE Answer(h, [op |-> "mount", val |-> K_ENOTSUPP]) \/ Answer(h, [op |-> "mount", val |-> 0])
      BY <3>1, Zenon
    <3>2. CASE \E answer \in [{"cpiofs", "cpio"} -> {K_OK, K_EFAIL, K_ENOTSUPP}],
                  i \in DOMAIN _fs_factories :
                 Answer(h, [op |-> "mount", val |-> answer[_fs_factories[i]]])
      BY <3>2, FactoryNames, Zenon DEF K_OK
    <3> QED
      BY <1>2, <3>1, <3>2, ZenonT(60) DEF Mount, Decides
  <2> QED
    BY <1>1, <2>1, ZenonT(30) DEF Answer, Abstract!Fail, Abstract!Other, Abstract!Answer
<1>3. CASE Umount(h)
  <2>1. \E v \in {0, K_ENOTSUPP} : Answer(h, [op |-> "umount", val |-> v])
    BY <1>3, Zenon DEF Umount
  <2> QED
    BY <1>1, <2>1, ZenonT(30) DEF Answer, Abstract!Fail, Abstract!Other, Abstract!Answer
<1>4. CASE OpenFails(h)
  <2>1. PICK path \in OpenPaths :
          OpenError(path) # K_OK /\ Answer(h, [op |-> "open", val |-> OpenError(path)])
    BY <1>4, Zenon DEF OpenFails
  <2>2. OpenError(path) \in {K_ENOENT, -1, K_ENOMEM, K_OK}
    BY Zenon DEF OpenError
  <2>3. OpenError(path) \in {K_EFAIL, K_ENOTSUPP, K_EINVAL, K_ENOMEM, K_ENOENT}
    BY <2>1, <2>2, Zenon DEF K_EFAIL
  <2> QED
    BY <1>1, <2>1, <2>3, ZenonT(30) DEF Answer, Abstract!Fail, Abstract!Answer
<1> QED
  BY <1>2, <1>3, <1>4, Zenon

\* The other steps of read and lseek: a new call, or a stuttering step.
LEMMA StageRefines ==
  ASSUME IInv, NEW h \in Harts,
         ReadFind(h) \/ SeekFind(h) \/ TestUsed(h) \/ ReadCut(h) \/ ReadCopy(h)
  PROVE  Abstract!Call(h) \/ UNCHANGED <<Cursor, out>>
<1>1. UNCHANGED <<_insts, _global_fd_map>>
  BY Zenon DEF ReadFind, SeekFind, Find, TestUsed, ReadCut, ReadCopy
<1>2. Cursor' = Cursor
  BY <1>1, Zenon DEF Cursor, Fcb
<1>3. CASE ReadFind(h) \/ SeekFind(h)
  <2>1. Answer(h, [op |-> "none"])
    BY <1>3, Zenon DEF ReadFind, SeekFind, Find, IInv, OwnInv
  <2> QED
    BY <1>2, <2>1, Zenon DEF Answer, Abstract!Call, Abstract!Answer
<1>4. CASE TestUsed(h)
  <2>1. Fcb(arg[h].fd).used
    BY <1>4, BlockOfCall, Zenon DEF TestUsed
  <2> QED
    BY <1>2, <1>4, <2>1, Zenon DEF TestUsed
<1>5. CASE ReadCut(h) \/ ReadCopy(h)
  BY <1>2, <1>5, Zenon DEF ReadCut, ReadCopy
<1> QED
  BY <1>3, <1>4, <1>5, Zenon

\* Each call of the file functions takes effect at once, on a cursor that is
\* its descriptor's own, although read and lseek release the lock before they
\* look at the control block.
THEOREM CallsAreAtomic == ASSUME NoWrap PROVE Spec => ImplementsFiles
<1>1. Init => Abstract!Init
  BY Zenon DEF Init, Cursor, Abstract!Init
<1>2. IInv /\ [Next]_vars => [Abstract!Next]_<<Cursor, out>>
  <2> SUFFICES ASSUME IInv, [Next]_vars PROVE [Abstract!Next]_<<Cursor, out>>
    BY Zenon
  <2>1. CASE UNCHANGED vars
    BY <2>1, Zenon DEF vars, Cursor, Fcb
  <2>2. ASSUME NEW h \in Harts,
               Mount(h) \/ Umount(h) \/ Open(h) \/ OpenFails(h) \/ Close(h)
        PROVE  Abstract!Next
    BY <2>2, MountRefines, OpenStep, CloseStep, Zenon DEF Abstract!Next
  <2>3. ASSUME NEW h \in Harts,
               ReadFind(h) \/ SeekFind(h) \/ TestUsed(h) \/ ReadCut(h) \/ ReadCopy(h)
        PROVE  [Abstract!Next]_<<Cursor, out>>
    BY <2>3, StageRefines, Zenon DEF Abstract!Next
  <2>4. ASSUME NEW h \in Harts, ReadAdvance(h) \/ SeekSet(h) PROVE Abstract!Next
    BY <2>4, ReadRefines, SeekRefines, Zenon DEF Abstract!Next
  <2> QED
    BY <2>1, <2>2, <2>3, <2>4, Zenon DEF Next
<1> QED
  BY <1>1, <1>2, AlwaysInv, PTL DEF Spec, ImplementsFiles, Abstract!Spec
=============================================================================
