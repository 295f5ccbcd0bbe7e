------------------------------- MODULE CPIOFS -------------------------------
(***************************************************************************)
(* The operations of class CPIOFS (cpiofs.cpp) on its table of file        *)
(* control blocks, as operators.  A file is the pair of a device and a     *)
(* name; of its contents only the size is kept.                            *)
(***************************************************************************)
EXTENDS Integers

CONSTANTS
  MAX_FILES,  \* CPIOFS::MAX_FILES
  WORD        \* 2^64: unsigned long arithmetic is modulo WORD

ASSUME CPIOFSAssumption == MAX_FILES \in Nat /\ WORD \in Nat \ {0}

Slots == 0 .. (MAX_FILES - 1)

K_OK == 0
K_EINVAL == -3
K_ENOMEM == -1006
K_ENOENT == -1008

\* An unused struct fcb_t.
FreeFcb == [used |-> FALSE, file |-> <<>>, size |-> 0, lpos |-> 0]

NewTable == [i \in Slots |-> FreeFcb]

\* Mutant: the first slot, used or not.
IsFirstFree_Used(fcb, i) == i = 0

\* The loop of open: the first unused slot.
IsFirstFree(fcb, i) == ~fcb[i].used /\ \A j \in Slots : j < i => fcb[j].used

OpenFcb(fcb, i, file, size) ==
  [fcb EXCEPT ![i] = [used |-> TRUE, file |-> file, size |-> size, lpos |-> 0]]

\* Mutant: the slot stays in use.
CloseFcb_KeepsUsed(fcb, i) == [fcb EXCEPT ![i].lpos = 0]

CloseFcb(fcb, i) == [fcb EXCEPT ![i] = FreeFcb]

\* The count of read after it has been cut to what is left of the file.
ReadCount(b, count) ==
  IF (b.lpos + count) % WORD > b.size THEN (b.size - b.lpos) % WORD ELSE count

Advance(b, count) == [b EXCEPT !.lpos = (@ + count) % WORD]

\* Mutant: SEEK_CUR does not test the end of the file.
SeekTo_NoEnd(b, offset, whence) ==
  CASE whence = "SEEK_SET" -> IF offset < 0 \/ offset > b.size THEN K_EINVAL ELSE offset
    [] whence = "SEEK_CUR" -> (b.lpos + offset) % WORD
    [] whence = "SEEK_END" ->
         IF offset > 0 \/ offset < -b.size THEN K_EINVAL ELSE (b.size + offset) % WORD
    [] OTHER -> K_EINVAL

\* The new lpos of lseek, or K_EINVAL.  The sum of SEEK_CUR is unsigned: its
\* test for a negative position never holds, and a position before the
\* beginning is caught as one behind the end.
SeekTo(b, offset, whence) ==
  CASE whence = "SEEK_SET" -> IF offset < 0 \/ offset > b.size THEN K_EINVAL ELSE offset
    [] whence = "SEEK_CUR" ->
         IF (b.lpos + offset) % WORD > b.size THEN K_EINVAL
         ELSE (b.lpos + offset) % WORD
    [] whence = "SEEK_END" ->
         IF offset > 0 \/ offset < -b.size THEN K_EINVAL ELSE (b.size + offset) % WORD
    [] OTHER -> K_EINVAL
=============================================================================
