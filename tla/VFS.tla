--------------------------------- MODULE VFS ---------------------------------
(***************************************************************************)
(* class VirtualFS (k_vfs.h) over CPIOFS and DEVFS instances: the table of *)
(* mounts, the global table of descriptors and the calls made by several   *)
(* harts at once.                                                          *)
(*                                                                         *)
(* open, close, mount and umount hold _fs_lock from their first access to  *)
(* their return, and KLock shows that the lock excludes, so each is one    *)
(* step.  read and lseek hold it only while they look the descriptor up;   *)
(* what follows, without the lock, is a step for each stage of CPIOFS::read *)
(* and lseek.  write and fstat change nothing.                                  *)
(*                                                                         *)
(* Callers: as in k_main a hart uses only descriptors it has opened, one   *)
(* call at a time, and a file system is unmounted when none of its files   *)
(* is open (umount does not test that).                                    *)
(***************************************************************************)
EXTENDS CPIOFS, Sequences

CONSTANTS
  Harts,       \* the callers
  BootHart,    \* the hart that mounts
  Archives,    \* from a device to its archive: from names to sizes
  BadDevice,   \* a device that holds no archive
  MountPaths,  \* the paths mount is called with, as sequences
  OpenPaths,   \* the paths open is called with
  Counts,      \* the counts read is called with
  Seeks,       \* the offset and whence lseek is called with
  MaxFd,       \* bound: the last descriptor given out
  MaxInst      \* bound: how many file system instances are made

K_EFAIL == -1
K_ENOTSUPP == -2

ASSUME VFSAssumption ==
  /\ BootHart \in Harts
  /\ BadDevice \notin DOMAIN Archives
  /\ \A d \in DOMAIN Archives : \A n \in DOMAIN Archives[d] :
       Archives[d][n] \in 0 .. (WORD - 1)
  /\ Counts \subseteq 0 .. (WORD - 1)
  /\ \A s \in Seeks : s[1] \in Int
  /\ MaxFd \in Nat /\ MaxInst \in Nat

VARIABLES
  _fs_map,             \* from mounted paths to instances
  _insts,              \* the instances made so far: type, device, table
  _global_fd_map,      \* from descriptors to [fs, fd], fd being a slot
  _global_fd_counter,
  pc,                  \* where each hart is in read or lseek
  arg,                 \* the arguments and locals of that call
  mine,                \* the descriptors each hart has opened
  out                  \* the last answer each hart was given

vars == <<_fs_map, _insts, _global_fd_map, _global_fd_counter, pc, arg, mine, out>>

\* _fs_factories, in the order of registration.  DEVFS registers as "cpio".
_fs_factories == <<"cpiofs", "cpio">>

\* What the new-instance function of a file system answers for a device: an
\* exception of CPIOFS is K_EFAIL, or K_ENOTSUPP if it is of unknown type.
newInstance(fs, device) ==
  IF fs = "cpio" \/ device # BadDevice THEN {K_OK} ELSE {K_EFAIL, K_ENOTSUPP}

Answer(h, a) == out' = [out EXCEPT ![h] = a]
Goto(h, p) == pc' = [pc EXCEPT ![h] = p]
Return(h, a) ==
  /\ Goto(h, "out")
  /\ Answer(h, a)
  /\ arg' = [arg EXCEPT ![h] = <<>>]

\* The control block behind a descriptor.
Fcb(fd) == _insts[_global_fd_map[fd].fs].fcb[_global_fd_map[fd].fd]
SetFcb(fd, b) ==
  _insts' = [_insts EXCEPT ![_global_fd_map[fd].fs].fcb[_global_fd_map[fd].fd] = b]

Init ==
  /\ _fs_map = [p \in {} |-> 0]
  /\ _insts = <<>>
  /\ _global_fd_map = [fd \in {} |-> 0]
  /\ _global_fd_counter = 3
  /\ pc = [h \in Harts |-> "out"]
  /\ arg = [h \in Harts |-> <<>>]
  /\ mine = [h \in Harts |-> {}]
  /\ out = [h \in Harts |-> [op |-> "none"]]

-----------------------------------------------------------------------------
(* mount and umount                                                        *)

\* The factory whose answer mount returns: the first of those asked for, all of
\* them if none is named, that supports the device.
Decides(fs_name, answer) ==
  LET tried == {i \in DOMAIN _fs_factories : fs_name \in {"", _fs_factories[i]}}
  IN {i \in tried :
        /\ answer[_fs_factories[i]] # K_ENOTSUPP
        /\ \A j \in tried : j < i => answer[_fs_factories[j]] = K_ENOTSUPP}

\* insert keeps a path that is already mounted, and the new instance is then
\* in no table.
Mount(h) ==
  /\ pc[h] = "out" /\ h = BootHart
  /\ Len(_insts) < MaxInst
  /\ \E path \in MountPaths, device \in DOMAIN Archives \cup {BadDevice},
        fs_name \in {"", "cpiofs", "cpio"},
        answer \in [{"cpiofs", "cpio"} -> {K_OK, K_EFAIL, K_ENOTSUPP}] :
       /\ \A f \in DOMAIN answer : answer[f] \in newInstance(f, device)
       /\ \/ /\ Decides(fs_name, answer) = {}
             /\ Answer(h, [op |-> "mount", val |-> K_ENOTSUPP])
             /\ UNCHANGED <<_fs_map, _insts>>
          \/ \E i \in Decides(fs_name, answer) :
               IF answer[_fs_factories[i]] = K_OK
                 THEN /\ _insts' = Append(_insts, [type |-> _fs_factories[i],
                            device |-> device, live |-> TRUE, fcb |-> NewTable])
                      /\ _fs_map' = [p \in DOMAIN _fs_map \cup {path} |->
                           IF p \in DOMAIN _fs_map THEN _fs_map[p]
                           ELSE Len(_insts) + 1]
                      /\ Answer(h, [op |-> "mount", val |-> 0])
                 ELSE /\ Answer(h, [op |-> "mount", val |-> answer[_fs_factories[i]]])
                      /\ UNCHANGED <<_fs_map, _insts>>
  /\ UNCHANGED <<_global_fd_map, _global_fd_counter, pc, arg, mine>>

\* No file of the instance is open.
Idle(i) == \A fd \in DOMAIN _global_fd_map : _global_fd_map[fd].fs # i

\* The instance is deleted and the path forgotten.
Umount(h) ==
  /\ pc[h] = "out" /\ h = BootHart
  /\ \E path \in MountPaths :
       IF path \in DOMAIN _fs_map
         THEN /\ Idle(_fs_map[path])
              /\ _insts' = [_insts EXCEPT ![_fs_map[path]].live = FALSE,
                                          ![_fs_map[path]].fcb = NewTable]
              /\ _fs_map' = [p \in DOMAIN _fs_map \ {path} |-> _fs_map[p]]
              /\ Answer(h, [op |-> "umount", val |-> 0])
         ELSE /\ Answer(h, [op |-> "umount", val |-> K_ENOTSUPP])
              /\ UNCHANGED <<_fs_map, _insts>>
  /\ UNCHANGED <<_global_fd_map, _global_fd_counter, pc, arg, mine>>

-----------------------------------------------------------------------------
(* open and close                                                          *)

\* path.find(p) == 0
StartsWith(path, p) == Len(p) <= Len(path) /\ SubSeq(path, 1, Len(p)) = p

\* The mounted paths that path starts with and that are longest; an empty one
\* is never chosen.
Resolve(path) ==
  {p \in DOMAIN _fs_map :
     /\ p # <<>> /\ StartsWith(path, p)
     /\ \A q \in DOMAIN _fs_map : StartsWith(path, q) => Len(q) <= Len(p)}

\* The file is found and a control block is free; next is the counter after
\* the call.  insert keeps an entry that is already there.
OpenWith(h, next) ==
  /\ pc[h] = "out"
  /\ _global_fd_counter <= MaxFd
  /\ \E path \in OpenPaths : \E p \in Resolve(path), s \in Slots :
       LET i == _fs_map[p]
           name == SubSeq(path, Len(p) + 1, Len(path))
           fd == _global_fd_counter
       IN /\ _insts[i].type = "cpiofs"
          /\ name \in DOMAIN Archives[_insts[i].device]
          /\ IsFirstFree(_insts[i].fcb, s)
          /\ _insts' = [_insts EXCEPT ![i].fcb = OpenFcb(@, s,
                          <<_insts[i].device, name>>, Archives[_insts[i].device][name])]
          /\ _global_fd_map' = [d \in DOMAIN _global_fd_map \cup {fd} |->
               IF d \in DOMAIN _global_fd_map THEN _global_fd_map[d]
               ELSE [fs |-> i, fd |-> s]]
          /\ mine' = [mine EXCEPT ![h] = @ \cup {fd}]
          /\ Answer(h, [op |-> "open", val |-> fd])
  /\ _global_fd_counter' = next
  /\ UNCHANGED <<_fs_map, pc, arg>>

\* Mutant: the counter is not advanced.
Open_SameNumber(h) == OpenWith(h, _global_fd_counter)

Open(h) == OpenWith(h, _global_fd_counter + 1)

\* The error open returns for a path: no mount, what DEVFS returns, no such
\* file, or no control block.
OpenError(path) ==
  IF Resolve(path) = {} THEN K_ENOENT
  ELSE LET p == CHOOSE p \in Resolve(path) : TRUE
           fs == _insts[_fs_map[p]]
       IN CASE fs.type = "cpio" -> -1
            [] fs.type = "cpiofs" /\ SubSeq(path, Len(p) + 1, Len(path))
                                       \notin DOMAIN Archives[fs.device] -> K_ENOENT
            [] fs.type = "cpiofs" /\ \A s \in Slots : fs.fcb[s].used -> K_ENOMEM
            [] OTHER -> K_OK

OpenFails(h) ==
  /\ pc[h] = "out"
  /\ \E path \in OpenPaths :
       /\ OpenError(path) # K_OK
       /\ Answer(h, [op |-> "open", val |-> OpenError(path)])
  /\ UNCHANGED <<_fs_map, _insts, _global_fd_map, _global_fd_counter, pc, arg, mine>>

\* The control block is freed and the descriptor erased.
Close(h) ==
  /\ pc[h] = "out"
  /\ \E fd \in mine[h] :
       LET e == _global_fd_map[fd]
       IN IF fd \in DOMAIN _global_fd_map /\ _insts[e.fs].fcb[e.fd].used
            THEN /\ _insts' = [_insts EXCEPT ![e.fs].fcb = CloseFcb(@, e.fd)]
                 /\ _global_fd_map' = [d \in DOMAIN _global_fd_map \ {fd} |->
                                         _global_fd_map[d]]
                 /\ mine' = [mine EXCEPT ![h] = @ \ {fd}]
                 /\ Answer(h, [op |-> "close", val |-> K_OK])
            ELSE /\ Answer(h, [op |-> "close", val |-> K_ENOENT])
                 /\ UNCHANGED <<_insts, _global_fd_map, mine>>
  /\ UNCHANGED <<_fs_map, _global_fd_counter, pc, arg>>

-----------------------------------------------------------------------------
(* read and lseek                                                          *)

\* The descriptor of the call op with arguments a is looked up under the lock.
Find(h, op, a) ==
  /\ pc[h] = "out"
  /\ IF a.fd \in DOMAIN _global_fd_map
       THEN /\ Goto(h, op)
            /\ arg' = [arg EXCEPT ![h] = a]
            /\ Answer(h, [op |-> "none"])
       ELSE Return(h, [op |-> op, val |-> K_ENOENT])
  /\ UNCHANGED <<_fs_map, _insts, _global_fd_map, _global_fd_counter, mine>>

ReadFind(h) ==
  \E fd \in mine[h], count \in Counts : Find(h, "read", [fd |-> fd, count |-> count])

SeekFind(h) ==
  \E fd \in mine[h], s \in Seeks :
    Find(h, "lseek", [fd |-> fd, offset |-> s[1], whence |-> s[2]])

\* The file system looks at the control block through the iterator.
TestUsed(h) ==
  /\ pc[h] \in {"read", "lseek"}
  /\ IF Fcb(arg[h].fd).used
       THEN /\ Goto(h, IF pc[h] = "read" THEN "read_cut" ELSE "lseek_set") 
            /\ UNCHANGED <<arg, out>>
       ELSE Return(h, [op |-> pc[h], val |-> K_ENOENT])
  /\ UNCHANGED <<_fs_map, _insts, _global_fd_map, _global_fd_counter, mine>>

\* The count is cut to what is left ...
ReadCut(h) ==
  /\ pc[h] = "read_cut"
  /\ arg' = [arg EXCEPT ![h].count = ReadCount(Fcb(arg[h].fd), @)]
  /\ Goto(h, "read_copy")
  /\ UNCHANGED <<_fs_map, _insts, _global_fd_map, _global_fd_counter, mine, out>>

\* ... the bytes from lpos on are copied to the caller ...
ReadCopy(h) ==
  /\ pc[h] = "read_copy"
  /\ LET b == Fcb(arg[h].fd)
     IN arg' = [arg EXCEPT ![h] = [fd |-> @.fd, count |-> @.count,
                                   file |-> b.file, from |-> b.lpos]]
  /\ Goto(h, "read_advance")
  /\ UNCHANGED <<_fs_map, _insts, _global_fd_map, _global_fd_counter, mine, out>>

\* ... and lpos moves on.
ReadAdvance(h) ==
  /\ pc[h] = "read_advance"
  /\ SetFcb(arg[h].fd, Advance(Fcb(arg[h].fd), arg[h].count))
  /\ Return(h, [op |-> "read", file |-> arg[h].file, from |-> arg[h].from,
                val |-> arg[h].count])
  /\ UNCHANGED <<_fs_map, _global_fd_map, _global_fd_counter, mine>>

\* lseek tests and sets lpos, and answers K_OK.
SeekSet(h) ==
  /\ pc[h] = "lseek_set"
  /\ LET b == Fcb(arg[h].fd)
         to == SeekTo(b, arg[h].offset, arg[h].whence)
     IN IF to < 0
          THEN Return(h, [op |-> "lseek", val |-> K_EINVAL]) /\ UNCHANGED _insts
          ELSE /\ Return(h, [op |-> "lseek", fd |-> arg[h].fd, val |-> K_OK])
               /\ SetFcb(arg[h].fd, [b EXCEPT !.lpos = to])
  /\ UNCHANGED <<_fs_map, _global_fd_map, _global_fd_counter, mine>>

-----------------------------------------------------------------------------
Next ==
  \E h \in Harts :
    \/ Mount(h) \/ Umount(h) \/ Open(h) \/ OpenFails(h) \/ Close(h)
    \/ ReadFind(h) \/ SeekFind(h) \/ TestUsed(h)
    \/ ReadCut(h) \/ ReadCopy(h) \/ ReadAdvance(h) \/ SeekSet(h)

Spec == Init /\ [][Next]_vars

-----------------------------------------------------------------------------
(* Properties                                                              *)

Reading == {"read", "read_cut", "read_copy", "read_advance"}
Seeking == {"lseek", "lseek_set"}

ArchiveFiles == UNION {{<<d, n>> : n \in DOMAIN Archives[d]} : d \in DOMAIN Archives}

Files == ArchiveFiles \cup {<<>>}
Word == 0 .. (WORD - 1)
Blocks ==
  [used : BOOLEAN, file : Files, size : Word, lpos : Word]
Instances ==
  [type : {"cpiofs", "cpio"}, device : DOMAIN Archives \cup {BadDevice},
   live : BOOLEAN, fcb : [Slots -> Blocks]]

\* Maps whose values are positions in another one are typed by the
\* invariants below.
TypeOK ==
  /\ _insts \in Seq(Instances)
  /\ _global_fd_counter \in Nat /\ _global_fd_counter >= 3
  /\ pc \in [Harts -> {"out"} \cup Reading \cup Seeking]
  /\ mine \in [Harts -> SUBSET Nat]
  /\ DOMAIN arg = Harts

\* The two tables agree: a control block is in use exactly when one open
\* descriptor stands for it, so that no call leaks a block or shares one
\* (VirtualFS::open and close, CPIOFS::open and close).
DescriptorsExact ==
  \A i \in DOMAIN _insts, s \in Slots :
    LET fds == {fd \in DOMAIN _global_fd_map :
                  _global_fd_map[fd] = [fs |-> i, fd |-> s]}
    IN /\ _insts[i].fcb[s].used <=> fds # {}
       /\ \A c, d \in fds : c = d

\* Whatever is read and wherever a caller seeks, with unsigned arithmetic, the
\* position stays within the file, so that the copy of read does too.
PosInFile ==
  \A i \in DOMAIN _insts, s \in Slots :
    _insts[i].fcb[s].lpos <= _insts[i].fcb[s].size

\* The iterator that read and lseek keep after they have released the lock
\* stays good: its entry is not erased and its file system is not deleted.
IteratorValid ==
  \A h \in Harts : pc[h] # "out" =>
    /\ arg[h].fd \in DOMAIN _global_fd_map
    /\ _insts[_global_fd_map[arg[h].fd].fs].live

\* The calls behave as if each descriptor were a private cursor into its file
\* and each call one step, however the calls of the harts interleave.
Cursor == [fd \in DOMAIN _global_fd_map |->
             [file |-> Fcb(fd).file, pos |-> Fcb(fd).lpos]]

SizeOf(f) == Archives[f[1]][f[2]]

Abstract ==
  INSTANCE AbstractFiles WITH
    cursor <- Cursor,
    Files <- ArchiveFiles,
    SizeOf <- SizeOf,
    Fds <- 3 .. MaxFd,
    Offsets <- {s[1] : s \in Seeks},
    Errors <- {K_EFAIL, K_ENOTSUPP, K_EINVAL, K_ENOMEM, K_ENOENT}

ImplementsFiles == Abstract!Spec

\* "POSIX-like functionss" (k_vfs.h:72): lseek that succeeds answers the
\* position it has set.
LseekReturnsPosition ==
  \A h \in Harts :
    out[h].op = "lseek" /\ out[h].val >= 0 => out[h].val = Fcb(out[h].fd).lpos
=============================================================================
