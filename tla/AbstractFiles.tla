---------------------------- MODULE AbstractFiles ----------------------------
(***************************************************************************)
(* What the file functions promise: every descriptor is a private cursor   *)
(* into one file.  Each call takes effect at once, and out holds the last  *)
(* answer each hart was given.                                             *)
(***************************************************************************)
EXTENDS Integers

CONSTANTS
  Harts, Files,  \* the callers, and the files there are
  SizeOf(_),     \* the size of a file
  Fds, Counts, Offsets,
  Errors         \* the negative answers

VARIABLES
  cursor,  \* from the open descriptors to [file, pos]
  out      \* the last answer to each hart

Init ==
  /\ cursor = [fd \in {} |-> {}]
  /\ out = [h \in Harts |-> [op |-> "none"]]

Answer(h, a) == out' = [out EXCEPT ![h] = a]

Open(h) ==
  \E fd \in Fds \ DOMAIN cursor, f \in Files :
    /\ Answer(h, [op |-> "open", val |-> fd])
    /\ cursor' = [d \in DOMAIN cursor \cup {fd} |->
                    IF d = fd THEN [file |-> f, pos |-> 0] ELSE cursor[d]]

Close(h) ==
  \E fd \in DOMAIN cursor :
    /\ Answer(h, [op |-> "close", val |-> 0])
    /\ cursor' = [d \in DOMAIN cursor \ {fd} |-> cursor[d]]

\* The next bytes of the file, as many as asked for or as are left.
Read(h) ==
  \E fd \in DOMAIN cursor, count \in Counts :
    LET c == cursor[fd]
        left == SizeOf(c.file) - c.pos
        n == IF count <= left THEN count ELSE left
    IN /\ Answer(h, [op |-> "read", file |-> c.file, from |-> c.pos, val |-> n])
       /\ cursor' = [cursor EXCEPT ![fd].pos = @ + n]

\* A position within the file, counted from its beginning, from the cursor or
\* from its end.
Seek(h) ==
  \E fd \in DOMAIN cursor :
    /\ Answer(h, [op |-> "lseek", fd |-> fd, val |-> 0])
    /\ \E offset \in Offsets :
         LET c == cursor[fd]
             size == SizeOf(c.file)
         IN \E base \in {0, c.pos, size} :
              /\ base + offset \in 0 .. size
              /\ cursor' = [cursor EXCEPT ![fd].pos = base + offset]

\* A call that fails changes nothing.
Fail(h) ==
  /\ \E o \in {"open", "close", "read", "lseek", "mount", "umount"}, e \in Errors :
       Answer(h, [op |-> o, val |-> e])
  /\ UNCHANGED cursor

\* Mounting does not concern the open files.
Other(h) ==
  /\ \E o \in {"mount", "umount"} : Answer(h, [op |-> o, val |-> 0])
  /\ UNCHANGED cursor

\* A hart that makes a new call has done with the last answer.
Call(h) == Answer(h, [op |-> "none"]) /\ UNCHANGED cursor

Next ==
  \E h \in Harts : \/ Open(h) \/ Close(h) \/ Read(h) \/ Seek(h) \/ Fail(h) \/ Other(h)
               \/ Call(h)

Spec == Init /\ [][Next]_<<cursor, out>>
=============================================================================
