------------------------------ MODULE MarkWrite ------------------------------
(***************************************************************************)
(* src/liberrmark/mark-write.c: which descriptor is being marked, and the  *)
(* strings written when the program's output moves from one descriptor to  *)
(* the other.  Each function of the file is an operator from the state of  *)
(* the output side to the next, so that a step of the tracing loop can     *)
(* make several calls.                                                     *)
(***************************************************************************)
EXTENDS Terminal

VARIABLE marked    \* the descriptors whose start and end strings are not NULL

(* The early return of before_write: a NULL buffer, or a length of         *)
(* (size_t)(-1), which is written -1 here.                                 *)
HugeLen == -1
Skipped(buf, len) == buf = "null" \/ len = HugeLen

(* write_start_stdout, write_start_stderr, and the two end functions:      *)
(* flush first, so that bytes of the old descriptor keep their marking.    *)
WriteStart(m, fd) == IF fd \in marked THEN MarkOn(Flush(m), fd) ELSE m
WriteEnd(m, fd)   == IF fd \in marked THEN MarkOff(Flush(m), fd) ELSE m

(* switch_from_fd and switch_to_fd: nothing for a descriptor other than    *)
(* 1 and 2 (marked holds no other).                                        *)
SwitchFromUnflushed(m, fd) == IF fd \in marked THEN MarkOff(m, fd) ELSE m
SwitchFrom(m, fd) == WriteEnd(m, fd)
SwitchTo(m, fd)   == WriteStart(m, fd)

BeforeWriteEndsNew(m, fd, buf, len) ==
  IF ~Skipped(buf, len) /\ fd \in StdFds /\ fd # m.cur_fd
  THEN [SwitchTo(SwitchFrom(m, fd), fd) EXCEPT !.cur_fd = fd]
  ELSE m

BeforeWrite(m, fd, buf, len) ==
  IF ~Skipped(buf, len) /\ fd \in StdFds /\ fd # m.cur_fd
  THEN [SwitchTo(SwitchFrom(m, m.cur_fd), fd) EXCEPT !.cur_fd = fd]
  ELSE m

MarkOpen(m)  == [m EXCEPT !.cur_fd = NoFd]
MarkCloseNever(m) == m
MarkClose(m) == SwitchFrom(m, m.cur_fd)

OutInit ==
  /\ marked \in SUBSET StdFds
  /\ out = [cur_fd |-> NoFd, lit |-> {}, stray |-> FALSE,
            screen |-> << >>, outbuf |-> << >>]
=============================================================================
