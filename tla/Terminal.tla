------------------------------ MODULE Terminal ------------------------------
(***************************************************************************)
(* The output side of errmark's world: one terminal that stdout, stderr   *)
(* and the program's own descriptors 1 and 2 all lead to (the situation    *)
(* README.md of errmark is about), and the stdio buffer of errmark's own   *)
(* stdout in front of it.  External: libc's stdio and the tty, as          *)
(* mark-write.c, pmem-fwrite.c and run-program.c use them.                 *)
(*                                                                         *)
(* What the terminal shows is a sequence of items, each with the set of    *)
(* marks that were on when it arrived: lit.  A start string written to fd  *)
(* turns the marking of fd on, an end string turns it off.                 *)
(***************************************************************************)
EXTENDS Integers, Sequences

VARIABLE out    \* what errmark's output functions act on, see OutType

StdFds == {1, 2}
NoFd   == -1

(* An item is one stretch of bytes: what errmark copied from the tracee    *)
(* (all of a write, a part of it, a dump from before the range was checked *)
(* or uninitialised bytes), or a write the kernel performed itself.  Its   *)
(* id is the number of the program's system call it comes from, dest the   *)
(* file the program's descriptor led to.                                   *)
Kinds == {"data", "part", "dump", "junk", "raw"}
Files == {"tty", "file"}
Item  == [kind : Kinds, fd : StdFds, id : Nat, dest : Files]
Shown == [kind : Kinds, fd : StdFds, id : Nat, dest : Files, lit : SUBSET StdFds]

(* cur_fd  the static variable of mark-write.c: it travels with the        *)
(*         streams, because each call that writes a mark may move it       *)
(* lit     the marks that are on at the terminal                           *)
(* stray   an end string has arrived for a marking that was not on         *)
(* outbuf  bytes in the buffer of stdout (stderr is unbuffered)            *)
OutType == [cur_fd : StdFds \cup {NoFd}, lit : SUBSET StdFds, stray : BOOLEAN,
            screen : Seq(Shown), outbuf : Seq(Item)]

Lit(item, lit) == [kind |-> item.kind, fd |-> item.fd, id |-> item.id,
                   dest |-> item.dest, lit |-> lit]

(* fflush(stdout): what is in the buffer appears with the marks now on.    *)
Flush(m) ==
  [m EXCEPT !.screen = @ \o [i \in 1 .. Len(m.outbuf) |-> Lit(m.outbuf[i], m.lit)],
            !.outbuf = << >>]

(* write(fd, start_string) and write(fd, end_string), past the buffer.     *)
MarkOn(m, fd)  == [m EXCEPT !.lit = @ \cup {fd}]
MarkOff(m, fd) == [m EXCEPT !.stray = @ \/ fd \notin m.lit, !.lit = @ \ {fd}]

(* fwrite(..., stdout) *)
Fwrite(m, item) == [m EXCEPT !.outbuf = Append(@, item)]

(* The kernel performs a write of the program itself.                      *)
RawWrite(m, item) ==
  IF item.dest = "tty" THEN [m EXCEPT !.screen = Append(@, Lit(item, m.lit))]
                       ELSE m

(* All that was ever handed to the terminal or waits in the buffer.        *)
Issued(m) == m.screen \o m.outbuf
=============================================================================
