---------------------------- MODULE PmemTransfer ----------------------------
(***************************************************************************)
(* src/liberrmark/pmem-copy.c and pmem-fwrite.c: len bytes from address    *)
(* raddr of the program, read with PTRACE_PEEKDATA a word at a time, into  *)
(* a buffer or onto a stream.  The two functions differ in where the bytes *)
(* go and in the fflush at the end of the second.  A byte is represented   *)
(* by the address it was read from.                                        *)
(***************************************************************************)
EXTENDS Integers, Sequences

CONSTANTS
  Word,      \* sizeof (data), a power of 2
  PageSize,  \* what is mapped or not mapped as a whole
  MaxAddr,   \* bound: the addresses at which a range may start
  MaxLen     \* bound: the lengths asked for

ASSUME SizesAssumption == /\ Word \in Nat \ {0} /\ PageSize \in Nat \ {0}
                          /\ PageSize % Word = 0
ASSUME RangeAssumption == MaxAddr \in Nat /\ MaxLen \in Nat

VARIABLES
  pc,          \* "head", "body", "tail" or "done"
  func,        \* which of the two functions runs
  start, size, \* the arguments raddr and len
  raddr, len,  \* the same variables, as the function advances
  bytes_read,
  got,         \* the bytes in buf, or written to f
  flushed,     \* fflush(f)
  ret,         \* the return value
  mapped,      \* the pages of the program that can be read
  alive        \* it has not been killed

args == <<func, start, size, mapped>>
vars == <<pc, args, raddr, len, bytes_read, got, flushed, ret, alive>>

NotYet == -2
Pages == 0 .. (MaxAddr + MaxLen + Word) \div PageSize

Init ==
  /\ pc = "head" /\ func \in {"copy", "fwrite"}
  /\ start \in 0 .. MaxAddr /\ size \in 0 .. MaxLen
  /\ raddr = start /\ len = size
  /\ bytes_read = 0 /\ got = << >> /\ flushed = FALSE /\ ret = NotYet
  /\ mapped \in SUBSET Pages /\ alive = TRUE

-----------------------------------------------------------------------------
Readable(a) == a \div PageSize \in mapped

(* PTRACE_PEEKDATA of the word at a, which need not be aligned.            *)
PeekOk(a) == alive /\ \A b \in a .. a + Word - 1 : Readable(b)

Return(value) == pc' = "done" /\ ret' = value

(* A word cannot be read: EIO from an address that is not mapped, ESRCH    *)
(* from a program that is gone.  Only EIO lets the bytes so far count.     *)
PeekErrorOnly ==
  /\ Return(-1)
  /\ UNCHANGED <<raddr, len, bytes_read, got, flushed>>

PeekError ==
  /\ Return(IF bytes_read # 0 /\ alive THEN bytes_read ELSE -1)
  /\ UNCHANGED <<raddr, len, bytes_read, got, flushed>>

Take(sz) ==
  /\ got' = got \o [i \in 1 .. sz |-> raddr + i - 1]
  /\ raddr' = raddr + sz
  /\ len' = len - sz
  /\ bytes_read' = bytes_read + sz
  /\ UNCHANGED flushed

(* Unaligned bytes at the start.                                           *)
phaseIgnored == 0
phase == raddr % Word
HeadSizeUnclipped == Word - phase
HeadSize == IF len > Word - phase THEN Word - phase ELSE len

UnalignedHead ==
  /\ pc = "head"
  /\ \/ phase = 0 /\ pc' = "body"
        /\ UNCHANGED <<raddr, len, bytes_read, got, flushed, ret>>
     \/ phase # 0 /\ PeekOk(raddr)
        /\ Take(HeadSize) /\ pc' = "body" /\ UNCHANGED ret
     \/ phase # 0 /\ ~PeekOk(raddr) /\ PeekError
  /\ UNCHANGED <<args, alive>>

(* Whole words: one turn of the loop. *)
WholeWords ==
  /\ pc = "body"
  /\ \/ len < Word /\ pc' = "tail"
        /\ UNCHANGED <<raddr, len, bytes_read, got, flushed, ret>>
     \/ len >= Word /\ PeekOk(raddr) /\ Take(Word) /\ UNCHANGED <<pc, ret>>
     \/ len >= Word /\ ~PeekOk(raddr) /\ PeekError
  /\ UNCHANGED <<args, alive>>

(* The runt word at the end, fflush and return. *)
FlushesNever == FALSE
Flushes == func = "fwrite"

Complete(sz) ==
  /\ got' = got \o [i \in 1 .. sz |-> raddr + i - 1]
  /\ bytes_read' = bytes_read + sz
  /\ flushed' = Flushes
  /\ Return(bytes_read + sz)
  /\ UNCHANGED <<raddr, len>>

TailSizeWord == Word
TailSize == len
RuntTail ==
  /\ pc = "tail"
  /\ \/ len = 0 /\ Complete(0)
     \/ len > 0 /\ PeekOk(raddr) /\ Complete(TailSize)
     \/ len > 0 /\ ~PeekOk(raddr) /\ PeekError
  /\ UNCHANGED <<args, alive>>

Kill == /\ alive /\ pc # "done" /\ alive' = FALSE
        /\ UNCHANGED <<pc, args, raddr, len, bytes_read, got, flushed, ret>>

(* The function has returned. *)
Returned == pc = "done" /\ UNCHANGED vars

Next == UnalignedHead \/ WholeWords \/ RuntTail \/ Kill \/ Returned
Spec == Init /\ [][Next]_vars
=============================================================================
