-------------------------- MODULE PmemTransferProps --------------------------
(***************************************************************************)
(* What ptrace_cmd may rely on when it calls pmem_copy and pmem_fwrite,    *)
(* and what it does not look at: both return values are ignored there.     *)
(***************************************************************************)
EXTENDS PmemTransfer, CopyOutcomes

(* The state of one call.                                                  *)
TypeOK ==
  /\ pc \in {"head", "body", "tail", "done"} /\ func \in {"copy", "fwrite"}
  /\ start \in Nat /\ size \in Nat /\ raddr \in Nat /\ len \in Nat
  /\ bytes_read \in Nat /\ got \in Seq(Nat)
  /\ flushed \in BOOLEAN /\ ret \in Nat \cup {-1, NotYet}
  /\ mapped \subseteq Pages /\ alive \in BOOLEAN

(* The bytes that arrive are those of the range, in order, none twice and  *)
(* none left out, however head, words and tail divide it, and they fit.    *)
CopiedInOrder ==
  /\ Len(got) <= size
  /\ \A i \in 1 .. Len(got) : got[i] = start + i - 1

(* The return value is the number of bytes that arrived; -1 hides some     *)
(* only when the program was killed in the middle of the range.            *)
ReturnCounts ==
  pc = "done" => \/ ret = Len(got)
                 \/ ret = -1 /\ (alive => got = << >>)

(* What can be read of the words that make up the range, in the terms of   *)
(* CopyOutcomes: an unaligned start asks for the word there.               *)
AskedFor == {a \in start .. start + size - 1 : a % Word = 0}
              \cup (IF start % Word = 0 THEN {} ELSE {start})
WordOk(a) == \A b \in a .. a + Word - 1 : Readable(b)
Buffer == IF \A a \in AskedFor : WordOk(a) THEN "good"
          ELSE IF WordOk(start) THEN "short" ELSE "null"

(* The tracing loop's one-step copy leaves nothing out: however the words  *)
(* fall and whenever the program is killed, the bytes that arrive and the  *)
(* flush are a result CopyOutcomes gives for this buffer, with the program *)
(* as it was before or as it is after the call.                            *)
OutcomeKnown ==
  pc = "done" =>
    LET arrived == IF got = << >> THEN "none" ELSE IF Len(got) = size THEN "all" ELSE "some"
    IN  \E living \in {TRUE, alive} : \E r \in CopyResults(Buffer, size, living) :
          r.bytes = arrived /\ (func = "fwrite" => r.flushed = flushed)

(* Past an unaligned start, every byte before the first one that cannot be *)
(* read arrives: whole words never reach into the next page.               *)
LongestPrefix ==
  pc = "done" /\ alive /\ Len(got) < size /\ (got # << >> \/ start % Word = 0)
    => ~Readable(start + Len(got))

(* pmem-copy.c:13-20: "Get data from the process being traced, at the      *)
(* given address, and copy it to a buffer", so a range that can be read is *)
(* read.  The word at an unaligned start may end in the next page.         *)
ReadableIsRead ==
  pc = "done" /\ alive /\ size > 0 /\ (\A a \in start .. start + size - 1 : Readable(a))
    => ret = size
=============================================================================
