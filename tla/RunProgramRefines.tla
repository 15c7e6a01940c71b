-------------------------- MODULE RunProgramRefines --------------------------
(***************************************************************************)
(* The tracing loop implements the promise of MarkedLog.                   *)
(***************************************************************************)
EXTENDS RunProgramProps

(* The write the program is in, from its system call until errmark resumes *)
(* it after the exit stop.                                                 *)
CurrentWrite ==
  IF call.orig = "write" /\ call.arg1 \in StdFds /\ phase \in {"entry", "kernel", "exit"}
  THEN {[id |-> ncall, fd |-> call.arg1, whole |-> call.arg2 = "good" /\ call.arg3 = 2]}
  ELSE {}

(* What is on the screen, and what stdio holds: it will appear under the   *)
(* marks that are on now.                                                  *)
PrintedLog == Flush(out).screen

(* The program is dead, no longer traced, or taken to be where it is not.  *)
PromiseOver == ~traced \/ flips > 0 \/ phase \in Dead

Promise == INSTANCE MarkedLog WITH
  current <- CurrentWrite, log <- PrintedLog, over <- PromiseOver

(* Every step of errmark, the program and the kernel is a step of the      *)
(* promise or none: a write is printed once, whole and under its own mark, *)
(* between its start and its return, and no later step (a flush, a mark,   *)
(* an exit stop) reaches back to what was printed.                         *)
Implements == Promise!Spec

(* A program that writes gets its answer, or errmark or the program ends.  *)
WritesReturn == Promise!WritesReturn
=============================================================================
