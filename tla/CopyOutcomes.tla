---------------------------- MODULE CopyOutcomes ----------------------------
(***************************************************************************)
(* What one call of pmem_fwrite comes to, seen from outside: which bytes   *)
(* were handed to stdio and whether they were flushed.  RunProgram makes   *)
(* the call one step with these outcomes; PmemTransfer, which reads word   *)
(* by word, is checked to have no others.                                  *)
(***************************************************************************)
EXTENDS Integers

(* buf says what can be read: every word the function asks for ("good"),   *)
(* only the first ones ("short") or not the first ("null").  len is        *)
(* negative for more bytes than any program has.  alive: there still is a  *)
(* program to read from.  A complete range is flushed; after a word that   *)
(* cannot be read, what was written before it stays with stdio.  A word at *)
(* an unaligned address is asked for even when no byte of it is needed.    *)
CopyResults(buf, len, alive) ==
  LET Result(what, flush) == [bytes |-> what, flushed |-> flush]
      whole == alive /\ buf = "good"
  IN  CASE len = 0 -> {Result("none", TRUE)}
                        \cup (IF whole THEN {} ELSE {Result("none", FALSE)})
        [] len > 0 /\ whole -> {Result("all", TRUE)}
        [] OTHER -> {Result("none", FALSE)}
                      \cup (IF buf = "null" THEN {} ELSE {Result("some", FALSE)})
=============================================================================
