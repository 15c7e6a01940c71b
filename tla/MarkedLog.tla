------------------------------ MODULE MarkedLog ------------------------------
(***************************************************************************)
(* What errmark promises the person at the terminal, without tracing,      *)
(* registers or buffers.  A program writes to descriptors 1 and 2, one     *)
(* write at a time.  Each write gets at most one entry in a log, while the *)
(* program is in it; a write of bytes that can be read has one before it   *)
(* returns, with all its bytes and under the mark of its descriptor.       *)
(* Nothing else comes into the log and nothing in it changes.              *)
(*                                                                         *)
(* The promise ends when the program dies, when errmark no longer traces   *)
(* it, and (a finding) with the first signal that is mistaken for a write. *)
(***************************************************************************)
EXTENDS Integers, Sequences

VARIABLES
  current,  \* the write the program is in: a set of one write or of none
  log,      \* what has been printed, each entry with the marks it is under
  marked,   \* the descriptors that have marks
  over      \* the promise no longer holds

vars == <<current, log, marked, over>>

Init == current = {} /\ log = << >> /\ marked \in SUBSET {1, 2} /\ over \in BOOLEAN

Logged(w) == \E i \in 1 .. Len(log) : log[i].id = w.id

(* The program starts a write; ids count its system calls.                 *)
Issue ==
  /\ current = {}
  /\ \E w \in current' : /\ current' = {w} /\ w.fd \in {1, 2}
                         /\ \A i \in 1 .. Len(log) : log[i].id < w.id
  /\ UNCHANGED <<log, marked, over>>

(* entry is what a reader may see of the write w.                          *)
Faithful(entry, w) ==
  /\ entry.id = w.id /\ entry.fd = w.fd
  /\ w.whole => entry.kind = "data"
  /\ entry.kind # "raw"
  /\ entry.kind \in {"data", "part"} => entry.lit = {w.fd} \cap marked

Enter ==
  /\ \E w \in current :
       /\ ~Logged(w)
       /\ Len(log') = Len(log) + 1 /\ SubSeq(log', 1, Len(log)) = log
       /\ Faithful(log'[Len(log')], w)
  /\ UNCHANGED <<current, marked, over>>

Return ==
  /\ \E w \in current : w.whole => Logged(w)
  /\ current' = {}
  /\ UNCHANGED <<log, marked, over>>

Over == over' /\ UNCHANGED marked

Next == Issue \/ Enter \/ Return \/ Over
Spec == Init /\ [][Next]_vars

(* No write lasts for ever while the promise holds.                        *)
WritesReturn == (current # {}) ~> (current = {} \/ over)
=============================================================================
