---------------------------- MODULE MCRunProgram ----------------------------
(* Values for TLC: the writes the program makes in each run.               *)
EXTENDS RunProgramRefines

(* Whole, partly readable and missing buffers, both descriptors and one    *)
(* that is not traced, no byte and (size_t)(-1) bytes.                     *)
AllWrites == {<<1, "good", 2>>, <<2, "good", 2>>, <<3, "short", 2>>,
              <<2, "short", 2>>, <<1, "null", 2>>, <<1, "good", HugeLen>>,
              <<2, "good", 0>>}

(* One of each descriptor. *)
PlainWrites == {<<1, "good", 2>>, <<2, "good", 2>>, <<3, "good", 2>>}
=============================================================================
