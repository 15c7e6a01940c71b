--------------------------- MODULE RunProgramProps ---------------------------
(***************************************************************************)
(* What errmark promises about the program it runs, about its terminal and *)
(* about itself.  flips = 0 is the part of a behaviour in which no signal  *)
(* stop has been taken for the stop of a write yet: what happens from then *)
(* on is the subject of the finding EntryIsEntry.                          *)
(***************************************************************************)
EXTENDS RunProgram

(* The state of the tracing loop, the program and the terminal.            *)
TraceeTypeOK ==
  /\ phase \in Phases /\ traced \in BOOLEAN /\ waited \in BOOLEAN
  /\ regs \in Regs /\ call \in Regs /\ ncall \in Nat
  /\ cfile \in [StdFds -> Files]
  /\ pending \subseteq Signals /\ sent \in Seq(Signals) /\ wstatus \in Nat

OutTypeOK == out \in OutType /\ marked \subseteq StdFds

LoopTypeOK ==
  /\ pc \in Pcs /\ toggle \in Bit /\ mark_state \in Bit /\ child_exited \in BOOLEAN
  /\ lregs \in Regs /\ wcall \in [fd : 0 .. 255, buf : Bufs, len : Lens]
  /\ exit_status \in Nat /\ exitcode \in 0 .. 255 \cup {NoCode}
  /\ copying \in BOOLEAN /\ copyf \in Seq(Item) /\ flips \in Nat
  /\ pc \in {"nullify", "copy"} => wcall.fd \in StdFds

TypeOK == TraceeTypeOK /\ OutTypeOK /\ LoopTypeOK

-----------------------------------------------------------------------------
(* The loop of ptrace_cmd and the program alternate: errmark waits exactly *)
(* while the program is not held in a stop that was reported, so it never  *)
(* reads the memory or the registers of a running program, and never waits *)
(* for one that waits for it.                                              *)
Lockstep ==
  traced /\ phase \notin Dead =>
    (pc = "wait" <=> ~(phase \in Stopped /\ waited))

(* The program is inside a write, as far as the loop has taken notice.     *)
Noticed == pc \in {"nullify", "copy", "resume"}
InWrite == /\ call.orig = "write"
           /\ \/ phase = "kernel"
              \/ phase = "entry" /\ Noticed
              \/ phase = "exit" /\ ~Noticed

(* toggle in ptrace_cmd says whether the program is inside a write, turned *)
(* over by every signal stop that was taken for a write stop.              *)
ToggleParity ==
  traced /\ phase \notin Dead =>
    ((toggle + flips) % 2 = 1 <=> InWrite)

(* The length is set to 0 and the bytes are read at the entry to the write *)
(* they belong to and nowhere else (the comment at run-program.c:152).     *)
EntryMeansEntry ==
  pc \in {"nullify", "copy"} /\ flips = 0 /\ phase \notin Dead =>
    phase = "entry" /\ wcall = Call(call)

(* errmark changes the length of a write to 1 or 2 at its entry and the    *)
(* return value at its exit, and no other register of the program, as long *)
(* as no signal stop is mistaken.                                          *)
RegsTouched ==
  [][regs' # regs /\ pc' # pc /\ flips' = 0 =>
       /\ call.orig = "write" /\ call.arg1 \in StdFds
       /\ \/ phase = "entry" /\ regs' = [regs EXCEPT !.arg3 = 0]
          \/ phase = "exit"  /\ regs' = [regs EXCEPT !.ret = call.arg3]]_vars

-----------------------------------------------------------------------------
(* A write to 1 or 2 has come back to the program.                         *)
Back     == /\ flips = 0 /\ phase \in {"return", "user"}
            /\ call.orig = "write" /\ call.arg1 \in StdFds
Returned == traced /\ Back

(* The return value the program sees is the length it asked for, though    *)
(* the kernel wrote nothing (run-program.c:186-193).                       *)
FakeReturn == Returned => regs.ret = call.arg3

(* The program has been told that its write to the terminal was complete.  *)
Complete == /\ Back /\ call.arg2 = "good" /\ call.arg3 = 2 /\ regs.ret = 2
            /\ cfile[call.arg1] = "tty"

(* The bytes of that write are among the items s; and it is one that goes  *)
(* to the file of --copy as well.                                          *)
PutOut(s) == \E i \in 1 .. Len(s) :
               s[i].kind \in {"data", "raw"} /\ s[i].id = ncall /\ s[i].fd = call.arg1
WithCopy  == copying /\ call.arg1 = 2

(* A program that is told that its write was complete can rely on it: the  *)
(* bytes are on the terminal, so a prompt is visible before the program    *)
(* waits for the answer, with errmark alive, gone or killed at any point   *)
(* of that write.  This is the fflush of pmem_fwrite (pmem-fwrite.c:103),  *)
(* and so not true of stderr with --copy.                                  *)
Delivered == Complete /\ ~WithCopy => PutOut(out.screen)

(* With --copy the fwrite of run-program.c:175 is followed by no fflush: a *)
(* prompt on stderr may be in the buffer of stdio still, unseen, when the  *)
(* program waits for the answer, and is lost if errmark aborts or is       *)
(* killed then.  In every other case the bytes are in that buffer, and on  *)
(* the terminal once errmark has come to its end, exit(8) of guard_malloc  *)
(* included.                                                               *)
CopyHeld ==
  Complete /\ WithCopy =>
    \/ pc \in {"aborted", "killed"}
    \/ PutOut(IF pc \in Final THEN out.screen ELSE Issued(out))

(* What the program wrote comes out at most once, in the order it was      *)
(* written, the reason README.md gives for using ptrace ("Why Use          *)
(* Ptrace?"): also when errmark dies in the middle of a write, because the *)
(* length is 0 before the first byte is copied.                            *)
OrderPreserved ==
  flips = 0 => \A i, j \in 1 .. Len(Issued(out)) :
                 i < j => Issued(out)[i].id < Issued(out)[j].id

(* Bytes that errmark copies appear under the marking of their descriptor  *)
(* and no other, whatever is in the stdio buffer when a mark is written;   *)
(* the dump for a length of (size_t)(-1) and uninitialised bytes are not   *)
(* meant.                                                                  *)
WellMarked ==
  \A i \in 1 .. Len(out.screen) :
    out.screen[i].kind \in {"data", "part"} =>
      out.screen[i].lit = {out.screen[i].fd} \cap marked

(* --copy: the file gets all of what the terminal shows of stderr, in the  *)
(* same order, and nothing else (README.md: "make a copy of stderr"): at   *)
(* says where each item of the file was shown.                             *)
OfStderr(item) == item.fd = 2 /\ item.kind # "raw"

CopyAt(at, file, shown) ==
  /\ \A i, j \in DOMAIN at : i < j => at[i] < at[j]
  /\ \A k \in 1 .. Len(shown) : OfStderr(shown[k]) <=> \E i \in DOMAIN at : at[i] = k
  /\ \A i \in DOMAIN at : file[i].id = shown[at[i]].id /\ file[i].kind = shown[at[i]].kind

CopyMatches ==
  copying /\ pc \notin {"aborted", "killed"} =>
    \E at \in [1 .. Len(copyf) -> 1 .. Len(Issued(out))] : CopyAt(at, copyf, Issued(out))

-----------------------------------------------------------------------------
(* What errmark leaves on at the terminal.  Nothing, when its loop has     *)
(* come to an end or ptrace has failed (guard-ptrace.c:33).  exit(8) of    *)
(* guard_malloc ends no marking (guard-malloc.c:59): the one that was on   *)
(* stays on while the program goes on, and it is that of stderr unless     *)
(* before_write took no notice of the write.  A death of errmark leaves at *)
(* most the marking of cur_fd on, never that of both descriptors.          *)
MarkingAtExit ==
  /\ pc \in {"done", "aborted"} => out.lit = {}
  /\ pc = "oom" => /\ out.lit = {out.cur_fd} \cap marked
                   /\ ~Skipped(wcall.buf, wcall.len) => out.cur_fd = 2
  /\ pc = "killed" => out.lit \subseteq {out.cur_fd}

(* The exit code of the program becomes that of errmark.                   *)
ExitCodePassed ==
  pc = "done" /\ phase = "reaped" /\ wstatus % 256 = 0 => exitcode = wstatus \div 256

(* A signal is not passed on (PTRACE_SYSCALL with 0), so one that is taken *)
(* while errmark traces is lost.  That happens to SIGTRAP and SIGCHLD and  *)
(* to no other: errmark lets go of the program before it takes the signal. *)
SignalsKept ==
  traced /\ phase \notin Dead =>
    \A i \in 1 .. Len(sent) :
      \/ sent[i] \in pending \cup {SIGTRAP, SIGCHLD}
      \/ phase = "sigstop" /\ sent[i] = WSTOPSIG(wstatus)

(* What --verbose says at the end is what happened: the code the program   *)
(* exited with (2 when there was no program to run), the signal it died    *)
(* of, or a signal it was sent and that ended the tracing.  The name alone *)
(* tells which signal.                                                     *)
ReportAgrees ==
  pc = "done" /\ exit_status # 0 =>
    LET report == Report(exit_status)
        Meant  == {sig \in 1 .. NSIG - 1 : SignalName(sig) = report.name}
    IN  \/ /\ report.kind = "exited" /\ phase = "reaped"
           /\ report.num = IF call.orig = "exit" THEN call.arg1 ELSE 2
        \/ report.kind = "killed" /\ phase = "reaped" /\ Meant \subseteq {SIGKILL, SIGABRT}
        \/ /\ report.kind = "stopped" /\ exitcode = report.num
           /\ \A sig \in Meant : \E i \in 1 .. Len(sent) : sent[i] = sig

(* Every stop ends: the program is resumed or it is dead.                  *)
StopsEnd == (phase \in Stopped) ~> (phase \notin Stopped)

(* When the program has ended, errmark ends.                               *)
ErrmarkEnds == (phase = "zombie") ~> (pc \in Final)

-----------------------------------------------------------------------------
(* What the comments and the README say and the code does not do; each is  *)
(* the property of a run that shows a violation.                           *)

(* mark-write.c:227-230: "Only write ending strings on transition to/from  *)
(* stdout/stderr", so never for a marking that is off.                     *)
NoStrayEnd == ~out.stray

(* run-program.c:152-156: "It is the start of a write system call, just    *)
(* before it will be performed by the kernel".                             *)
EntryIsEntry == pc \in {"nullify", "copy"} => phase \in {"entry"} \cup Dead

(* README.md:5-8: "marks stderr output to distinguish it from stdout", so  *)
(* what the terminal shows of descriptor 2 is marked, if 2 has marks.      *)
StderrMarked ==
  \A i \in 1 .. Len(out.screen) :
    out.screen[i].fd = 2 /\ 2 \in marked => 2 \in out.screen[i].lit

(* README.md:10-11: no redirection: what a descriptor leads to a file for  *)
(* does not come out at the terminal.                                      *)
RedirectKept == \A i \in 1 .. Len(out.screen) : out.screen[i].dest = "tty"
=============================================================================
