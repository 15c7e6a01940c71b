----------------------------- MODULE RunProgram -----------------------------
(***************************************************************************)
(* src/liberrmark/run-program.c and guard-ptrace.c: errmark forks the      *)
(* program and becomes its tracer.  ptrace_cmd() waits for a stop, reads   *)
(* the registers, and takes every stop in which they name write for the    *)
(* entry to a write (toggle = 0) or the exit from it (toggle = 1).  At the *)
(* entry it marks the terminal, makes the write one of 0 bytes and copies  *)
(* the bytes itself; at the exit it puts the length into the return value. *)
(*                                                                         *)
(* A step of the tracer ends where the program could be found in another   *)
(* state by the next system call of errmark, so pc names the next one:     *)
(*   wait     wait()                     getregs  PTRACE_GETREGS           *)
(*   entry    marks, before the copy     nullify  PTRACE_SETREGS           *)
(*   copy     reads and prints the bytes exit     PTRACE_SETREGS           *)
(*   resume   PTRACE_SYSCALL             finish   the loop was left        *)
(*   done, oom, aborted, killed          errmark is no more                *)
(*                                                                         *)
(* A definition that differs from the next one in one respect and is used  *)
(* nowhere is a slip that was not made: README.md lists what each breaks.  *)
(***************************************************************************)
EXTENDS Tracee, CopyOutcomes

VARIABLES
  pc,
  toggle,        \* 0: the next write stop is an entry, 1: it is an exit
  mark_state,    \* cmd->mark_state: mark_open() was called
  child_exited,  \* cmd->child_exited
  lregs,         \* ptrace_cmd's copy of the registers
  wcall,         \* wfd, waddr and wlen
  exit_status,
  exitcode,      \* what errmark's exit() was given
  copying,       \* cmd->copy_fh # NULL: the option --copy was given
  copyf,         \* what was written to it
  flips          \* history: how many signal stops were taken for write stops

tracerVars == <<pc, toggle, mark_state, child_exited, lregs, wcall,
                exit_status, exitcode, copying, copyf, flips>>
vars == <<traceeVars, tracerVars, out, marked>>

(* What no step of errmark changes: the program's own actions, the kernel. *)
programVars == <<call, ncall, cfile, pending, sent>>

Final    == {"done", "oom", "aborted", "killed"}
Handling == {"entry", "nullify", "copy", "exit", "resume"}
Pcs      == {"wait", "getregs", "finish"} \cup Handling \cup Final
NoCode   == -1
Bit      == {0, 1}

Call(r) == [fd |-> r.arg1, buf |-> r.arg2, len |-> r.arg3]

(* regs is a local variable that is not initialised: a GETREGS that fails  *)
(* leaves in it what the stack held.  It can be read only when the first   *)
(* GETREGS fails, so other values matter only if fork or the program does. *)
StackRegs == {NoRegs} \cup
  (IF Env \cap {"fork", "kill"} = {} THEN {}
   ELSE {Request("write", a[1], a[2], a[3]) : a \in WriteArgs})

RunInit ==
  /\ pc = "wait" /\ toggle = 0 /\ mark_state = 0 /\ child_exited = FALSE
  /\ lregs \in StackRegs /\ wcall = Call(NoRegs)
  /\ exit_status = 0 /\ exitcode = NoCode
  /\ copying \in BOOLEAN /\ copyf = << >>
  /\ flips = 0

Init == TraceeInit /\ OutInit /\ RunInit

-----------------------------------------------------------------------------
(* The child of fork(): PTRACE_TRACEME, then execvp().  Either may fail.   *)
ChildTraceMe ==
  /\ phase = "start"
  /\ \/ phase' = "traceme" /\ UNCHANGED <<wstatus, waited>>
     \/ "traceme" \in Env /\ Die(W_EXITCODE(0, SIGABRT))
  /\ UNCHANGED <<programVars, traced, regs, tracerVars, out, marked>>

ChildExec ==
  /\ phase = "traceme"
  /\ \/ /\ traced /\ StopIn("sigstop", SIGTRAP)
        /\ regs' = Request("other", 0, "null", 0)
     \/ ~traced /\ phase' = "user" /\ UNCHANGED <<regs, wstatus, waited>>
     \/ "exec" \in Env /\ Die(W_EXITCODE(2, 0)) /\ UNCHANGED regs
  /\ UNCHANGED <<programVars, traced, tracerVars, out, marked>>

-----------------------------------------------------------------------------
MarkCloseIfOpen(m) == IF mark_state = 1 THEN MarkClose(m) ELSE m

(* errmark is gone: what it held stopped goes on. *)
LetGo ==
  /\ traced' = FALSE /\ phase' = Resumed(phase)
  /\ UNCHANGED <<programVars, regs, wstatus, waited, marked>>

(* guard_ptrace returns: child_exited is set by every request that did not *)
(* fail with ESRCH, and ESRCH is what a program that is not stopped gives. *)
PtraceReturns ==
  child_exited' = (child_exited \/ phase \in Stopped)

(* Any other error is fatal, and abort() does not flush stdout. *)
PtraceFails ==
  /\ "ptrace" \in Env
  /\ pc \in {"getregs", "nullify", "exit", "resume"}
  /\ child_exited' = TRUE
  /\ out' = [MarkCloseIfOpen(out) EXCEPT !.outbuf = << >>]
  /\ pc' = "aborted"
  /\ LetGo
  /\ UNCHANGED <<toggle, mark_state, lregs, wcall, exit_status, exitcode,
                 copying, copyf, flips>>

-----------------------------------------------------------------------------
(* wait(&status).  There is nothing to wait for when fork() failed: the    *)
(* call returns at once and status stays 0.                                *)
OurStopAny(status) == WIFSTOPPED(status)
OurStop(status) == WIFSTOPPED(status) /\ WSTOPSIG(status) \in {SIGTRAP, SIGCHLD}
Waited(status) ==
  IF status # 0 /\ ~OurStop(status)
  THEN /\ exit_status' = status
       /\ out' = MarkCloseIfOpen(out)
       /\ pc' = "finish"
  ELSE /\ pc' = "getregs"
       /\ UNCHANGED <<exit_status, out>>

Wait ==
  /\ pc = "wait"
  /\ \/ /\ phase \in {"reaped", "nofork"}
        /\ Waited(0)
        /\ UNCHANGED <<phase, waited>>
     \/ /\ phase \in Stopped \cup {"zombie"} /\ ~waited
        /\ waited' = TRUE
        /\ phase' = IF phase = "zombie" THEN "reaped" ELSE phase
        /\ Waited(wstatus)
  /\ UNCHANGED <<programVars, traced, regs, wstatus, marked, toggle, mark_state,
                 child_exited, lregs, wcall, exitcode, copying, copyf, flips>>

(* PTRACE_GETREGS, and what follows from the registers read. *)
Dispatch(r) == CASE r.orig # "write" -> "resume"
                 [] r.orig = "write" /\ toggle = 0 -> "entry"
                 [] r.orig = "write" /\ toggle = 1 -> "exit"

GoneNever == FALSE
Gone      == phase \notin Stopped /\ child_exited

GetRegs ==
  /\ pc = "getregs"
  /\ PtraceReturns
  /\ lregs' = IF phase \in Stopped THEN regs ELSE lregs
  /\ pc' = IF Gone THEN "finish" ELSE Dispatch(lregs')
  /\ UNCHANGED <<traceeVars, out, marked, toggle, mark_state, wcall, exit_status,
                 exitcode, copying, copyf, flips>>

-----------------------------------------------------------------------------
TracedStd(c) == c.fd \in StdFds
CountFlip == flips' = flips + (IF phase = "sigstop" THEN 1 ELSE 0)

(* toggle = 0: mark_open the first time, before_write. *)
EntryBody ==
  /\ pc = "entry"
  /\ wcall' = Call(lregs)
  /\ CountFlip
  /\ IF TracedStd(wcall')
     THEN /\ mark_state' = 1
          /\ out' = BeforeWrite(IF mark_state = 0 THEN MarkOpen(out) ELSE out,
                                wcall'.fd, wcall'.buf, wcall'.len)
          /\ pc' = "nullify"
     ELSE pc' = "resume" /\ UNCHANGED <<mark_state, out>>
  /\ UNCHANGED <<traceeVars, marked, child_exited, lregs, exit_status, exitcode,
                 copying, copyf>>

MarkEntryNoToggle == EntryBody /\ UNCHANGED toggle
MarkEntryStdOnly  == EntryBody /\ toggle' = IF pc' = "nullify" THEN 1 ELSE 0
MarkEntry         == EntryBody /\ toggle' = 1

(* PTRACE_SETREGS: no effect on a program that is no longer stopped. *)
SetRegs(r) ==
  /\ lregs' = r
  /\ regs' = IF phase \in Stopped THEN r ELSE regs
  /\ PtraceReturns

NoBytesNot(r) == r
NoBytes(r)    == [r EXCEPT !.arg3 = 0]

Nullify ==
  /\ pc = "nullify"
  /\ SetRegs(NoBytes(lregs))
  /\ pc' = "copy"
  /\ UNCHANGED <<programVars, phase, traced, wstatus, waited, out, marked, toggle, mark_state, wcall, exit_status, exitcode,
                 copying, copyf, flips>>

-----------------------------------------------------------------------------
(* All bytes of the call can be read from the program.                     *)
ReadableNoTail(c) == phase \in Stopped /\ c.buf = "good" /\ c.len > 2
Readable(c) == phase \in Stopped /\ c.buf = "good" /\ c.len > 0

ReceivedUnflushed(c, r) ==
  {IF r.bytes = "all" THEN Fwrite(out, CallItem("data", c.fd)) ELSE out}

(* The output side after a copy of c with result r.  What is not flushed   *)
(* by the code may be flushed by stdio, when it is full or at a newline.   *)
Received(c, r) ==
  LET kind == CASE r.bytes = "all" -> "data"
                [] r.bytes = "some" -> IF c.len = HugeLen THEN "dump" ELSE "part"
      m    == IF r.bytes = "none" THEN out ELSE Fwrite(out, CallItem(kind, c.fd))
  IN  (IF r.flushed THEN {} ELSE {m})
        \cup (IF r.flushed \/ r.bytes # "none" THEN {Flush(m)} ELSE {})

(* pmem_fwrite(stdout, ...), whose return value is ignored.  After a fork  *)
(* that failed there is not even a program to read from.                   *)
PmemFwrite(c) ==
  \E r \in CopyResults(c.buf, c.len, phase \in Stopped) :
    /\ phase = "nofork" => r.bytes = "none"
    /\ out' \in Received(c, r)

CopyToStdout ==
  /\ pc = "copy" /\ ~(wcall.fd = 2 /\ copying)
  /\ PmemFwrite(wcall)
  /\ pc' = "resume"
  /\ UNCHANGED <<traceeVars, marked, toggle, mark_state, child_exited, lregs, wcall,
                 exit_status, exitcode, copying, copyf, flips>>

(* --copy: pmem_copy into memory from malloc, and its return value ignored *)
(* again: what could not be read is written out uninitialised.  fwrite to  *)
(* stdout is not followed by fflush, but stdio may flush a line.           *)
CopiedIfRead(item) == IF item.kind = "data" THEN Append(copyf, item) ELSE copyf
Copied(item)       == Append(copyf, item)

CopyBoth ==
  LET item == CallItem(IF Readable(wcall) THEN "data" ELSE "junk", 2)
  IN  /\ pc = "copy" /\ wcall.fd = 2 /\ copying
      /\ wcall.len # HugeLen
      /\ IF wcall.len = 0 THEN UNCHANGED <<out, copyf>>
         ELSE /\ out' \in {Fwrite(out, item), Flush(Fwrite(out, item))}
              /\ copyf' = Copied(item)
      /\ pc' = "resume"
      /\ UNCHANGED <<traceeVars, marked, toggle, mark_state, child_exited, lregs,
                     wcall, exit_status, exitcode, copying, flips>>

(* guard_malloc fails: exit(8), which flushes stdout but ends no marking.  *)
MallocFails ==
  /\ pc = "copy" /\ wcall.fd = 2 /\ copying
  /\ wcall.len = HugeLen \/ "oom" \in Env
  /\ out' = Flush(out)
  /\ exitcode' = 8
  /\ pc' = "oom"
  /\ LetGo
  /\ UNCHANGED <<toggle, mark_state, child_exited, lregs, wcall, exit_status,
                 copying, copyf, flips>>

-----------------------------------------------------------------------------
(* toggle = 1: after_write (which does nothing), the return value, SETREGS.*)
LengthReturnedAlways(r) == [r EXCEPT !.ret = wcall.len]
LengthReturnedNow(r)    == IF TracedStd(wcall) THEN [r EXCEPT !.ret = r.arg3] ELSE r
LengthReturned(r)       == IF TracedStd(wcall) THEN [r EXCEPT !.ret = wcall.len] ELSE r

ExitBody ==
  /\ pc = "exit"
  /\ SetRegs(LengthReturned(lregs))
  /\ CountFlip
  /\ UNCHANGED <<programVars, phase, traced, wstatus, waited, out, marked,
                 mark_state, wcall, exit_status, exitcode, copying, copyf>>

ExitStopCounts    == ExitBody /\ toggle' = toggle + 1 /\ pc' = "resume"
ExitStopContinues == ExitBody /\ toggle' = 0 /\ pc' = "wait"
ExitStop          == ExitBody /\ toggle' = 0 /\ pc' = "resume"

(* PTRACE_SYSCALL, and round the loop. *)
Resume ==
  /\ pc = "resume"
  /\ PtraceReturns
  /\ phase' = Resumed(phase)
  /\ pc' = "wait"
  /\ UNCHANGED <<programVars, traced, regs, wstatus, waited, out, marked, toggle,
                 mark_state, lregs, wcall, exit_status, exitcode, copying, copyf,
                 flips>>

(* After the loop: mark_close in ptrace_cmd and again in                   *)
(* errmark_run_program, exit(child_status >> 8) in main.                   *)
ExitCodeLow(status) == status % 256
ExitCode(status)    == (status \div 256) % 256

Finish ==
  /\ pc = "finish"
  /\ out' = Flush(MarkCloseIfOpen(MarkCloseIfOpen(out)))
  /\ exitcode' = ExitCode(exit_status)
  /\ pc' = "done"
  /\ LetGo
  /\ UNCHANGED <<toggle, mark_state, child_exited, lregs, wcall, exit_status,
                 copying, copyf, flips>>

-----------------------------------------------------------------------------
(* errmark is killed (^C at the terminal reaches it as well as the program *)
(* it runs, and it installs no handler): its buffer is lost, its marks     *)
(* stay on, and the program goes on with the registers it has.  Bound: not *)
(* before PTRACE_TRACEME, which would find another parent.                 *)
ErrmarkKilled ==
  /\ "crash" \in Env /\ pc \notin Final /\ phase # "start"
  /\ out' = [out EXCEPT !.outbuf = << >>]
  /\ pc' = "killed"
  /\ LetGo
  /\ UNCHANGED <<toggle, mark_state, child_exited, lregs, wcall, exit_status,
                 exitcode, copying, copyf, flips>>

(* No fairness for what others do: PtraceFails and ErrmarkKilled. *)
Tracer == Wait \/ GetRegs \/ MarkEntry \/ Nullify \/ CopyToStdout \/ CopyBoth
            \/ MallocFails \/ ExitStop \/ Resume \/ Finish

OfProgram == Program /\ UNCHANGED <<tracerVars, marked>>
OfKernel  == Kernel /\ UNCHANGED <<tracerVars, marked>>
OfOthers  == (SendSignal \/ Kill) /\ UNCHANGED <<tracerVars, marked>>

Terminated == pc \in Final /\ phase \in Dead /\ UNCHANGED vars

Next == ChildTraceMe \/ ChildExec \/ Tracer \/ PtraceFails \/ ErrmarkKilled
          \/ OfProgram \/ OfKernel \/ OfOthers \/ Terminated

Spec == Init /\ [][Next]_vars

(* errmark runs until it blocks, and the kernel finishes what it started;  *)
(* the program itself may compute for ever.                                *)
FairSpec == Spec /\ WF_vars(Tracer) /\ WF_vars(OfKernel)
                 /\ WF_vars(ChildTraceMe \/ ChildExec)
=============================================================================
