------------------------------- MODULE Tracee -------------------------------
(***************************************************************************)
(* The traced program and the kernel that runs, stops and resumes it.      *)
(* External: modelled from the ptrace requests, the wait statuses and the  *)
(* registers that src/liberrmark/run-program.c uses.                       *)
(*                                                                         *)
(* The program computes in user mode ("user"), makes system calls, is sent *)
(* signals and exits.  While it is traced, every system call stops twice   *)
(* ("entry", "exit"), and every signal stops it ("sigstop") before it is   *)
(* delivered.  Signals are looked at on the way back to user mode          *)
(* ("return"), where the registers still name the system call just made.   *)
(***************************************************************************)
EXTENDS MarkWrite, WaitStatus

CONSTANTS
  MaxCalls,    \* bound: system calls other than the last one, which exits
  MaxSignals,  \* bound: signals sent to the program
  WriteArgs,   \* the <<fd, buf, len>> the program passes to write
  Signals,     \* the signal numbers the program may be sent (SIGKILL apart)
  ExitCodes,   \* the codes it may exit with
  Env          \* what else may happen: a subset of EnvEvents

EnvEvents == {"fork", "traceme", "exec", "kill", "ptrace", "oom", "redirect", "crash"}
Bufs      == {"good", "short", "null"}
             \* every word of it can be read, only the first ones, none
Lens      == {HugeLen, 0, 2}

ASSUME BoundsAssumption  == MaxCalls \in Nat /\ MaxSignals \in Nat
ASSUME ArgsAssumption    == WriteArgs \subseteq (1 .. 3) \X Bufs \X Lens
ASSUME SignalsAssumption == Signals \subseteq 1 .. NSIG - 1
ASSUME CodesAssumption   == ExitCodes \subseteq 0 .. 255 /\ ExitCodes # {}
ASSUME EnvAssumption     == Env \subseteq EnvEvents

VARIABLES
  phase,    \* where the program is
  traced,   \* the tracer has not let go of it
  regs,     \* its registers: system call number, arguments, return value
  call,     \* the registers as the program itself last loaded them
  ncall,    \* how many system calls it has made: the id of the last one
  cfile,    \* the file each of its descriptors 1 and 2 leads to
  pending,  \* signals sent and not yet taken
  sent,     \* all that were sent, in order
  wstatus,  \* the status wait() has to report, once there is a stop or an end
  waited    \* it has been reported

traceeVars == <<phase, traced, regs, call, ncall, cfile, pending, sent,
                wstatus, waited>>

Stopped == {"entry", "exit", "sigstop"}
Dead    == {"zombie", "reaped", "nofork"}
Running == {"start", "traceme", "user", "kernel", "return"}
Phases  == Stopped \cup Dead \cup Running

Failed  == -14    \* -EFAULT and its like
NotYet  == -38    \* -ENOSYS: what the return register holds at entry

Regs   == [orig : {"none", "write", "other", "exit"}, arg1 : 0 .. 255,
           arg2 : Bufs, arg3 : Lens, ret : -38 .. 2]
NoRegs == [orig |-> "none", arg1 |-> 0, arg2 |-> "null", arg3 |-> 0, ret |-> 0]

TraceeInit ==
  /\ phase \in {"start"} \cup (IF "fork" \in Env THEN {"nofork"} ELSE {})
  /\ traced = TRUE /\ waited = FALSE /\ wstatus = 0
  /\ regs = NoRegs /\ call = NoRegs /\ ncall = 0
  /\ cfile = [fd \in StdFds |-> "tty"]
  /\ pending = {} /\ sent = << >>

-----------------------------------------------------------------------------
StopIn(p, sig) ==
  phase' = p /\ wstatus' = W_STOPCODE(sig) /\ waited' = FALSE

Die(status) ==
  phase' = "zombie" /\ wstatus' = status /\ waited' = FALSE

(* The program loads its registers with r and traps into the kernel.       *)
Trap(r) ==
  /\ phase = "user"
  /\ regs' = r /\ call' = r
  /\ IF traced THEN StopIn("entry", SIGTRAP)
               ELSE phase' = "kernel" /\ UNCHANGED <<wstatus, waited>>
  /\ UNCHANGED <<traced, cfile, pending, sent, out>>

Request(name, a1, a2, a3) ==
  [orig |-> name, arg1 |-> a1, arg2 |-> a2, arg3 |-> a3, ret |-> NotYet]

CallWrite ==
  /\ ncall < MaxCalls /\ ncall' = ncall + 1
  /\ \E a \in WriteArgs : Trap(Request("write", a[1], a[2], a[3]))

CallOther ==
  /\ ncall < MaxCalls /\ ncall' = ncall + 1
  /\ Trap(Request("other", 0, "null", 0))

CallExit ==
  /\ \E code \in ExitCodes : Trap(Request("exit", code, "null", 0))
  /\ UNCHANGED ncall

-----------------------------------------------------------------------------
(* What a write with registers r returns, and the bytes it puts out.       *)
WriteResult(r) ==
  CASE r.arg3 = 0                              -> 0
    [] r.arg3 = HugeLen \/ (r.arg2 = "null" /\ r.arg3 # 0) -> Failed
    [] r.arg2 = "short" /\ r.arg3 \notin {0, HugeLen} -> 1
    [] OTHER                                   -> r.arg3

CallItem(kind, fd) == [kind |-> kind, fd |-> fd, id |-> ncall, dest |-> cfile[fd]]

(* The kernel performs the system call, with the registers as they are now *)
(* (after an exit stop of a traced program, or on the way to user mode).   *)
Finished(result) ==
  /\ regs' = [regs EXCEPT !.ret = result]
  /\ IF traced THEN StopIn("exit", SIGTRAP)
               ELSE phase' = "return" /\ UNCHANGED <<wstatus, waited>>

KernelWrite ==
  /\ phase = "kernel" /\ regs.orig = "write"
  /\ Finished(WriteResult(regs))
  /\ out' = IF regs.arg1 \in StdFds /\ WriteResult(regs) > 0
            THEN RawWrite(out, CallItem("raw", regs.arg1)) ELSE out
  /\ UNCHANGED <<traced, call, ncall, cfile, pending, sent>>

(* Any other call, among them dup2 of a file over descriptor 1 or 2.       *)
KernelOther ==
  /\ phase = "kernel" /\ regs.orig = "other"
  /\ Finished(0)
  /\ \/ cfile' = cfile
     \/ /\ "redirect" \in Env
        /\ \E fd \in StdFds : cfile' = [cfile EXCEPT ![fd] = "file"]
  /\ UNCHANGED <<traced, call, ncall, pending, sent, out>>

KernelExit ==
  /\ phase = "kernel" /\ regs.orig = "exit"
  /\ Die(W_EXITCODE(regs.arg1, 0))
  /\ UNCHANGED <<traced, regs, call, ncall, cfile, pending, sent, out>>

-----------------------------------------------------------------------------
(* Signals.  A traced program stops for each pending one; the registers    *)
(* name the call just made (on the way out of the kernel) or none (taken   *)
(* in the middle of a computation).  An untraced one handles them.         *)
TakeSignal(r) ==
  IF traced
  THEN \E sig \in pending : /\ pending' = pending \ {sig}
                            /\ regs' = r
                            /\ StopIn("sigstop", sig)
  ELSE pending' = {} /\ phase' = "user" /\ UNCHANGED <<regs, wstatus, waited>>

SignalOnReturn ==
  /\ phase = "return" /\ pending # {}
  /\ TakeSignal(regs)
  /\ UNCHANGED <<traced, call, ncall, cfile, sent, out>>

SignalInUser ==
  /\ phase = "user" /\ pending # {}
  /\ TakeSignal([regs EXCEPT !.orig = "none"])
  /\ UNCHANGED <<traced, call, ncall, cfile, sent, out>>

ReturnToUser ==
  /\ phase = "return" /\ pending = {}
  /\ phase' = "user"
  /\ UNCHANGED <<traced, regs, call, ncall, cfile, pending, sent, wstatus, waited, out>>

SendSignal ==
  /\ Len(sent) < MaxSignals
  /\ phase \notin Dead \cup {"start", "traceme"}
  /\ \E sig \in Signals : pending' = pending \cup {sig} /\ sent' = Append(sent, sig)
  /\ UNCHANGED <<phase, traced, regs, call, ncall, cfile, wstatus, waited, out>>

(* SIGKILL ends the program wherever it is, in a ptrace stop too.          *)
Kill ==
  /\ "kill" \in Env /\ phase \notin Dead
  /\ Die(W_EXITCODE(0, SIGKILL))
  /\ UNCHANGED <<traced, regs, call, ncall, cfile, pending, sent, out>>

Program == CallWrite \/ CallOther \/ CallExit
Kernel  == KernelWrite \/ KernelOther \/ KernelExit
             \/ SignalOnReturn \/ SignalInUser \/ ReturnToUser

-----------------------------------------------------------------------------
(* PTRACE_SYSCALL with signal 0: the program goes on, and the signal it    *)
(* was stopped for is not delivered.  When the tracer exits, a stopped     *)
(* program goes on too; it handles such a signal itself then, or dies of   *)
(* it (Kill), and there are no more stops.                                 *)
Resumed(p) == CASE p = "entry"              -> "kernel"
                [] p \in {"exit", "sigstop"} -> "return"
                [] OTHER                    -> p
=============================================================================
