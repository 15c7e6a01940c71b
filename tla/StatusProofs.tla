---------------------------- MODULE StatusProofs ----------------------------
(***************************************************************************)
(* What wait() reports, what errmark makes of it and what it says at the   *)
(* end: no signal is lost but SIGTRAP and SIGCHLD, the exit code of the    *)
(* program becomes that of errmark, and --verbose tells what happened; for *)
(* all constants.                                                          *)
(***************************************************************************)
EXTENDS RunProgramProofs

USE DEF vars, traceeVars, tracerVars, programVars

-----------------------------------------------------------------------------
(* Nobody but the program changes its arguments, and a system call number  *)
(* that names write was loaded by the program.                             *)
CallArgs ==
  /\ regs.arg1 = call.arg1 /\ regs.arg2 = call.arg2
  /\ regs.orig = "write" => call.orig = "write"
  /\ phase \in {"start", "traceme", "nofork"} => call = NoRegs

(* A signal the program was sent.                                          *)
Caught(sig) == \E i \in 1 .. Len(sent) : sent[i] = sig

EndStatus ==
  {W_EXITCODE(0, SIGKILL), W_EXITCODE(0, SIGABRT),
   W_EXITCODE(IF call.orig = "exit" THEN call.arg1 ELSE 2, 0)}

(* The status says why the program stopped or how it ended, and no signal  *)
(* comes from nowhere.                                                     *)
StatusView ==
  /\ phase \in {"entry", "exit"} => wstatus = W_STOPCODE(SIGTRAP)
  /\ phase = "sigstop" =>
       \E sig \in 1 .. NSIG - 1 :
         (sig = SIGTRAP \/ Caught(sig)) /\ wstatus = W_STOPCODE(sig)
  /\ phase \in {"zombie", "reaped"} => wstatus \in EndStatus
  /\ \A sig \in pending : Caught(sig)

(* ptrace_cmd goes on only from a stop for SIGTRAP or SIGCHLD.             *)
HeldView == Live /\ pc \notin {"wait", "finish"} => OurStop(wstatus)

(* The status that ended the loop is the program's last one, or that of a  *)
(* stop for a signal it was sent.                                          *)
EndView ==
  /\ pc \notin {"finish"} \cup Final => phase = "reaped" \/ exit_status = 0
  /\ phase = "reaped" => exit_status = wstatus
  /\ exit_status # 0 /\ phase # "reaped" =>
       \E sig \in 1 .. NSIG - 1 : Caught(sig) /\ exit_status = W_STOPCODE(sig)
  /\ pc = "done" => exitcode = ExitCode(exit_status)

StatusInv == CallArgs /\ StatusView /\ HeldView /\ EndView /\ SignalsKept

-----------------------------------------------------------------------------
(* The arithmetic of wait statuses (sys/wait.h).                           *)
LEMMA StopCode ==
  ASSUME NEW sig \in 1 .. NSIG - 1
  PROVE  /\ WIFSTOPPED(W_STOPCODE(sig)) /\ WSTOPSIG(W_STOPCODE(sig)) = sig
         /\ ~WIFEXITED(W_STOPCODE(sig)) /\ ~WIFSIGNALED(W_STOPCODE(sig))
         /\ ExitCode(W_STOPCODE(sig)) = sig
         /\ ~WIFCONTINUED(W_STOPCODE(sig))
         /\ W_STOPCODE(sig) # 0 /\ W_STOPCODE(sig) % 256 # 0
BY DEF WIFCONTINUED, NSIG, W_STOPCODE, WIFSTOPPED, WSTOPSIG, WIFEXITED, WIFSIGNALED, WTERMSIG, ExitCode

LEMMA KilledCode ==
  ASSUME NEW sig \in {SIGKILL, SIGABRT}
  PROVE  /\ ~WIFSTOPPED(W_EXITCODE(0, sig)) /\ ~WIFEXITED(W_EXITCODE(0, sig))
         /\ WIFSIGNALED(W_EXITCODE(0, sig)) /\ WTERMSIG(W_EXITCODE(0, sig)) = sig
         /\ W_EXITCODE(0, sig) # 0 /\ W_EXITCODE(0, sig) % 256 # 0
         /\ ~WIFCONTINUED(W_EXITCODE(0, sig))
<1>1. W_EXITCODE(0, sig) \in {6, 9} /\ W_EXITCODE(0, sig) = sig
  BY DEF W_EXITCODE, SIGKILL, SIGABRT
<1> QED
  BY <1>1 DEF WIFCONTINUED, WIFSTOPPED, WIFEXITED, WIFSIGNALED, WTERMSIG

LEMMA ExitedCode ==
  ASSUME NEW code \in 0 .. 255
  PROVE  /\ ~WIFSTOPPED(W_EXITCODE(code, 0)) /\ WIFEXITED(W_EXITCODE(code, 0))
         /\ WEXITSTATUS(W_EXITCODE(code, 0)) = code
         /\ ExitCode(W_EXITCODE(code, 0)) = W_EXITCODE(code, 0) \div 256
         /\ ~WIFCONTINUED(W_EXITCODE(code, 0))
BY DEF WIFCONTINUED, W_EXITCODE, WIFSTOPPED, WIFEXITED, WIFSIGNALED, WTERMSIG,
       WEXITSTATUS, ExitCode

(* decode_signal_r gives every signal number a name of its own.            *)
LEMMA NamesDiffer ==
  ASSUME NEW a \in 1 .. NSIG - 1, NEW b \in 1 .. NSIG - 1, SignalName(a) = SignalName(b)
  PROVE  a = b
<1> DEFINE classic == 1 .. 31
           later   == SIGRTMIN .. NSIG - 1
<1>1. \A sig \in 1 .. NSIG - 1 : sig \notin classic \/ sig \notin later
  BY DEF SIGRTMIN, NSIG
<1> HIDE DEF classic, later
<1>2. ASSUME NEW sig \in 1 .. NSIG - 1, sig \in classic, sig \notin later
      PROVE  SignalName(sig) = <<"sys_siglist", sig>>
  BY <1>2, Zenon DEF SignalName, classic, later
<1>3. ASSUME NEW sig \in 1 .. NSIG - 1, sig \notin classic, sig \in later
      PROVE  SignalName(sig) = <<"real_time_signal", sig - SIGRTMIN>>
  BY <1>3, Zenon DEF SignalName, classic, later
<1>4. ASSUME NEW sig \in 1 .. NSIG - 1, sig \notin classic, sig \notin later
      PROVE  SignalName(sig) = <<"unknown_signal", sig>>
  BY <1>4, Zenon DEF SignalName, classic, later
<1>5. a \in Int /\ b \in Int
  BY DEF NSIG
<1> QED BY <1>1, <1>2, <1>3, <1>4, <1>5 DEF SIGRTMIN

(* fshow_wait_status tells a stop, a normal end and a death apart.         *)
LEMMA ReportStop ==
  ASSUME NEW sig \in 1 .. NSIG - 1
  PROVE  LET report == Report(W_STOPCODE(sig))
         IN  report.kind = "stopped" /\ report.num = sig /\ report.name = SignalName(sig)
<1> DEFINE status == W_STOPCODE(sig)
<1>1. /\ ~WIFEXITED(status) /\ ~WIFSIGNALED(status) /\ WIFSTOPPED(status)
      /\ ~WIFCONTINUED(status) /\ WSTOPSIG(status) = sig
  BY StopCode
<1> HIDE DEF status
<1>2. Report(status) = [kind |-> "stopped", num |-> WSTOPSIG(status),
                        name |-> SignalName(WSTOPSIG(status)), core |-> FALSE]
  BY <1>1, Zenon DEF Report
<1> QED BY <1>1, <1>2 DEF status

LEMMA ReportExited ==
  ASSUME NEW code \in 0 .. 255
  PROVE  LET report == Report(W_EXITCODE(code, 0))
         IN  report.kind = "exited" /\ report.num = code
<1> DEFINE status == W_EXITCODE(code, 0)
<1>1. /\ WIFEXITED(status) /\ ~WIFSTOPPED(status) /\ ~WIFCONTINUED(status)
      /\ WEXITSTATUS(status) = code
  BY ExitedCode
<1> HIDE DEF status
<1>2. Report(status) = [kind |-> "exited", num |-> WEXITSTATUS(status), name |-> << >>,
                        core |-> FALSE]
  BY <1>1, Zenon DEF Report
<1> QED BY <1>1, <1>2 DEF status

LEMMA ReportKilled ==
  ASSUME NEW sig \in {SIGKILL, SIGABRT}
  PROVE  LET report == Report(W_EXITCODE(0, sig))
         IN  report.kind = "killed" /\ report.name = SignalName(sig)
<1> DEFINE status == W_EXITCODE(0, sig)
<1>1. /\ ~WIFEXITED(status) /\ WIFSIGNALED(status) /\ ~WIFSTOPPED(status)
      /\ ~WIFCONTINUED(status) /\ WTERMSIG(status) = sig
  BY KilledCode
<1> HIDE DEF status
<1>2. Report(status) = [kind |-> "killed", num |-> WTERMSIG(status),
                        name |-> SignalName(WTERMSIG(status)), core |-> WCOREDUMP(status)]
  BY <1>1, Zenon DEF Report
<1> QED BY <1>1, <1>2 DEF status

(* How a program can end, in numbers.                                      *)
LEMMA EndStatusFacts ==
  ASSUME TypeOK, NEW status \in EndStatus
  PROVE  /\ ~WIFSTOPPED(status) /\ status \in Nat
         /\ \/ \E sig \in {SIGKILL, SIGABRT} : status = W_EXITCODE(0, sig)
            \/ \E code \in 0 .. 255 :
                 /\ status = W_EXITCODE(code, 0)
                 /\ code = IF call.orig = "exit" THEN call.arg1 ELSE 2
<1> DEFINE code == IF call.orig = "exit" THEN call.arg1 ELSE 2
<1>1. code \in 0 .. 255
  BY DEF TypeOK, TraceeTypeOK, Regs
<1> HIDE DEF code
<1>2. \/ \E sig \in {SIGKILL, SIGABRT} : status = W_EXITCODE(0, sig)
      \/ status = W_EXITCODE(code, 0)
  BY DEF EndStatus, code
<1>3. ~WIFSTOPPED(status)
  <2>1. \A sig \in {SIGKILL, SIGABRT} : ~WIFSTOPPED(W_EXITCODE(0, sig))
    BY KilledCode, Zenon
  <2>2. ~WIFSTOPPED(W_EXITCODE(code, 0))
    BY <1>1, ExitedCode, Zenon
  <2> QED BY <1>2, <2>1, <2>2, Zenon
<1>4. status \in Nat
  BY <1>1, <1>2 DEF W_EXITCODE, SIGKILL, SIGABRT
<1> QED BY <1>1, <1>2, <1>3, <1>4 DEF code

-----------------------------------------------------------------------------
(* What is known when the loop has ended is what the three properties say. *)
LEMMA ExitCodeFromStatus == TypeOK /\ StatusInv => ExitCodePassed
<1> SUFFICES ASSUME TypeOK, StatusInv, pc = "done", phase = "reaped", wstatus % 256 = 0
             PROVE  exitcode = wstatus \div 256
  BY DEF ExitCodePassed
<1>1. wstatus \in EndStatus /\ exitcode = ExitCode(wstatus)
  BY DEF StatusInv, StatusView, EndView
<1>2. PICK code \in 0 .. 255 : wstatus = W_EXITCODE(code, 0)
  <2>1. ASSUME NEW sig \in {SIGKILL, SIGABRT} PROVE wstatus # W_EXITCODE(0, sig)
    <3>1. W_EXITCODE(0, sig) % 256 # 0
      BY KilledCode, Zenon
    <3> QED BY <3>1
  <2>2. \/ \E sig \in {SIGKILL, SIGABRT} : wstatus = W_EXITCODE(0, sig)
        \/ \E code \in 0 .. 255 : wstatus = W_EXITCODE(code, 0)
    <3>1. wstatus \in EndStatus
      BY <1>1
    <3> QED BY <3>1, EndStatusFacts
  <2> QED BY <2>1, <2>2, Zenon
<1> QED BY <1>1, <1>2, ExitedCode, Zenon

LEMMA ReportFromStatus == TypeOK /\ StatusInv => ReportAgrees
<1> DEFINE report == Report(exit_status)
           Meant  == {sig \in 1 .. NSIG - 1 : SignalName(sig) = report.name}
<1> SUFFICES ASSUME TypeOK, StatusInv, pc = "done", exit_status # 0
             PROVE  \/ /\ report.kind = "exited" /\ phase = "reaped"
                       /\ report.num = IF call.orig = "exit" THEN call.arg1 ELSE 2
                    \/ /\ report.kind = "killed" /\ phase = "reaped"
                       /\ Meant \subseteq {SIGKILL, SIGABRT}
                    \/ /\ report.kind = "stopped" /\ exitcode = report.num
                       /\ \A sig \in Meant : Caught(sig)
  BY DEF ReportAgrees, Caught
<1>1. exitcode = ExitCode(exit_status)
  BY DEF StatusInv, EndView
<1>2. CASE phase = "reaped"
  <2>1. exit_status \in EndStatus
    BY <1>2 DEF StatusInv, StatusView, EndView
  <2>2. CASE \E sig \in {SIGKILL, SIGABRT} : exit_status = W_EXITCODE(0, sig)
    <3>1. PICK sig \in {SIGKILL, SIGABRT} : exit_status = W_EXITCODE(0, sig)
      BY <2>2
    <3>2. report.kind = "killed" /\ report.name = SignalName(sig)
      BY <3>1, ReportKilled
    <3>3. sig \in 1 .. NSIG - 1
      BY DEF SIGKILL, SIGABRT, NSIG
    <3>4. Meant \subseteq {sig}
      BY <3>2, <3>3, NamesDiffer
    <3> QED BY <1>2, <3>2, <3>4
  <2>3. CASE \E code \in 0 .. 255 :
               /\ exit_status = W_EXITCODE(code, 0)
               /\ code = IF call.orig = "exit" THEN call.arg1 ELSE 2
    <3>1. PICK code \in 0 .. 255 :
            /\ exit_status = W_EXITCODE(code, 0)
            /\ code = IF call.orig = "exit" THEN call.arg1 ELSE 2
      BY <2>3, Zenon
    <3>2. report.kind = "exited" /\ report.num = code
      BY <3>1, ReportExited
    <3> QED BY <1>2, <3>1, <3>2, Zenon
  <2> QED BY <2>1, <2>2, <2>3, EndStatusFacts
<1>3. CASE phase # "reaped"
  <2>1. PICK sig \in 1 .. NSIG - 1 : Caught(sig) /\ exit_status = W_STOPCODE(sig)
    BY <1>3 DEF StatusInv, EndView
  <2>2. report.kind = "stopped" /\ report.num = sig /\ report.name = SignalName(sig)
    BY <2>1, ReportStop
  <2>3. exitcode = sig
    BY <1>1, <2>1, StopCode
  <2>4. Meant \subseteq {sig}
    BY <2>2, NamesDiffer
  <2> QED BY <2>1, <2>2, <2>3, <2>4
<1> QED BY <1>2, <1>3

-----------------------------------------------------------------------------
(* The steps of the program, of the kernel and of others.                  *)
LEMMA SendStatus ==
  ASSUME LoopInv, StatusInv, SendSignal, UNCHANGED <<tracerVars, marked>>
  PROVE  StatusInv'
<1> USE DEF StatusInv
<1>1. PICK sig \in Signals : pending' = pending \cup {sig} /\ sent' = Append(sent, sig)
  BY DEF SendSignal
<1>2. /\ sent \in Seq(Signals)
      /\ UNCHANGED <<phase, traced, regs, call, wstatus, waited, pc, exit_status, exitcode>>
  BY DEF SendSignal, LoopInv, TypeOK, TraceeTypeOK
<1>3. /\ Len(sent') = Len(sent) + 1 /\ Len(sent) \in Nat /\ sent'[Len(sent) + 1] = sig
      /\ \A i \in 1 .. Len(sent) : sent'[i] = sent[i]
  BY <1>1, <1>2
<1>4. \A s \in 1 .. NSIG - 1 : Caught(s) => Caught(s)'
  BY <1>3 DEF Caught
<1>5. CallArgs' /\ HeldView'
  BY <1>2 DEF CallArgs, HeldView, Live
<1>6. Caught(sig)' /\ sig \in 1 .. NSIG - 1
  BY <1>3, SignalsAssumption DEF Caught
<1>7. \A s \in pending : s \in 1 .. NSIG - 1
  BY SignalsAssumption DEF LoopInv, TypeOK, TraceeTypeOK
<1>8. StatusView' /\ EndView'
  BY <1>1, <1>2, <1>4, <1>6, <1>7 DEF StatusView, EndView, EndStatus
<1>9. SignalsKept'
  <2> SUFFICES ASSUME Live, NEW i \in 1 .. Len(sent')
               PROVE  \/ sent'[i] \in pending' \cup {SIGTRAP, SIGCHLD}
                      \/ phase = "sigstop" /\ sent'[i] = WSTOPSIG(wstatus)
    BY <1>2 DEF SignalsKept, Live
  <2>1. CASE i \in 1 .. Len(sent)
    BY <1>1, <1>3, <2>1 DEF SignalsKept, Live
  <2>2. CASE i = Len(sent) + 1
    BY <1>1, <1>3, <2>2
  <2> QED BY <1>3, <2>1, <2>2
<1> QED BY <1>5, <1>8, <1>9

(* The program is dead.                                                    *)
LEMMA DieStatus ==
  ASSUME LoopInv, StatusInv, NEW status, status \in EndStatus, Die(status),
         phase # "reaped",
         UNCHANGED <<tracerVars, traced, regs, call, sent, pending>>
  PROVE  StatusInv'
BY DEF StatusInv, Die, CallArgs, StatusView, HeldView, EndView, SignalsKept, Live, Dead,
       EndStatus, Caught

LEMMA TrapStatus ==
  ASSUME LoopInv, StatusInv, NEW r, Trap(r), UNCHANGED <<tracerVars, marked>>
  PROVE  StatusInv'
<1> USE DEF StatusInv, Trap
<1>1. /\ phase = "user" /\ regs' = r /\ call' = r
      /\ UNCHANGED <<sent, pending, pc, exit_status, exitcode, traced>>
      /\ \/ traced /\ phase' = "entry" /\ wstatus' = W_STOPCODE(SIGTRAP) /\ waited' = FALSE
         \/ ~traced /\ phase' = "kernel" /\ UNCHANGED <<wstatus, waited>>
  BY DEF StopIn
<1>2. Live => pc = "wait"
  BY <1>1 DEF LoopInv, ControlInv, Lockstep, Live, Stopped
<1>3. CallArgs' /\ StatusView'
  BY <1>1 DEF CallArgs, StatusView, Caught
<1>4. EndView' /\ SignalsKept'
  BY <1>1 DEF EndView, SignalsKept, Caught, Dead
<1>5. HeldView'
  BY <1>1, <1>2 DEF HeldView, Live, Dead
<1> QED BY <1>3, <1>4, <1>5

LEMMA FinishedStatus ==
  ASSUME LoopInv, StatusInv, NEW n, Finished(n), phase = "kernel",
         UNCHANGED <<tracerVars, traced, call, sent, pending>>
  PROVE  StatusInv'
<1> USE DEF StatusInv, Finished
<1>1. /\ regs \in Regs /\ UNCHANGED <<pc, exit_status, exitcode>>
      /\ \/ traced /\ phase' = "exit" /\ wstatus' = W_STOPCODE(SIGTRAP) /\ waited' = FALSE
         \/ ~traced /\ phase' = "return" /\ UNCHANGED <<wstatus, waited>>
  BY DEF StopIn, LoopInv, TypeOK, TraceeTypeOK
<1>2. regs'.orig = regs.orig /\ regs'.arg1 = regs.arg1 /\ regs'.arg2 = regs.arg2
  BY <1>1 DEF Regs
<1>3. Live => pc = "wait"
  BY DEF LoopInv, ControlInv, Lockstep, Live, Stopped
<1>4. CallArgs' /\ StatusView'
  BY <1>1, <1>2 DEF CallArgs, StatusView, Caught
<1>5. EndView' /\ SignalsKept'
  BY <1>1 DEF EndView, SignalsKept, Caught, Dead
<1>6. HeldView'
  BY <1>1, <1>3 DEF HeldView, Live, Dead
<1> QED BY <1>4, <1>5, <1>6

(* A signal that is taken moves from pending to the status.                *)
LEMMA TakeStatus ==
  ASSUME LoopInv, StatusInv, NEW r, r \in {regs, [regs EXCEPT !.orig = "none"]},
         TakeSignal(r), phase \in {"return", "user"}, pending # {},
         UNCHANGED <<tracerVars, traced, call, sent>>
  PROVE  StatusInv'
<1> USE DEF StatusInv
<1>1. CASE ~traced
  BY <1>1 DEF TakeSignal, CallArgs, StatusView, HeldView, EndView, SignalsKept, Live, Caught
<1>2. CASE traced
  <2>1. PICK sig \in pending : /\ pending' = pending \ {sig} /\ regs' = r
                               /\ phase' = "sigstop" /\ wstatus' = W_STOPCODE(sig)
    BY <1>2 DEF TakeSignal, StopIn
  <2>2. regs \in Regs /\ sig \in 1 .. NSIG - 1 /\ traced' = traced
    BY <2>1, SignalsAssumption DEF LoopInv, TypeOK, TraceeTypeOK
  <2>3. WSTOPSIG(wstatus') = sig
    BY <2>1, <2>2, StopCode
  <2>4. pc = "wait"
    BY <1>2 DEF LoopInv, ControlInv, Lockstep, Live, Stopped, Dead
  <2>5. CallArgs'
    BY <2>1, <2>2 DEF CallArgs, Regs
  <2>6. Caught(sig)
    BY <2>1 DEF StatusView
  <2>7. StatusView'
    BY <2>1, <2>2, <2>6 DEF StatusView, Caught
  <2>8. HeldView' /\ EndView'
    BY <2>1, <2>4 DEF HeldView, EndView, Caught
  <2>9. SignalsKept'
    BY <1>2, <2>1, <2>3 DEF SignalsKept, Dead
  <2> QED BY <2>5, <2>7, <2>8, <2>9
<1> QED BY <1>1, <1>2

LEMMA WorldStatus ==
  ASSUME LoopInv, StatusInv, OfProgram \/ OfKernel \/ OfOthers \/ ChildTraceMe \/ ChildExec
  PROVE  StatusInv'
<1>1. CASE OfProgram
  BY <1>1, TrapStatus DEF OfProgram, Program, CallWrite, CallOther, CallExit
<1>2. CASE OfKernel
  <2>1. CASE KernelWrite \/ KernelOther
    BY <1>2, <2>1, FinishedStatus DEF OfKernel, KernelWrite, KernelOther
  <2>2. CASE KernelExit
    <3>1. call.orig = "exit" /\ regs.arg1 = call.arg1
      BY <2>2 DEF KernelExit, LoopInv, ControlInv, StopView, StatusInv, CallArgs
    <3>2. W_EXITCODE(regs.arg1, 0) \in EndStatus
      BY <3>1 DEF EndStatus
    <3> QED BY <1>2, <2>2, <3>2, DieStatus DEF OfKernel, KernelExit
  <2>3. CASE SignalOnReturn \/ SignalInUser
    BY <1>2, <2>3, TakeStatus DEF OfKernel, SignalOnReturn, SignalInUser
  <2>4. CASE ReturnToUser
    BY <1>2, <2>4 DEF OfKernel, ReturnToUser, StatusInv, CallArgs, StatusView, HeldView,
                      EndView, SignalsKept, Caught, Live, Dead
  <2> QED BY <1>2, <2>1, <2>2, <2>3, <2>4 DEF OfKernel, Kernel
<1>3. CASE OfOthers
  <2>1. W_EXITCODE(0, SIGKILL) \in EndStatus
    BY DEF EndStatus
  <2> QED BY <1>3, <2>1, SendStatus, DieStatus DEF OfOthers, Kill, Dead
<1>4. CASE ChildTraceMe
  <2>1. W_EXITCODE(0, SIGABRT) \in EndStatus
    BY DEF EndStatus
  <2>2. CASE phase' = "traceme" /\ UNCHANGED <<wstatus, waited>>
    BY <1>4, <2>2 DEF ChildTraceMe, StatusInv, CallArgs, StatusView, HeldView,
                      EndView, SignalsKept, Caught, Live, Dead
  <2> QED BY <1>4, <2>1, <2>2, DieStatus DEF ChildTraceMe
<1>5. CASE ChildExec
  <2>1. phase = "traceme" /\ call = NoRegs /\ UNCHANGED <<programVars, traced, tracerVars>>
    BY <1>5 DEF ChildExec, StatusInv, CallArgs
  <2>2. CASE traced /\ StopIn("sigstop", SIGTRAP) /\ regs' = Request("other", 0, "null", 0)
    <3>1. pc = "wait"
      BY <2>1, <2>2 DEF LoopInv, ControlInv, Lockstep, Stopped, Dead
    <3>2. CallArgs'
      BY <2>1, <2>2 DEF CallArgs, NoRegs, Request, StopIn
    <3>3. StatusView'
      <4>1. SIGTRAP \in 1 .. NSIG - 1
        BY DEF SIGTRAP, NSIG
      <4> QED BY <2>1, <2>2, <4>1 DEF StatusInv, StatusView, StopIn, Caught
    <3>4. HeldView' /\ EndView'
      BY <2>1, <2>2, <3>1 DEF StatusInv, HeldView, EndView, StopIn, Caught
    <3>5. SignalsKept'
      BY <2>1, <2>2 DEF StatusInv, SignalsKept, StopIn, Dead
    <3> QED BY <3>2, <3>3, <3>4, <3>5 DEF StatusInv
  <2>3. CASE ~traced /\ phase' = "user" /\ UNCHANGED <<regs, wstatus, waited>>
    BY <2>1, <2>3 DEF StatusInv, CallArgs, StatusView, HeldView,
                      EndView, SignalsKept, Caught, Live, Dead
  <2>4. CASE Die(W_EXITCODE(2, 0)) /\ UNCHANGED regs
    <3>1. W_EXITCODE(2, 0) \in EndStatus
      BY <2>1 DEF EndStatus, NoRegs
    <3> QED BY <2>1, <2>4, <3>1, DieStatus
  <2> QED BY <1>5, <2>2, <2>3, <2>4 DEF ChildExec
<1> QED BY <1>1, <1>2, <1>3, <1>4, <1>5

-----------------------------------------------------------------------------
(* The steps of errmark.                                                   *)
LEMMA WaitStatusStep ==
  ASSUME LoopInv, StatusInv, Wait
  PROVE  StatusInv'
<1> USE DEF StatusInv
<1>1. /\ pc = "wait"
      /\ UNCHANGED <<call, sent, pending, regs, traced, wstatus, exitcode>>
  BY DEF Wait
<1>2. CASE phase \in {"reaped", "nofork"} /\ Waited(0) /\ UNCHANGED <<phase, waited>>
  <2>1. pc' = "getregs" /\ exit_status' = exit_status
    BY <1>2 DEF Waited
  <2> QED BY <1>1, <1>2, <2>1 DEF CallArgs, StatusView, HeldView, EndView, SignalsKept,
                                  Caught, Live, Dead, EndStatus, Final
<1>3. CASE phase = "zombie" /\ phase' = "reaped" /\ Waited(wstatus)
  <2>1. wstatus \in EndStatus /\ exit_status = 0
    BY <1>1, <1>3 DEF StatusView, EndView, Final
  <2>2. ~WIFSTOPPED(wstatus) /\ wstatus \in Nat
    BY <2>1, EndStatusFacts DEF LoopInv
  <2>3. exit_status' = wstatus /\ pc' \in {"getregs", "finish"}
    BY <1>3, <2>1, <2>2 DEF Waited, OurStop
  <2> QED BY <1>1, <1>3, <2>1, <2>3 DEF CallArgs, StatusView, HeldView, EndView, SignalsKept,
                                        Caught, Live, Dead, EndStatus, Final
<1>4. CASE phase \in Stopped /\ phase' = phase /\ Waited(wstatus)
  <2>1. PICK sig \in 1 .. NSIG - 1 :
          (sig = SIGTRAP \/ Caught(sig)) /\ wstatus = W_STOPCODE(sig)
    <3>1. SIGTRAP \in 1 .. NSIG - 1
      BY DEF SIGTRAP, NSIG
    <3> QED BY <1>4, <3>1 DEF StatusView, Stopped
  <2>2. WIFSTOPPED(wstatus) /\ WSTOPSIG(wstatus) = sig /\ wstatus # 0
    BY <2>1, StopCode
  <2>3. \/ OurStop(wstatus) /\ pc' = "getregs" /\ exit_status' = exit_status
        \/ Caught(sig) /\ pc' = "finish" /\ exit_status' = wstatus
    BY <1>4, <2>1, <2>2 DEF Waited, OurStop
  <2>4. CallArgs' /\ StatusView' /\ SignalsKept' /\ HeldView'
    BY <1>1, <1>4, <2>3 DEF CallArgs, StatusView, HeldView, SignalsKept, Caught, Live,
                            Dead, EndStatus
  <2>5. EndView'
    BY <1>1, <1>4, <2>1, <2>3 DEF EndView, Caught, Stopped, Final
  <2> QED BY <2>4, <2>5
<1> QED BY <1>2, <1>3, <1>4 DEF Wait

(* The registers errmark sets are those it read, but for one.              *)
LEMMA SetRegsArgs ==
  ASSUME LoopInv, StatusInv, NEW r, SetRegs(r), pc \in {"nullify", "exit"},
         r \in {NoBytes(lregs), LengthReturned(lregs)}, UNCHANGED <<phase, call>>
  PROVE  CallArgs'
<1>1. lregs \in Regs /\ regs \in Regs
  BY DEF LoopInv, TypeOK, TraceeTypeOK, LoopTypeOK
<1>2. r.orig = lregs.orig /\ r.arg1 = lregs.arg1 /\ r.arg2 = lregs.arg2
  BY <1>1 DEF NoBytes, LengthReturned, Regs
<1>3. phase \in Stopped => lregs = regs
  BY DEF LoopInv, ControlInv, LocalView, HeldUntilEnd, Live, Final, Stopped, Dead
<1> QED BY <1>2, <1>3 DEF SetRegs, StatusInv, CallArgs

LEMMA QuietStatus ==
  ASSUME LoopInv, StatusInv,
         GetRegs \/ MarkEntry \/ Nullify \/ CopyToStdout \/ CopyBoth \/ ExitStop
  PROVE  StatusInv'
<1> USE DEF StatusInv, GetRegs, MarkEntry, EntryBody, Nullify, CopyToStdout, CopyBoth,
            ExitStop, ExitBody
<1>1. UNCHANGED <<call, sent, pending, phase, traced, wstatus, exitcode, exit_status>>
  OBVIOUS
<1>2. pc \notin {"wait", "finish"} \cup Final /\ pc' \notin {"wait"} \cup Final
  <2>1. Dispatch(lregs') \in {"resume", "entry", "exit"}
    BY LoopTypes DEF Dispatch
  <2> QED BY <2>1 DEF Final
<1>3. CallArgs'
  <2>1. CASE GetRegs \/ MarkEntry \/ CopyToStdout \/ CopyBoth
    BY <2>1 DEF CallArgs
  <2>2. CASE Nullify
    BY <1>1, <2>2, SetRegsArgs
  <2>3. CASE ExitStop
    BY <1>1, <2>3, SetRegsArgs
  <2> QED BY <2>1, <2>2, <2>3
<1>4. StatusView' /\ SignalsKept'
  BY <1>1 DEF StatusView, EndStatus, SignalsKept, Caught
<1>5. HeldView' /\ EndView'
  BY <1>1, <1>2 DEF HeldView, EndView, Live, Caught, Final
<1> QED BY <1>3, <1>4, <1>5

(* A signal stop that errmark resumes was one for SIGTRAP or SIGCHLD.      *)
LEMMA ResumeStatus ==
  ASSUME LoopInv, StatusInv, Resume
  PROVE  StatusInv'
<1> USE DEF StatusInv
<1>1. /\ pc = "resume" /\ pc' = "wait" /\ phase' = Resumed(phase)
      /\ UNCHANGED <<call, sent, pending, regs, traced, wstatus, exitcode, exit_status>>
  BY DEF Resume
<1>2. \/ phase = "entry" /\ phase' = "kernel"
      \/ phase \in {"exit", "sigstop"} /\ phase' = "return"
      \/ phase \notin Stopped /\ phase' = phase
  BY <1>1 DEF Resumed, Stopped
<1>3. Live => WSTOPSIG(wstatus) \in {SIGTRAP, SIGCHLD}
  BY <1>1 DEF HeldView, OurStop
<1>4. CallArgs' /\ StatusView' /\ HeldView'
  BY <1>1, <1>2 DEF CallArgs, StatusView, EndStatus, Caught, HeldView, Stopped
<1>5. EndView'
  BY <1>1, <1>2 DEF EndView, Caught, Final
<1>6. SignalsKept'
  BY <1>1, <1>2, <1>3 DEF SignalsKept, Live, Dead
<1> QED BY <1>4, <1>5, <1>6

LEMMA LetGoStatus ==
  ASSUME LoopInv, StatusInv, Finish \/ MallocFails \/ PtraceFails \/ ErrmarkKilled
  PROVE  StatusInv'
<1> USE DEF StatusInv
<1>1. /\ pc' \in Final /\ traced' = FALSE /\ phase' = Resumed(phase)
      /\ UNCHANGED <<call, sent, pending, regs, wstatus, exit_status>>
      /\ pc' = "done" => exitcode' = ExitCode(exit_status)
  BY DEF Finish, MallocFails, PtraceFails, ErrmarkKilled, LetGo, Final
<1>2. \/ phase = "entry" /\ phase' = "kernel"
      \/ phase \in {"exit", "sigstop"} /\ phase' = "return"
      \/ phase \notin Stopped /\ phase' = phase
  BY <1>1 DEF Resumed, Stopped
<1>3. CallArgs' /\ StatusView'
  BY <1>1, <1>2 DEF CallArgs, StatusView, EndStatus, Caught, Stopped
<1>4. HeldView' /\ EndView' /\ SignalsKept'
  BY <1>1, <1>2 DEF HeldView, EndView, SignalsKept, Live, Caught, Stopped
<1> QED BY <1>3, <1>4

-----------------------------------------------------------------------------
LEMMA InitStatus == Init => StatusInv
<1> SUFFICES ASSUME Init PROVE StatusInv
  OBVIOUS
<1>1. /\ phase \in {"start", "nofork"} /\ regs = NoRegs /\ call = NoRegs
      /\ pending = {} /\ sent = << >> /\ pc = "wait" /\ exit_status = 0
  BY DEF Init, TraceeInit, RunInit
<1>2. CallArgs /\ StatusView
  BY <1>1 DEF CallArgs, StatusView, NoRegs
<1> QED BY <1>1, <1>2 DEF StatusInv, HeldView, EndView, SignalsKept

LEMMA NextStatus == LoopInv /\ StatusInv /\ [Next]_vars => StatusInv'
<1> SUFFICES ASSUME LoopInv, StatusInv, [Next]_vars PROVE StatusInv'
  OBVIOUS
<1>1. CASE Tracer
  BY <1>1, WaitStatusStep, QuietStatus, ResumeStatus, LetGoStatus DEF Tracer
<1>2. CASE PtraceFails \/ ErrmarkKilled
  BY <1>2, LetGoStatus
<1>3. CASE OfProgram \/ OfKernel \/ OfOthers \/ ChildTraceMe \/ ChildExec
  BY <1>3, WorldStatus
<1>4. CASE UNCHANGED vars
  BY <1>4 DEF StatusInv, CallArgs, StatusView, HeldView, EndView, SignalsKept, Caught,
              Live, EndStatus
<1> QED BY <1>1, <1>2, <1>3, <1>4 DEF Next, Terminated

(* What errmark was told by wait() agrees with what became of the program. *)
THEOREM StatusInvariant == Spec => []StatusInv
<1>1. Init => StatusInv
  BY InitStatus
<1> QED BY <1>1, NextStatus, LoopInvariant, PTL DEF Spec

(* PTRACE_SYSCALL with signal 0 swallows SIGTRAP and SIGCHLD and no other  *)
(* signal, whatever is sent to the program and whenever.                   *)
THEOREM SignalsKeptHolds == Spec => []SignalsKept
<1>1. StatusInv => SignalsKept
  BY DEF StatusInv
<1> QED BY <1>1, StatusInvariant, PTL

(* exit(child_status >> 8) in main: for every exit code, 0 and those of a  *)
(* program that could not be run among them.                               *)
THEOREM ExitCodePassedHolds == Spec => []ExitCodePassed
<1> QED BY TypeCorrect, StatusInvariant, ExitCodeFromStatus, PTL

(* fshow_wait_status names the exit code, the signal the program died of   *)
(* or a signal it was sent, and no two signals have the same name.         *)
THEOREM ReportAgreesHolds == Spec => []ReportAgrees
<1> QED BY TypeCorrect, StatusInvariant, ReportFromStatus, PTL

-----------------------------------------------------------------------------
(* Which signal stop can be mistaken for one of a write: the one after     *)
(* execve() is told apart by its system call number, and any other was a   *)
(* signal the program was sent.  errmark goes on from it only when that    *)
(* was SIGTRAP or SIGCHLD, so flips counts stops for those two only.       *)
SignalStopView ==
  phase = "sigstop" =>
    regs.orig = "other" \/ \E sig \in Signals : wstatus = W_STOPCODE(sig)

Harmless     == Signals \cap {SIGTRAP, SIGCHLD} = {}
MistakenView == Harmless => flips = 0
MistakenInv  == SignalStopView /\ MistakenView

(* At the two places where a stop is taken for one of a write.             *)
LEMMA NotMistaken ==
  ASSUME LoopInv, StatusInv, SignalStopView, Harmless, pc \in {"entry", "exit"}
  PROVE  phase # "sigstop"
<1> SUFFICES ASSUME phase = "sigstop" PROVE FALSE
  OBVIOUS
<1>1. Live /\ lregs = regs /\ lregs.orig = "write"
  BY DEF LoopInv, ControlInv, HeldUntilEnd, LocalView, Live, Final, Dead
<1>2. PICK sig \in Signals : wstatus = W_STOPCODE(sig)
  BY <1>1 DEF SignalStopView
<1>3. WSTOPSIG(wstatus) = sig
  BY <1>2, SignalsAssumption, StopCode
<1>4. WSTOPSIG(wstatus) \in {SIGTRAP, SIGCHLD}
  BY <1>1 DEF StatusInv, HeldView, OurStop
<1> QED BY <1>3, <1>4 DEF Harmless

LEMMA WorldMistaken ==
  ASSUME LoopInv, StatusInv, MistakenInv,
         OfProgram \/ OfKernel \/ OfOthers \/ ChildTraceMe \/ ChildExec
  PROVE  MistakenInv'
<1> USE DEF MistakenInv
<1>1. MistakenView'
  BY DEF MistakenView, OfProgram, OfKernel, OfOthers, ChildTraceMe, ChildExec
<1>2. CASE OfProgram \/ OfOthers \/ ChildTraceMe
  <2>1. \/ phase' # "sigstop"
        \/ UNCHANGED <<phase, regs, wstatus>>
    BY <1>2 DEF OfProgram, Program, CallWrite, CallOther, CallExit, Trap, StopIn,
                OfOthers, SendSignal, Kill, Die, ChildTraceMe
  <2> QED BY <1>1, <2>1 DEF SignalStopView
<1>3. CASE OfKernel
  <2>1. CASE KernelWrite \/ KernelOther \/ KernelExit \/ ReturnToUser
    <3>1. phase' # "sigstop"
      BY <2>1 DEF KernelWrite, KernelOther, KernelExit, ReturnToUser, Finished, StopIn, Die
    <3> QED BY <1>1, <3>1 DEF SignalStopView
  <2>2. CASE SignalOnReturn \/ SignalInUser
    <3>1. phase' # "sigstop" \/ \E sig \in pending : wstatus' = W_STOPCODE(sig)
      BY <2>2 DEF SignalOnReturn, SignalInUser, TakeSignal, StopIn
    <3>2. pending \subseteq Signals
      BY DEF LoopInv, TypeOK, TraceeTypeOK
    <3> QED BY <1>1, <3>1, <3>2 DEF SignalStopView
  <2> QED BY <1>3, <2>1, <2>2 DEF OfKernel, Kernel
<1>4. CASE ChildExec
  <2>1. phase' # "sigstop" \/ regs' = Request("other", 0, "null", 0)
    BY <1>4 DEF ChildExec, StopIn, Die
  <2> QED BY <1>1, <2>1 DEF SignalStopView, Request
<1> QED BY <1>2, <1>3, <1>4

LEMMA TracerMistaken ==
  ASSUME LoopInv, StatusInv, MistakenInv, Tracer \/ PtraceFails \/ ErrmarkKilled
  PROVE  MistakenInv'
<1> USE DEF MistakenInv
<1>1. CASE MarkEntry \/ ExitStop
  <2>1. /\ pc \in {"entry", "exit"} /\ UNCHANGED <<phase, wstatus>>
        /\ flips' = flips + (IF phase = "sigstop" THEN 1 ELSE 0)
    BY <1>1 DEF MarkEntry, EntryBody, ExitStop, ExitBody, CountFlip
  <2>2. MistakenView'
    <3> SUFFICES ASSUME Harmless PROVE flips' = 0
      BY DEF MistakenView, Harmless
    <3>1. phase # "sigstop"
      BY <2>1, NotMistaken
    <3> QED BY <2>1, <3>1 DEF MistakenView
  <2>3. (lregs = regs /\ lregs.orig = "write") \/ phase # "sigstop"
    BY <2>1 DEF LoopInv, ControlInv, HeldUntilEnd, LocalView, Live, Final, Dead
  <2> QED BY <2>1, <2>2, <2>3 DEF SignalStopView
<1>2. CASE Nullify
  <2>1. pc = "nullify" /\ UNCHANGED <<phase, wstatus, flips>>
    BY <1>2 DEF Nullify
  <2>2. (lregs = regs /\ lregs.orig = "write") \/ phase # "sigstop"
    BY <2>1 DEF LoopInv, ControlInv, HeldUntilEnd, LocalView, Live, Final, Dead
  <2> QED BY <2>1, <2>2 DEF SignalStopView, MistakenView, Harmless
<1>3. CASE Wait \/ GetRegs \/ CopyToStdout \/ CopyBoth \/ MallocFails \/ Resume \/ Finish
             \/ PtraceFails \/ ErrmarkKilled
  <2>1. flips' = flips /\ regs' = regs /\ wstatus' = wstatus
    BY <1>3 DEF Wait, GetRegs, CopyToStdout, CopyBoth, MallocFails, Resume, Finish,
                PtraceFails, ErrmarkKilled, LetGo
  <2>2. phase' \in {phase, Resumed(phase), "reaped"}
    BY <1>3 DEF Wait, GetRegs, CopyToStdout, CopyBoth, MallocFails, Resume, Finish,
                PtraceFails, ErrmarkKilled, LetGo
  <2>3. phase' = "sigstop" => phase = "sigstop"
    BY <2>2 DEF Resumed
  <2> QED BY <2>1, <2>3 DEF SignalStopView, MistakenView, Harmless
<1> QED BY <1>1, <1>2, <1>3 DEF Tracer

(* SignalStopView names the stops that can be taken for one of a write.    *)
THEOREM MistakenInvariant == Spec => []MistakenInv
<1>1. Init => MistakenInv
  BY DEF Init, TraceeInit, RunInit, MistakenInv, SignalStopView, MistakenView
<1>2. LoopInv /\ StatusInv /\ MistakenInv /\ [Next]_vars => MistakenInv'
  <2> SUFFICES ASSUME LoopInv, StatusInv, MistakenInv, [Next]_vars PROVE MistakenInv'
    OBVIOUS
  <2>1. CASE UNCHANGED vars
    BY <2>1 DEF MistakenInv, SignalStopView, MistakenView, Harmless
  <2> QED BY <2>1, WorldMistaken, TracerMistaken DEF Next, Terminated
<1> QED BY <1>1, <1>2, LoopInvariant, StatusInvariant, PTL DEF Spec

(* How far the finding EntryIsEntry reaches: the comment at                *)
(* run-program.c:152-156 is true of every program that is sent neither     *)
(* SIGTRAP nor SIGCHLD, whatever else it is sent and however errmark ends. *)
(* So is all that the properties of RunProgramProps say of flips = 0.      *)
THEOREM HarmlessEntryIsEntry == Spec => [](Harmless => flips = 0 /\ EntryIsEntry)
<1>1. MistakenInv /\ EntryMeansEntry => (Harmless => flips = 0 /\ EntryIsEntry)
  BY DEF MistakenInv, MistakenView, EntryMeansEntry, EntryIsEntry
<1> QED BY <1>1, MistakenInvariant, EntryMeansEntryHolds, PTL
=============================================================================
