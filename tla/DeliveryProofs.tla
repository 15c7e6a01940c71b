--------------------------- MODULE DeliveryProofs ---------------------------
(***************************************************************************)
(* What the program wrote and what it is told: the return value it sees,   *)
(* the bytes that are on the terminal by then, and their order; for all    *)
(* constants.                                                              *)
(***************************************************************************)
EXTENDS StatusProofs

USE DEF vars, traceeVars, tracerVars, programVars

-----------------------------------------------------------------------------
(* The registers in a write to 1 or 2, until a signal stop is mistaken.    *)
StdWrite == call.orig = "write" /\ call.arg1 \in StdFds

(* The length is 0 from PTRACE_SETREGS at the entry on: the kernel has     *)
(* nothing to write, and a signal stop with stale registers nothing to     *)
(* copy.                                                                   *)
NullView ==
  traced /\ flips = 0 /\ StdWrite
  /\ (\/ phase \in {"kernel", "exit", "return", "user", "sigstop"}
      \/ phase = "entry" /\ pc \in {"copy", "resume"})
  => regs.arg3 = 0

(* The return value is the length from PTRACE_SETREGS at the exit on.      *)
RetView ==
  traced /\ flips = 0 /\ StdWrite
  /\ (\/ phase \in {"return", "user", "sigstop"}
      \/ phase = "exit" /\ pc = "resume")
  => regs.ret = call.arg3

AnswerInv == NullView /\ RetView

LEMMA WorldAnswer ==
  ASSUME LoopInv, StatusInv, AnswerInv,
         OfProgram \/ OfKernel \/ OfOthers \/ ChildTraceMe \/ ChildExec
  PROVE  AnswerInv'
<1> USE DEF AnswerInv, NullView, RetView, StdWrite
<1>1. flips' = flips /\ pc' = pc /\ traced' = traced /\ regs \in Regs
  BY DEF OfProgram, Program, CallWrite, CallOther, CallExit, Trap, OfKernel, Kernel,
         KernelWrite, KernelOther, KernelExit, SignalOnReturn, SignalInUser, ReturnToUser,
         OfOthers, SendSignal, Kill, ChildTraceMe, ChildExec, LoopInv, TypeOK, TraceeTypeOK
<1>2. traced /\ phase \notin Stopped \cup Dead => pc = "wait"
  BY DEF LoopInv, ControlInv, Lockstep
<1>3. CASE OfProgram
  <2>1. PICK r : Trap(r)
    BY <1>3 DEF OfProgram, Program, CallWrite, CallOther, CallExit
  <2>2. traced => phase' = "entry" /\ pc = "wait"
    BY <1>2, <2>1 DEF Trap, StopIn, Stopped, Dead
  <2> QED BY <1>1, <2>2
<1>4. CASE OfKernel
  <2>1. CASE KernelWrite \/ KernelOther
    <3>1. PICK n : Finished(n)
      BY <2>1 DEF KernelWrite, KernelOther
    <3>2. phase = "kernel" /\ call' = call /\ (traced => phase' = "exit" /\ pc = "wait")
      BY <1>2, <2>1, <3>1 DEF KernelWrite, KernelOther, Finished, StopIn, Stopped, Dead
    <3>3. regs'.arg3 = regs.arg3
      BY <1>1, <3>1 DEF Finished, Regs
    <3> QED BY <1>1, <3>2, <3>3
  <2>2. CASE KernelExit
    BY <2>2 DEF KernelExit, Die
  <2>3. CASE SignalOnReturn \/ SignalInUser
    <3>1. PICK r \in {regs, [regs EXCEPT !.orig = "none"]} : TakeSignal(r)
      BY <2>3 DEF SignalOnReturn, SignalInUser
    <3>2. r.arg3 = regs.arg3 /\ r.ret = regs.ret
      BY <1>1, <3>1 DEF Regs
    <3>3. call' = call /\ phase \in {"return", "user"} /\ (traced => regs' = r)
      BY <2>3, <3>1 DEF SignalOnReturn, SignalInUser, TakeSignal
    <3> QED BY <1>1, <3>2, <3>3
  <2>4. CASE ReturnToUser
    BY <1>1, <2>4 DEF ReturnToUser
  <2> QED BY <1>4, <2>1, <2>2, <2>3, <2>4 DEF OfKernel, Kernel
<1>5. CASE OfOthers
  BY <1>1, <1>5 DEF OfOthers, SendSignal, Kill, Die
<1>6. CASE ChildTraceMe
  BY <1>1, <1>6 DEF ChildTraceMe, Die
<1>7. CASE ChildExec
  <2>1. call.orig # "write" /\ call' = call
    BY <1>7 DEF ChildExec, StatusInv, CallArgs, NoRegs
  <2> QED BY <2>1
<1> QED BY <1>3, <1>4, <1>5, <1>6, <1>7

(* A write stop is not passed over: what follows from PTRACE_GETREGS at    *)
(* the entry of a write to 1 or 2 is the marking, at its exit the answer.  *)
LEMMA NotPassedOver ==
  ASSUME LoopInv, GetRegs \/ MarkEntry, StatusInv, traced, flips' = 0, StdWrite,
         phase \in {"entry", "exit"}
  PROVE  pc' # "resume"
<1>1. CASE GetRegs
  <2>1. lregs' = regs /\ regs.orig = "write"
    BY <1>1 DEF GetRegs, Stopped, LoopInv, ControlInv, StopView, StdWrite
  <2>2. Dispatch(lregs') # "resume"
    BY <2>1, LoopTypes DEF Dispatch
  <2> QED BY <1>1, <2>2 DEF GetRegs
<1>2. CASE MarkEntry
  <2>1. pc = "entry" /\ Live /\ flips = 0
    BY <1>2, LoopTypes DEF MarkEntry, EntryBody, CountFlip, Live, Dead
  <2>2. toggle = 0 /\ lregs = regs
    BY <2>1 DEF LoopInv, ControlInv, LocalView
  <2>3. ~InWrite
    BY <2>1, <2>2 DEF LoopInv, ControlInv, ToggleParity, Live
  <2>4. lregs.arg1 \in StdFds
    BY <2>2 DEF StatusInv, CallArgs, StdWrite
  <2> QED BY <1>2, <2>1, <2>4 DEF MarkEntry, EntryBody, TracedStd, Call
<1> QED BY <1>1, <1>2

LEMMA TracerAnswer ==
  ASSUME LoopInv, StatusInv, AnswerInv, Tracer \/ PtraceFails \/ ErrmarkKilled
  PROVE  AnswerInv'
<1> USE DEF AnswerInv, NullView, RetView, StdWrite
<1>1. call' = call /\ regs \in Regs /\ lregs \in Regs /\ flips \in Nat
  BY DEF LoopInv, TypeOK, TraceeTypeOK, LoopTypeOK, Tracer, Wait, GetRegs, MarkEntry,
         EntryBody, Nullify, CopyToStdout, CopyBoth, MallocFails, ExitStop, ExitBody, Resume,
         Finish, PtraceFails, ErrmarkKilled, LetGo
<1>2. CASE Wait
  BY <1>1, <1>2 DEF Wait, Waited
<1>3. CASE GetRegs \/ MarkEntry
  <2> SUFFICES ASSUME traced, flips' = 0, StdWrite PROVE AnswerInv'
    BY <1>1, <1>3 DEF GetRegs, MarkEntry, EntryBody
  <2>1. phase \in {"entry", "exit"} => pc' # "resume"
    BY <1>3, NotPassedOver
  <2>2. flips = 0 /\ UNCHANGED <<phase, regs, traced>> /\ pc' # "copy"
    <3>1. Dispatch(lregs') # "copy"
      BY LoopTypes DEF Dispatch
    <3>2. CASE GetRegs
      BY <3>1, <3>2 DEF GetRegs
    <3>3. CASE MarkEntry
      BY <3>3, LoopTypes DEF MarkEntry, EntryBody, CountFlip
    <3> QED BY <1>3, <3>2, <3>3
  <2> QED BY <1>1, <2>1, <2>2
<1>4. CASE Nullify
  <2> SUFFICES ASSUME traced, flips = 0, StdWrite, phase \notin Dead PROVE AnswerInv'
    BY <1>1, <1>4 DEF Nullify, Dead
  <2>1. pc = "nullify" /\ Live /\ toggle = 1 /\ phase \in Stopped /\ Noticed /\ lregs = regs
    BY <1>4 DEF Nullify, LoopInv, ControlInv, LocalView, Lockstep, Live, Noticed
  <2>2. phase = "entry" /\ regs' = NoBytes(regs) /\ pc' = "copy" /\ phase' = phase
    BY <1>4, <2>1, HeldInWrite DEF Nullify, SetRegs
  <2> QED BY <1>1, <2>2 DEF NoBytes, Regs, Lens
<1>5. CASE CopyToStdout \/ CopyBoth
  <2> SUFFICES ASSUME traced, flips = 0, StdWrite, phase \notin Dead PROVE AnswerInv'
    BY <1>1, <1>5 DEF CopyToStdout, CopyBoth, Dead
  <2>1. pc = "copy" /\ pc' = "resume" /\ UNCHANGED <<phase, regs, flips, traced>>
    BY <1>5 DEF CopyToStdout, CopyBoth
  <2>2. Live /\ toggle = 1 /\ phase \in Stopped /\ Noticed
    BY <2>1 DEF LoopInv, ControlInv, LocalView, Lockstep, Live, Noticed
  <2>3. phase = "entry"
    BY <2>2, HeldInWrite
  <2> QED BY <1>1, <2>1, <2>3
<1>6. CASE ExitStop
  <2> SUFFICES ASSUME traced, flips' = 0, StdWrite, phase \notin Dead PROVE AnswerInv'
    BY <1>1, <1>6 DEF ExitStop, ExitBody, Dead
  <2>1. /\ pc = "exit" /\ pc' = "resume" /\ phase' = phase /\ flips = 0
        /\ SetRegs(LengthReturned(lregs))
    BY <1>6, LoopTypes DEF ExitStop, ExitBody, CountFlip
  <2>2. Live /\ toggle = 1 /\ phase \in Stopped /\ ~Noticed /\ lregs = regs
    BY <2>1 DEF LoopInv, ControlInv, LocalView, Lockstep, Live, Noticed
  <2>3. phase = "exit" /\ wcall = Call(call)
    BY <2>1, <2>2, HeldInWrite, LoopTypes DEF Stopped
  <2>4. regs' = [regs EXCEPT !.ret = call.arg3]
    BY <2>1, <2>2, <2>3 DEF SetRegs, LengthReturned, TracedStd, Call
  <2> QED BY <1>1, <2>1, <2>3, <2>4 DEF Regs
<1>7. CASE Resume
  BY <1>1, <1>7 DEF Resume, Resumed
<1>8. CASE MallocFails \/ Finish \/ PtraceFails \/ ErrmarkKilled
  BY <1>8 DEF MallocFails, Finish, PtraceFails, ErrmarkKilled, LetGo
<1> QED BY <1>2, <1>3, <1>4, <1>5, <1>6, <1>7, <1>8 DEF Tracer

LEMMA NextAnswer == LoopInv /\ StatusInv /\ AnswerInv /\ [Next]_vars => AnswerInv'
<1> SUFFICES ASSUME LoopInv, StatusInv, AnswerInv, [Next]_vars PROVE AnswerInv'
  OBVIOUS
<1>1. UNCHANGED vars => AnswerInv'
  BY DEF AnswerInv, NullView, RetView, StdWrite
<1> QED BY <1>1, WorldAnswer, TracerAnswer DEF Next, Terminated

(* The two PTRACE_SETREGS of ptrace_cmd hold until the next system call.   *)
THEOREM AnswerInvariant == Spec => []AnswerInv
<1>1. Init => AnswerInv
  BY DEF Init, TraceeInit, AnswerInv, NullView, RetView, StdWrite, NoRegs
<1> QED BY <1>1, NextAnswer, LoopInvariant, StatusInvariant, PTL DEF Spec

(* A program whose write of 0 bytes comes back is told that all of the     *)
(* bytes it asked for were written (run-program.c:186-193).                *)
THEOREM FakeReturnHolds == Spec => []FakeReturn
<1>1. AnswerInv => FakeReturn
  BY DEF AnswerInv, RetView, StdWrite, FakeReturn, Returned, Back
<1> QED BY <1>1, AnswerInvariant, PTL

(* What errmark leaves in the registers (run-program.c:163, 192): every    *)
(* write to 1 or 2 comes back with the length register at 0, which it does *)
(* not restore, the length as the return value, and the other arguments as *)
(* the program loaded them.                                                *)
THEOREM RegsAfterWrite ==
  Spec => [](Returned => /\ regs.arg1 = call.arg1 /\ regs.arg2 = call.arg2
                         /\ regs.arg3 = 0 /\ regs.ret = call.arg3)
<1>1. AnswerInv /\ StatusInv
        => (Returned => /\ regs.arg1 = call.arg1 /\ regs.arg2 = call.arg2
                        /\ regs.arg3 = 0 /\ regs.ret = call.arg3)
  BY DEF AnswerInv, NullView, RetView, StdWrite, Returned, Back, StatusInv, CallArgs
<1> QED BY <1>1, AnswerInvariant, StatusInvariant, PTL

-----------------------------------------------------------------------------
(* The order in which things come out.                                     *)

(* The program is in a write, or errmark takes it to be in one, of which   *)
(* something may still come out: before its length is set to 0, or         *)
(* untouched by errmark, or from registers that errmark still holds.       *)
ToCome ==
  \/ call.orig = "write" /\ phase = "entry" /\ pc \notin Final \cup {"resume"}
  \/ phase = "kernel" /\ regs.orig = "write" /\ regs.arg1 \in StdFds /\ regs.arg3 # 0
  \/ pc = "entry" /\ lregs.arg1 \in StdFds /\ lregs.arg3 # 0
  \/ pc \in {"nullify", "copy"} /\ wcall.len # 0
  \/ pc \notin Final /\ ~child_exited /\ lregs.arg3 # 0

(* As long as something may come out of the current system call, nothing   *)
(* has; what has come out is of earlier calls and in their order.          *)
OrderView ==
  flips = 0 => /\ UpTo(out, ncall) /\ Rising(out)
               /\ ToCome => Before(out, ncall)

OrderInv == /\ OrderView
            /\ pc = "copy" => lregs.arg3 = 0
            /\ pc \in Final => out.outbuf = << >>

(* A step that puts nothing out, or one after which nothing may follow.    *)
LEMMA OrderQuiet ==
  ASSUME TypeOK, TypeOK', OrderView, Within(out', out), flips' = 0 => flips = 0,
         ncall' = ncall, flips = 0 /\ flips' = 0 /\ ToCome' => ToCome
  PROVE  OrderView'
<1>1. out \in OutType /\ out' \in OutType /\ ncall \in Nat
  BY DEF TypeOK, TraceeTypeOK, OutTypeOK
<1>2. /\ Rising(out) => Rising(out')
      /\ UpTo(out, ncall) => UpTo(out', ncall)
      /\ Before(out, ncall) => Before(out', ncall)
  BY <1>1, OrderWithin
<1> QED BY <1>2 DEF OrderView, UpTo, Before, Rising

LEMMA OrderOut ==
  ASSUME TypeOK, TypeOK', OrderView, ToCome, flips' = 0 => flips = 0, ncall' = ncall,
         NEW kind \in Kinds, NEW fd \in StdFds, OneMore(out', out, CallItem(kind, fd)),
         flips' = 0 => ~ToCome'
  PROVE  OrderView'
<1> DEFINE item == CallItem(kind, fd)
<1>1. out \in OutType /\ out' \in OutType /\ item \in Item /\ item.id = ncall
  BY ItemFacts DEF TypeOK, TraceeTypeOK, OutTypeOK, CallItem
<1> HIDE DEF item
<1>2. flips = 0 => Rising(out) /\ Before(out, item.id)
  BY <1>1 DEF OrderView
<1>3. OneMore(out', out, item)
  BY DEF item
<1>4. flips = 0 => Rising(out') /\ UpTo(out', item.id)
  BY <1>1, <1>2, <1>3, OrderOneMore
<1> QED BY <1>1, <1>4 DEF OrderView, UpTo, Rising

(* Nothing moves, or errmark's marks flush the buffer.                     *)
LEMMA WithinFacts ==
  ASSUME TypeOK
  PROVE  /\ Within(out, out)
         /\ Within(MarkCloseIfOpen(out), out)
         /\ Within(Flush(out), out)
         /\ Moved(MarkCloseIfOpen(out), out)
         /\ MarkCloseIfOpen(out) \in OutType
<1>1. out \in OutType /\ marked \subseteq StdFds
  BY DEF TypeOK, OutTypeOK
<1>2. Moved(out, out) /\ Moved(Flush(out), out) /\ Flush(out) \in OutType
  BY <1>1, FlushType DEF Moved
<1>3. Moved(MarkCloseIfOpen(out), out) /\ MarkCloseIfOpen(out) \in OutType
  BY <1>1, <1>2, MarkOpenCloseMoved, MarkOpenCloseType DEF MarkCloseIfOpen
<1> QED BY <1>1, <1>2, <1>3, MovedFacts

LEMMA NothingWritten ==
  ASSUME NEW r, r.arg3 = 0
  PROVE  ~(WriteResult(r) > 0)
<1>1. WriteResult(r) = 0
  BY DEF WriteResult, HugeLen, Failed
<1> QED BY <1>1

(* The program's steps: only the kernel puts something out, and only when  *)
(* errmark is gone; the next call has a higher id than all of that.        *)
LEMMA WorldOrder ==
  ASSUME LoopInv, TypeOK', StatusInv, AnswerInv, OrderInv,
         OfProgram \/ OfKernel \/ OfOthers \/ ChildTraceMe \/ ChildExec
  PROVE  OrderInv'
<1>1. /\ UNCHANGED <<pc, flips, lregs, wcall, child_exited>>
      /\ TypeOK /\ (pc \in Final <=> ~traced) /\ out \in OutType
  BY DEF OfProgram, OfKernel, OfOthers, ChildTraceMe, ChildExec, LoopInv, ControlInv,
         HeldUntilEnd, TypeOK, OutTypeOK
<1>2. CASE OfProgram
  <2>1. PICK r : Trap(r) /\ (ncall' = ncall + 1 \/ (ncall' = ncall /\ r.orig = "exit"))
    <3>1. CASE CallWrite \/ CallOther
      BY <3>1 DEF CallWrite, CallOther
    <3>2. CASE CallExit
      <4>1. PICK code : Trap(Request("exit", code, "null", 0))
        BY <3>2 DEF CallExit
      <4> QED BY <3>2, <4>1 DEF CallExit, Request
    <3> QED BY <1>2, <3>1, <3>2 DEF OfProgram, Program
  <2>2. out' = out /\ ncall \in Nat /\ call' = r /\ regs' = r
    BY <1>1, <2>1 DEF Trap, TypeOK, TraceeTypeOK
  <2>3. CASE ncall' = ncall + 1
    <3>1. UpTo(out, ncall) => UpTo(out, ncall + 1) /\ Before(out, ncall + 1)
      <4> DEFINE o == Issued(out)
      <4>1. \A i \in 1 .. Len(o) : o[i].id \in Nat
        BY <1>1, IdsNat
      <4>2. \A x \in Nat : x <= ncall => x <= ncall + 1 /\ x < ncall + 1
        BY <2>2
      <4> HIDE DEF o
      <4> QED BY <4>1, <4>2, Zenon DEF UpTo, Before, o
    <3> QED BY <1>1, <2>2, <2>3, <3>1 DEF OrderInv, OrderView, UpTo, Before, Rising
  <2>4. CASE ncall' = ncall /\ r.orig = "exit"
    <3>1. ToCome' => ToCome
      BY <1>1, <2>2, <2>4 DEF ToCome
    <3>2. OrderView'
      BY <1>1, <2>2, <2>4, <3>1, WithinFacts, OrderQuiet DEF OrderInv
    <3> QED BY <1>1, <2>2, <3>2 DEF OrderInv
  <2> QED BY <2>1, <2>3, <2>4
<1>3. CASE OfKernel /\ KernelWrite
  <2> DEFINE item == CallItem("raw", regs.arg1)
  <2>1. /\ ncall' = ncall /\ phase = "kernel" /\ regs.orig = "write"
        /\ phase' \in {"exit", "return"}
    BY <1>3 DEF KernelWrite, Finished, StopIn
  <2>2. ToCome' => ToCome
    BY <1>1, <2>1 DEF ToCome
  <2>3. CASE out' = out
    <3>1. OrderView'
      BY <1>1, <2>1, <2>2, <2>3, WithinFacts, OrderQuiet DEF OrderInv
    <3> QED BY <1>1, <2>3, <3>1 DEF OrderInv
  <2>4. CASE out' # out
    <3>1. /\ regs.arg1 \in StdFds /\ WriteResult(regs) > 0
          /\ out' = RawWrite(out, item) /\ item.dest = "tty"
      BY <1>3, <2>4 DEF KernelWrite, RawWrite
    <3>2. regs.arg3 # 0
      BY <3>1, NothingWritten
    <3>3. traced => flips # 0
      BY <2>1, <3>1, <3>2 DEF StatusInv, CallArgs, AnswerInv, NullView, StdWrite
    <3>4. ToCome
      BY <2>1, <3>1, <3>2 DEF ToCome
    <3>5. CASE traced
      BY <1>1, <3>3, <3>5 DEF OrderInv, OrderView
    <3>6. CASE ~traced
      <4>1. pc \in Final /\ out.outbuf = << >>
        BY <1>1, <3>6 DEF OrderInv
      <4>2. item \in Item
        BY <1>1, <3>1, ItemFacts DEF Kinds
      <4> HIDE DEF item
      <4>3. OneMore(out', out, item)
        BY <1>1, <3>1, <4>1, <4>2, RawOneMore
      <4>4. ~ToCome'
        BY <1>1, <2>1, <4>1 DEF ToCome, Final
      <4>5. OrderView'
        BY <1>1, <2>1, <3>1, <3>4, <4>3, <4>4, OrderOut DEF OrderInv, Kinds, item
      <4>6. out'.outbuf = out.outbuf
        BY <1>1, <3>1 DEF RawWrite, OutType
      <4> QED BY <1>1, <4>1, <4>5, <4>6 DEF OrderInv, Final
    <3> QED BY <3>5, <3>6
  <2> QED BY <2>3, <2>4
<1>4. CASE (OfKernel /\ ~KernelWrite) \/ OfOthers \/ ChildTraceMe \/ ChildExec
  <2>1. /\ ncall' = ncall /\ out' = out /\ call' = call
        /\ phase' \in {"entry", "kernel"} => phase' = phase /\ regs' = regs
    <3>1. CASE OfKernel /\ ~KernelWrite
      BY <3>1 DEF OfKernel, Kernel, KernelOther, KernelExit, Finished, StopIn, Die,
                  SignalOnReturn, SignalInUser, ReturnToUser, TakeSignal
    <3>2. CASE OfOthers \/ ChildTraceMe \/ ChildExec
      BY <3>2 DEF OfOthers, SendSignal, Kill, Die, ChildTraceMe, ChildExec, StopIn
    <3> QED BY <1>4, <3>1, <3>2
  <2>2. ToCome' => ToCome
    BY <1>1, <2>1 DEF ToCome
  <2>3. OrderView'
    BY <1>1, <2>1, <2>2, WithinFacts, OrderQuiet DEF OrderInv
  <2> QED BY <1>1, <2>1, <2>3 DEF OrderInv
<1> QED BY <1>2, <1>3, <1>4

(* Where the program can be while errmark does not wait for it, and what   *)
(* is left to come of a write that was at its entry.                       *)
LEMMA HeldWhere ==
  ASSUME LoopInv, pc \notin Final \cup {"wait"}
  PROVE  phase \in Stopped \cup Dead /\ traced
  BY DEF LoopInv, ControlInv, HeldUntilEnd, Lockstep

LEMMA EntryToCome ==
  ASSUME LoopInv, StatusInv, AnswerInv, flips = 0, pc \notin Final,
         Resumed(phase) = "kernel", regs.orig = "write", regs.arg1 \in StdFds, regs.arg3 # 0
  PROVE  ToCome
<1>1. traced
  BY DEF LoopInv, ControlInv, HeldUntilEnd
<1>2. StdWrite
  BY DEF StatusInv, CallArgs, StdWrite
<1>3. phase \in {"entry", "kernel"}
  BY DEF Resumed
<1>4. ~(phase = "entry" /\ pc = "resume")
  BY <1>1, <1>2 DEF AnswerInv, NullView
<1> QED BY <1>2, <1>3, <1>4 DEF ToCome, StdWrite

(* The marks of an entry put out nothing.                                  *)
LEMMA MarkEntryMoved ==
  ASSUME TypeOK, MarkEntry
  PROVE  Moved(out', out)
<1> DEFINE m == IF mark_state = 0 THEN MarkOpen(out) ELSE out
           n == BeforeWrite(m, wcall'.fd, wcall'.buf, wcall'.len)
<1>1. out \in OutType /\ marked \subseteq StdFds
  BY DEF TypeOK, OutTypeOK
<1>2. m \in OutType /\ Moved(m, out)
  BY <1>1, MarkOpenCloseType, MarkOpenCloseMoved DEF Moved
<1> HIDE DEF m
<1>3. n \in OutType /\ Moved(n, m)
  BY <1>1, <1>2, BeforeWriteType, BeforeWriteMoved
<1>4. out' \in {n, out}
  BY DEF MarkEntry, EntryBody, m
<1> HIDE DEF n
<1>5. Moved(n, out)
  BY <1>1, <1>2, <1>3, MovedTwice
<1> QED BY <1>4, <1>5 DEF Moved

(* errmark's steps up to the copy of the bytes: the registers of a write   *)
(* of which something may come are read at its entry.                      *)
LEMMA ReadOrder ==
  ASSUME LoopInv, TypeOK', StatusInv, AnswerInv, OrderInv,
         Wait \/ GetRegs \/ MarkEntry \/ Nullify
  PROVE  OrderInv'
<1>1. TypeOK /\ out \in OutType /\ marked \subseteq StdFds /\ regs \in Regs /\ lregs \in Regs
  BY DEF LoopInv, TypeOK, TraceeTypeOK, OutTypeOK, LoopTypeOK
<1>2. CASE Wait
  <2>1. /\ ncall' = ncall /\ flips' = flips /\ pc = "wait" /\ pc' \in {"getregs", "finish"}
        /\ Within(out', out)
    BY <1>1, <1>2, WithinFacts DEF Wait, Waited
  <2>2. ToCome' => ToCome
    BY <1>2, <2>1 DEF Wait, ToCome, Final
  <2>3. OrderView'
    BY <1>1, <2>1, <2>2, OrderQuiet DEF OrderInv
  <2> QED BY <2>1, <2>3 DEF OrderInv, Final
<1>3. CASE GetRegs
  <2>1. /\ ncall' = ncall /\ flips' = flips /\ pc = "getregs" /\ out' = out
        /\ pc' \in {"finish", "resume", "entry", "exit"}
    <3>1. Dispatch(lregs') \in {"resume", "entry", "exit"}
      <4>1. toggle \in {0, 1}
        BY LoopTypes
      <4> QED BY <4>1 DEF Dispatch
    <3> QED BY <1>3, <3>1 DEF GetRegs
  <2>2. flips = 0 /\ ToCome' => ToCome
    <3> SUFFICES ASSUME flips = 0, ToCome' PROVE ToCome
      OBVIOUS
    <3>1. UNCHANGED <<phase, regs, call>>
      BY <1>3 DEF GetRegs
    <3>2. CASE phase \in Stopped
      <4>1. child_exited' /\ lregs' = regs
        BY <1>3, <3>2 DEF GetRegs, PtraceReturns
      <4>2. CASE phase = "entry"
        <5>1. pc' = "entry" \/ call.orig = "write"
          BY <2>1, <3>1, <3>2, <4>1, <4>2 DEF ToCome, Stopped
        <5>2. pc' = "entry" => regs.orig = "write"
          <6>1. pc' = "entry" => Dispatch(lregs') = "entry"
            BY <1>3, <3>2 DEF GetRegs, Gone
          <6>2. regs.orig # "write" => Dispatch(regs) = "resume"
            BY LoopTypes DEF Dispatch
          <6> QED BY <4>1, <6>1, <6>2
        <5> QED BY <2>1, <4>2, <5>1, <5>2 DEF ToCome, StatusInv, CallArgs, Final
      <4>3. CASE phase # "entry"
        <5>1. pc' = "entry" /\ regs.arg1 \in StdFds /\ regs.arg3 # 0
          BY <2>1, <3>1, <3>2, <4>1, <4>3 DEF ToCome, Stopped
        <5>2. regs.orig = "write"
          <6>1. Dispatch(regs) = "entry"
            BY <1>3, <3>2, <4>1, <5>1 DEF GetRegs, Gone
          <6>2. regs.orig # "write" => Dispatch(regs) = "resume"
            BY LoopTypes DEF Dispatch
          <6> QED BY <6>1, <6>2
        <5>3. StdWrite /\ traced
          BY <2>1, <5>1, <5>2, HeldWhere DEF StatusInv, CallArgs, StdWrite, Final
        <5> QED BY <3>2, <4>3, <5>1, <5>3 DEF AnswerInv, NullView, Stopped
      <4> QED BY <4>2, <4>3
    <3>3. CASE phase \notin Stopped
      <4>1. lregs' = lregs /\ phase \in Dead
        BY <1>3, <2>1, <3>3, HeldWhere DEF GetRegs, Final
      <4>2. pc' # "finish" => ~child_exited
        BY <1>3, <3>3 DEF GetRegs, Gone
      <4>3. pc' # "finish" /\ lregs.arg3 # 0
        <5>1. pc' = "finish" => child_exited'
          <6>1. Dispatch(lregs') # "finish"
            <7>1. toggle \in {0, 1}
              BY LoopTypes
            <7> QED BY <7>1 DEF Dispatch
          <6>2. pc' = "finish" => child_exited
            BY <1>3, <6>1 DEF GetRegs, Gone
          <6>3. child_exited => child_exited'
            BY <1>3, Zenon DEF GetRegs, PtraceReturns
          <6> QED BY <6>2, <6>3
        <5>2. phase # "entry" /\ phase # "kernel"
          BY <4>1 DEF Dead
        <5> QED BY <2>1, <3>1, <4>1, <5>1, <5>2 DEF ToCome
      <4> QED BY <2>1, <4>2, <4>3 DEF ToCome, Final
    <3> QED BY <3>2, <3>3
  <2>3. OrderView'
    BY <1>1, <2>1, <2>2, WithinFacts, OrderQuiet DEF OrderInv
  <2> QED BY <2>1, <2>3 DEF OrderInv, Final
<1>4. CASE MarkEntry
  <2>1. /\ ncall' = ncall /\ pc = "entry" /\ pc' \in {"nullify", "resume"}
        /\ wcall' = Call(lregs) /\ (pc' = "nullify" => lregs.arg1 \in StdFds)
        /\ UNCHANGED <<phase, regs, call, lregs, child_exited>>
    BY <1>4 DEF MarkEntry, EntryBody, TracedStd, Call
  <2>2. flips' = 0 => flips = 0
    BY <1>4, LoopTypes DEF MarkEntry, EntryBody, CountFlip
  <2>3. Within(out', out)
    BY <1>1, <1>4, MarkEntryMoved, MovedFacts DEF TypeOK, OutTypeOK
  <2>4. ToCome' => ToCome
    BY <2>1 DEF ToCome, Call, Final
  <2>5. OrderView'
    BY <1>1, <2>1, <2>2, <2>3, <2>4, OrderQuiet DEF OrderInv
  <2> QED BY <2>1, <2>5 DEF OrderInv, Final
<1>5. CASE Nullify
  <2>1. /\ ncall' = ncall /\ flips' = flips /\ pc = "nullify" /\ pc' = "copy" /\ out' = out
        /\ lregs' = NoBytes(lregs) /\ UNCHANGED <<phase, call, wcall>>
    BY <1>5 DEF Nullify, SetRegs
  <2>2. lregs'.arg3 = 0
    BY <1>1, <2>1 DEF NoBytes, Regs
  <2>3. phase \notin {"kernel"}
    BY <2>1, HeldWhere DEF Stopped, Dead, Final
  <2>4. ToCome' => ToCome
    BY <2>1, <2>2, <2>3 DEF ToCome, Final
  <2>5. OrderView'
    BY <1>1, <2>1, <2>4, WithinFacts, OrderQuiet DEF OrderInv
  <2> QED BY <2>1, <2>2, <2>5 DEF OrderInv, Final
<1> QED BY <1>2, <1>3, <1>4, <1>5

(* The copy is the last that comes out of a write.                         *)
LEMMA CopyOrder ==
  ASSUME LoopInv, TypeOK', OrderInv, CopyToStdout \/ CopyBoth
  PROVE  OrderInv'
<1>1. /\ TypeOK /\ out \in OutType /\ wcall.fd \in StdFds /\ wcall.fd \in {1, 2}
      /\ pc = "copy" /\ pc' = "resume" /\ UNCHANGED <<ncall, flips, lregs, phase>>
  BY DEF LoopInv, TypeOK, OutTypeOK, LoopTypeOK, CopyToStdout, CopyBoth, StdFds
<1>2. ~ToCome'
  <2>1. phase # "kernel" /\ lregs.arg3 = 0
    BY <1>1, HeldWhere DEF Stopped, Dead, Final, OrderInv
  <2> QED BY <1>1, <2>1 DEF ToCome
<1>3. \/ Within(out', out)
      \/ /\ ToCome
         /\ \E kind \in Kinds : OneMore(out', out, CallItem(kind, wcall.fd))
  <2>1. \A kind \in Kinds :
          LET item == CallItem(kind, wcall.fd)
          IN  OneMore(Fwrite(out, item), out, item) /\ OneMore(Flush(Fwrite(out, item)), out, item)
    BY <1>1, ItemFacts, FwriteOneMore
  <2>2. wcall.len # 0 => ToCome
    BY <1>1 DEF ToCome
  <2>3. CASE CopyToStdout
    <3>1. \/ out' \in {out, Flush(out)}
          \/ \E kind \in Kinds :
               /\ out' \in {Fwrite(out, CallItem(kind, wcall.fd)),
                            Flush(Fwrite(out, CallItem(kind, wcall.fd)))}
               /\ wcall.len # 0
      BY <2>3, PmemFwriteCases DEF CopyToStdout, Kinds
    <3> QED BY <1>1, <2>1, <2>2, <3>1, WithinFacts
  <2>4. CASE CopyBoth
    <3>1. \/ out' = out
          \/ \E kind \in Kinds :
               /\ out' \in {Fwrite(out, CallItem(kind, wcall.fd)),
                            Flush(Fwrite(out, CallItem(kind, wcall.fd)))}
               /\ wcall.len # 0
      BY <2>4 DEF CopyBoth, Kinds
    <3> QED BY <1>1, <2>1, <2>2, <3>1, WithinFacts
  <2> QED BY <2>3, <2>4
<1>4. OrderView'
  <2>1. CASE Within(out', out)
    BY <1>1, <1>2, <2>1, OrderQuiet DEF OrderInv
  <2>2. CASE /\ ToCome
             /\ \E kind \in Kinds : OneMore(out', out, CallItem(kind, wcall.fd))
    BY <1>1, <1>2, <2>2, OrderOut DEF OrderInv
  <2> QED BY <1>3, <2>1, <2>2
<1> QED BY <1>1, <1>4 DEF OrderInv, Final

(* An exit() of errmark flushes; the marks that it closes put out nothing.  *)
LEMMA FlushedAtEnd ==
  ASSUME TypeOK, MallocFails \/ Finish
  PROVE  Moved(out', out) /\ out'.outbuf = << >>
<1>1. out \in OutType /\ marked \subseteq StdFds
  BY DEF TypeOK, OutTypeOK
<1>2. CASE MallocFails
  BY <1>1, <1>2, FlushType DEF MallocFails, Moved
<1>3. CASE Finish
  <2> DEFINE n == MarkCloseIfOpen(out)
  <2>1. n \in OutType /\ Moved(n, out)
    BY WithinFacts
  <2>2. out' = Flush(MarkCloseIfOpen(n))
    BY <1>3 DEF Finish
  <2> HIDE DEF n
  <2> DEFINE p == MarkCloseIfOpen(n)
  <2>3. p \in OutType /\ Moved(p, n)
    BY <1>1, <2>1, MarkOpenCloseMoved, MarkOpenCloseType DEF MarkCloseIfOpen, Moved
  <2> HIDE DEF p
  <2>4. Flush(p) \in OutType /\ Moved(Flush(p), p) /\ Flush(p).outbuf = << >>
    BY <2>3, FlushType DEF Moved
  <2>5. Moved(p, out)
    BY <1>1, <2>1, <2>3, MovedTwice
  <2>6. Moved(Flush(p), out)
    BY <1>1, <2>3, <2>4, <2>5, MovedTwice
  <2> QED BY <2>2, <2>4, <2>6 DEF p
<1> QED BY <1>2, <1>3

(* The rest of the loop, and the ways out of it, put out nothing new.      *)
LEMMA EndOrder ==
  ASSUME LoopInv, TypeOK', StatusInv, AnswerInv, OrderInv,
         \/ ExitStop \/ Resume \/ MallocFails \/ Finish \/ PtraceFails \/ ErrmarkKilled
  PROVE  OrderInv'
<1>1. /\ TypeOK /\ out \in OutType /\ regs \in Regs /\ lregs \in Regs /\ phase \in Phases
  BY DEF LoopInv, TypeOK, TraceeTypeOK, OutTypeOK, LoopTypeOK
<1>2. CASE ExitStop
  <2>1. /\ UNCHANGED <<ncall, out, phase>> /\ pc = "exit" /\ pc' = "resume"
        /\ ~child_exited' => ~child_exited
    BY <1>2, Zenon DEF ExitStop, ExitBody, SetRegs, PtraceReturns
  <2>2. lregs'.arg3 = lregs.arg3
    BY <1>1, <1>2 DEF ExitStop, ExitBody, SetRegs, LengthReturned, Regs
  <2>3. phase # "kernel"
    BY <2>1, HeldWhere DEF Stopped, Dead, Final
  <2>4. ToCome' => ToCome
    BY <2>1, <2>2, <2>3 DEF ToCome, Final
  <2>5. flips' = 0 => flips = 0
    BY <1>2, LoopTypes DEF ExitStop, ExitBody, CountFlip
  <2>6. OrderView'
    BY <1>1, <2>1, <2>4, <2>5, WithinFacts, OrderQuiet DEF OrderInv
  <2> QED BY <2>1, <2>6 DEF OrderInv, Final
<1>3. CASE Resume
  <2>1. /\ UNCHANGED <<ncall, out, regs, lregs, flips, call>> /\ pc = "resume" /\ pc' = "wait"
        /\ phase' = Resumed(phase) /\ (~child_exited' => ~child_exited)
    BY <1>3, Zenon DEF Resume, PtraceReturns
  <2>2. phase' # "entry"
    BY <1>1, <2>1 DEF Resumed
  <2>3. flips = 0 /\ ToCome' => ToCome
    BY <2>1, <2>2, EntryToCome DEF ToCome, Final
  <2>4. OrderView'
    BY <1>1, <2>1, <2>3, WithinFacts, OrderQuiet DEF OrderInv
  <2> QED BY <2>1, <2>4 DEF OrderInv, Final
<1>4. CASE MallocFails \/ Finish \/ PtraceFails \/ ErrmarkKilled
  <2>1. /\ UNCHANGED <<ncall, regs, flips, call>> /\ pc \notin Final /\ pc' \in Final
        /\ phase' = Resumed(phase)
    BY <1>4 DEF MallocFails, Finish, PtraceFails, ErrmarkKilled, LetGo, Final
  <2>2. flips = 0 /\ ToCome' => ToCome
    BY <2>1, EntryToCome DEF ToCome, Final
  <2>3. Within(out', out) /\ out'.outbuf = << >>
    <3>1. CASE MallocFails \/ Finish
      <4>1. Moved(out', out) /\ out'.outbuf = << >> /\ out' \in OutType
        BY <1>1, <3>1, FlushedAtEnd DEF TypeOK, OutTypeOK
      <4> QED BY <1>1, <4>1, MovedFacts
    <3>2. CASE PtraceFails \/ ErrmarkKilled
      <4>1. PICK n \in {MarkCloseIfOpen(out), out} : out' = [n EXCEPT !.outbuf = << >>]
        BY <3>2 DEF PtraceFails, ErrmarkKilled
      <4>2. n \in OutType /\ Moved(n, out)
        BY <1>1, WithinFacts DEF Moved
      <4>3. out'.screen = n.screen /\ out'.outbuf = << >> /\ out' \in OutType
        BY <4>1, <4>2 DEF OutType, TypeOK, OutTypeOK
      <4>4. Within(out', n) /\ Within(n, out)
        BY <1>1, <4>2, <4>3, DropWithin, MovedFacts
      <4> QED BY <1>1, <4>2, <4>3, <4>4, WithinTwice
    <3> QED BY <1>4, <3>1, <3>2
  <2>4. OrderView'
    BY <1>1, <2>1, <2>2, <2>3, OrderQuiet DEF OrderInv
  <2>5. pc' # "copy"
    BY <2>1 DEF Final
  <2> QED BY <2>3, <2>4, <2>5 DEF OrderInv
<1> QED BY <1>2, <1>3, <1>4

LEMMA NextOrder ==
  LoopInv /\ StatusInv /\ AnswerInv /\ OrderInv /\ [Next]_vars => OrderInv'
<1> SUFFICES ASSUME LoopInv, StatusInv, AnswerInv, OrderInv, [Next]_vars PROVE OrderInv'
  OBVIOUS
<1>1. TypeOK'
  BY NextControl DEF LoopInv
<1>2. UNCHANGED vars => OrderInv'
  BY DEF OrderInv, OrderView, ToCome, UpTo, Before, Rising
<1> QED BY <1>1, <1>2, WorldOrder, ReadOrder, CopyOrder, EndOrder DEF Next, Tracer, Terminated

(* Nothing comes out of a system call of the program before what came out  *)
(* of an earlier one, and nothing twice.                                   *)
THEOREM OrderInvariant == Spec => []OrderInv
<1>1. Init => OrderInv
  <2> SUFFICES ASSUME Init PROVE OrderInv
    OBVIOUS
  <2>1. Issued(out) = << >> /\ pc = "wait"
    BY DEF Init, OutInit, RunInit, Issued
  <2>2. Len(Issued(out)) = 0
    BY <2>1
  <2> QED BY <2>1, <2>2 DEF OrderInv, OrderView, UpTo, Before, Rising, Final
<1> QED BY <1>1, NextOrder, LoopInvariant, StatusInvariant, AnswerInvariant, PTL DEF Spec

(* What the program wrote comes out in its order and at most once (the     *)
(* README.md of errmark, "Why Use Ptrace?"), also when errmark dies.       *)
THEOREM OrderPreservedHolds == Spec => []OrderPreserved
<1>1. OrderInv => OrderPreserved
  BY DEF OrderInv, OrderView, Rising, OrderPreserved
<1> QED BY <1>1, OrderInvariant, PTL

-----------------------------------------------------------------------------
(* The bytes are where they should be when the program is told so.         *)

(* The current write is on the terminal, or with --copy at least with      *)
(* stdio, while there is an errmark that will flush it.                    *)
Seen == IF WithCopy
        THEN pc \in {"aborted", "killed"} \/ PutOut(Issued(out))
        ELSE PutOut(out.screen)

(* A write of bytes that can be read is printed before the kernel gets to  *)
(* it; and whoever prints it, errmark or later the kernel, does that       *)
(* before the program is told that all of it was written.                  *)
Whole    == flips = 0 /\ StdWrite /\ call.arg2 = "good" /\ call.arg3 = 2
Handled  == traced /\ (phase \in {"kernel", "exit"} \/ (phase = "entry" /\ pc = "resume"))
Told     == /\ cfile[call.arg1] = "tty" /\ regs.ret = 2
            /\ phase \in {"exit", "return", "user", "sigstop"}
SeenView == Whole /\ (Handled \/ Told) => Seen

(* What has been seen stays: nothing is taken from the screen, and nothing *)
(* from the buffer while errmark lives.                                    *)
LEMMA SeenStays ==
  ASSUME TypeOK, TypeOK', Seen, UNCHANGED <<copying, call, ncall>>, Kept(out', out),
         Within(out, out') \/ pc' \in {"aborted", "killed"},
         pc \in {"aborted", "killed"} => pc' = pc
  PROVE  Seen'
<1>1. /\ Len(out.screen) <= Len(out'.screen)
      /\ \A i \in 1 .. Len(out.screen) : out'.screen[i] = out.screen[i]
  BY DEF Kept
<1>2. out.screen \in Seq(Shown) /\ out'.screen \in Seq(Shown)
  BY DEF TypeOK, OutTypeOK, OutType
<1>3. PutOut(out.screen) => PutOut(out.screen)'
  <2>1. \A i \in 1 .. Len(out.screen) : i \in 1 .. Len(out'.screen)
    BY <1>1, <1>2
  <2> QED BY <1>1, <2>1, Zenon DEF PutOut
<1>4. Within(out, out') /\ PutOut(Issued(out)) => PutOut(Issued(out))'
  <2> SUFFICES ASSUME Within(out, out'), PutOut(Issued(out)) PROVE PutOut(Issued(out))'
    OBVIOUS
  <2> DEFINE o == Issued(out)
             q == Issued(out')
  <2>1. Len(o) <= Len(q) /\ \A i \in 1 .. Len(o) : SameBytes(o[i], q[i])
    BY DEF Within
  <2>2. PICK i \in 1 .. Len(o) :
          o[i].kind \in {"data", "raw"} /\ o[i].id = ncall /\ o[i].fd = call.arg1
    BY DEF PutOut
  <2>3. Len(o) \in Nat /\ Len(q) \in Nat
    <3>1. out \in OutType /\ out' \in OutType /\ \A a, b \in Nat : a + b \in Nat
      BY DEF TypeOK, OutTypeOK
    <3> QED BY <3>1, ShownItems, Zenon
  <2> HIDE DEF o, q
  <2>4. i \in 1 .. Len(q)
    BY <2>1, <2>2, <2>3
  <2>5. q[i].kind \in {"data", "raw"} /\ q[i].id = ncall' /\ q[i].fd = call'.arg1
    BY <2>1, <2>2 DEF SameBytes
  <2> QED BY <2>4, <2>5, Zenon DEF PutOut, q
<1>5. CASE WithCopy
  BY <1>4, <1>5 DEF Seen, WithCopy
<1>6. CASE ~WithCopy
  BY <1>3, <1>6 DEF Seen, WithCopy
<1> QED BY <1>5, <1>6

(* The same for a step that puts nothing out.                              *)
LEMMA SeenMoved ==
  ASSUME TypeOK, TypeOK', Seen, UNCHANGED <<copying, call, ncall>>, Moved(out', out),
         pc \in {"aborted", "killed"} => pc' = pc
  PROVE  Seen'
<1>1. Kept(out', out) /\ Within(out, out')
  BY MovedFacts DEF TypeOK, OutTypeOK
<1> QED BY <1>1, SeenStays

(* One more item that is the current write is seen.                        *)
LEMMA SeenNow ==
  ASSUME TypeOK, TypeOK', NEW kind \in {"data", "raw"}, UNCHANGED <<copying, call, ncall>>,
         NEW item, item = CallItem(kind, call.arg1), OneMore(out', out, item),
         \/ WithCopy
         \/ \E i \in 1 .. Len(out'.screen) : SameBytes(out'.screen[i], item)
  PROVE  Seen'
<1>1. item.kind = kind /\ item.id = ncall' /\ item.fd = call'.arg1
  BY DEF CallItem
<1>2. PutOut(Issued(out))'
  <2> DEFINE o == Issued(out)
             q == Issued(out')
             k == Len(o) + 1
  <2>1. Len(q) = k /\ SameBytes(q[k], item)
    BY DEF OneMore
  <2>2. Len(o) \in Nat
    <3>1. out \in OutType /\ \A a, b \in Nat : a + b \in Nat
      BY DEF TypeOK, OutTypeOK
    <3> QED BY <3>1, ShownItems, Zenon
  <2> HIDE DEF o, q
  <2>3. k \in 1 .. Len(q)
    BY <2>1, <2>2
  <2> HIDE DEF k
  <2>4. q[k].kind \in {"data", "raw"} /\ q[k].id = ncall' /\ q[k].fd = call'.arg1
    BY <1>1, <2>1 DEF SameBytes
  <2> QED BY <2>3, <2>4, Zenon DEF PutOut, q
<1>3. CASE WithCopy
  BY <1>2, <1>3 DEF Seen, WithCopy
<1>4. CASE ~WithCopy
  <2>1. PICK i \in 1 .. Len(out'.screen) : SameBytes(out'.screen[i], item)
    BY <1>4
  <2>2. PutOut(out.screen)'
    BY <1>1, <2>1 DEF PutOut, SameBytes
  <2> QED BY <1>4, <2>2 DEF Seen, WithCopy
<1> QED BY <1>3, <1>4

LEMMA StaysPut ==
  ASSUME TypeOK, TypeOK', Seen, UNCHANGED <<copying, call, ncall, out>>,
         pc \in {"aborted", "killed"} => pc' = pc
  PROVE  Seen'
  BY SeenMoved DEF Moved

(* The kernel performs a write of the program that nobody traces any more. *)
LEMMA KernelWriteSeen ==
  ASSUME LoopInv, TypeOK', StatusInv, AnswerInv, OrderInv, KernelWrite,
         UNCHANGED <<tracerVars, marked>>, ~traced, Whole, cfile[call.arg1] = "tty",
         WriteResult(regs) = 2
  PROVE  Seen'
<1> DEFINE item == CallItem("raw", call.arg1)
<1>1. /\ TypeOK /\ out \in OutType /\ regs.orig = "write" /\ regs.arg1 = call.arg1
      /\ call.arg1 \in StdFds /\ UNCHANGED <<copying, call, ncall>>
  BY DEF LoopInv, TypeOK, OutTypeOK, KernelWrite, StatusInv, CallArgs, Whole, StdWrite
<1>2. item \in Item /\ item.dest = "tty"
  BY <1>1, ItemFacts DEF Kinds, CallItem
<1>3. out' = RawWrite(out, item)
  BY <1>1 DEF KernelWrite
<1>4. out.outbuf = << >>
  BY DEF LoopInv, ControlInv, HeldUntilEnd, OrderInv
<1> HIDE DEF item
<1> DEFINE k == Len(out.screen) + 1
<1>5. /\ OneMore(out', out, item)
      /\ Len(out'.screen) = k /\ SameBytes(out'.screen[k], item)
  BY <1>1, <1>2, <1>3, <1>4, RawOneMore
<1>6. k \in 1 .. k
  BY <1>1 DEF OutType
<1> HIDE DEF k
<1>7. \E i \in 1 .. Len(out'.screen) : SameBytes(out'.screen[i], item)
  BY <1>5, <1>6
<1> QED BY <1>1, <1>5, <1>7, SeenNow DEF item

LEMMA WorldSeen ==
  ASSUME LoopInv, TypeOK', StatusInv, AnswerInv, OrderInv, SeenView,
         OfProgram \/ OfKernel \/ OfOthers \/ ChildTraceMe \/ ChildExec
  PROVE  SeenView'
<1> SUFFICES ASSUME Whole', (Handled \/ Told)' PROVE Seen'
  BY DEF SeenView
<1>1. /\ UNCHANGED <<pc, flips, copying>> /\ traced' = traced
      /\ TypeOK /\ (traced /\ phase \notin Stopped \cup Dead => pc = "wait")
  BY DEF OfProgram, Program, CallWrite, CallOther, CallExit, Trap, OfKernel, Kernel,
         KernelWrite, KernelOther, KernelExit, SignalOnReturn, SignalInUser, ReturnToUser,
         OfOthers, SendSignal, Kill, ChildTraceMe, ChildExec, LoopInv, ControlInv, Lockstep
<1>2. CASE OfProgram
  <2>1. PICK r : Trap(r)
    BY <1>2 DEF OfProgram, Program, CallWrite, CallOther, CallExit
  <2>2. \/ traced /\ phase' = "entry" /\ pc = "wait"
        \/ ~traced /\ phase' = "kernel"
    BY <1>1, <2>1 DEF Trap, StopIn, Stopped, Dead
  <2> QED BY <1>1, <2>2 DEF Handled, Told
<1>3. CASE OfKernel /\ KernelWrite
  <2>1. /\ UNCHANGED <<call, ncall, cfile>> /\ phase = "kernel"
        /\ regs'.ret = WriteResult(regs)
    BY <1>1, <1>3 DEF KernelWrite, Finished, TypeOK, TraceeTypeOK, Regs
  <2>2. Whole
    BY <1>1, <2>1 DEF Whole, StdWrite
  <2>3. CASE traced
    <3>1. Seen
      BY <2>1, <2>2, <2>3 DEF SeenView, Handled
    <3>2. ~(WriteResult(regs) > 0)
      BY <1>1, <2>1, <2>2, <2>3, NothingWritten DEF AnswerInv, NullView, Whole
    <3>3. out' = out
      BY <1>3, <3>2 DEF KernelWrite
    <3> QED BY <1>1, <2>1, <3>1, <3>3, StaysPut
  <2>4. CASE ~traced
    <3>1. cfile[call.arg1] = "tty" /\ WriteResult(regs) = 2
      BY <1>1, <2>1, <2>4 DEF Handled, Told
    <3> QED BY <1>3, <2>2, <2>4, <3>1, KernelWriteSeen DEF OfKernel
  <2> QED BY <2>3, <2>4
<1>4. CASE (OfKernel /\ ~KernelWrite) \/ OfOthers \/ ChildTraceMe \/ ChildExec
  <2>1. CASE OfKernel /\ (KernelOther \/ KernelExit)
    <3>1. call' = call /\ phase = "kernel" /\ regs.orig # "write"
      BY <2>1 DEF KernelOther, KernelExit
    <3>2. call.orig # "write"
      BY <3>1 DEF LoopInv, ControlInv, StopView
    <3> QED BY <3>1, <3>2 DEF Whole, StdWrite
  <2>2. CASE OfKernel /\ (SignalOnReturn \/ SignalInUser \/ ReturnToUser)
    <3>1. UNCHANGED <<call, ncall, cfile, out>> /\ phase \in {"return", "user"}
      BY <2>2 DEF SignalOnReturn, SignalInUser, ReturnToUser
    <3>2. phase' \in {"sigstop", "user"} /\ regs'.ret = regs.ret
      BY <1>1, <2>2 DEF SignalOnReturn, SignalInUser, ReturnToUser, TakeSignal, StopIn,
                        TypeOK, TraceeTypeOK, Regs
    <3>3. Whole
      BY <1>1, <3>1 DEF Whole, StdWrite
    <3>4. Told
      BY <3>1, <3>2 DEF Handled, Told
    <3> QED BY <1>1, <3>1, <3>3, <3>4, StaysPut DEF SeenView
  <2>3. CASE OfOthers
    <3>1. UNCHANGED <<call, ncall, cfile, out, regs>>
          /\ (phase' = phase \/ phase' = "zombie")
      BY <2>3 DEF OfOthers, SendSignal, Kill, Die
    <3>2. Seen
      BY <1>1, <3>1 DEF SeenView, Whole, StdWrite, Handled, Told
    <3> QED BY <1>1, <3>1, <3>2, StaysPut
  <2>4. CASE ChildTraceMe \/ ChildExec
    <3>1. call.orig # "write" /\ call' = call
      BY <2>4 DEF ChildTraceMe, ChildExec, StatusInv, CallArgs, NoRegs
    <3> QED BY <3>1 DEF Whole, StdWrite
  <2> QED BY <1>4, <2>1, <2>2, <2>3, <2>4 DEF OfKernel, Kernel
<1> QED BY <1>2, <1>3, <1>4

(* A step of errmark that sets no registers and puts out nothing.          *)
LEMMA QuietSeen ==
  ASSUME LoopInv, TypeOK', StatusInv, SeenView, Wait \/ GetRegs \/ MarkEntry \/ Nullify
  PROVE  SeenView'
<1> SUFFICES ASSUME Whole', (Handled \/ Told)' PROVE Seen'
  BY DEF SeenView
<1>1. TypeOK /\ out \in OutType /\ marked \subseteq StdFds /\ regs \in Regs /\ flips \in Nat
  BY DEF LoopInv, TypeOK, TraceeTypeOK, OutTypeOK, LoopTypeOK
<1>2. /\ UNCHANGED <<call, ncall, cfile, copying, traced>>
      /\ (phase' = phase \/ phase' = "reaped")
      /\ pc \notin {"aborted", "killed"}
  BY DEF Wait, GetRegs, MarkEntry, EntryBody, Nullify
<1>3. flips = 0 /\ regs'.ret = regs.ret
  <2>1. CASE Wait \/ GetRegs
    BY <2>1 DEF Wait, GetRegs, Whole
  <2>2. CASE MarkEntry
    BY <1>1, <2>2 DEF MarkEntry, EntryBody, CountFlip, Whole
  <2>3. CASE Nullify
    <3>1. flips = 0 /\ pc = "nullify" /\ SetRegs(NoBytes(lregs))
      BY <2>3 DEF Nullify, Whole
    <3>2. phase \in Stopped => lregs = regs
      BY <3>1 DEF LoopInv, ControlInv, HeldUntilEnd, LocalView, Live, Stopped, Dead, Final
    <3>3. NoBytes(regs).ret = regs.ret
      BY <1>1 DEF NoBytes, Regs
    <3> QED BY <3>1, <3>2, <3>3 DEF SetRegs
  <2> QED BY <2>1, <2>2, <2>3
<1>4. ~(traced /\ phase' = "entry" /\ pc' = "resume")
  <2> SUFFICES ASSUME traced, phase' = "entry", pc' = "resume" PROVE FALSE
    OBVIOUS
  <2>1. GetRegs \/ MarkEntry
    BY DEF Wait, Waited, Nullify
  <2> QED BY <1>2, <2>1, NotPassedOver DEF Whole, StdWrite
<1>5. Seen
  <2>1. Whole
    BY <1>2, <1>3 DEF Whole, StdWrite
  <2>2. phase' = phase
    BY <1>2 DEF Handled, Told
  <2>3. Handled' => Handled
    BY <1>2, <1>4, <2>2 DEF Handled
  <2>4. Told' => Told
    BY <1>2, <1>3, <2>2 DEF Told
  <2> QED BY <2>1, <2>3, <2>4 DEF SeenView
<1>6. Moved(out', out)
  <2>1. CASE Wait
    BY <1>1, <2>1, WithinFacts DEF Wait, Waited, Moved
  <2>2. CASE GetRegs \/ Nullify
    BY <2>2 DEF GetRegs, Nullify, Moved
  <2>3. CASE MarkEntry
    BY <2>3, MarkEntryMoved DEF LoopInv
  <2> QED BY <2>1, <2>2, <2>3
<1> QED BY <1>1, <1>2, <1>5, <1>6, SeenMoved

(* The copy itself: it is that of the write the program is in, and the     *)
(* whole of it can be read.                                                *)
LEMMA CopySeen ==
  ASSUME LoopInv, TypeOK', SeenView, CopyToStdout \/ CopyBoth
  PROVE  SeenView'
<1> SUFFICES ASSUME Whole', (Handled \/ Told)' PROVE Seen'
  BY DEF SeenView
<1>1. /\ TypeOK /\ out \in OutType /\ pc = "copy"
      /\ UNCHANGED <<call, ncall, cfile, copying, traced, phase, flips, regs>>
  BY DEF LoopInv, TypeOK, OutTypeOK, CopyToStdout, CopyBoth
<1>2. Live /\ phase \in Stopped /\ toggle = 1 /\ Noticed /\ Whole
  <2>1. phase \in Stopped \cup Dead /\ traced
    BY <1>1, HeldWhere DEF Final
  <2>2. phase \notin Dead
    BY <1>1 DEF Handled, Told, Dead
  <2> QED BY <1>1, <2>1, <2>2
      DEF LoopInv, ControlInv, LocalView, Live, Noticed, Whole, StdWrite
<1>3. wcall = Call(call) /\ call.arg1 \in StdFds
  BY <1>2 DEF LoopInv, ControlInv, CallView, Whole, StdWrite
<1>4. wcall.fd = call.arg1 /\ wcall.buf = "good" /\ wcall.len = 2
  BY <1>2, <1>3 DEF Call, Whole
<1> DEFINE item == CallItem("data", call.arg1)
<1>5. item \in Item
  BY <1>1, <1>3, ItemFacts DEF Kinds
<1>6. CASE CopyToStdout
  <2>1. out' = Flush(Fwrite(out, item))
    BY <1>2, <1>4, <1>6, PmemFwriteWhole DEF CopyToStdout
  <2> HIDE DEF item
  <2> DEFINE k == Len(Issued(out)) + 1
  <2>2. /\ OneMore(out', out, item) /\ Len(out'.screen) = k
        /\ SameBytes(out'.screen[k], item)
    BY <1>1, <1>5, <2>1, FwriteOneMore
  <2>3. k \in 1 .. k
    <3>1. \A a, b \in Nat : a + b \in Nat
      OBVIOUS
    <3>2. Len(Issued(out)) \in Nat
      BY <1>1, <3>1, ShownItems, Zenon
    <3> HIDE DEF k
    <3>3. k = Len(Issued(out)) + 1
      BY DEF k
    <3> QED BY <3>2, <3>3
  <2> HIDE DEF k
  <2>4. \E i \in 1 .. Len(out'.screen) : SameBytes(out'.screen[i], item)
    BY <2>2, <2>3
  <2> QED BY <1>1, <2>2, <2>4, SeenNow DEF item
<1>7. CASE CopyBoth
  <2>1. /\ copying /\ call.arg1 = 2 /\ Readable(wcall)
        /\ out' \in {Fwrite(out, item), Flush(Fwrite(out, item))}
    BY <1>2, <1>4, <1>7 DEF CopyBoth, Readable
  <2> HIDE DEF item
  <2>2. OneMore(out', out, item)
    BY <1>1, <1>5, <2>1, FwriteOneMore
  <2> QED BY <1>1, <2>1, <2>2, SeenNow DEF item, WithCopy
<1> QED BY <1>6, <1>7

(* errmark gives the answer, resumes the program, or comes to its end.     *)
LEMMA EndSeen ==
  ASSUME LoopInv, TypeOK', SeenView,
         \/ ExitStop \/ Resume \/ MallocFails \/ Finish \/ PtraceFails \/ ErrmarkKilled
  PROVE  SeenView'
<1> SUFFICES ASSUME Whole', (Handled \/ Told)' PROVE Seen'
  BY DEF SeenView
<1>1. TypeOK /\ out \in OutType /\ marked \subseteq StdFds /\ phase \in Phases /\ flips \in Nat
  BY DEF LoopInv, TypeOK, TraceeTypeOK, OutTypeOK, LoopTypeOK
<1>2. UNCHANGED <<call, ncall, cfile, copying>> /\ pc \notin {"aborted", "killed"}
  BY DEF ExitStop, ExitBody, Resume, MallocFails, Finish, PtraceFails, ErrmarkKilled, LetGo, Final
<1>3. CASE ExitStop
  <2>1. /\ pc = "exit" /\ UNCHANGED <<out, phase, traced>> /\ flips = 0
        /\ pc' = "resume"
    BY <1>1, <1>3 DEF ExitStop, ExitBody, CountFlip, Whole
  <2>2. Whole /\ traced /\ phase \in Stopped /\ phase \notin Dead
    <3>1. phase \in Stopped \cup Dead /\ traced
      BY <2>1, HeldWhere DEF Final
    <3>2. phase \notin Dead
      BY <2>1 DEF Handled, Told, Dead
    <3> QED BY <1>2, <2>1, <3>1, <3>2 DEF Whole, StdWrite
  <2>3. Live /\ toggle = 1 /\ ~Noticed
    BY <2>1, <2>2 DEF LoopInv, ControlInv, LocalView, Live, Noticed
  <2>4. phase = "exit"
    BY <2>2, <2>3, HeldInWrite DEF Whole, StdWrite
  <2>5. Seen
    BY <2>2, <2>4 DEF SeenView, Handled
  <2> QED BY <1>1, <1>2, <2>1, <2>5, StaysPut
<1>4. CASE \/ Resume \/ MallocFails \/ Finish \/ PtraceFails \/ ErrmarkKilled
  <2>1. /\ UNCHANGED <<flips, regs>> /\ phase' = Resumed(phase) /\ pc \notin Final
        /\ Resume \/ ~traced'
        /\ (traced' => pc = "resume" /\ traced)
    BY <1>4 DEF Resume, MallocFails, Finish, PtraceFails, ErrmarkKilled, LetGo, Final
  <2>2. Whole
    BY <1>2, <2>1 DEF Whole, StdWrite
  <2>3. Handled' => Handled
    <3>1. phase' = "kernel" => phase \in {"entry", "kernel"}
      BY <2>1 DEF Resumed
    <3>2. phase' = "exit" => FALSE
      BY <1>1, <2>1 DEF Resumed
    <3>3. phase' = "entry" => FALSE
      BY <1>1, <2>1 DEF Resumed
    <3> QED BY <2>1, <3>1, <3>2, <3>3 DEF Handled
  <2>4. Told' => Told
    <3>1. phase' \in {"exit", "return", "user", "sigstop"}
            => phase \in {"exit", "return", "user", "sigstop"}
      BY <2>1 DEF Resumed
    <3> QED BY <1>2, <2>1, <3>1 DEF Told
  <2>5. Seen
    BY <2>2, <2>3, <2>4 DEF SeenView
  <2>6. CASE Resume
    BY <1>1, <1>2, <2>5, <2>6, StaysPut DEF Resume
  <2>7. CASE MallocFails \/ Finish
    <3>1. Moved(out', out)
      BY <1>1, <2>7, FlushedAtEnd
    <3> QED BY <1>1, <1>2, <2>5, <3>1, SeenMoved
  <2>8. CASE PtraceFails \/ ErrmarkKilled
    <3>1. PICK n \in {MarkCloseIfOpen(out), out} : out' = [n EXCEPT !.outbuf = << >>]
      BY <2>8 DEF PtraceFails, ErrmarkKilled
    <3>2. n \in OutType /\ Moved(n, out)
      BY <1>1, WithinFacts DEF Moved
    <3>3. out'.screen = n.screen /\ out'.outbuf = << >> /\ out' \in OutType
      BY <3>1, <3>2 DEF OutType, TypeOK, OutTypeOK
    <3>4. Kept(out', n) /\ Kept(n, out)
      BY <1>1, <3>2, <3>3, DropWithin, MovedFacts
    <3>5. Kept(out', out)
      BY <1>1, <3>2, <3>3, <3>4, KeptTwice
    <3>6. pc' \in {"aborted", "killed"}
      BY <2>8 DEF PtraceFails, ErrmarkKilled
    <3> QED BY <1>1, <1>2, <2>5, <3>5, <3>6, SeenStays
  <2> QED BY <1>4, <2>6, <2>7, <2>8
<1> QED BY <1>3, <1>4

LEMMA NextSeen ==
  LoopInv /\ StatusInv /\ AnswerInv /\ OrderInv /\ SeenView /\ [Next]_vars => SeenView'
<1> SUFFICES ASSUME LoopInv, StatusInv, AnswerInv, OrderInv, SeenView, [Next]_vars
             PROVE  SeenView'
  OBVIOUS
<1>1. TypeOK'
  BY NextControl DEF LoopInv
<1>2. UNCHANGED vars => SeenView'
  BY DEF SeenView, Whole, StdWrite, Handled, Told, Seen, PutOut, WithCopy
<1> QED BY <1>1, <1>2, WorldSeen, QuietSeen, CopySeen, EndSeen DEF Next, Tracer, Terminated

(* The copy comes before the kernel, and before the answer.                *)
THEOREM SeenInvariant == Spec => []SeenView
<1>1. Init => SeenView
  BY DEF Init, TraceeInit, NoRegs, SeenView, Whole, StdWrite
<1> QED
  BY <1>1, NextSeen, LoopInvariant, StatusInvariant, AnswerInvariant, OrderInvariant, PTL DEF Spec

LEMMA CompleteSeen == SeenView /\ Complete => Seen
  BY DEF SeenView, Whole, StdWrite, Told, Complete, Back

(* A program that is told that its write was complete finds the bytes on   *)
(* the terminal, unless they are those of stderr with --copy.              *)
THEOREM DeliveredHolds == Spec => []Delivered
<1>1. SeenView => Delivered
  BY CompleteSeen DEF Seen, Delivered
<1> QED BY <1>1, SeenInvariant, PTL

(* Those are at least in the buffer of stdio, which errmark does not leave *)
(* full when it exits; abort() and a death of errmark lose it.             *)
THEOREM CopyHeldHolds == Spec => []CopyHeld
<1>1. SeenView /\ OrderInv /\ TypeOK => CopyHeld
  <2> SUFFICES ASSUME SeenView, OrderInv, TypeOK, Complete, WithCopy,
                      pc \notin {"aborted", "killed"}
               PROVE  PutOut(IF pc \in Final THEN out.screen ELSE Issued(out))
    BY DEF CopyHeld
  <2>1. PutOut(Issued(out))
    BY CompleteSeen DEF Seen
  <2>2. CASE pc \in Final
    <3>1. out.screen \in Seq(Shown)
      BY DEF TypeOK, OutTypeOK, OutType
    <3>2. out.outbuf = << >>
      BY <2>2 DEF OrderInv
    <3>3. Issued(out) = out.screen
      BY <3>1, <3>2 DEF Issued
    <3>4. PutOut(out.screen)
      BY <2>1, <3>3
    <3> QED BY <2>2, <3>4
  <2>3. CASE pc \notin Final
    BY <2>1, <2>3
  <2> QED BY <2>2, <2>3
<1> QED BY <1>1, SeenInvariant, OrderInvariant, LoopInvariant, PTL DEF LoopInv

-----------------------------------------------------------------------------
(* --copy: what the file has of what was put out.                          *)

(* g says where in q the items of o are, in their order, and what else is  *)
(* in q is not errmark's stderr.                                           *)
Embeds(g, o, q) ==
  /\ g \in [1 .. Len(o) -> 1 .. Len(q)]
  /\ \A i, j \in 1 .. Len(o) : i < j => g[i] < g[j]
  /\ \A i \in 1 .. Len(o) : SameBytes(q[g[i]], o[i])
  /\ \A k \in 1 .. Len(q) : OfStderr(q[k]) => \E i \in 1 .. Len(o) : g[i] = k

(* Items that are put out between, before or after those that were there   *)
(* leave the correspondence as it is.                                      *)
LEMMA CopyEmbeds ==
  ASSUME NEW file, NEW n \in Nat, NEW o, NEW q, Len(o) \in Nat, Len(q) \in Nat,
         NEW g, Embeds(g, o, q),
         NEW at \in [1 .. n -> 1 .. Len(o)], CopyAt(at, file, o)
  PROVE  \E to \in [1 .. n -> 1 .. Len(q)] : CopyAt(to, file, q)
<1>0. /\ g \in [1 .. Len(o) -> 1 .. Len(q)]
      /\ \A i, j \in 1 .. Len(o) : i < j => g[i] < g[j]
      /\ \A i \in 1 .. Len(o) : SameBytes(q[g[i]], o[i])
      /\ \A k \in 1 .. Len(q) : OfStderr(q[k]) => \E i \in 1 .. Len(o) : g[i] = k
  BY Zenon DEF Embeds
<1> DEFINE to == [i \in 1 .. n |-> g[at[i]]]
<1>1. to \in [1 .. n -> 1 .. Len(q)] /\ DOMAIN to = 1 .. n /\ DOMAIN at = 1 .. n
  BY <1>0
<1>2. \A i \in 1 .. n : to[i] = g[at[i]] /\ at[i] \in 1 .. Len(o)
  OBVIOUS
<1> HIDE DEF to
<1>3. \A i, j \in 1 .. n : i < j => to[i] < to[j]
  <2> SUFFICES ASSUME NEW i \in 1 .. n, NEW j \in 1 .. n, i < j PROVE to[i] < to[j]
    OBVIOUS
  <2>1. at[i] < at[j]
    BY <1>1 DEF CopyAt
  <2> QED BY <1>0, <1>2, <2>1
<1>4. \A k \in 1 .. Len(q) : OfStderr(q[k]) <=> \E i \in 1 .. n : to[i] = k
  <2> SUFFICES ASSUME NEW k \in 1 .. Len(q)
               PROVE  OfStderr(q[k]) <=> \E i \in 1 .. n : to[i] = k
    OBVIOUS
  <2>1. ASSUME OfStderr(q[k]) PROVE \E i \in 1 .. n : to[i] = k
    <3>1. PICK l \in 1 .. Len(o) : g[l] = k
      BY <1>0, <2>1
    <3>2. OfStderr(o[l])
      BY <1>0, <2>1, <3>1 DEF SameBytes, OfStderr
    <3>3. PICK i \in 1 .. n : at[i] = l
      BY <1>1, <3>2 DEF CopyAt
    <3> QED BY <1>2, <3>1, <3>3
  <2>2. ASSUME NEW i \in 1 .. n, to[i] = k PROVE OfStderr(q[k])
    <3>1. OfStderr(o[at[i]])
      BY <1>1, <1>2 DEF CopyAt
    <3> QED BY <1>0, <1>2, <2>2, <3>1 DEF SameBytes, OfStderr
  <2> QED BY <2>1, <2>2
<1>5. \A i \in 1 .. n : file[i].id = q[to[i]].id /\ file[i].kind = q[to[i]].kind
  <2> SUFFICES ASSUME NEW i \in 1 .. n
               PROVE  file[i].id = q[to[i]].id /\ file[i].kind = q[to[i]].kind
    OBVIOUS
  <2>1. file[i].id = o[at[i]].id /\ file[i].kind = o[at[i]].kind
    BY <1>1 DEF CopyAt
  <2> QED BY <1>0, <1>2, <2>1 DEF SameBytes
<1>6. CopyAt(to, file, q)
  BY <1>1, <1>3, <1>4, <1>5, Zenon DEF CopyAt
<1> QED BY <1>1, <1>6

(* An item of stderr that is written to both is the last of both.          *)
LastOf(q, o, item) == /\ Len(q) = Len(o) + 1 /\ SameBytes(q[Len(o) + 1], item)
                      /\ \A i \in 1 .. Len(o) : SameBytes(q[i], o[i])

Longer(more, file, n, item) == /\ \A i \in 1 .. n : more[i] = file[i]
                               /\ more[n + 1] = item

LEMMA CopyExtends ==
  ASSUME NEW file, NEW more, NEW n \in Nat, NEW o, NEW q, NEW item, Len(o) \in Nat,
         OfStderr(item), LastOf(q, o, item), Longer(more, file, n, item),
         NEW at \in [1 .. n -> 1 .. Len(o)], CopyAt(at, file, o)
  PROVE  \E to \in [1 .. n + 1 -> 1 .. Len(q)] : CopyAt(to, more, q)
<1> USE DEF LastOf, Longer
<1> DEFINE L  == Len(o)
           to == [i \in 1 .. n + 1 |-> IF i \in 1 .. n THEN at[i] ELSE L + 1]
<1>1. L \in Nat /\ Len(q) = L + 1 /\ DOMAIN at = 1 .. n
  OBVIOUS
<1>2. \A i \in 1 .. n : at[i] \in 1 .. L
  OBVIOUS
<1>3. /\ DOMAIN to = 1 .. n + 1 /\ to[n + 1] = L + 1
      /\ \A i \in 1 .. n : to[i] = at[i]
  OBVIOUS
<1>4. to \in [1 .. n + 1 -> 1 .. Len(q)]
  BY <1>1, <1>2
<1> HIDE DEF to, L
<1>5. \A i, j \in 1 .. n + 1 : i < j => to[i] < to[j]
  <2> SUFFICES ASSUME NEW i \in 1 .. n + 1, NEW j \in 1 .. n + 1, i < j PROVE to[i] < to[j]
    OBVIOUS
  <2>1. i \in 1 .. n
    OBVIOUS
  <2>2. CASE j \in 1 .. n
    <3>1. at[i] < at[j]
      BY <1>1, <2>1, <2>2 DEF CopyAt
    <3> QED BY <1>3, <2>1, <2>2, <3>1
  <2>3. CASE j = n + 1
    BY <1>1, <1>2, <1>3, <2>1, <2>3
  <2> QED BY <2>2, <2>3
<1>6. \A k \in 1 .. L + 1 : OfStderr(q[k]) <=> \E i \in 1 .. n + 1 : to[i] = k
  <2> SUFFICES ASSUME NEW k \in 1 .. L + 1
               PROVE  OfStderr(q[k]) <=> \E i \in 1 .. n + 1 : to[i] = k
    OBVIOUS
  <2>1. CASE k \in 1 .. L
    <3>1. OfStderr(q[k]) <=> OfStderr(o[k])
      BY <2>1 DEF SameBytes, OfStderr, L
    <3>2. OfStderr(o[k]) <=> \E i \in 1 .. n : at[i] = k
      BY <1>1, <2>1 DEF CopyAt, L
    <3>3. to[n + 1] # k
      BY <1>1, <1>3, <2>1
    <3>4. (\E i \in 1 .. n : at[i] = k) <=> \E i \in 1 .. n + 1 : to[i] = k
      <4>1. \A i \in 1 .. n + 1 : i \in 1 .. n \/ i = n + 1
        OBVIOUS
      <4>2. \A i \in 1 .. n : i \in 1 .. n + 1
        OBVIOUS
      <4> QED BY <1>3, <3>3, <4>1, <4>2, Zenon
    <3> QED BY <3>1, <3>2, <3>4
  <2>2. CASE k = L + 1
    <3>1. OfStderr(q[k])
      BY <2>2 DEF SameBytes, OfStderr, L
    <3> QED BY <1>3, <2>2, <3>1
  <2> QED BY <1>1, <2>1, <2>2
<1>7. \A i \in 1 .. n + 1 : more[i].id = q[to[i]].id /\ more[i].kind = q[to[i]].kind
  <2> SUFFICES ASSUME NEW i \in 1 .. n + 1
               PROVE  more[i].id = q[to[i]].id /\ more[i].kind = q[to[i]].kind
    OBVIOUS
  <2>1. CASE i \in 1 .. n
    <3>1. file[i].id = o[at[i]].id /\ file[i].kind = o[at[i]].kind
      BY <1>1, <2>1 DEF CopyAt
    <3>2. SameBytes(q[at[i]], o[at[i]])
      BY <1>2, <2>1 DEF L
    <3> QED BY <1>3, <2>1, <3>1, <3>2 DEF SameBytes
  <2>2. CASE i = n + 1
    BY <1>3, <2>2 DEF SameBytes, L
  <2> QED BY <2>1, <2>2
<1>8. CopyAt(to, more, q)
  BY <1>1, <1>3, <1>5, <1>6, <1>7, Zenon DEF CopyAt
<1> QED BY <1>4, <1>8

(* The file has what was put out of stderr.                                *)
CopyOf(file, m) ==
  \E at \in [1 .. Len(file) -> 1 .. Len(Issued(m))] : CopyAt(at, file, Issued(m))

LEMMA CopyMoved ==
  ASSUME NEW file, Len(file) \in Nat, NEW m \in OutType, NEW n \in OutType,
         Moved(n, m), CopyOf(file, m)
  PROVE  CopyOf(file, n)
<1> DEFINE o == Issued(m)
           q == Issued(n)
<1>1. Within(n, m) /\ Within(m, n)
  BY MovedFacts
<1>2. Len(o) \in Nat /\ Len(q) \in Nat
  <2>1. \A a, b \in Nat : a + b \in Nat
    OBVIOUS
  <2> QED BY <2>1, ShownItems, Zenon
<1>3. Len(q) <= Len(o) /\ Len(o) <= Len(q) /\ \A i \in 1 .. Len(q) : SameBytes(q[i], o[i])
  BY <1>1, Zenon DEF Within
<1>4. PICK at \in [1 .. Len(file) -> 1 .. Len(o)] : CopyAt(at, file, o)
  BY DEF CopyOf
<1> HIDE DEF o, q
<1> DEFINE g == [i \in 1 .. Len(o) |-> i]
<1>5. Len(q) = Len(o)
  BY <1>2, <1>3
<1>6. g \in [1 .. Len(o) -> 1 .. Len(q)] /\ \A i \in 1 .. Len(o) : g[i] = i
  BY <1>5
<1> HIDE DEF g
<1>7. Embeds(g, o, q)
  BY <1>3, <1>5, <1>6 DEF Embeds
<1>8. \E to \in [1 .. Len(file) -> 1 .. Len(q)] : CopyAt(to, file, q)
  BY <1>2, <1>4, <1>7, CopyEmbeds, Zenon
<1> QED BY <1>8 DEF CopyOf, q

(* More is put out, but not of stderr.                                     *)
LEMMA CopyPast ==
  ASSUME NEW file, Len(file) \in Nat, NEW m \in OutType, NEW n \in OutType, NEW item,
         OneMore(n, m, item), ~OfStderr(item), CopyOf(file, m)
  PROVE  CopyOf(file, n)
<1> DEFINE o == Issued(m)
           q == Issued(n)
<1>1. Len(o) \in Nat
  <2>1. \A a, b \in Nat : a + b \in Nat
    OBVIOUS
  <2> QED BY <2>1, ShownItems, Zenon
<1>2. /\ Len(q) = Len(o) + 1
      /\ \A i \in 1 .. Len(o) : SameBytes(q[i], o[i])
      /\ SameBytes(q[Len(o) + 1], item)
  BY Zenon DEF OneMore
<1>3. PICK at \in [1 .. Len(file) -> 1 .. Len(o)] : CopyAt(at, file, o)
  BY DEF CopyOf
<1> HIDE DEF o, q
<1> DEFINE g == [i \in 1 .. Len(o) |-> i]
<1>4. g \in [1 .. Len(o) -> 1 .. Len(q)] /\ \A i \in 1 .. Len(o) : g[i] = i
  BY <1>1, <1>2
<1> HIDE DEF g
<1>5. ~OfStderr(q[Len(o) + 1])
  BY <1>2 DEF SameBytes, OfStderr
<1>6. /\ \A i, j \in 1 .. Len(o) : i < j => g[i] < g[j]
      /\ \A i \in 1 .. Len(o) : SameBytes(q[g[i]], o[i])
  BY <1>2, <1>4
<1>7. \A k \in 1 .. Len(q) : OfStderr(q[k]) => \E i \in 1 .. Len(o) : g[i] = k
  BY <1>1, <1>2, <1>4, <1>5
<1>8. Len(q) \in Nat
  BY <1>1, <1>2
<1>9. Embeds(g, o, q)
  BY <1>4, <1>6, <1>7, Zenon DEF Embeds
<1>10. \E to \in [1 .. Len(file) -> 1 .. Len(q)] : CopyAt(to, file, q)
  BY <1>1, <1>3, <1>8, <1>9, CopyEmbeds, Zenon
<1> QED BY <1>10 DEF CopyOf, q

(* stderr is put out and copied.                                           *)
LEMMA CopyMore ==
  ASSUME NEW file \in Seq(Item), NEW m \in OutType, NEW n \in OutType, NEW item \in Item,
         OneMore(n, m, item), OfStderr(item), CopyOf(file, m)
  PROVE  CopyOf(Append(file, item), n)
<1> DEFINE o    == Issued(m)
           q    == Issued(n)
           len  == Len(file)
           more == Append(file, item)
<1>1. Len(o) \in Nat
  <2>1. \A a, b \in Nat : a + b \in Nat
    OBVIOUS
  <2> QED BY <2>1, ShownItems, Zenon
<1>2. /\ Len(q) = Len(o) + 1
      /\ \A i \in 1 .. Len(o) : SameBytes(q[i], o[i])
      /\ SameBytes(q[Len(o) + 1], item)
  BY Zenon DEF OneMore
<1>3. len \in Nat /\ Len(more) = len + 1 /\ more[len + 1] = item
      /\ \A i \in 1 .. len : more[i] = file[i]
  OBVIOUS
<1>4. PICK at \in [1 .. len -> 1 .. Len(o)] : CopyAt(at, file, o)
  BY DEF CopyOf
<1> HIDE DEF o, q, len, more
<1>5. len \in Nat /\ LastOf(q, o, item) /\ Longer(more, file, len, item)
  BY <1>2, <1>3, Zenon DEF LastOf, Longer
<1>6. \E to \in [1 .. len + 1 -> 1 .. Len(q)] : CopyAt(to, more, q)
  BY <1>1, <1>4, <1>5, CopyExtends
<1>7. \E to \in [1 .. Len(more) -> 1 .. Len(q)] : CopyAt(to, more, q)
  BY <1>3, <1>6
<1> QED BY <1>7 DEF CopyOf, q, more

(* The kernel puts a write of its own in front of what is in the buffer.   *)
LEMMA CopyRaw ==
  ASSUME NEW file, Len(file) \in Nat, NEW m \in OutType, NEW item \in Item,
         item.kind = "raw", CopyOf(file, m)
  PROVE  CopyOf(file, RawWrite(m, item))
<1>1. CASE item.dest # "tty"
  BY <1>1 DEF RawWrite
<1>2. CASE item.dest = "tty"
  <2> DEFINE n   == RawWrite(m, item)
             o   == Issued(m)
             q   == Issued(n)
             buf == m.outbuf
             s   == m.screen
             v   == n.screen
             k   == Len(s)
             b   == Len(buf)
  <2>1. /\ v = Append(s, Lit(item, m.lit)) /\ n.outbuf = buf
        /\ s \in Seq(Shown) /\ Lit(item, m.lit).kind = "raw"
    BY <1>2 DEF RawWrite, OutType, Lit
  <2>2. n \in OutType
    BY RawWriteType
  <2> HIDE DEF n
  <2>3. /\ k \in Nat /\ b \in Nat /\ Len(o) = k + b
        /\ \A i \in 1 .. k : o[i] = s[i]
        /\ \A i \in 1 .. b : o[k + i] = buf[i]
    BY ShownItems, Zenon
  <2>4. /\ Len(q) = Len(v) + b
        /\ \A i \in 1 .. Len(v) : q[i] = v[i]
        /\ \A i \in 1 .. b : q[Len(v) + i] = buf[i]
    BY <2>1, <2>2, ShownItems, Zenon
  <2>5. /\ Len(v) = k + 1 /\ v[k + 1].kind = "raw"
        /\ \A i \in 1 .. k : v[i] = s[i]
    BY <2>1
  <2>6. PICK at \in [1 .. Len(file) -> 1 .. Len(o)] : CopyAt(at, file, o)
    BY DEF CopyOf
  <2> HIDE DEF o, q, buf, s, v, k, b
  <2> DEFINE g == [i \in 1 .. Len(o) |-> IF i <= k THEN i ELSE i + 1]
  <2>7. /\ g \in [1 .. Len(o) -> 1 .. Len(q)]
        /\ \A i \in 1 .. Len(o) : g[i] = IF i <= k THEN i ELSE i + 1
    BY <2>3, <2>4, <2>5
  <2> HIDE DEF g
  <2>8. \A i, j \in 1 .. Len(o) : i < j => g[i] < g[j]
    BY <2>3, <2>7
  <2>9. \A i \in 1 .. Len(o) : SameBytes(q[g[i]], o[i])
    <3> SUFFICES ASSUME NEW i \in 1 .. Len(o) PROVE q[g[i]] = o[i]
      BY DEF SameBytes
    <3>1. CASE i \in 1 .. k
      <4>1. i \in 1 .. Len(v) /\ g[i] = i
        BY <2>3, <2>5, <2>7, <3>1
      <4> QED BY <2>3, <2>4, <2>5, <3>1, <4>1
    <3>2. CASE i \notin 1 .. k
      <4> DEFINE j == i - k
      <4>1. j \in 1 .. b /\ i = k + j /\ g[i] = Len(v) + j
        BY <2>3, <2>5, <2>7, <3>2
      <4> HIDE DEF j
      <4> QED BY <2>3, <2>4, <4>1
    <3> QED BY <3>1, <3>2
  <2>10. \A l \in 1 .. Len(q) : OfStderr(q[l]) => \E i \in 1 .. Len(o) : g[i] = l
    <3> SUFFICES ASSUME NEW l \in 1 .. Len(q), OfStderr(q[l])
                 PROVE  \E i \in 1 .. Len(o) : g[i] = l
      OBVIOUS
    <3>1. l # k + 1
      BY <2>3, <2>4, <2>5 DEF OfStderr
    <3>2. CASE l <= k
      <4>1. l \in 1 .. Len(o) /\ g[l] = l
        BY <2>3, <2>7, <3>2
      <4> QED BY <4>1
    <3>3. CASE ~(l <= k)
      <4> DEFINE j == l - 1
      <4>1. j \in 1 .. Len(o) /\ g[j] = l
        BY <2>3, <2>4, <2>5, <2>7, <3>1, <3>3
      <4> QED BY <4>1
    <3> QED BY <3>2, <3>3
  <2>11. Len(o) \in Nat /\ Len(q) \in Nat
    BY <2>3, <2>4, <2>5
  <2>12. Embeds(g, o, q)
    BY <2>7, <2>8, <2>9, <2>10, Zenon DEF Embeds
  <2>13. Len(file) \in Nat
    OBVIOUS
  <2>14. \E to \in [1 .. Len(file) -> 1 .. Len(q)] : CopyAt(to, file, q)
    BY <2>6, <2>11, <2>12, <2>13, CopyEmbeds, Zenon
  <2> QED BY <2>14 DEF CopyOf, q, n
<1> QED BY <1>1, <1>2

(* The same for the variables, until errmark dies of an error or a signal: *)
(* then the buffer of stdout is lost, while the file has what was in it.   *)
LEMMA CopyMatchesMeans ==
  CopyMatches <=> (copying /\ pc \notin {"aborted", "killed"} => CopyOf(copyf, out))
  BY DEF CopyMatches, CopyOf

LEMMA CopyMatchesNext ==
  ASSUME copying' = copying, pc' \notin {"aborted", "killed"} => pc \notin {"aborted", "killed"},
         CopyMatches,
         copying /\ CopyOf(copyf, out) /\ pc' \notin {"aborted", "killed"} => CopyOf(copyf', out')
  PROVE  CopyMatches'
<1>1. copying /\ pc \notin {"aborted", "killed"} => CopyOf(copyf, out)
  BY CopyMatchesMeans
<1>2. copying' /\ pc' \notin {"aborted", "killed"} => CopyOf(copyf', out')
  BY <1>1
<1> QED BY <1>2 DEF CopyMatches, CopyOf

(* Steps that put out nothing, and the program's own writes.               *)
LEMMA QuietCopy ==
  ASSUME LoopInv, TypeOK', CopyMatches,
         \/ Wait \/ GetRegs \/ MarkEntry \/ Nullify \/ ExitStop \/ Resume \/ MallocFails \/ Finish
         \/ PtraceFails \/ ErrmarkKilled
         \/ OfProgram \/ OfKernel \/ OfOthers \/ ChildTraceMe \/ ChildExec
  PROVE  CopyMatches'
<1>1. /\ TypeOK /\ out \in OutType /\ out' \in OutType /\ Len(copyf) \in Nat /\ regs \in Regs
  BY DEF LoopInv, TypeOK, TraceeTypeOK, OutTypeOK, LoopTypeOK
<1>2. CASE PtraceFails \/ ErrmarkKilled
  BY <1>2 DEF PtraceFails, ErrmarkKilled, CopyMatches
<1>3. CASE \/ Wait \/ GetRegs \/ MarkEntry \/ Nullify \/ ExitStop \/ Resume \/ MallocFails \/ Finish
  <2>1. Moved(out', out)
    <3>1. CASE Wait
      BY <1>1, <3>1, WithinFacts DEF Wait, Waited, Moved
    <3>2. CASE GetRegs \/ Nullify \/ ExitStop \/ Resume
      BY <3>2 DEF GetRegs, Nullify, ExitStop, ExitBody, Resume, Moved
    <3> QED BY <1>1, <1>3, <3>1, <3>2, MarkEntryMoved, FlushedAtEnd
  <2>2. copying' = copying /\ copyf' = copyf
    BY <1>3 DEF Wait, GetRegs, MarkEntry, EntryBody, Nullify, ExitStop, ExitBody, Resume,
                MallocFails, Finish
  <2>3. pc \notin {"aborted", "killed"}
    BY <1>3 DEF Wait, GetRegs, MarkEntry, EntryBody, Nullify, ExitStop, ExitBody, Resume,
                MallocFails, Finish
  <2>4. CopyOf(copyf, out) => CopyOf(copyf', out')
    BY <1>1, <2>1, <2>2, CopyMoved
  <2> QED BY <2>2, <2>3, <2>4, CopyMatchesNext
<1>4. CASE OfProgram \/ OfKernel \/ OfOthers \/ ChildTraceMe \/ ChildExec
  <2>1. copying' = copying /\ copyf' = copyf /\ pc' = pc
    BY <1>4 DEF OfProgram, OfKernel, OfOthers, ChildTraceMe, ChildExec
  <2>2. \/ out' = out
        \/ \E item \in Item : item.kind = "raw" /\ out' = RawWrite(out, item)
    <3>1. CASE KernelWrite
      <4>1. CASE out' = out
        BY <4>1
      <4>2. CASE regs.arg1 \in StdFds /\ out' = RawWrite(out, CallItem("raw", regs.arg1))
        <5>1. CallItem("raw", regs.arg1) \in Item /\ CallItem("raw", regs.arg1).kind = "raw"
          BY <1>1, <4>2, ItemFacts DEF Kinds, CallItem
        <5> QED BY <4>2, <5>1
      <4> QED BY <3>1, <4>1, <4>2 DEF KernelWrite
    <3>2. CASE ~KernelWrite
      BY <1>4, <3>2 DEF OfProgram, Program, CallWrite, CallOther, CallExit, Trap, OfKernel,
         Kernel, KernelOther, KernelExit, SignalOnReturn, SignalInUser, ReturnToUser,
         OfOthers, SendSignal, Kill, ChildTraceMe, ChildExec
    <3> QED BY <3>1, <3>2
  <2>3. CopyOf(copyf, out) => CopyOf(copyf', out')
    BY <1>1, <2>1, <2>2, CopyRaw
  <2> QED BY <2>1, <2>3, CopyMatchesNext
<1> QED BY <1>2, <1>3, <1>4

(* With --copy, what comes from descriptor 2 is written to both, and what  *)
(* comes from 1 only to stdout.                                            *)
LEMMA BothCopy ==
  ASSUME LoopInv, TypeOK', CopyMatches, CopyToStdout \/ CopyBoth
  PROVE  CopyMatches'
<1>1. /\ TypeOK /\ out \in OutType /\ out' \in OutType /\ copyf \in Seq(Item)
      /\ wcall.fd \in StdFds /\ pc = "copy" /\ copying' = copying
  BY DEF LoopInv, TypeOK, TraceeTypeOK, OutTypeOK, LoopTypeOK, CopyToStdout, CopyBoth, StdFds
<1>2. \A kind \in Kinds, fd \in StdFds :
        LET item == CallItem(kind, fd)
        IN  /\ item \in Item /\ item.kind = kind /\ item.fd = fd
            /\ OneMore(Fwrite(out, item), out, item)
            /\ OneMore(Flush(Fwrite(out, item)), out, item)
  <2> SUFFICES ASSUME NEW kind \in Kinds, NEW fd \in StdFds
               PROVE  LET item == CallItem(kind, fd)
                      IN  /\ item \in Item /\ item.kind = kind /\ item.fd = fd
                          /\ OneMore(Fwrite(out, item), out, item)
                          /\ OneMore(Flush(Fwrite(out, item)), out, item)
    OBVIOUS
  <2>1. CallItem(kind, fd) \in Item
    BY <1>1, ItemFacts
  <2>2. CallItem(kind, fd).kind = kind /\ CallItem(kind, fd).fd = fd
    BY DEF CallItem
  <2> QED BY <1>1, <2>1, <2>2, FwriteOneMore
<1>3. CASE CopyToStdout
  <2>1. copyf' = copyf /\ (copying => wcall.fd # 2) /\ Len(copyf) \in Nat
    BY <1>1, <1>3 DEF CopyToStdout
  <2>2. \/ Moved(out', out)
        \/ \E kind \in Kinds : OneMore(out', out, CallItem(kind, wcall.fd))
    <3>1. \/ out' \in {out, Flush(out)}
          \/ \E kind \in Kinds : out' \in {Fwrite(out, CallItem(kind, wcall.fd)),
                                           Flush(Fwrite(out, CallItem(kind, wcall.fd)))}
      BY <1>3, PmemFwriteCases DEF CopyToStdout, Kinds
    <3>2. CASE out' \in {out, Flush(out)}
      BY <1>1, <3>2, FlushType DEF Moved
    <3> QED BY <1>1, <1>2, <3>1, <3>2
  <2>3. copying /\ CopyOf(copyf, out) => CopyOf(copyf', out')
    <3> SUFFICES ASSUME copying, CopyOf(copyf, out) PROVE CopyOf(copyf, out')
      BY <2>1
    <3>1. CASE Moved(out', out)
      BY <1>1, <2>1, <3>1, CopyMoved
    <3>2. ASSUME NEW kind \in Kinds, OneMore(out', out, CallItem(kind, wcall.fd))
          PROVE  CopyOf(copyf, out')
      <4>1. ~OfStderr(CallItem(kind, wcall.fd))
        BY <2>1 DEF CallItem, OfStderr
      <4> QED BY <1>1, <2>1, <3>2, <4>1, CopyPast
    <3> QED BY <2>2, <3>1, <3>2
  <2> QED BY <1>1, <2>3, CopyMatchesNext
<1>4. CASE CopyBoth
  <2> DEFINE kind == IF Readable(wcall) THEN "data" ELSE "junk"
             item == CallItem(kind, 2)
  <2>1. kind \in Kinds /\ 2 \in StdFds /\ kind # "raw"
    BY DEF Kinds, StdFds
  <2>2. \/ out' = out /\ copyf' = copyf
        \/ out' \in {Fwrite(out, item), Flush(Fwrite(out, item))} /\ copyf' = Append(copyf, item)
    BY <1>4 DEF CopyBoth, Copied
  <2> HIDE DEF kind
  <2>3. item \in Item /\ OfStderr(item) /\ OneMore(Fwrite(out, item), out, item)
        /\ OneMore(Flush(Fwrite(out, item)), out, item)
    BY <1>2, <2>1 DEF OfStderr
  <2> HIDE DEF item
  <2>4. CopyOf(copyf, out) => CopyOf(copyf', out')
    <3>1. CASE out' = out /\ copyf' = copyf
      BY <3>1
    <3>2. CASE OneMore(out', out, item) /\ copyf' = Append(copyf, item)
      BY <1>1, <2>3, <3>2, CopyMore
    <3> QED BY <2>2, <2>3, <3>1, <3>2
  <2> QED BY <1>1, <2>4, CopyMatchesNext
<1> QED BY <1>3, <1>4

(* The file of --copy has what the terminal is given of stderr, in the     *)
(* same order and nothing else (README.md: "make a copy of stderr").       *)
THEOREM CopyMatchesHolds == Spec => []CopyMatches
<1>1. Init => CopyMatches
  <2> SUFFICES ASSUME Init PROVE CopyMatches
    OBVIOUS
  <2>1. Issued(out) = << >> /\ copyf = << >>
    BY DEF Init, OutInit, RunInit, Issued
  <2>2. Len(Issued(out)) = 0 /\ Len(copyf) = 0
    BY <2>1
  <2> DEFINE o  == Issued(out)
             at == [i \in 1 .. 0 |-> 1]
  <2>3. at \in [1 .. 0 -> 1 .. 0] /\ DOMAIN at = 1 .. 0
    OBVIOUS
  <2> HIDE DEF at
  <2>4. CopyAt(at, copyf, o)
    <3> HIDE DEF o
    <3>1. \A i \in DOMAIN at : FALSE
      BY <2>3
    <3>2. \A k \in 1 .. Len(o) : FALSE
      BY <2>2 DEF o
    <3> QED BY <3>1, <3>2, Zenon DEF CopyAt
  <2> QED BY <2>2, <2>3, <2>4 DEF CopyMatches
<1>2. LoopInv /\ CopyMatches /\ [Next]_vars => CopyMatches'
  <2> SUFFICES ASSUME LoopInv, CopyMatches, [Next]_vars PROVE CopyMatches'
    OBVIOUS
  <2>1. TypeOK'
    BY NextControl DEF LoopInv
  <2>2. UNCHANGED vars => CopyMatches'
    BY DEF CopyMatches
  <2> QED BY <2>1, <2>2, QuietCopy, BothCopy DEF Next, Tracer, Terminated
<1> QED BY <1>1, <1>2, LoopInvariant, PTL DEF Spec
=============================================================================
