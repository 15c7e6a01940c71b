-------------------------- MODULE RunProgramProofs --------------------------
(***************************************************************************)
(* Theorems about the tracing loop, for every set of writes, signals, exit *)
(* codes and accidents, and any number of system calls and signals: the    *)
(* types, and how ptrace_cmd and the program alternate while toggle tells  *)
(* the entry of a write from its exit, until a signal stop is taken for    *)
(* one of them.                                                            *)
(***************************************************************************)
EXTENDS RunProgramProps, TerminalProofs

USE DEF vars, traceeVars, tracerVars, programVars

-----------------------------------------------------------------------------
(* Registers.                                                              *)
LEMMA RegsFacts ==
  /\ NoRegs \in Regs
  /\ \A a \in WriteArgs : Request("write", a[1], a[2], a[3]) \in Regs
  /\ \A code \in ExitCodes : Request("exit", code, "null", 0) \in Regs
  /\ Request("other", 0, "null", 0) \in Regs
<1>1. \A a \in WriteArgs : a[1] \in 0 .. 255 /\ a[2] \in Bufs /\ a[3] \in Lens
  BY ArgsAssumption
<1>2. \A code \in ExitCodes : code \in 0 .. 255
  BY CodesAssumption
<1> QED BY <1>1, <1>2 DEF NoRegs, Regs, Request, NotYet, Bufs, Lens, HugeLen

LEMMA RegsUpdate ==
  ASSUME NEW r \in Regs
  PROVE  /\ [r EXCEPT !.arg3 = 0] \in Regs
         /\ [r EXCEPT !.orig = "none"] \in Regs
         /\ \A l \in Lens : [r EXCEPT !.ret = l] \in Regs
         /\ \A n \in -38 .. 2 : [r EXCEPT !.ret = n] \in Regs
         /\ Call(r) \in [fd : 0 .. 255, buf : Bufs, len : Lens]
         /\ r.arg1 \in Nat
<1>1. [r EXCEPT !.arg3 = 0] \in Regs
  BY DEF Regs, Lens
<1>2. [r EXCEPT !.orig = "none"] \in Regs
  BY DEF Regs
<1>3. \A n \in -38 .. 2 : [r EXCEPT !.ret = n] \in Regs
  BY DEF Regs
<1>4. \A l \in Lens : l \in -38 .. 2
  BY DEF Lens, HugeLen
<1>5. Call(r) \in [fd : 0 .. 255, buf : Bufs, len : Lens]
  BY DEF Regs, Call
<1>6. r.arg1 \in Nat
  BY DEF Regs
<1> QED BY <1>1, <1>2, <1>3, <1>4, <1>5, <1>6

LEMMA StatusFacts ==
  /\ \A sig \in Nat : W_STOPCODE(sig) \in Nat
  /\ \A c, sig \in Nat : W_EXITCODE(c, sig) \in Nat
  BY DEF W_STOPCODE, W_EXITCODE

-----------------------------------------------------------------------------
(* The program and the kernel keep the types.                              *)
LEMMA ProgramType ==
  ASSUME TypeOK, Program, UNCHANGED <<tracerVars, marked>>
  PROVE  TypeOK'
<1> USE DEF TypeOK, TraceeTypeOK, OutTypeOK, LoopTypeOK
<1>1. ASSUME NEW r \in Regs, Trap(r), ncall' \in Nat
      PROVE  TypeOK'
  <2>1. phase' \in Phases /\ wstatus' \in Nat /\ waited' \in BOOLEAN
    <3>1. W_STOPCODE(SIGTRAP) \in Nat
      BY StatusFacts DEF SIGTRAP
    <3> QED BY <1>1, <3>1 DEF Trap, StopIn, Phases, Stopped, Running
  <2> QED BY <1>1, <2>1 DEF Trap
<1>2. CASE CallWrite
  BY <1>1, <1>2, RegsFacts DEF CallWrite
<1>3. CASE CallOther
  BY <1>1, <1>3, RegsFacts DEF CallOther
<1>4. CASE CallExit
  BY <1>1, <1>4, RegsFacts DEF CallExit
<1> QED BY <1>2, <1>3, <1>4 DEF Program

LEMMA ItemFacts ==
  ASSUME TypeOK, NEW kind \in Kinds, NEW fd \in StdFds
  PROVE  CallItem(kind, fd) \in Item
  BY DEF TypeOK, TraceeTypeOK, CallItem, Item

LEMMA WriteResultType ==
  ASSUME NEW r \in Regs
  PROVE  WriteResult(r) \in -38 .. 2
<1>1. r.arg3 \in {-1, 0, 2}
  BY DEF Regs, Lens, HugeLen
<1> QED BY <1>1 DEF WriteResult, Failed, HugeLen

LEMMA FinishedType ==
  ASSUME TypeOK, NEW n \in -38 .. 2, Finished(n)
  PROVE  regs' \in Regs /\ phase' \in Phases /\ wstatus' \in Nat /\ waited' \in BOOLEAN
<1>1. regs' \in Regs
  <2>1. regs \in Regs
    BY DEF TypeOK, TraceeTypeOK
  <2>2. regs' = [regs EXCEPT !.ret = n]
    BY DEF Finished
  <2> QED BY <2>1, <2>2, RegsUpdate
<1>2. CASE traced
  <2>1. phase' = "exit" /\ wstatus' = W_STOPCODE(SIGTRAP) /\ waited' = FALSE
    BY <1>2 DEF Finished, StopIn
  <2>2. W_STOPCODE(SIGTRAP) \in Nat
    BY StatusFacts DEF SIGTRAP
  <2>3. "exit" \in Phases
    BY DEF Phases, Stopped
  <2> QED BY <1>1, <2>1, <2>2, <2>3
<1>3. CASE ~traced
  <2>1. phase' = "return" /\ wstatus' = wstatus /\ waited' = waited
    BY <1>3 DEF Finished
  <2>2. wstatus \in Nat /\ waited \in BOOLEAN
    BY DEF TypeOK, TraceeTypeOK
  <2>3. "return" \in Phases
    BY DEF Phases, Running
  <2> QED BY <1>1, <2>1, <2>2, <2>3
<1> QED BY <1>2, <1>3

LEMMA KernelType ==
  ASSUME TypeOK, Kernel, UNCHANGED <<tracerVars, marked>>
  PROVE  TypeOK'
<1> USE DEF TypeOK, TraceeTypeOK, OutTypeOK, LoopTypeOK
<1> USE DEF StopIn, Phases, Stopped, Dead, Running, SIGTRAP
<1>1. ASSUME NEW n \in -38 .. 2, Finished(n)
      PROVE  regs' \in Regs /\ phase' \in Phases /\ wstatus' \in Nat /\ waited' \in BOOLEAN
  <2>1. TypeOK
    OBVIOUS
  <2> HIDE DEF TypeOK
  <2> QED BY <1>1, <2>1, FinishedType
<1>2. CASE KernelWrite
  <2>1. /\ regs' \in Regs /\ phase' \in Phases /\ wstatus' \in Nat /\ waited' \in BOOLEAN
    BY <1>1, <1>2, WriteResultType DEF KernelWrite
  <2>2. out' \in OutType
    <3>1. \A fd \in StdFds : CallItem("raw", fd) \in Item
      BY ItemFacts DEF Kinds
    <3> QED BY <1>2, <3>1, RawWriteType DEF KernelWrite
  <2> QED BY <1>2, <2>1, <2>2 DEF KernelWrite
<1>3. CASE KernelOther
  <2>1. /\ regs' \in Regs /\ phase' \in Phases /\ wstatus' \in Nat /\ waited' \in BOOLEAN
    BY <1>1, <1>3 DEF KernelOther
  <2>2. cfile' \in [StdFds -> Files]
    BY <1>3 DEF KernelOther, Files
  <2> QED BY <1>3, <2>1, <2>2 DEF KernelOther
<1>4. CASE KernelExit
  <2>1. W_EXITCODE(regs.arg1, 0) \in Nat
    <3>1. regs.arg1 \in Nat
      BY RegsUpdate
    <3> QED BY <3>1, StatusFacts
  <2> QED BY <1>4, <2>1 DEF KernelExit, Die
<1>5. ASSUME NEW r \in Regs, TakeSignal(r)
      PROVE  /\ regs' \in Regs /\ phase' \in Phases /\ wstatus' \in Nat
             /\ waited' \in BOOLEAN /\ pending' \subseteq Signals
  <2>1. \A sig \in pending : W_STOPCODE(sig) \in Nat
    <3>1. \A sig \in pending : sig \in Nat
      BY SignalsAssumption
    <3> QED BY <3>1, StatusFacts
  <2> QED BY <1>5, <2>1 DEF TakeSignal
<1>6. CASE SignalOnReturn
  BY <1>5, <1>6 DEF SignalOnReturn
<1>7. CASE SignalInUser
  <2>1. [regs EXCEPT !.orig = "none"] \in Regs
    BY RegsUpdate
  <2> QED BY <1>5, <1>7, <2>1 DEF SignalInUser
<1>8. CASE ReturnToUser
  BY <1>8 DEF ReturnToUser
<1> QED BY <1>2, <1>3, <1>4, <1>6, <1>7, <1>8 DEF Kernel

LEMMA OthersType ==
  ASSUME TypeOK, OfOthers \/ ChildTraceMe \/ ChildExec
  PROVE  TypeOK'
<1> USE DEF TypeOK, TraceeTypeOK, OutTypeOK, LoopTypeOK
<1> USE DEF Phases, Stopped, Dead, Running
<1>1. /\ W_EXITCODE(0, SIGKILL) \in Nat /\ W_EXITCODE(0, SIGABRT) \in Nat
      /\ W_EXITCODE(2, 0) \in Nat /\ W_STOPCODE(SIGTRAP) \in Nat
  BY StatusFacts DEF SIGKILL, SIGABRT, SIGTRAP
<1>2. CASE SendSignal /\ UNCHANGED <<tracerVars, marked>>
  BY <1>2 DEF SendSignal
<1>3. CASE Kill /\ UNCHANGED <<tracerVars, marked>>
  BY <1>1, <1>3 DEF Kill, Die
<1>4. CASE ChildTraceMe
  BY <1>1, <1>4 DEF ChildTraceMe, Die
<1>5. CASE ChildExec
  BY <1>1, <1>5, RegsFacts DEF ChildExec, Die, StopIn
<1> QED BY <1>2, <1>3, <1>4, <1>5 DEF OfOthers

-----------------------------------------------------------------------------
(* The tracing loop keeps the types.                                       *)
LEMMA WaitType ==
  ASSUME TypeOK, Wait
  PROVE  TypeOK'
<1> USE DEF TypeOK, TraceeTypeOK, OutTypeOK, LoopTypeOK, Pcs, Phases, Dead
<1>1. MarkCloseIfOpen(out) \in OutType
  BY MarkOpenCloseType DEF MarkCloseIfOpen
<1>2. ASSUME NEW status \in Nat, Waited(status)
      PROVE  out' \in OutType /\ exit_status' \in Nat /\ pc' \in {"finish", "getregs"}
  BY <1>1, <1>2 DEF Waited
<1>3. out' \in OutType /\ exit_status' \in Nat /\ pc' \in {"finish", "getregs"}
  BY <1>2 DEF Wait
<1>4. phase' \in Phases /\ waited' \in BOOLEAN
  BY DEF Wait
<1> QED BY <1>3, <1>4 DEF Wait

LEMMA GetRegsType ==
  ASSUME TypeOK, GetRegs
  PROVE  TypeOK'
<1> USE DEF TypeOK, TraceeTypeOK, OutTypeOK, LoopTypeOK, Pcs, Handling
<1>1. lregs' \in Regs
  BY DEF GetRegs
<1>2. Dispatch(lregs') \in {"resume", "entry", "exit"}
  BY <1>1 DEF Dispatch, Bit
<1>3. pc' \in Pcs /\ pc' \notin {"nullify", "copy"}
  BY <1>2 DEF GetRegs
<1>4. child_exited' \in BOOLEAN
  BY DEF GetRegs, PtraceReturns
<1>5. UNCHANGED <<traceeVars, out, marked, toggle, mark_state, wcall, exit_status,
                  exitcode, copying, copyf, flips>>
  BY DEF GetRegs
<1> QED BY <1>1, <1>3, <1>4, <1>5

LEMMA MarkEntryType ==
  ASSUME TypeOK, MarkEntry
  PROVE  TypeOK'
<1> USE DEF TypeOK, TraceeTypeOK, OutTypeOK, LoopTypeOK, Pcs, Handling, Bit
<1>1. wcall' \in [fd : 0 .. 255, buf : Bufs, len : Lens]
  BY RegsUpdate DEF MarkEntry, EntryBody
<1>2. flips' \in Nat
  BY DEF MarkEntry, EntryBody, CountFlip
<1>3. out' \in OutType
  BY BeforeWriteType, MarkOpenCloseType DEF MarkEntry, EntryBody
<1>4. pc' \in {"nullify", "copy"} => wcall'.fd \in StdFds
  BY DEF MarkEntry, EntryBody, TracedStd
<1>5. pc' \in Pcs /\ toggle' \in Bit /\ mark_state' \in Bit
  BY DEF MarkEntry, EntryBody
<1> QED BY <1>1, <1>2, <1>3, <1>4, <1>5 DEF MarkEntry, EntryBody

LEMMA SetRegsType ==
  ASSUME TypeOK, NEW r \in Regs, SetRegs(r)
  PROVE  lregs' \in Regs /\ regs' \in Regs /\ child_exited' \in BOOLEAN
  BY DEF TypeOK, TraceeTypeOK, LoopTypeOK, SetRegs, PtraceReturns

LEMMA NullifyType ==
  ASSUME TypeOK, Nullify
  PROVE  TypeOK'
<1> USE DEF TypeOK, TraceeTypeOK, OutTypeOK, LoopTypeOK
<1>1. NoBytes(lregs) \in Regs
  BY RegsUpdate DEF NoBytes
<1>2. lregs' \in Regs /\ regs' \in Regs /\ child_exited' \in BOOLEAN
  BY <1>1, SetRegsType DEF Nullify
<1> QED BY <1>2 DEF Nullify, Pcs, Handling

LEMMA ExitStopType ==
  ASSUME TypeOK, ExitStop
  PROVE  TypeOK'
<1> USE DEF TypeOK, TraceeTypeOK, OutTypeOK, LoopTypeOK
<1>1. LengthReturned(lregs) \in Regs
  BY RegsUpdate DEF LengthReturned
<1>2. lregs' \in Regs /\ regs' \in Regs /\ child_exited' \in BOOLEAN
  BY <1>1, SetRegsType DEF ExitStop, ExitBody
<1>3. flips' \in Nat
  BY DEF ExitStop, ExitBody, CountFlip
<1> QED BY <1>2, <1>3 DEF ExitStop, ExitBody, Pcs, Handling, Bit

LEMMA LetGoType ==
  ASSUME TypeOK, LetGo
  PROVE  TraceeTypeOK'
  BY DEF TypeOK, TraceeTypeOK, LetGo, Resumed, Phases, Stopped, Dead, Running

(* What pmem_fwrite leaves of the output side: it is as it was, flushed,   *)
(* or has one more item, buffered or flushed.  A range that can be read    *)
(* comes as a whole.                                                       *)
LEMMA PmemFwriteCases ==
  ASSUME NEW c, PmemFwrite(c)
  PROVE  \/ out' \in {out, Flush(out)}
         \/ \E kind \in {"data", "part", "dump"} :
              /\ out' \in {Fwrite(out, CallItem(kind, c.fd)),
                           Flush(Fwrite(out, CallItem(kind, c.fd)))}
              /\ c.len # 0
              /\ kind # "dump" => c.len # HugeLen
              /\ kind = "data" => c.buf = "good" /\ c.len > 0
              /\ kind = "part" => c.buf # "null"
<1>1. PICK r \in CopyResults(c.buf, c.len, phase \in Stopped) : out' \in Received(c, r)
  BY DEF PmemFwrite
<1>2. /\ r.bytes \in {"none", "some", "all"}
      /\ r.bytes = "all" => c.buf = "good" /\ c.len > 0
      /\ r.bytes = "some" => c.buf # "null" /\ c.len # 0
  BY <1>1 DEF CopyResults
<1>3. CASE r.bytes = "none"
  BY <1>1, <1>3 DEF Received
<1>4. CASE r.bytes = "all"
  <2>1. out' \in {Fwrite(out, CallItem("data", c.fd)), Flush(Fwrite(out, CallItem("data", c.fd)))}
    BY <1>1, <1>4 DEF Received
  <2>2. c.buf = "good" /\ c.len > 0
    BY <1>2, <1>4
  <2> QED BY <2>1, <2>2 DEF HugeLen
<1>5. CASE r.bytes = "some" /\ c.len = HugeLen
  BY <1>1, <1>2, <1>5 DEF Received
<1>6. CASE r.bytes = "some" /\ c.len # HugeLen
  BY <1>1, <1>2, <1>6 DEF Received
<1> QED BY <1>2, <1>3, <1>4, <1>5, <1>6

(* A range that can be read is printed, all of it, and flushed.            *)
LEMMA PmemFwriteWhole ==
  ASSUME NEW c, PmemFwrite(c), phase \in Stopped, c.buf = "good", c.len = 2
  PROVE  out' = Flush(Fwrite(out, CallItem("data", c.fd)))
<1>1. PICK r \in CopyResults(c.buf, c.len, phase \in Stopped) : out' \in Received(c, r)
  BY DEF PmemFwrite
<1>2. r = [bytes |-> "all", flushed |-> TRUE]
  BY <1>1 DEF CopyResults
<1> QED BY <1>1, <1>2 DEF Received

LEMMA CopyToStdoutType ==
  ASSUME TypeOK, CopyToStdout
  PROVE  TypeOK'
<1> USE DEF TypeOK, TraceeTypeOK, OutTypeOK, LoopTypeOK
<1>1. wcall.fd \in StdFds /\ PmemFwrite(wcall)
  BY DEF CopyToStdout
<1>2. out' \in OutType
  <2>1. \A kind \in Kinds : CallItem(kind, wcall.fd) \in Item
    BY <1>1, ItemFacts
  <2>2. \A kind \in Kinds : /\ Fwrite(out, CallItem(kind, wcall.fd)) \in OutType
                            /\ Flush(Fwrite(out, CallItem(kind, wcall.fd))) \in OutType
    BY <2>1, FwriteType, FlushType
  <2> QED BY <1>1, <2>2, FlushType, PmemFwriteCases DEF Kinds
<1> QED BY <1>2 DEF CopyToStdout, Pcs, Handling

LEMMA CopyBothType ==
  ASSUME TypeOK, CopyBoth
  PROVE  TypeOK'
<1> USE DEF TypeOK, TraceeTypeOK, OutTypeOK, LoopTypeOK
<1> DEFINE item == CallItem(IF Readable(wcall) THEN "data" ELSE "junk", 2)
<1>1. item \in Item
  BY ItemFacts DEF Kinds, StdFds
<1>2. Fwrite(out, item) \in OutType /\ Flush(Fwrite(out, item)) \in OutType
  BY <1>1, FwriteType, FlushType
<1>3. Append(copyf, item) \in Seq(Item)
  BY <1>1
<1> HIDE DEF item
<1>4. /\ copyf' = copyf \/ copyf' = Append(copyf, item)
      /\ out' \in {out, Fwrite(out, item), Flush(Fwrite(out, item))}
  BY DEF CopyBoth, Copied, item
<1>5. out' \in OutType /\ copyf' \in Seq(Item)
  BY <1>2, <1>3, <1>4
<1>6. pc' = "resume" /\ "resume" \in Pcs
  BY DEF CopyBoth, Pcs, Handling
<1> QED BY <1>5, <1>6 DEF CopyBoth

LEMMA FinishType ==
  ASSUME TypeOK, Finish \/ MallocFails \/ Resume \/ PtraceFails \/ ErrmarkKilled
  PROVE  TypeOK'
<1> USE DEF TypeOK, OutTypeOK, LoopTypeOK, Pcs, Final
<1>1. /\ MarkCloseIfOpen(out) \in OutType
      /\ MarkCloseIfOpen(MarkCloseIfOpen(out)) \in OutType
  BY MarkOpenCloseType DEF MarkCloseIfOpen
<1>2. CASE Finish
  <2>1. ExitCode(exit_status) \in 0 .. 255
    BY DEF ExitCode
  <2>2. TraceeTypeOK' /\ marked' = marked
    BY <1>2, LetGoType DEF Finish, LetGo
  <2>3. out' \in OutType
    BY <1>1, <1>2, FlushType DEF Finish
  <2> QED BY <1>2, <2>1, <2>2, <2>3 DEF Finish
<1>3. CASE MallocFails
  <2>1. TraceeTypeOK' /\ marked' = marked
    BY <1>3, LetGoType DEF MallocFails, LetGo
  <2>2. out' \in OutType
    BY <1>3, FlushType DEF MallocFails
  <2> QED BY <1>3, <2>1, <2>2 DEF MallocFails
<1>4. CASE Resume
  <2>1. phase' \in Phases
    BY <1>4 DEF TraceeTypeOK, Resume, Resumed, Phases, Stopped, Dead, Running
  <2>2. child_exited' \in BOOLEAN
    BY <1>4 DEF Resume, PtraceReturns
  <2> QED BY <1>4, <2>1, <2>2 DEF Resume, TraceeTypeOK
<1>5. \A m \in OutType : [m EXCEPT !.outbuf = << >>] \in OutType
  <2>1. << >> \in Seq(Item)
    OBVIOUS
  <2> QED BY <2>1 DEF OutType
<1>6. CASE PtraceFails
  <2>1. TraceeTypeOK' /\ marked' = marked
    BY <1>6, LetGoType DEF PtraceFails, LetGo
  <2> QED BY <1>1, <1>5, <1>6, <2>1 DEF PtraceFails
<1>7. CASE ErrmarkKilled
  <2>1. TraceeTypeOK' /\ marked' = marked
    BY <1>7, LetGoType DEF ErrmarkKilled, LetGo
  <2> QED BY <1>5, <1>7, <2>1 DEF ErrmarkKilled
<1> QED BY <1>2, <1>3, <1>4, <1>6, <1>7

-----------------------------------------------------------------------------
LEMMA InitType == Init => TypeOK
<1> SUFFICES ASSUME Init PROVE TypeOK
  OBVIOUS
<1>1. TraceeTypeOK
  <2>1. sent \in Seq(Signals)
    BY DEF Init, TraceeInit
  <2> QED BY <2>1, RegsFacts DEF Init, TraceeInit, TraceeTypeOK, Phases, Dead, Running, Files
<1>2. OutTypeOK
  BY DEF Init, OutInit, OutTypeOK, OutType
<1>3. StackRegs \subseteq Regs
  BY RegsFacts DEF StackRegs
<1>4. LoopTypeOK
  <2>1. Call(NoRegs) \in [fd : 0 .. 255, buf : Bufs, len : Lens]
    BY RegsFacts, RegsUpdate
  <2>2. lregs \in Regs /\ wcall \in [fd : 0 .. 255, buf : Bufs, len : Lens]
    BY <1>3, <2>1 DEF Init, RunInit
  <2>3. copyf \in Seq(Item)
    BY DEF Init, RunInit
  <2> QED BY <2>2, <2>3 DEF Init, RunInit, LoopTypeOK, Pcs, Bit, NoCode
<1> QED BY <1>1, <1>2, <1>4 DEF TypeOK

LEMMA NextType == TypeOK /\ [Next]_vars => TypeOK'
<1> SUFFICES ASSUME TypeOK, [Next]_vars PROVE TypeOK'
  OBVIOUS
<1>1. CASE Tracer
  BY <1>1, WaitType, GetRegsType, MarkEntryType, NullifyType, CopyToStdoutType,
     CopyBothType, ExitStopType, FinishType DEF Tracer
<1>2. CASE PtraceFails \/ ErrmarkKilled
  BY <1>2, FinishType
<1>3. CASE OfProgram
  BY <1>3, ProgramType DEF OfProgram
<1>4. CASE OfKernel
  BY <1>4, KernelType DEF OfKernel
<1>5. CASE OfOthers \/ ChildTraceMe \/ ChildExec
  BY <1>5, OthersType
<1>6. CASE UNCHANGED vars
  BY <1>6 DEF TypeOK, TraceeTypeOK, OutTypeOK, LoopTypeOK
<1> QED BY <1>1, <1>2, <1>3, <1>4, <1>5, <1>6 DEF Next, Terminated

(* Whatever the program does, is sent or passes to write, and whatever     *)
(* fails around it, the state of errmark stays well-formed: no field of    *)
(* the output side, of the registers or of the loop leaves its type.       *)
THEOREM TypeCorrect == Spec => []TypeOK
<1>1. Init => TypeOK
  BY InitType
<1>2. TypeOK /\ [Next]_vars => TypeOK'
  BY NextType
<1> QED BY <1>1, <1>2, PTL DEF Spec

-----------------------------------------------------------------------------
(* The inductive invariant behind Lockstep, ToggleParity, EntryMeansEntry  *)
(* and RegsTouched.  It adds to the first two what errmark and the program *)
(* know of each other's registers.                                         *)
Live == traced /\ phase \notin Dead

(* The registers in the kernel are those the program loaded, as far as the *)
(* system call number goes, and entirely before errmark has seen them.     *)
StopView ==
  /\ phase \in {"entry", "kernel", "exit"} => regs.orig = call.orig
  /\ phase = "entry" /\ ~Noticed => regs = call

(* errmark's copy of the registers, and why it went where it is.           *)
LocalView ==
  /\ pc \in {"entry", "exit", "nullify"} /\ Live => lregs = regs
  /\ pc = "entry" => toggle = 0
  /\ pc \in {"exit", "nullify", "copy"} => toggle = 1
  /\ pc \in {"entry", "exit", "nullify", "copy"} => lregs.orig = "write"

(* Until a signal stop is mistaken, wfd, waddr and wlen are the arguments  *)
(* of the write the program is in.                                         *)
CallView == flips = 0 /\ toggle = 1 /\ Live => wcall = Call(call)

HeldUntilEnd == traced <=> pc \notin Final

ControlInv == /\ Lockstep /\ HeldUntilEnd /\ StopView /\ LocalView
              /\ ToggleParity /\ CallView
LoopInv    == TypeOK /\ ControlInv

(* The types the steps below need.                                         *)
LEMMA LoopTypes ==
  ASSUME LoopInv
  PROVE  /\ traced \in BOOLEAN /\ waited \in BOOLEAN /\ phase \in Phases
         /\ toggle \in {0, 1} /\ flips \in Nat /\ pc \in Pcs
  BY DEF LoopInv, TypeOK, TraceeTypeOK, LoopTypeOK, Bit

-----------------------------------------------------------------------------
(* The steps of the program and of the kernel.                             *)
LEMMA ProgramControl ==
  ASSUME LoopInv, Program, UNCHANGED <<tracerVars, marked>>
  PROVE  ControlInv'
<1> USE DEF LoopInv, ControlInv, Lockstep, HeldUntilEnd, StopView, LocalView, CallView,
            Live, Noticed, Stopped, Dead
<1>1. \E r : Trap(r)
  BY DEF Program, CallWrite, CallOther, CallExit
<1>2. PICK r : Trap(r)
  BY <1>1
<1>3. phase = "user" /\ regs' = r /\ call' = r /\ traced' = traced
  BY <1>2 DEF Trap
<1>4. \/ traced /\ phase' = "entry" /\ ~waited' /\ waited' \in BOOLEAN
      \/ ~traced /\ phase' = "kernel"
  BY <1>2 DEF Trap, StopIn
<1>5. traced => pc = "wait" /\ ~InWrite /\ ~(flips = 0 /\ toggle = 1)
  <2> SUFFICES ASSUME traced PROVE pc = "wait" /\ ~InWrite /\ ~(flips = 0 /\ toggle = 1)
    OBVIOUS
  <2>1. pc = "wait" /\ ~InWrite
    BY <1>3 DEF InWrite
  <2>2. (toggle + flips) % 2 # 1
    BY <1>3, <2>1 DEF ToggleParity
  <2> QED BY <2>1, <2>2
<1>6. ToggleParity'
  <2>1. ~traced => ToggleParity'
    BY <1>3 DEF ToggleParity
  <2>2. traced => ~InWrite'
    BY <1>4, <1>5 DEF InWrite
  <2>3. traced => (toggle + flips) % 2 # 1
    BY <1>3, <1>5 DEF ToggleParity
  <2> QED BY <2>1, <2>2, <2>3 DEF ToggleParity
<1>7. CallView' /\ HeldUntilEnd' /\ Lockstep'
  BY <1>3, <1>4, <1>5
<1>8. StopView' /\ LocalView'
  <2>1. traced => pc = "wait"
    BY <1>5
  <2>2. pc = "wait" => LocalView'
    OBVIOUS
  <2>3. ~traced => LocalView'
    BY <1>3
  <2> QED BY <1>3, <2>1, <2>2, <2>3
<1> QED BY <1>6, <1>7, <1>8

LEMMA KernelControl ==
  ASSUME LoopInv, Kernel, UNCHANGED <<tracerVars, marked>>
  PROVE  ControlInv'
<1> USE DEF LoopInv, ControlInv, Lockstep, HeldUntilEnd, StopView, LocalView, CallView,
            Live, Noticed, Stopped, Dead
<1>1. traced' = traced /\ call' = call
  BY DEF Kernel, KernelWrite, KernelOther, KernelExit, SignalOnReturn, SignalInUser,
         ReturnToUser
<1>2. phase \in {"kernel", "return", "user"}
  BY DEF Kernel, KernelWrite, KernelOther, KernelExit, SignalOnReturn, SignalInUser,
         ReturnToUser
<1>3. traced => pc = "wait"
  BY <1>2
(* Where the step leads, and that it leaves the system call number alone.  *)
<1>4. \/ phase = "kernel" /\ regs'.orig = regs.orig /\ traced
         /\ phase' = "exit" /\ waited' = FALSE
      \/ phase = "kernel" /\ ~traced /\ phase' = "return"
      \/ phase' = "zombie"
      \/ phase \in {"return", "user"} /\ traced /\ phase' = "sigstop" /\ waited' = FALSE
      \/ phase \in {"return", "user"} /\ phase' = "user"
  <2>1. ASSUME NEW n, Finished(n), phase = "kernel"
        PROVE  \/ regs'.orig = regs.orig /\ traced /\ phase' = "exit" /\ waited' = FALSE
               \/ ~traced /\ phase' = "return"
    <3>1. [regs EXCEPT !.ret = n].orig = regs.orig
      BY DEF LoopInv, TypeOK, TraceeTypeOK, Regs
    <3> QED BY <2>1, <3>1 DEF Finished, StopIn
  <2>2. CASE KernelWrite
    BY <2>1, <2>2 DEF KernelWrite
  <2>3. CASE KernelOther
    BY <2>1, <2>3 DEF KernelOther
  <2>4. CASE KernelExit
    BY <2>4 DEF KernelExit, Die
  <2>5. CASE SignalOnReturn
    BY <2>5 DEF SignalOnReturn, TakeSignal, StopIn
  <2>6. CASE SignalInUser
    BY <2>6 DEF SignalInUser, TakeSignal, StopIn
  <2>7. CASE ReturnToUser
    BY <2>7 DEF ReturnToUser
  <2> QED BY <2>2, <2>3, <2>4, <2>5, <2>6, <2>7 DEF Kernel
<1>5. traced /\ phase' \notin Dead => (InWrite' <=> InWrite)
  BY <1>1, <1>3, <1>4 DEF InWrite
<1>6. ToggleParity'
  BY <1>1, <1>2, <1>5 DEF ToggleParity
<1>7. CallView' /\ HeldUntilEnd'
  BY <1>1, <1>2
<1>8. Lockstep'
  BY <1>1, <1>3, <1>4
<1>9. StopView' /\ LocalView'
  BY <1>1, <1>2, <1>3, <1>4
<1> QED BY <1>6, <1>7, <1>8, <1>9

LEMMA OthersControl ==
  ASSUME LoopInv, OfOthers \/ ChildTraceMe \/ ChildExec
  PROVE  ControlInv'
<1> USE DEF LoopInv, ControlInv, Lockstep, HeldUntilEnd, StopView, LocalView, CallView,
            Live, Noticed, Stopped, Dead
<1>1. CASE SendSignal /\ UNCHANGED <<tracerVars, marked>>
  BY <1>1 DEF SendSignal, ToggleParity, InWrite
<1>2. CASE Kill /\ UNCHANGED <<tracerVars, marked>>
  BY <1>2 DEF Kill, Die, ToggleParity, InWrite
<1>3. CASE ChildTraceMe
  BY <1>3 DEF ChildTraceMe, Die, ToggleParity, InWrite
<1>4. CASE ChildExec
  BY <1>4 DEF ChildExec, StopIn, Die, ToggleParity, InWrite
<1> QED BY <1>1, <1>2, <1>3, <1>4 DEF OfOthers

-----------------------------------------------------------------------------
(* The steps of errmark.                                                   *)
LEMMA WaitControl ==
  ASSUME LoopInv, Wait
  PROVE  ControlInv'
<1> USE DEF LoopInv, ControlInv, Lockstep, HeldUntilEnd, StopView, LocalView, CallView,
            Live, Noticed, Stopped, Dead
<1>1. pc = "wait" /\ pc' \in {"finish", "getregs"}
  BY DEF Wait, Waited
<1>2. UNCHANGED <<traced, regs, call, toggle, flips, wcall, lregs>>
  BY DEF Wait
<1>3. \/ phase' \in Dead
      \/ phase' = phase /\ phase \in Stopped /\ waited' = TRUE
  BY DEF Wait
<1>4. phase' \notin Dead => phase \notin Dead /\ (InWrite' <=> InWrite)
  BY <1>1, <1>2, <1>3 DEF InWrite
<1>5. ToggleParity'
  BY <1>2, <1>4 DEF ToggleParity
<1>6. HeldUntilEnd'
  BY <1>1, <1>2 DEF Final
<1> QED BY <1>1, <1>2, <1>3, <1>5, <1>6

LEMMA GetRegsControl ==
  ASSUME LoopInv, GetRegs
  PROVE  ControlInv'
<1> USE DEF LoopInv, ControlInv, Lockstep, HeldUntilEnd, StopView, LocalView, CallView,
            Live, Noticed, Stopped, Dead
<1>1. /\ pc = "getregs"
      /\ UNCHANGED <<phase, traced, waited, regs, call, toggle, flips, wcall>>
  BY DEF GetRegs
<1>2. pc' \in {"finish", "resume", "entry", "exit"}
  BY LoopTypes DEF GetRegs, Dispatch
<1>3. /\ pc' = "entry" => lregs'.orig = "write" /\ toggle = 0
      /\ pc' = "exit" => lregs'.orig = "write" /\ toggle = 1
      /\ pc' = "resume" => lregs'.orig # "write"
  BY LoopTypes DEF GetRegs, Dispatch
<1>4. phase \in Stopped => lregs' = regs /\ pc' # "finish"
  <2>1. Dispatch(lregs') # "finish"
    BY LoopTypes DEF Dispatch
  <2> QED BY <2>1 DEF GetRegs, Gone
<1>5. Live => phase \in Stopped
  BY <1>1
<1>6. Live => (InWrite' <=> InWrite)
  BY <1>1, <1>2, <1>3, <1>4, <1>5 DEF InWrite
<1>7. ToggleParity'
  BY <1>1, <1>6 DEF ToggleParity
<1>8. HeldUntilEnd'
  BY <1>1, <1>2 DEF Final
<1>9. StopView'
  BY <1>1, <1>2
<1> QED BY <1>1, <1>2, <1>3, <1>4, <1>5, <1>7, <1>8, <1>9

LEMMA MarkEntryControl ==
  ASSUME LoopInv, MarkEntry
  PROVE  ControlInv'
<1> USE DEF LoopInv, ControlInv, Lockstep, HeldUntilEnd, StopView, LocalView, CallView,
            Live, Noticed, Stopped, Dead
<1>1. /\ pc = "entry" /\ pc' \in {"nullify", "resume"}
      /\ UNCHANGED <<phase, traced, waited, regs, call, lregs>>
      /\ toggle' = 1 /\ wcall' = Call(lregs)
      /\ flips' = flips + (IF phase = "sigstop" THEN 1 ELSE 0)
  BY DEF MarkEntry, EntryBody, CountFlip
<1>2. toggle = 0 /\ lregs.orig = "write"
  BY <1>1
<1>3. Live => phase \in Stopped /\ lregs = regs
  BY <1>1
<1>4. Live /\ phase # "sigstop" => (InWrite' <=> ~InWrite)
  BY <1>1, <1>2, <1>3 DEF InWrite
<1>5. Live /\ phase = "sigstop" => ~InWrite' /\ ~InWrite
  BY <1>1 DEF InWrite
<1>6. ToggleParity'
  BY <1>1, <1>2, <1>4, <1>5, LoopTypes DEF ToggleParity
<1>7. CallView'
  <2> SUFFICES ASSUME flips' = 0, Live PROVE Call(lregs) = Call(call)
    BY <1>1
  <2>1. flips = 0 /\ phase # "sigstop"
    BY <1>1, LoopTypes
  <2>2. ~InWrite
    BY <1>2, <2>1 DEF ToggleParity
  <2>3. phase = "entry"
    BY <1>1, <1>2, <1>3, <2>1, <2>2 DEF InWrite
  <2> QED BY <1>1, <1>3, <2>3
<1>8. HeldUntilEnd'
  BY <1>1 DEF Final
<1> QED BY <1>1, <1>2, <1>3, <1>6, <1>7, <1>8

LEMMA ResumeControl ==
  ASSUME LoopInv, Resume
  PROVE  ControlInv'
<1> USE DEF LoopInv, ControlInv, Lockstep, HeldUntilEnd, StopView, LocalView, CallView,
            Live, Noticed, Stopped, Dead
<1>1. /\ pc = "resume" /\ pc' = "wait" /\ phase' = Resumed(phase)
      /\ UNCHANGED <<traced, waited, regs, call, toggle, flips, wcall, lregs>>
  BY DEF Resume
<1>2. \/ phase = "entry" /\ phase' = "kernel"
      \/ phase \in {"exit", "sigstop"} /\ phase' = "return"
      \/ phase \notin Stopped /\ phase' = phase
  BY <1>1 DEF Resumed
<1>3. phase' \in Dead <=> phase \in Dead
  BY <1>2
<1>4. Live => (InWrite' <=> InWrite)
  BY <1>1, <1>2 DEF InWrite
<1>5. ToggleParity'
  BY <1>1, <1>3, <1>4 DEF ToggleParity
<1>6. HeldUntilEnd'
  BY <1>1 DEF Final
<1> QED BY <1>1, <1>2, <1>3, <1>5, <1>6

(* A PTRACE_SETREGS of a copy that still names write.                      *)
LEMMA SetRegsControl ==
  ASSUME LoopInv, NEW r, r.orig = "write", lregs.orig = "write", SetRegs(r),
         pc \in {"nullify", "exit"}, pc' \in {"copy", "resume"},
         UNCHANGED <<phase, traced, waited, call>>
  PROVE  Lockstep' /\ HeldUntilEnd' /\ StopView' /\ lregs'.orig = "write"
<1> USE DEF LoopInv, ControlInv, Lockstep, HeldUntilEnd, StopView, LocalView,
            Live, Noticed, Stopped, Dead
<1>1. lregs' = r /\ regs' = IF phase \in Stopped THEN r ELSE regs
  BY DEF SetRegs
<1>2. Live => phase \in Stopped
  OBVIOUS
<1>3. phase \in {"entry", "exit"} /\ Live => call.orig = "write"
  BY <1>2
<1>4. phase \in Stopped => Live
  BY DEF Final
<1>5. StopView'
  BY <1>1, <1>3, <1>4
<1> QED BY <1>1, <1>5 DEF Final

LEMMA NullifyControl ==
  ASSUME LoopInv, Nullify
  PROVE  ControlInv'
<1> USE DEF LoopInv, ControlInv, LocalView, CallView, Live, Noticed
<1>1. /\ pc = "nullify" /\ pc' = "copy" /\ SetRegs(NoBytes(lregs))
      /\ UNCHANGED <<phase, traced, waited, call, toggle, flips, wcall>>
  BY DEF Nullify
<1>2. NoBytes(lregs).orig = "write"
  BY <1>1 DEF NoBytes, TypeOK, LoopTypeOK, Regs
<1>3. Lockstep' /\ HeldUntilEnd' /\ StopView' /\ lregs'.orig = "write"
  BY <1>1, <1>2, SetRegsControl
<1>4. InWrite' <=> InWrite
  BY <1>1 DEF InWrite
<1>5. ToggleParity'
  BY <1>1, <1>4 DEF ToggleParity
<1> QED BY <1>1, <1>3, <1>5

LEMMA ExitStopControl ==
  ASSUME LoopInv, ExitStop
  PROVE  ControlInv'
<1> USE DEF LoopInv, ControlInv, LocalView, CallView, Live, Noticed
<1>1. /\ pc = "exit" /\ pc' = "resume" /\ SetRegs(LengthReturned(lregs))
      /\ UNCHANGED <<phase, traced, waited, call, wcall>>
      /\ toggle = 1 /\ toggle' = 0
      /\ flips' = flips + (IF phase = "sigstop" THEN 1 ELSE 0)
  BY DEF ExitStop, ExitBody, CountFlip
<1>2. LengthReturned(lregs).orig = "write"
  BY <1>1 DEF LengthReturned, TypeOK, LoopTypeOK, Regs
<1>3. Lockstep' /\ HeldUntilEnd' /\ StopView' /\ lregs'.orig = "write"
  BY <1>1, <1>2, SetRegsControl
<1>4. Live => phase \in Stopped /\ lregs = regs
  BY <1>1 DEF Lockstep
<1>5. Live /\ phase # "sigstop" => (InWrite' <=> ~InWrite)
  BY <1>1, <1>4 DEF InWrite, StopView, Stopped
<1>6. Live /\ phase = "sigstop" => ~InWrite' /\ ~InWrite
  BY <1>1 DEF InWrite
<1>7. ToggleParity'
  BY <1>1, <1>5, <1>6, LoopTypes DEF ToggleParity
<1> QED BY <1>1, <1>3, <1>7

LEMMA CopyControl ==
  ASSUME LoopInv, CopyToStdout \/ CopyBoth
  PROVE  ControlInv'
<1> USE DEF LoopInv, ControlInv, Lockstep, HeldUntilEnd, StopView, LocalView, CallView,
            Live, Noticed
<1>1. /\ pc = "copy" /\ pc' = "resume"
      /\ UNCHANGED <<phase, traced, waited, regs, call, lregs, toggle, flips, wcall>>
  BY DEF CopyToStdout, CopyBoth
<1>2. InWrite' <=> InWrite
  BY <1>1 DEF InWrite
<1>3. ToggleParity'
  BY <1>1, <1>2 DEF ToggleParity
<1> QED BY <1>1, <1>3 DEF Final

LEMMA LetGoControl ==
  ASSUME LoopInv, Finish \/ MallocFails \/ PtraceFails \/ ErrmarkKilled
  PROVE  ControlInv'
<1> USE DEF LoopInv, ControlInv, Lockstep, HeldUntilEnd, StopView, LocalView, CallView,
            Live, Noticed, Final
<1>1. /\ pc' \in Final /\ traced' = FALSE /\ phase' = Resumed(phase)
      /\ UNCHANGED <<regs, call, lregs, toggle, flips, wcall>>
  BY DEF Finish, MallocFails, PtraceFails, ErrmarkKilled, LetGo
<1>2. StopView'
  BY <1>1 DEF Resumed
<1> QED BY <1>1, <1>2 DEF ToggleParity

LEMMA StutterControl ==
  ASSUME LoopInv, UNCHANGED vars
  PROVE  ControlInv'
BY DEF LoopInv, ControlInv, Lockstep, HeldUntilEnd, StopView, LocalView, CallView,
       Live, Noticed, ToggleParity, InWrite

-----------------------------------------------------------------------------
LEMMA InitControl == Init => ControlInv
<1> SUFFICES ASSUME Init PROVE ControlInv
  OBVIOUS
<1>1. /\ pc = "wait" /\ toggle = 0 /\ flips = 0
      /\ traced /\ phase \in {"start", "nofork"} /\ ~waited
  BY DEF Init, RunInit, TraceeInit
<1>2. ~InWrite
  BY <1>1 DEF InWrite, Noticed
<1>3. ToggleParity
  BY <1>1, <1>2 DEF ToggleParity
<1> QED
  BY <1>1, <1>3 DEF ControlInv, Lockstep, HeldUntilEnd, StopView, LocalView, CallView,
     Stopped, Final, Dead

LEMMA NextControl == LoopInv /\ [Next]_vars => LoopInv'
<1> SUFFICES ASSUME LoopInv, [Next]_vars PROVE LoopInv'
  OBVIOUS
<1>1. TypeOK'
  BY NextType DEF LoopInv
<1>2. CASE Tracer
  BY <1>2, WaitControl, GetRegsControl, MarkEntryControl, NullifyControl, CopyControl,
     ExitStopControl, ResumeControl, LetGoControl, <1>1 DEF Tracer, LoopInv
<1>3. CASE PtraceFails \/ ErrmarkKilled
  BY <1>1, <1>3, LetGoControl DEF LoopInv
<1>4. CASE OfProgram
  BY <1>1, <1>4, ProgramControl DEF OfProgram, LoopInv
<1>5. CASE OfKernel
  BY <1>1, <1>5, KernelControl DEF OfKernel, LoopInv
<1>6. CASE OfOthers \/ ChildTraceMe \/ ChildExec
  BY <1>1, <1>6, OthersControl DEF LoopInv
<1>7. CASE UNCHANGED vars
  BY <1>1, <1>7, StutterControl DEF LoopInv
<1> QED BY <1>2, <1>3, <1>4, <1>5, <1>6, <1>7 DEF Next, Terminated

(* What errmark and the program know of each other in every reachable      *)
(* state, whatever signals arrive and wherever the program is killed.      *)
THEOREM LoopInvariant == Spec => []LoopInv
<1>1. Init => LoopInv
  BY InitType, InitControl DEF LoopInv
<1> QED BY <1>1, NextControl, PTL DEF Spec

-----------------------------------------------------------------------------
(* wait(), PTRACE_GETREGS and PTRACE_SYSCALL of ptrace_cmd keep errmark and *)
(* the program in step: one of them runs, and never do both wait.          *)
THEOREM LockstepHolds == Spec => []Lockstep
<1>1. LoopInv => Lockstep
  BY DEF LoopInv, ControlInv
<1> QED BY <1>1, LoopInvariant, PTL

(* toggle in ptrace_cmd is right about entry and exit exactly as long as   *)
(* an even number of signal stops was taken for write stops.               *)
THEOREM ToggleParityHolds == Spec => []ToggleParity
<1>1. LoopInv => ToggleParity
  BY DEF LoopInv, ControlInv
<1> QED BY <1>1, LoopInvariant, PTL

(* At toggle = 1 with no signal stop mistaken, a program that is held in a *)
(* stop is held at the entry or the exit of the write errmark took note of.*)
LEMMA HeldInWrite ==
  ASSUME LoopInv, flips = 0, toggle = 1, Live, phase \in Stopped
  PROVE  /\ InWrite /\ phase \in {"entry", "exit"} /\ wcall = Call(call)
         /\ call.orig = "write" /\ (phase = "entry" <=> Noticed)
<1>1. InWrite
  BY DEF LoopInv, ControlInv, ToggleParity, Live
<1>2. wcall = Call(call)
  BY DEF LoopInv, ControlInv, CallView
<1> QED BY <1>1, <1>2 DEF InWrite, Stopped

(* As long as no signal stop was mistaken, ptrace_cmd sets the length to 0 *)
(* and reads the bytes at the entry to a write, and of that write.         *)
THEOREM EntryMeansEntryHolds == Spec => []EntryMeansEntry
<1>1. LoopInv => EntryMeansEntry
  <2> SUFFICES ASSUME LoopInv, pc \in {"nullify", "copy"}, flips = 0, phase \notin Dead
               PROVE  phase = "entry" /\ wcall = Call(call)
    BY DEF EntryMeansEntry
  <2>1. Live /\ toggle = 1 /\ phase \in Stopped /\ Noticed
    BY DEF LoopInv, ControlInv, HeldUntilEnd, LocalView, Lockstep, Live, Final, Noticed
  <2> QED BY <2>1, HeldInWrite
<1> QED BY <1>1, LoopInvariant, PTL

LEMMA NullifyTouches ==
  ASSUME LoopInv, Nullify, regs' # regs, flips' = 0
  PROVE  /\ call.orig = "write" /\ call.arg1 \in StdFds
         /\ phase = "entry" /\ regs' = [regs EXCEPT !.arg3 = 0]
<1>1. pc = "nullify" /\ flips = 0 /\ phase \in Stopped /\ regs' = NoBytes(lregs)
  BY DEF Nullify, SetRegs
<1>2. Live /\ toggle = 1 /\ lregs = regs /\ Noticed
  BY <1>1 DEF LoopInv, ControlInv, HeldUntilEnd, LocalView, Live, Final, Noticed,
              Stopped, Dead
<1>3. phase = "entry" /\ wcall = Call(call) /\ call.orig = "write"
  BY <1>1, <1>2, HeldInWrite
<1>4. wcall.fd \in StdFds
  BY <1>1 DEF LoopInv, TypeOK, LoopTypeOK
<1> QED BY <1>1, <1>2, <1>3, <1>4 DEF Call, NoBytes

LEMMA ExitStopTouches ==
  ASSUME LoopInv, ExitStop, regs' # regs, flips' = 0
  PROVE  /\ call.orig = "write" /\ call.arg1 \in StdFds
         /\ phase = "exit" /\ regs' = [regs EXCEPT !.ret = call.arg3]
<1>1. pc = "exit" /\ phase \in Stopped /\ regs' = LengthReturned(lregs)
  BY DEF ExitStop, ExitBody, SetRegs
<1>2. flips = 0
  BY LoopTypes DEF ExitStop, ExitBody, CountFlip
<1>3. Live /\ toggle = 1 /\ lregs = regs /\ ~Noticed
  BY <1>1 DEF LoopInv, ControlInv, HeldUntilEnd, LocalView, Live, Final, Noticed,
              Stopped, Dead
<1>4. phase = "exit" /\ wcall = Call(call) /\ call.orig = "write"
  BY <1>1, <1>2, <1>3, HeldInWrite
<1>5. TracedStd(wcall) /\ regs' = [regs EXCEPT !.ret = wcall.len]
  BY <1>1, <1>3 DEF LengthReturned
<1> QED BY <1>4, <1>5 DEF Call, TracedStd

(* As long as no signal stop was mistaken, errmark changes no register but *)
(* the length at the entry and the return value at the exit of a write to  *)
(* 1 or 2: the two PTRACE_SETREGS of ptrace_cmd.                           *)
THEOREM RegsTouchedHolds == Spec => RegsTouched
<1> DEFINE Touched ==
      regs' # regs /\ pc' # pc /\ flips' = 0 =>
        /\ call.orig = "write" /\ call.arg1 \in StdFds
        /\ \/ phase = "entry" /\ regs' = [regs EXCEPT !.arg3 = 0]
           \/ phase = "exit"  /\ regs' = [regs EXCEPT !.ret = call.arg3]
<1>1. LoopInv /\ [Next]_vars => [Touched]_vars
  <2> SUFFICES ASSUME LoopInv, Next, regs' # regs, pc' # pc, flips' = 0
               PROVE  /\ call.orig = "write" /\ call.arg1 \in StdFds
                      /\ \/ phase = "entry" /\ regs' = [regs EXCEPT !.arg3 = 0]
                         \/ phase = "exit"  /\ regs' = [regs EXCEPT !.ret = call.arg3]
    OBVIOUS
  <2>1. ~(OfProgram \/ OfKernel \/ OfOthers \/ ChildTraceMe \/ ChildExec \/ Terminated)
    BY DEF OfProgram, OfKernel, OfOthers, ChildTraceMe, ChildExec, Terminated
  <2>2. ~(Wait \/ GetRegs \/ MarkEntry \/ CopyToStdout \/ CopyBoth \/ Resume)
    BY DEF Wait, GetRegs, MarkEntry, EntryBody, CopyToStdout, CopyBoth, Resume
  <2>3. ~(MallocFails \/ Finish \/ PtraceFails \/ ErrmarkKilled)
    BY DEF MallocFails, Finish, PtraceFails, ErrmarkKilled, LetGo
  <2>4. Nullify \/ ExitStop
    BY <2>1, <2>2, <2>3 DEF Next, Tracer
  <2> QED BY <2>4, NullifyTouches, ExitStopTouches
<1>2. Spec => [][Touched]_vars
  BY <1>1, LoopInvariant, PTL DEF Spec
<1> QED BY <1>2 DEF RegsTouched
=============================================================================
