-------------------------- MODULE RefinementProofs --------------------------
(***************************************************************************)
(* The tracing loop implements the promise of MarkedLog, for all           *)
(* constants: a step simulation over the invariants of the other modules.  *)
(***************************************************************************)
EXTENDS DeliveryProofs, MarkProofs, RunProgramRefines

USE DEF vars, traceeVars, tracerVars, programVars

-----------------------------------------------------------------------------
(* What is known of every state.                                           *)
KnownInv == LoopInv /\ MarkInv /\ StatusInv /\ AnswerInv /\ OrderInv /\ SeenView

(* The write the program is in, when it is in one.                         *)
ThisWrite == [id |-> ncall, fd |-> call.arg1,
              whole |-> call.arg2 = "good" /\ call.arg3 = 2]
InStdWrite == StdWrite /\ phase \in {"entry", "kernel", "exit"}

LEMMA CurrentFacts == CurrentWrite = IF InStdWrite THEN {ThisWrite} ELSE {}
  BY DEF CurrentWrite, ThisWrite, InStdWrite, StdWrite

(* Nothing happens at the level of the promise.                            *)
LEMMA PromiseStutter ==
  ASSUME ~PromiseOver, ~PromiseOver', marked' = marked, PrintedLog' = PrintedLog,
         \/ UNCHANGED <<call, ncall>> /\ (InStdWrite' <=> InStdWrite)
         \/ ~InStdWrite /\ ~InStdWrite'
  PROVE  UNCHANGED Promise!vars
<1>1. PromiseOver' = PromiseOver
  BY DEF PromiseOver
<1>2. CurrentWrite' = CurrentWrite
  BY CurrentFacts DEF CurrentWrite, InStdWrite, StdWrite
<1> QED BY <1>1, <1>2 DEF Promise!vars

(* A step that moves items from the buffer to the screen, or nothing,      *)
(* leaves the log as it is.                                                *)
LEMMA LogMoved ==
  ASSUME TypeOK, TypeOK', Moved(out', out)
  PROVE  PrintedLog' = PrintedLog
  BY MovedFacts DEF PrintedLog, TypeOK, OutTypeOK

(* The ids of the log are those of what was put out.                       *)
LEMMA LogIds ==
  ASSUME NEW m \in OutType, NEW N
  PROVE  /\ Len(Flush(m).screen) = Len(Issued(m))
         /\ \A i \in 1 .. Len(Issued(m)) : Flush(m).screen[i].id = Issued(m)[i].id
         /\ Before(m, N) =>
              \A i \in 1 .. Len(Flush(m).screen) : Flush(m).screen[i].id < N
<1> DEFINE o == Issued(m)
           w == Flush(m).screen
<1>1. Len(w) = Len(o) /\ \A i \in 1 .. Len(o) : w[i].id = o[i].id
  BY LogItems DEF SameBytes
<1> HIDE DEF o, w
<1>2. (\A i \in 1 .. Len(o) : o[i].id < N) => \A i \in 1 .. Len(w) : w[i].id < N
  BY <1>1
<1> QED BY <1>1, <1>2, Zenon DEF Before, o, w

(* So a write that was seen is in the log.                                 *)
LEMMA SeenLogged ==
  ASSUME TypeOK, PutOut(Issued(out)) \/ PutOut(out.screen)
  PROVE  \E i \in 1 .. Len(PrintedLog) : PrintedLog[i].id = ncall
<1> DEFINE o == Issued(out)
           w == PrintedLog
<1>1. out \in OutType
  BY DEF TypeOK, OutTypeOK
<1>2. Len(w) = Len(o) /\ \A i \in 1 .. Len(o) : w[i].id = o[i].id
  BY <1>1, LogIds DEF PrintedLog
<1>3. PutOut(o)
  BY <1>1, ScreenIssued, Zenon DEF PutOut
<1> HIDE DEF w
<1>4. PICK i \in 1 .. Len(o) : o[i].id = ncall
  BY <1>3, Zenon DEF PutOut
<1> HIDE DEF o
<1> QED BY <1>2, <1>4, Zenon DEF w

-----------------------------------------------------------------------------
(* The steps, as long as the promise holds after them.                     *)

LEMMA NotOver ==
  ASSUME KnownInv, ~PromiseOver
  PROVE  traced /\ flips = 0 /\ phase \notin Dead
<1>1. flips \in Nat
  BY LoopTypes DEF KnownInv
<1> QED BY <1>1 DEF PromiseOver

(* Then it held before them.                                               *)
LEMMA NotYetOver ==
  ASSUME KnownInv, KnownInv', Next, ~PromiseOver'
  PROVE  ~PromiseOver /\ flips = 0 /\ traced /\ phase \notin Dead /\ marked' = marked
<1>1. traced' /\ flips' = 0 /\ phase' \notin Dead /\ flips \in Nat
  <2>1. flips \in Nat /\ flips' \in Nat
    BY DEF KnownInv, LoopInv, TypeOK, LoopTypeOK
  <2> QED BY <2>1 DEF PromiseOver
<1>2. marked' = marked /\ traced
  BY <1>1 DEF Next, Tracer, OfProgram, Program, CallWrite, CallOther, CallExit, Trap,
       OfKernel, Kernel, KernelWrite, KernelOther, KernelExit, SignalOnReturn, SignalInUser,
       ReturnToUser, OfOthers, SendSignal, Kill, ChildTraceMe, ChildExec, Wait, GetRegs,
       MarkEntry, EntryBody, Nullify, CopyToStdout, CopyBoth, MallocFails, ExitStop, ExitBody,
       Resume, Finish, PtraceFails, ErrmarkKilled, LetGo, Terminated
<1>3. flips = 0
  <2>1. CASE MarkEntry \/ ExitStop
    <3>1. CountFlip
      BY <2>1 DEF MarkEntry, EntryBody, ExitStop, ExitBody
    <3> QED BY <1>1, <3>1 DEF CountFlip
  <2>2. CASE ~MarkEntry /\ ~ExitStop
    <3>1. flips' = flips
      BY <2>2 DEF Next, Tracer, OfProgram, OfKernel, OfOthers, ChildTraceMe, ChildExec,
         Wait, GetRegs, Nullify, CopyToStdout, CopyBoth, MallocFails, Resume, Finish,
         PtraceFails, ErrmarkKilled, Terminated
    <3> QED BY <1>1, <3>1
  <2> QED BY <2>1, <2>2
<1>4. phase \notin Dead
  <2>1. CASE OfProgram \/ OfKernel \/ OfOthers \/ ChildTraceMe \/ ChildExec
    BY <1>1, <2>1 DEF OfProgram, Program, CallWrite, CallOther, CallExit, Trap,
       OfKernel, Kernel, KernelWrite, KernelOther, KernelExit, SignalOnReturn, SignalInUser,
       ReturnToUser, OfOthers, SendSignal, Kill, ChildTraceMe, ChildExec, Dead
  <2>2. CASE Tracer
    BY <1>1, <2>2 DEF Tracer, Wait, GetRegs, MarkEntry, EntryBody, Nullify, CopyToStdout,
       CopyBoth, MallocFails, ExitStop, ExitBody, Resume, Finish, LetGo, Resumed, Dead, Stopped
  <2>3. CASE PtraceFails \/ ErrmarkKilled
    BY <1>1, <2>3 DEF PtraceFails, ErrmarkKilled, LetGo
  <2>4. CASE Terminated
    BY <1>1, <2>4 DEF Terminated
  <2> QED BY <2>1, <2>2, <2>3, <2>4 DEF Next
<1> QED BY <1>2, <1>3, <1>4 DEF PromiseOver

(* A system call: the promise's Issue when it is a write to 1 or 2.        *)
LEMMA IssueStep ==
  ASSUME KnownInv, KnownInv', OfProgram, ~PromiseOver, ~PromiseOver'
  PROVE  [Promise!Next]_(Promise!vars)
<1>1. PICK r : Trap(r)
  BY DEF OfProgram, Program, CallWrite, CallOther, CallExit
<1>2. /\ phase = "user" /\ phase' = "entry" /\ out' = out /\ marked' = marked /\ pc = "wait"
      /\ pc' = pc
  BY <1>1 DEF Trap, StopIn, OfProgram, PromiseOver, Stopped, Dead,
              KnownInv, LoopInv, ControlInv, Lockstep
<1>3. ~InStdWrite /\ CurrentWrite = {}
  BY <1>2, CurrentFacts DEF InStdWrite
<1>4. PrintedLog' = PrintedLog
  BY <1>2 DEF PrintedLog
<1>5. CASE ~InStdWrite'
  BY <1>2, <1>3, <1>4, <1>5, PromiseStutter
<1>6. CASE InStdWrite'
  <2>1. CurrentWrite' = {ThisWrite'}
    BY <1>6 DEF CurrentWrite, ThisWrite, InStdWrite, StdWrite
  <2>2. ThisWrite'.fd \in {1, 2} /\ ThisWrite'.id = ncall'
    BY <1>6 DEF ThisWrite, InStdWrite, StdWrite, StdFds
  <2>3. ToCome' /\ flips' = 0
    <3>1. flips' \in Nat
      BY DEF KnownInv, LoopInv, TypeOK, LoopTypeOK
    <3> QED BY <1>2, <1>6, <3>1 DEF ToCome, InStdWrite, StdWrite, PromiseOver, Final
  <2>4. Before(out, ncall)'
    BY <2>3 DEF KnownInv, OrderInv, OrderView
  <2>5. \A i \in 1 .. Len(PrintedLog) : PrintedLog[i].id < ncall'
    <3>1. out \in OutType
      BY DEF KnownInv, LoopInv, TypeOK, OutTypeOK
    <3>2. Before(out, ncall')
      BY <1>2, <2>4 DEF Before
    <3> QED BY <3>1, <3>2, LogIds DEF PrintedLog
  <2>6. PromiseOver' = PromiseOver
    BY DEF PromiseOver
  <2>7. Promise!Issue
    BY <1>2, <1>3, <1>4, <2>1, <2>2, <2>5, <2>6 DEF Promise!Issue
  <2> QED BY <2>7 DEF Promise!Next
<1> QED BY <1>5, <1>6

(* The kernel, with a length of 0, and signals change nothing.             *)
LEMMA WorldStep ==
  ASSUME KnownInv, KnownInv', OfKernel \/ OfOthers \/ ChildTraceMe \/ ChildExec,
         ~PromiseOver, ~PromiseOver'
  PROVE  UNCHANGED Promise!vars
<1>1. traced /\ flips = 0 /\ phase' \notin Dead
  BY NotOver DEF PromiseOver
<1>2. CASE OfKernel /\ KernelWrite
  <2>1. /\ UNCHANGED <<call, ncall, marked>> /\ phase = "kernel" /\ phase' = "exit"
    BY <1>1, <1>2 DEF OfKernel, KernelWrite, Finished, StopIn
  <2>2. out' = out
    <3> SUFFICES ASSUME regs.arg1 \in StdFds, WriteResult(regs) > 0 PROVE FALSE
      BY <1>2 DEF KernelWrite
    <3>1. StdWrite
      BY <1>2 DEF KernelWrite, StdWrite, KnownInv, StatusInv, CallArgs
    <3>2. regs.arg3 = 0
      BY <1>1, <2>1, <3>1 DEF KnownInv, AnswerInv, NullView
    <3> QED BY <3>2, NothingWritten
  <2>3. InStdWrite' <=> InStdWrite
    BY <2>1 DEF InStdWrite, StdWrite
  <2>4. PrintedLog' = PrintedLog
    BY <2>2 DEF PrintedLog
  <2> QED BY <2>1, <2>3, <2>4, PromiseStutter
<1>3. CASE OfKernel /\ ~KernelWrite
  <2>1. UNCHANGED <<call, ncall, marked, out>>
    BY <1>3 DEF OfKernel, Kernel, KernelOther, KernelExit, SignalOnReturn, SignalInUser,
                ReturnToUser
  <2>2. ~InStdWrite /\ ~InStdWrite'
    <3>1. CASE KernelOther
      BY <2>1, <3>1 DEF KernelOther, InStdWrite, StdWrite, KnownInv, LoopInv, ControlInv,
                        StopView
    <3>2. CASE KernelExit
      BY <1>1, <3>2 DEF KernelExit, Die, Dead
    <3>3. CASE SignalOnReturn \/ SignalInUser \/ ReturnToUser
      BY <3>3 DEF SignalOnReturn, SignalInUser, ReturnToUser, TakeSignal, StopIn, InStdWrite
    <3> QED BY <1>3, <3>1, <3>2, <3>3 DEF OfKernel, Kernel
  <2>3. PrintedLog' = PrintedLog
    BY <2>1 DEF PrintedLog
  <2> QED BY <2>1, <2>2, <2>3, PromiseStutter
<1>4. CASE OfOthers \/ ChildTraceMe \/ ChildExec
  <2>1. UNCHANGED <<call, ncall, marked, out>>
    BY <1>4 DEF OfOthers, SendSignal, Kill, ChildTraceMe, ChildExec
  <2>2. InStdWrite' <=> InStdWrite
    BY <1>1, <1>4, <2>1 DEF OfOthers, SendSignal, Kill, Die, ChildTraceMe, ChildExec, StopIn,
                            InStdWrite, StdWrite, Dead
  <2>3. PrintedLog' = PrintedLog
    BY <2>1 DEF PrintedLog
  <2> QED BY <2>1, <2>2, <2>3, PromiseStutter
<1> QED BY <1>2, <1>3, <1>4

(* Nor do errmark's own steps, but for the copy and the return.            *)
LEMMA LoopStep ==
  ASSUME KnownInv, KnownInv', Wait \/ GetRegs \/ MarkEntry \/ Nullify \/ ExitStop,
         ~PromiseOver, ~PromiseOver'
  PROVE  UNCHANGED Promise!vars
<1>1. TypeOK /\ TypeOK' /\ out \in OutType
  BY DEF KnownInv, LoopInv, TypeOK, OutTypeOK
<1>2. UNCHANGED <<call, ncall, marked>> /\ (phase' = phase \/ phase' = "reaped")
  BY DEF Wait, GetRegs, MarkEntry, EntryBody, Nullify, ExitStop, ExitBody
<1>3. phase' = phase
  BY <1>2 DEF PromiseOver, Dead
<1>4. Moved(out', out)
  <2>1. CASE Wait
    BY <1>1, <2>1, WithinFacts DEF Wait, Waited, Moved
  <2>2. CASE GetRegs \/ Nullify \/ ExitStop
    BY <2>2 DEF GetRegs, Nullify, ExitStop, ExitBody, Moved
  <2>3. CASE MarkEntry
    BY <1>1, <2>3, MarkEntryMoved
  <2> QED BY <2>1, <2>2, <2>3
<1>5. PrintedLog' = PrintedLog
  BY <1>1, <1>4, LogMoved
<1>6. InStdWrite' <=> InStdWrite
  BY <1>2, <1>3 DEF InStdWrite, StdWrite
<1> QED BY <1>2, <1>5, <1>6, PromiseStutter

(* PTRACE_SYSCALL after the exit stop: the promise's Return.               *)
LEMMA ReturnStep ==
  ASSUME KnownInv, KnownInv', Resume, ~PromiseOver, ~PromiseOver'
  PROVE  [Promise!Next]_(Promise!vars)
<1>1. /\ UNCHANGED <<call, ncall, marked, out>> /\ phase' = Resumed(phase)
      /\ TypeOK /\ flips = 0 /\ traced
  BY NotOver DEF Resume, KnownInv, LoopInv
<1>2. PrintedLog' = PrintedLog
  BY <1>1 DEF PrintedLog
<1>3. CASE phase # "exit"
  <2>1. InStdWrite' <=> InStdWrite
    BY <1>1, <1>3 DEF InStdWrite, StdWrite, Resumed
  <2> QED BY <1>1, <1>2, <2>1, PromiseStutter
<1>4. CASE phase = "exit" /\ ~StdWrite
  BY <1>1, <1>2, <1>4, PromiseStutter DEF InStdWrite, StdWrite
<1>5. CASE phase = "exit" /\ StdWrite
  <2>1. CurrentWrite = {ThisWrite}
    BY <1>5, CurrentFacts DEF InStdWrite
  <2>2. CurrentWrite' = {}
    <3>1. phase' = "return"
      BY <1>1, <1>5 DEF Resumed
    <3> QED BY <3>1 DEF CurrentWrite
  <2>3. ThisWrite.whole => Promise!Logged(ThisWrite)
    <3> SUFFICES ASSUME ThisWrite.whole PROVE Promise!Logged(ThisWrite)
      OBVIOUS
    <3>1. Whole /\ Handled
      BY <1>1, <1>5 DEF ThisWrite, Whole, Handled
    <3>2. pc = "resume" /\ Seen
      BY <3>1 DEF KnownInv, SeenView, Resume
    <3>3. PutOut(Issued(out)) \/ PutOut(out.screen)
      BY <3>2 DEF Seen, WithCopy
    <3>4. \E i \in 1 .. Len(PrintedLog) : PrintedLog[i].id = ncall
      BY <1>1, <3>3, SeenLogged
    <3> QED BY <3>4 DEF Promise!Logged, ThisWrite
  <2>4. PromiseOver' = PromiseOver
    BY DEF PromiseOver
  <2>5. Promise!Return
    BY <1>1, <1>2, <2>1, <2>2, <2>3, <2>4 DEF Promise!Return
  <2> QED BY <2>5 DEF Promise!Next
<1> QED BY <1>3, <1>4, <1>5

(* The copy: the promise's Enter, unless nothing can be read.              *)
LEMMA EnterStep ==
  ASSUME KnownInv, KnownInv', CopyToStdout \/ CopyBoth, ~PromiseOver, ~PromiseOver'
  PROVE  [Promise!Next]_(Promise!vars)
<1>1. /\ UNCHANGED <<call, ncall, marked, phase>> /\ pc = "copy"
      /\ TypeOK /\ TypeOK' /\ out \in OutType /\ out' \in OutType
      /\ flips = 0 /\ traced /\ phase \notin Dead
  BY NotOver DEF CopyToStdout, CopyBoth, KnownInv, LoopInv, TypeOK, OutTypeOK
<1>2. phase = "entry" /\ StdWrite /\ wcall = Call(call) /\ wcall.fd \in StdFds
  <2>1. phase \in Stopped /\ Live /\ toggle = 1 /\ Noticed
    BY <1>1, HeldWhere DEF KnownInv, LoopInv, ControlInv, LocalView, Live, Noticed, Final
  <2>2. phase = "entry" /\ wcall = Call(call) /\ call.orig = "write"
    BY <1>1, <2>1, HeldInWrite DEF KnownInv
  <2>3. wcall.fd \in StdFds
    BY <1>1 DEF TypeOK, LoopTypeOK
  <2> QED BY <2>2, <2>3 DEF Call, StdWrite
<1>3. wcall.fd = call.arg1 /\ wcall.buf = call.arg2 /\ wcall.len = call.arg3
  BY <1>2 DEF Call
<1>4. InStdWrite /\ InStdWrite' /\ CurrentWrite = {ThisWrite} /\ CurrentWrite' = CurrentWrite
  BY <1>1, <1>2, CurrentFacts DEF InStdWrite, StdWrite, CurrentWrite
(* Either nothing was put out, or one item that a reader may see.          *)
<1>5. \/ Moved(out', out)
      \/ \E kind \in {"data", "part", "dump", "junk"} :
           /\ out' \in {Fwrite(out, CallItem(kind, wcall.fd)),
                        Flush(Fwrite(out, CallItem(kind, wcall.fd)))}
           /\ ThisWrite.whole => kind = "data"
           /\ kind \in {"data", "part"} => ~Skipped(wcall.buf, wcall.len)
           /\ wcall.len # 0
  <2>1. CASE CopyToStdout
    <3>1. CASE ThisWrite.whole
      <4>1. wcall.buf = "good" /\ wcall.len = 2
        BY <1>3, <3>1 DEF ThisWrite
      <4>2. out' = Flush(Fwrite(out, CallItem("data", wcall.fd)))
        BY <1>2, <2>1, <4>1, PmemFwriteWhole DEF CopyToStdout, Stopped
      <4> QED BY <4>1, <4>2 DEF Skipped, HugeLen
    <3>2. CASE ~ThisWrite.whole
      <4>1. \/ out' \in {out, Flush(out)}
            \/ \E kind \in {"data", "part", "dump"} :
                 /\ out' \in {Fwrite(out, CallItem(kind, wcall.fd)),
                              Flush(Fwrite(out, CallItem(kind, wcall.fd)))}
                 /\ kind \in {"data", "part"} => ~Skipped(wcall.buf, wcall.len)
                 /\ wcall.len # 0
        BY <2>1, PmemFwriteCases DEF CopyToStdout, Skipped
      <4>2. out' \in {out, Flush(out)} => Moved(out', out)
        BY <1>1, FlushType DEF Moved
      <4> QED BY <3>2, <4>1, <4>2
    <3> QED BY <3>1, <3>2
  <2>2. CASE CopyBoth
    <3>1. CASE wcall.len = 0
      BY <2>2, <3>1 DEF CopyBoth, Moved
    <3>2. CASE wcall.len # 0
      <4> DEFINE kind == IF Readable(wcall) THEN "data" ELSE "junk"
      <4>1. out' \in {Fwrite(out, CallItem(kind, wcall.fd)),
                      Flush(Fwrite(out, CallItem(kind, wcall.fd)))}
        BY <2>2, <3>2 DEF CopyBoth
      <4>2. ThisWrite.whole => kind = "data"
        <5>1. ThisWrite.whole => wcall.buf = "good" /\ wcall.len > 0
          <6>1. ThisWrite.whole => wcall.buf = "good" /\ wcall.len = 2
            BY <1>3 DEF ThisWrite
          <6> QED BY <6>1
        <5>2. phase \in Stopped
          BY <1>2 DEF Stopped
        <5> QED BY <5>1, <5>2, Zenon DEF Readable
      <4>3. kind = "data" => ~Skipped(wcall.buf, wcall.len)
        BY DEF Readable, Skipped, HugeLen
      <4>4. kind \in {"data", "junk"}
        OBVIOUS
      <4> HIDE DEF kind
      <4> QED BY <3>2, <4>1, <4>2, <4>3, <4>4
    <3> QED BY <3>1, <3>2
  <2> QED BY <2>1, <2>2
<1>6. CASE Moved(out', out)
  BY <1>1, <1>4, <1>6, LogMoved, PromiseStutter
<1>7. ASSUME NEW kind \in {"data", "part", "dump", "junk"},
             out' \in {Fwrite(out, CallItem(kind, wcall.fd)),
                       Flush(Fwrite(out, CallItem(kind, wcall.fd)))},
             ThisWrite.whole => kind = "data",
             kind \in {"data", "part"} => ~Skipped(wcall.buf, wcall.len),
             wcall.len # 0
      PROVE  Promise!Enter
  <2> DEFINE item  == CallItem(kind, wcall.fd)
             entry == Lit(item, out.lit)
             old   == PrintedLog
             new   == PrintedLog'
  <2>1. item \in Item
    BY <1>1, <1>2, ItemFacts DEF Kinds
  <2>2. item.kind = kind /\ item.id = ncall /\ item.fd = wcall.fd
    BY DEF CallItem
  <2> HIDE DEF item
  <2>3. entry.kind = kind /\ entry.id = ncall /\ entry.fd = wcall.fd /\ entry.lit = out.lit
    BY <2>2 DEF Lit
  <2>4. entry \in Shown
    BY <1>1, <2>1 DEF Lit, Item, Shown, OutType
  <2>5. new = Append(old, entry)
    <3>1. out' \in {Fwrite(out, item), Flush(Fwrite(out, item))}
      BY <1>7 DEF item
    <3> QED BY <1>1, <2>1, <3>1, LogAppend DEF PrintedLog
  <2>6. old \in Seq(Shown)
    BY <1>1, FlushType DEF PrintedLog, OutType
  <2> HIDE DEF entry
  <2>7. /\ Len(new) = Len(old) + 1 /\ new[Len(new)] = entry
        /\ SubSeq(new, 1, Len(old)) = old
    <3> HIDE DEF old, new
    <3>1. new \in Seq(Shown) /\ Len(new) = Len(old) + 1 /\ new[Len(old) + 1] = entry
      BY <2>4, <2>5, <2>6
    <3>2. \A i \in 1 .. Len(old) : new[i] = old[i]
      BY <2>4, <2>5, <2>6
    <3>3. Len(old) \in Nat
      BY <2>6
    <3> DEFINE front == SubSeq(new, 1, Len(old))
    <3>4. /\ front \in Seq(Shown) /\ Len(front) = Len(old)
          /\ \A i \in 1 .. Len(old) : front[i] = new[i]
      BY <3>1, <3>3
    <3> HIDE DEF front
    <3>5. front = old
      BY <2>6, <3>2, <3>4, SeqEqual
    <3> QED BY <3>1, <3>5 DEF front
  <2>8. ~Promise!Logged(ThisWrite)
    <3>1. Before(out, ncall)
      <4>1. ToCome
        BY <1>1, <1>7 DEF ToCome
      <4> QED BY <1>1, <4>1 DEF KnownInv, OrderInv, OrderView
    <3>2. \A i \in 1 .. Len(old) : old[i].id < ncall
      BY <1>1, <3>1, LogIds DEF PrintedLog
    <3>3. ncall \in Nat
      BY <1>1 DEF TypeOK, TraceeTypeOK
    <3> HIDE DEF old
    <3>4. \A i \in 1 .. Len(old) : old[i].id # ncall
      BY <3>2, <3>3
    <3> QED BY <3>4, Zenon DEF Promise!Logged, ThisWrite, old
  <2>9. Promise!Faithful(entry, ThisWrite)
    <3>1. kind \in {"data", "part"} => out.lit = {wcall.fd} \cap marked
      BY <1>1, <1>7 DEF KnownInv, MarkInv, OpenView, LitView, Final
    <3> QED BY <1>3, <1>7, <2>3, <3>1 DEF Promise!Faithful, ThisWrite
  <2>10. Promise!Faithful(new[Len(new)], ThisWrite)
    BY <2>7, <2>9
  <2>11. PromiseOver' = PromiseOver
    BY DEF PromiseOver
  <2> QED BY <1>1, <1>4, <2>7, <2>8, <2>10, <2>11 DEF Promise!Enter
<1> QED BY <1>5, <1>6, <1>7 DEF Promise!Next

-----------------------------------------------------------------------------
LEMMA StepSimulation ==
  ASSUME KnownInv, KnownInv', [Next]_vars
  PROVE  [Promise!Next]_(Promise!vars)
<1>1. CASE UNCHANGED vars
  BY <1>1 DEF Promise!vars, CurrentWrite, PrintedLog, PromiseOver
<1>2. CASE Next /\ PromiseOver'
  <2>1. marked' = marked
    BY <1>2 DEF Next, Tracer, OfProgram, OfKernel, OfOthers, ChildTraceMe, ChildExec, Wait,
       GetRegs, MarkEntry, EntryBody, Nullify, CopyToStdout, CopyBoth, MallocFails, ExitStop,
       ExitBody, Resume, Finish, PtraceFails, ErrmarkKilled, LetGo, Terminated
  <2> QED BY <1>2, <2>1 DEF Promise!Over, Promise!Next
<1>3. CASE Next /\ ~PromiseOver'
  <2>1. ~PromiseOver
    BY <1>3, NotYetOver
  <2>2. ~MallocFails /\ ~Finish /\ ~PtraceFails /\ ~ErrmarkKilled
    BY <1>3 DEF PromiseOver, MallocFails, Finish, PtraceFails, ErrmarkKilled, LetGo
  <2>3. Terminated => UNCHANGED vars
    BY DEF Terminated
  <2> QED BY <1>1, <1>3, <2>1, <2>2, <2>3, IssueStep, WorldStep, LoopStep, ReturnStep,
             EnterStep DEF Next, Tracer
<1> QED BY <1>1, <1>2, <1>3

LEMMA InitSimulation == Init => Promise!Init
<1> SUFFICES ASSUME Init PROVE Promise!Init
  OBVIOUS
<1>1. CurrentWrite = {}
  BY DEF Init, TraceeInit, NoRegs, CurrentWrite
<1>2. PrintedLog = << >>
  <2>1. out \in OutType
    BY InitType DEF TypeOK, OutTypeOK
  <2>2. out.outbuf = << >> /\ out.screen = << >>
    BY DEF Init, OutInit
  <2> QED BY <2>1, <2>2, FlushEmpty DEF PrintedLog
<1>3. marked \in SUBSET {1, 2}
  BY DEF Init, OutInit, StdFds
<1>4. PromiseOver \in BOOLEAN
  BY DEF PromiseOver
<1> QED BY <1>1, <1>2, <1>3, <1>4 DEF Promise!Init

(* errmark keeps the promise of MarkedLog: every step of the tracing loop, *)
(* the program and the kernel is a step of the promise or none.            *)
THEOREM ImplementsHolds == Spec => Implements
<1>1. Init => Promise!Init
  BY InitSimulation
<1>2. KnownInv /\ KnownInv' /\ [Next]_vars => [Promise!Next]_(Promise!vars)
  BY StepSimulation
<1>3. Spec => []KnownInv
  BY LoopInvariant, MarkInvariant, StatusInvariant, AnswerInvariant, OrderInvariant,
     SeenInvariant, PTL DEF KnownInv
<1> QED BY <1>1, <1>2, <1>3, PTL DEF Spec, Implements, Promise!Spec
=============================================================================
