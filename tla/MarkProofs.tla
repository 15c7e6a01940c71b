----------------------------- MODULE MarkProofs -----------------------------
(***************************************************************************)
(* The marking is right and ends: what errmark copies appears under the    *)
(* mark of its descriptor, whatever stdio still holds when a mark is       *)
(* written, and no mark is on when errmark exits, but for exit(8); for all *)
(* constants.                                                              *)
(***************************************************************************)
EXTENDS RunProgramProofs

USE DEF vars, traceeVars, tracerVars, programVars

-----------------------------------------------------------------------------
(* Bytes copied as they were written.                                      *)
Faithful(item) == item.kind \in {"data", "part"}

(* What is on the screen is marked as it should be, and what is in the     *)
(* buffer will be if it is flushed before the marks change.                *)
ScreenOk(m) == \A i \in 1 .. Len(m.screen) :
                 Faithful(m.screen[i]) => m.screen[i].lit = {m.screen[i].fd} \cap marked
BufferOk(m) == \A i \in 1 .. Len(m.outbuf) :
                 Faithful(m.outbuf[i]) => m.lit = {m.outbuf[i].fd} \cap marked
Coherent(m) == m \in OutType /\ ScreenOk(m) /\ BufferOk(m)

(* The mark that is on is that of cur_fd, until the marking is closed.     *)
LitView ==
  \/ out.lit = {out.cur_fd} \cap marked
  \/ out.lit = {} /\ pc \in {"finish"} \cup Final

(* mark_open has been called before anything is marked or copied, and      *)
(* before_write has switched to the descriptor of the bytes to be copied.  *)
OpenView ==
  /\ mark_state = 0 => out.cur_fd = NoFd
  /\ pc \in {"nullify", "copy"} =>
       mark_state = 1 /\ (~Skipped(wcall.buf, wcall.len) => out.cur_fd = wcall.fd)

MarkInv == TypeOK /\ Coherent(out) /\ LitView /\ OpenView /\ MarkingAtExit

-----------------------------------------------------------------------------
(* The functions of mark-write.c.                                          *)
LEMMA FlushCoherent ==
  ASSUME NEW m, Coherent(m)
  PROVE  Coherent(Flush(m))
<1> DEFINE new == [i \in 1 .. Len(m.outbuf) |-> Lit(m.outbuf[i], m.lit)]
<1>1. /\ m.outbuf \in Seq(Item) /\ m.screen \in Seq(Shown)
      /\ Len(m.outbuf) \in Nat /\ Len(m.screen) \in Nat
  BY DEF Coherent, OutType
<1>2. /\ Flush(m) \in OutType /\ Flush(m).outbuf = << >>
      /\ Flush(m).screen = m.screen \o new
  BY FlushType DEF Coherent, Flush, OutType
<1>3. \A i \in 1 .. Len(m.outbuf) :
         Faithful(new[i]) => new[i].lit = {new[i].fd} \cap marked
  BY DEF Coherent, BufferOk, Faithful, Lit
<1>4. new \in Seq(Shown) /\ Len(new) = Len(m.outbuf)
  <2>1. \A i \in 1 .. Len(m.outbuf) : Lit(m.outbuf[i], m.lit) \in Shown
    <3>1. TAKE i \in 1 .. Len(m.outbuf)
    <3>2. m.outbuf[i] \in Item /\ m.lit \in SUBSET StdFds
      BY <1>1 DEF Coherent, OutType
    <3> QED BY <3>2 DEF Item, Shown, Lit
  <2> QED BY <1>1, <2>1
<1> HIDE DEF new
<1>5. ScreenOk(Flush(m))
  <2> SUFFICES ASSUME NEW i \in 1 .. Len(m.screen \o new), Faithful((m.screen \o new)[i])
               PROVE  (m.screen \o new)[i].lit = {(m.screen \o new)[i].fd} \cap marked
    BY <1>2 DEF ScreenOk
  <2>1. CASE i <= Len(m.screen)
    <3>1. i \in 1 .. Len(m.screen) /\ (m.screen \o new)[i] = m.screen[i]
      BY <1>1, <1>4, <2>1
    <3> QED BY <3>1 DEF Coherent, ScreenOk
  <2>2. CASE i > Len(m.screen)
    <3>1. /\ i - Len(m.screen) \in 1 .. Len(m.outbuf)
          /\ (m.screen \o new)[i] = new[i - Len(m.screen)]
      BY <1>1, <1>4, <2>2
    <3> QED BY <1>3, <3>1
  <2> QED BY <1>1, <2>1, <2>2
<1> QED BY <1>2, <1>5 DEF Coherent, BufferOk

LEMMA MarkCoherent ==
  ASSUME NEW m, Coherent(m), m.outbuf = << >>, NEW fd \in StdFds
  PROVE  Coherent(MarkOn(m, fd)) /\ Coherent(MarkOff(m, fd))
<1>1. MarkOn(m, fd) \in OutType /\ MarkOff(m, fd) \in OutType
  BY MarkType DEF Coherent
<1>2. /\ MarkOn(m, fd).screen = m.screen /\ MarkOn(m, fd).outbuf = << >>
      /\ MarkOff(m, fd).screen = m.screen /\ MarkOff(m, fd).outbuf = << >>
  BY DEF Coherent, OutType, MarkOn, MarkOff
<1> QED BY <1>1, <1>2 DEF Coherent, ScreenOk, BufferOk

(* Each switch flushes before it writes, so what was buffered keeps the    *)
(* mark it was written under.                                              *)
LEMMA SwitchCoherent ==
  ASSUME NEW m, Coherent(m), NEW fd \in StdFds \cup {NoFd}, marked \subseteq StdFds
  PROVE  /\ Coherent(SwitchFrom(m, fd))
         /\ SwitchFrom(m, fd).lit = m.lit \ ({fd} \cap marked)
         /\ SwitchFrom(m, fd).cur_fd = m.cur_fd
         /\ Coherent(SwitchTo(m, fd))
         /\ SwitchTo(m, fd).lit = m.lit \cup ({fd} \cap marked)
         /\ SwitchTo(m, fd).cur_fd = m.cur_fd
<1>1. CASE fd \in marked
  <2>1. /\ fd \in StdFds /\ Coherent(Flush(m)) /\ Flush(m).outbuf = << >>
        /\ Flush(m).lit = m.lit /\ Flush(m).cur_fd = m.cur_fd /\ Flush(m) \in OutType
    BY <1>1, FlushCoherent, FlushType DEF Coherent
  <2>2. /\ Coherent(MarkOn(Flush(m), fd)) /\ Coherent(MarkOff(Flush(m), fd))
        /\ MarkOn(Flush(m), fd).lit = m.lit \cup {fd}
        /\ MarkOff(Flush(m), fd).lit = m.lit \ {fd}
        /\ MarkOn(Flush(m), fd).cur_fd = m.cur_fd
        /\ MarkOff(Flush(m), fd).cur_fd = m.cur_fd
    BY <2>1, MarkCoherent, MarkType
  <2> QED BY <1>1, <2>2 DEF SwitchFrom, SwitchTo, WriteStart, WriteEnd
<1>2. CASE fd \notin marked
  BY <1>2 DEF SwitchFrom, SwitchTo, WriteStart, WriteEnd
<1> QED BY <1>1, <1>2

LEMMA BeforeWriteCoherent ==
  ASSUME NEW m, Coherent(m), m.lit = {m.cur_fd} \cap marked, marked \subseteq StdFds,
         NEW fd \in StdFds, NEW buf, NEW len
  PROVE  LET after == BeforeWrite(m, fd, buf, len)
         IN  /\ Coherent(after) /\ after.lit = {after.cur_fd} \cap marked
             /\ ~Skipped(buf, len) => after.cur_fd = fd
<1>1. CASE ~Skipped(buf, len) /\ fd # m.cur_fd
  <2> DEFINE from == SwitchFrom(m, m.cur_fd)
             to   == SwitchTo(from, fd)
  <2>1. m.cur_fd \in StdFds \cup {NoFd}
    BY DEF Coherent, OutType
  <2>2. Coherent(from) /\ from.lit = {}
    <3>1. Coherent(from) /\ from.lit = m.lit \ ({m.cur_fd} \cap marked)
      BY <2>1, SwitchCoherent
    <3>2. from.lit = m.lit \ m.lit
      BY <3>1
    <3> HIDE DEF from
    <3> QED BY <3>1, <3>2
  <2>3. Coherent(to) /\ to.lit = {fd} \cap marked
    BY <2>2, SwitchCoherent
  <2> HIDE DEF to
  <2>4. to \in OutType
    BY <2>3 DEF Coherent
  <2>5. /\ [to EXCEPT !.cur_fd = fd] \in OutType
        /\ [to EXCEPT !.cur_fd = fd].cur_fd = fd
        /\ [to EXCEPT !.cur_fd = fd].lit = to.lit
        /\ [to EXCEPT !.cur_fd = fd].screen = to.screen
        /\ [to EXCEPT !.cur_fd = fd].outbuf = to.outbuf
    BY <2>4 DEF OutType
  <2>6. Coherent([to EXCEPT !.cur_fd = fd])
    BY <2>3, <2>5 DEF Coherent, ScreenOk, BufferOk
  <2>7. BeforeWrite(m, fd, buf, len) = [to EXCEPT !.cur_fd = fd]
    BY <1>1 DEF BeforeWrite, to
  <2> QED BY <2>3, <2>5, <2>6, <2>7
<1>2. CASE ~(~Skipped(buf, len) /\ fd # m.cur_fd)
  BY <1>2 DEF BeforeWrite
<1> QED BY <1>1, <1>2

LEMMA MarkOpenCoherent ==
  ASSUME NEW m, Coherent(m), m.lit = {}, marked \subseteq StdFds
  PROVE  /\ Coherent(MarkOpen(m)) /\ MarkOpen(m).cur_fd = NoFd /\ MarkOpen(m).lit = {}
<1>1. /\ MarkOpen(m) \in OutType /\ MarkOpen(m).cur_fd = NoFd
      /\ MarkOpen(m).lit = m.lit /\ MarkOpen(m).screen = m.screen
      /\ MarkOpen(m).outbuf = m.outbuf
  BY DEF MarkOpen, Coherent, OutType
<1> QED BY <1>1 DEF Coherent, ScreenOk, BufferOk

(* mark_close, called once or again, leaves nothing on.                    *)
LEMMA MarkCloseCoherent ==
  ASSUME NEW m, Coherent(m), marked \subseteq StdFds,
         m.lit \subseteq {m.cur_fd} \cap marked
  PROVE  /\ Coherent(MarkClose(m)) /\ MarkClose(m).lit = {}
         /\ MarkClose(m).cur_fd = m.cur_fd
<1>1. m.cur_fd \in StdFds \cup {NoFd}
  BY DEF Coherent, OutType
<1> QED BY <1>1, SwitchCoherent DEF MarkClose

(* Bytes go into the buffer under the mark of their descriptor, or they    *)
(* are not the bytes of a write.                                           *)
LEMMA FwriteCoherent ==
  ASSUME NEW m, Coherent(m), NEW item \in Item,
         Faithful(item) => m.lit = {item.fd} \cap marked
  PROVE  Coherent(Fwrite(m, item))
<1>1. m.outbuf \in Seq(Item)
  BY DEF Coherent, OutType
<1>2. /\ Fwrite(m, item) \in OutType /\ Fwrite(m, item).lit = m.lit
      /\ Fwrite(m, item).screen = m.screen
      /\ Fwrite(m, item).outbuf = Append(m.outbuf, item)
  BY FwriteType DEF Coherent, Fwrite, OutType
<1>3. \A i \in 1 .. Len(Append(m.outbuf, item)) :
         \/ i \in 1 .. Len(m.outbuf) /\ Append(m.outbuf, item)[i] = m.outbuf[i]
         \/ Append(m.outbuf, item)[i] = item
  BY <1>1
<1> QED BY <1>2, <1>3 DEF Coherent, ScreenOk, BufferOk

LEMMA RawWriteCoherent ==
  ASSUME NEW m, Coherent(m), NEW item \in Item, item.kind = "raw"
  PROVE  /\ Coherent(RawWrite(m, item)) /\ RawWrite(m, item).lit = m.lit
         /\ RawWrite(m, item).cur_fd = m.cur_fd
         /\ RawWrite(m, item).outbuf = m.outbuf
<1> DEFINE s == Append(m.screen, Lit(item, m.lit))
<1>1. m.screen \in Seq(Shown) /\ Lit(item, m.lit) \in Shown
  BY DEF Coherent, OutType, Lit, Item, Shown
<1>2. \A i \in 1 .. Len(s) :
         \/ i \in 1 .. Len(m.screen) /\ s[i] = m.screen[i]
         \/ s[i] = Lit(item, m.lit)
  BY <1>1
<1>3. ~Faithful(Lit(item, m.lit))
  BY DEF Lit, Faithful
<1>4. RawWrite(m, item) \in OutType
  BY RawWriteType DEF Coherent
<1>5. /\ RawWrite(m, item).screen \in {m.screen, s} /\ RawWrite(m, item).lit = m.lit
      /\ RawWrite(m, item).cur_fd = m.cur_fd /\ RawWrite(m, item).outbuf = m.outbuf
  BY DEF RawWrite, Coherent, OutType
<1> HIDE DEF s
<1> QED BY <1>2, <1>3, <1>4, <1>5 DEF Coherent, ScreenOk, BufferOk

-----------------------------------------------------------------------------
(* Any step that leaves the output side, the marks and the loop's view of  *)
(* them alone.                                                             *)
LEMMA QuietStep ==
  ASSUME MarkInv, TypeOK', UNCHANGED <<out, marked, mark_state>>,
         \/ pc' = pc /\ wcall' = wcall
         \/ pc' \notin {"nullify", "copy"} \cup Final /\ pc \notin {"finish"} \cup Final
         \/ pc = "nullify" /\ pc' = "copy" /\ wcall' = wcall
  PROVE  MarkInv'
<1>1. Coherent(out)'
  BY DEF MarkInv, Coherent, ScreenOk, BufferOk
<1>2. LitView' /\ OpenView'
  BY DEF MarkInv, LitView, OpenView, Final
<1>3. MarkingAtExit'
  <2>1. CASE pc' = pc /\ wcall' = wcall
    BY <2>1 DEF MarkInv, MarkingAtExit
  <2>2. CASE pc' \notin Final
    BY <2>2 DEF MarkingAtExit, Final
  <2> QED BY <2>1, <2>2 DEF Final
<1> QED BY <1>1, <1>2, <1>3 DEF MarkInv

(* The facts about the output side that the steps below start from.        *)
LEMMA MarkFacts ==
  ASSUME MarkInv
  PROVE  /\ marked \subseteq StdFds /\ out \in OutType /\ Coherent(out)
         /\ out.lit \subseteq {out.cur_fd} \cap marked
         /\ mark_state = 0 => out.lit = {}
         /\ mark_state \in {0, 1}
<1>1. marked \subseteq StdFds /\ out \in OutType /\ Coherent(out) /\ mark_state \in {0, 1}
  BY DEF MarkInv, TypeOK, OutTypeOK, LoopTypeOK, Bit
<1>2. out.lit \subseteq {out.cur_fd} \cap marked
  BY DEF MarkInv, LitView
<1>3. NoFd \notin marked
  BY <1>1 DEF StdFds, NoFd
<1> QED BY <1>1, <1>2, <1>3 DEF MarkInv, OpenView

LEMMA CloseIfOpen ==
  ASSUME MarkInv
  PROVE  LET once  == MarkCloseIfOpen(out)
             twice == MarkCloseIfOpen(once)
         IN  /\ Coherent(once) /\ once.lit = {} /\ once.cur_fd = out.cur_fd
             /\ Coherent(twice) /\ twice.lit = {} /\ twice.cur_fd = out.cur_fd
<1> USE MarkFacts
<1>1. CASE mark_state = 1
  <2> DEFINE once == MarkClose(out)
  <2>1. Coherent(once) /\ once.lit = {} /\ once.cur_fd = out.cur_fd
    BY MarkCloseCoherent
  <2> HIDE DEF once
  <2>2. /\ Coherent(MarkClose(once)) /\ MarkClose(once).lit = {}
        /\ MarkClose(once).cur_fd = once.cur_fd
    BY <2>1, MarkCloseCoherent
  <2> QED BY <1>1, <2>1, <2>2 DEF MarkCloseIfOpen, once
<1>2. CASE mark_state = 0
  BY <1>2 DEF MarkCloseIfOpen
<1> QED BY <1>1, <1>2

-----------------------------------------------------------------------------
(* The steps of the system.                                                *)
LEMMA WriteItem ==
  ASSUME MarkInv, NEW kind \in Kinds, NEW fd \in StdFds
  PROVE  CallItem(kind, fd) \in Item /\ CallItem(kind, fd).kind = kind
         /\ CallItem(kind, fd).fd = fd
  BY ItemFacts DEF MarkInv, CallItem

LEMMA WorldMark ==
  ASSUME MarkInv, TypeOK',
         OfProgram \/ OfKernel \/ OfOthers \/ ChildTraceMe \/ ChildExec
  PROVE  MarkInv'
<1>1. CASE OfProgram
  BY <1>1, QuietStep DEF OfProgram, Program, CallWrite, CallOther, CallExit, Trap
<1>2. CASE OfOthers \/ ChildTraceMe \/ ChildExec
  BY <1>2, QuietStep DEF OfOthers, SendSignal, Kill, ChildTraceMe, ChildExec
<1>3. CASE OfKernel
  <2>1. CASE out' = out
    BY <1>3, <2>1, QuietStep DEF OfKernel
  <2>2. CASE out' # out
    <3>1. KernelWrite /\ UNCHANGED <<tracerVars, marked>>
      BY <1>3, <2>2 DEF OfKernel, Kernel, KernelOther, KernelExit, SignalOnReturn,
                        SignalInUser, ReturnToUser
    <3>2. regs.arg1 \in StdFds /\ out' = RawWrite(out, CallItem("raw", regs.arg1))
      BY <2>2, <3>1 DEF KernelWrite
    <3>3. /\ CallItem("raw", regs.arg1) \in Item
          /\ CallItem("raw", regs.arg1).kind = "raw"
      BY <3>2, WriteItem DEF Kinds
    <3>4. /\ Coherent(out') /\ out'.lit = out.lit /\ out'.cur_fd = out.cur_fd
          /\ out'.outbuf = out.outbuf
      BY <3>2, <3>3, MarkFacts, RawWriteCoherent
    <3>5. Coherent(out)'
      BY <3>1, <3>4 DEF Coherent, ScreenOk, BufferOk
    <3>6. LitView' /\ OpenView'
      BY <3>1, <3>4 DEF MarkInv, LitView, OpenView
    <3>7. MarkingAtExit'
      BY <3>1, <3>4 DEF MarkInv, MarkingAtExit
    <3> QED BY <3>5, <3>6, <3>7 DEF MarkInv
  <2> QED BY <2>1, <2>2
<1> QED BY <1>1, <1>2, <1>3

LEMMA WaitMark ==
  ASSUME MarkInv, TypeOK', Wait
  PROVE  MarkInv'
<1>1. pc = "wait" /\ UNCHANGED <<marked, mark_state, wcall>>
  BY DEF Wait
<1>2. \/ pc' = "getregs" /\ out' = out
      \/ pc' = "finish" /\ out' = MarkCloseIfOpen(out)
  BY DEF Wait, Waited
<1>3. CASE pc' = "getregs" /\ out' = out
  BY <1>1, <1>3, QuietStep DEF Final
<1>4. CASE pc' = "finish" /\ out' = MarkCloseIfOpen(out)
  <2>1. Coherent(out') /\ out'.lit = {} /\ out'.cur_fd = out.cur_fd
    BY <1>4, CloseIfOpen
  <2>2. Coherent(out)'
    BY <1>1, <2>1 DEF Coherent, ScreenOk, BufferOk
  <2> QED BY <1>1, <1>4, <2>1, <2>2 DEF MarkInv, LitView, OpenView, MarkingAtExit
<1> QED BY <1>2, <1>3, <1>4

LEMMA MarkEntryMark ==
  ASSUME MarkInv, TypeOK', MarkEntry
  PROVE  MarkInv'
<1>1. pc = "entry" /\ marked' = marked
  BY DEF MarkEntry, EntryBody
<1>2. CASE ~TracedStd(wcall')
  BY <1>1, <1>2, QuietStep DEF MarkEntry, EntryBody, Final
<1>3. CASE TracedStd(wcall')
  <2> DEFINE m == IF mark_state = 0 THEN MarkOpen(out) ELSE out
  <2>1. /\ mark_state' = 1 /\ pc' = "nullify"
        /\ out' = BeforeWrite(m, wcall'.fd, wcall'.buf, wcall'.len)
    BY <1>3 DEF MarkEntry, EntryBody
  <2>2. out.lit = {out.cur_fd} \cap marked
    BY <1>1 DEF MarkInv, LitView, Final
  <2>3. Coherent(m) /\ m.lit = {m.cur_fd} \cap marked
    <3>1. CASE mark_state = 0
      <4>1. NoFd \notin marked
        BY MarkFacts DEF StdFds, NoFd
      <4>2. Coherent(MarkOpen(out)) /\ MarkOpen(out).cur_fd = NoFd /\ MarkOpen(out).lit = {}
        BY <3>1, MarkFacts, MarkOpenCoherent
      <4> QED BY <3>1, <4>1, <4>2
    <3>2. CASE mark_state # 0
      BY <2>2, <3>2, MarkFacts
    <3> QED BY <3>1, <3>2
  <2> HIDE DEF m
  <2>4. /\ Coherent(out') /\ out'.lit = {out'.cur_fd} \cap marked
        /\ ~Skipped(wcall'.buf, wcall'.len) => out'.cur_fd = wcall'.fd
    BY <1>3, <2>1, <2>3, MarkFacts, BeforeWriteCoherent DEF TracedStd
  <2>5. Coherent(out)'
    BY <1>1, <2>4 DEF Coherent, ScreenOk, BufferOk
  <2>6. LitView' /\ OpenView'
    BY <1>1, <2>1, <2>4 DEF LitView, OpenView, Skipped
  <2> QED BY <2>1, <2>5, <2>6 DEF MarkInv, MarkingAtExit
<1> QED BY <1>2, <1>3

(* Putting items into the buffer, and flushing it, while a write is copied.*)
LEMMA CopyMark ==
  ASSUME MarkInv, TypeOK', CopyToStdout \/ CopyBoth
  PROVE  MarkInv'
<1>1. /\ pc = "copy" /\ pc' = "resume" /\ UNCHANGED <<marked, mark_state, wcall>>
  BY DEF CopyToStdout, CopyBoth
<1>2. wcall.fd \in StdFds /\ out.lit = {out.cur_fd} \cap marked
  BY <1>1 DEF MarkInv, TypeOK, LoopTypeOK, LitView, Final
<1>3. ASSUME NEW kind \in Kinds,
             kind \in {"data", "part"} => ~Skipped(wcall.buf, wcall.len)
      PROVE  LET m == Fwrite(out, CallItem(kind, wcall.fd))
             IN  /\ Coherent(m) /\ m.lit = out.lit /\ m.cur_fd = out.cur_fd
                 /\ Coherent(Flush(m)) /\ Flush(m).lit = out.lit
                 /\ Flush(m).cur_fd = out.cur_fd
  <2> DEFINE item == CallItem(kind, wcall.fd)
             m    == Fwrite(out, item)
  <2>1. item \in Item /\ item.kind = kind /\ item.fd = wcall.fd
    BY <1>2, WriteItem
  <2> HIDE DEF item
  <2>2. Faithful(item) => out.lit = {item.fd} \cap marked
    BY <1>1, <1>2, <1>3, <2>1 DEF Faithful, MarkInv, OpenView
  <2>3. Coherent(m) /\ m.lit = out.lit /\ m.cur_fd = out.cur_fd
    BY <2>1, <2>2, MarkFacts, FwriteCoherent, FwriteType
  <2> HIDE DEF m
  <2>4. /\ Coherent(Flush(m)) /\ Flush(m).lit = m.lit /\ Flush(m).cur_fd = m.cur_fd
    BY <2>3, FlushCoherent, FlushType DEF Coherent
  <2> QED BY <2>3, <2>4 DEF m, item
<1>4. Coherent(out') /\ out'.lit = out.lit /\ out'.cur_fd = out.cur_fd
  <2>1. Coherent(Flush(out)) /\ Flush(out).lit = out.lit /\ Flush(out).cur_fd = out.cur_fd
    BY MarkFacts, FlushCoherent, FlushType
  <2>2. CASE CopyToStdout
    <3>1. \/ out' \in {out, Flush(out)}
          \/ \E kind \in {"data", "part", "dump"} :
               /\ out' \in {Fwrite(out, CallItem(kind, wcall.fd)),
                            Flush(Fwrite(out, CallItem(kind, wcall.fd)))}
               /\ kind \in {"data", "part"} => ~Skipped(wcall.buf, wcall.len)
      BY <2>2, PmemFwriteCases DEF CopyToStdout, Skipped
    <3> QED BY <1>3, <2>1, <3>1, MarkFacts DEF Kinds
  <2>3. CASE CopyBoth
    <3>1. \/ out' = out
          \/ \E kind \in {"data", "junk"} :
               /\ out' \in {Fwrite(out, CallItem(kind, wcall.fd)),
                            Flush(Fwrite(out, CallItem(kind, wcall.fd)))}
               /\ kind = "data" => ~Skipped(wcall.buf, wcall.len)
      BY <2>3 DEF CopyBoth, Readable, Skipped, HugeLen
    <3> QED BY <1>3, <3>1, MarkFacts DEF Kinds
  <2> QED BY <2>2, <2>3
<1>5. Coherent(out)'
  BY <1>1, <1>4 DEF Coherent, ScreenOk, BufferOk
<1> QED BY <1>1, <1>2, <1>4, <1>5 DEF MarkInv, LitView, OpenView, MarkingAtExit

LEMMA EndMark ==
  ASSUME MarkInv, TypeOK', Finish \/ MallocFails \/ PtraceFails \/ ErrmarkKilled
  PROVE  MarkInv'
<1>1. UNCHANGED <<marked, mark_state, wcall>>
  BY DEF Finish, MallocFails, PtraceFails, ErrmarkKilled, LetGo
<1>2. /\ Coherent(out') /\ out'.cur_fd = out.cur_fd
      /\ pc' = "oom" => out'.lit = out.lit /\ pc = "copy"
      /\ pc' = "killed" => out'.lit = out.lit /\ pc \notin Final
      /\ pc' \notin {"oom", "killed"} => out'.lit = {} /\ out'.outbuf = << >>
      /\ pc' \in Final
  <2>1. CASE Finish
    <3> DEFINE m == MarkCloseIfOpen(MarkCloseIfOpen(out))
    <3>1. Coherent(m) /\ m.lit = {} /\ m.cur_fd = out.cur_fd
      BY CloseIfOpen
    <3>2. out' = Flush(m) /\ pc' = "done"
      BY <2>1 DEF Finish
    <3> HIDE DEF m
    <3>3. /\ Coherent(Flush(m)) /\ Flush(m).lit = {} /\ Flush(m).cur_fd = out.cur_fd
          /\ Flush(m).outbuf = << >>
      BY <3>1, FlushCoherent, FlushType DEF Coherent
    <3> QED BY <3>2, <3>3 DEF Final
  <2>2. CASE MallocFails
    <3>1. pc = "copy" /\ out' = Flush(out) /\ pc' = "oom"
      BY <2>2 DEF MallocFails
    <3>2. Coherent(Flush(out)) /\ Flush(out).lit = out.lit /\ Flush(out).cur_fd = out.cur_fd
      BY MarkFacts, FlushCoherent, FlushType
    <3> QED BY <3>1, <3>2 DEF Final
  <2>3. CASE PtraceFails
    <3> DEFINE m == MarkCloseIfOpen(out)
    <3>1. Coherent(m) /\ m.lit = {} /\ m.cur_fd = out.cur_fd
      BY CloseIfOpen
    <3>2. out' = [m EXCEPT !.outbuf = << >>] /\ pc' = "aborted"
      BY <2>3 DEF PtraceFails
    <3> HIDE DEF m
    <3>3. /\ out' \in OutType /\ out'.lit = m.lit /\ out'.cur_fd = m.cur_fd
          /\ out'.screen = m.screen /\ out'.outbuf = << >>
      <4>1. m \in OutType /\ << >> \in Seq(Item)
        BY <3>1 DEF Coherent
      <4> QED BY <3>2, <4>1 DEF OutType
    <3>4. Coherent(out')
      BY <3>1, <3>3 DEF Coherent, ScreenOk, BufferOk
    <3>5. out'.lit = {} /\ out'.cur_fd = out.cur_fd
      BY <3>1, <3>3
    <3>6. pc' \notin {"oom", "killed"} /\ pc' \in Final
      BY <3>2 DEF Final
    <3> QED BY <3>3, <3>4, <3>5, <3>6
  <2>4. CASE ErrmarkKilled
    <3>1. /\ out' = [out EXCEPT !.outbuf = << >>] /\ pc' = "killed"
          /\ pc \notin Final
      BY <2>4 DEF ErrmarkKilled
    <3>2. /\ out' \in OutType /\ out'.lit = out.lit /\ out'.cur_fd = out.cur_fd
          /\ out'.screen = out.screen /\ out'.outbuf = << >>
      <4>1. out \in OutType /\ << >> \in Seq(Item)
        BY MarkFacts
      <4> QED BY <3>1, <4>1 DEF OutType
    <3>3. Coherent(out')
      BY <3>2, MarkFacts DEF Coherent, ScreenOk, BufferOk
    <3> QED BY <3>1, <3>2, <3>3 DEF Final
  <2> QED BY <2>1, <2>2, <2>3, <2>4
<1>3. Coherent(out)'
  BY <1>1, <1>2 DEF Coherent, ScreenOk, BufferOk
<1>4. LitView'
  BY <1>1, <1>2 DEF LitView, MarkInv, Final
<1>5. OpenView'
  BY <1>1, <1>2 DEF OpenView, MarkInv, Final
<1>6. MarkingAtExit'
  <2>1. CASE pc' = "oom"
    <3>1. /\ out.lit = {out.cur_fd} \cap marked
          /\ ~Skipped(wcall.buf, wcall.len) => out.cur_fd = wcall.fd
      BY <1>2, <2>1 DEF MarkInv, LitView, OpenView, Final
    <3>2. wcall.fd = 2
      BY <2>1 DEF Finish, MallocFails, PtraceFails, ErrmarkKilled
    <3> QED BY <1>1, <1>2, <2>1, <3>1, <3>2 DEF MarkingAtExit
  <2>2. CASE pc' = "killed"
    <3>1. out.lit \subseteq {out.cur_fd}
      BY DEF MarkInv, LitView
    <3> QED BY <1>2, <2>2, <3>1 DEF MarkingAtExit
  <2>3. CASE pc' \notin {"oom", "killed"}
    BY <1>2, <2>3 DEF MarkingAtExit
  <2> QED BY <2>1, <2>2, <2>3
<1> QED BY <1>3, <1>4, <1>5, <1>6 DEF MarkInv

-----------------------------------------------------------------------------
LEMMA InitMark == Init => MarkInv
<1> SUFFICES ASSUME Init PROVE MarkInv
  OBVIOUS
<1>1. TypeOK
  BY InitType
<1>2. /\ out = [cur_fd |-> NoFd, lit |-> {}, stray |-> FALSE,
               screen |-> << >>, outbuf |-> << >>]
      /\ marked \subseteq StdFds /\ pc = "wait" /\ mark_state = 0
  BY DEF Init, OutInit, RunInit
<1>3. Coherent(out)
  BY <1>1, <1>2 DEF Coherent, ScreenOk, BufferOk, TypeOK, OutTypeOK
<1>4. LitView
  <2>1. NoFd \notin marked
    BY <1>2 DEF StdFds, NoFd
  <2> QED BY <1>2, <2>1 DEF LitView
<1> QED BY <1>1, <1>2, <1>3, <1>4 DEF MarkInv, OpenView, MarkingAtExit

LEMMA NextMark == MarkInv /\ [Next]_vars => MarkInv'
<1> SUFFICES ASSUME MarkInv, [Next]_vars PROVE MarkInv'
  OBVIOUS
<1>1. TypeOK'
  BY NextType DEF MarkInv
<1>2. CASE Wait
  BY <1>1, <1>2, WaitMark
<1>3. CASE GetRegs
  <2>1. pc' \in {"finish", "resume", "entry", "exit"}
    BY <1>1, <1>3 DEF GetRegs, Dispatch, TypeOK, LoopTypeOK, Bit, MarkInv
  <2> QED BY <1>1, <1>3, <2>1, QuietStep DEF GetRegs, Final
<1>4. CASE Nullify \/ ExitStop \/ Resume
  BY <1>1, <1>4, QuietStep DEF Nullify, ExitStop, ExitBody, Resume, Final
<1>5. CASE MarkEntry
  BY <1>1, <1>5, MarkEntryMark
<1>6. CASE CopyToStdout \/ CopyBoth
  BY <1>1, <1>6, CopyMark
<1>7. CASE Finish \/ MallocFails \/ PtraceFails \/ ErrmarkKilled
  BY <1>1, <1>7, EndMark
<1>8. CASE OfProgram \/ OfKernel \/ OfOthers \/ ChildTraceMe \/ ChildExec
  BY <1>1, <1>8, WorldMark
<1>9. CASE UNCHANGED vars
  BY <1>1, <1>9, QuietStep
<1> QED BY <1>2, <1>3, <1>4, <1>5, <1>6, <1>7, <1>8, <1>9 DEF Next, Tracer, Terminated

(* In every reachable state the marks, the buffer and cur_fd agree.        *)
THEOREM MarkInvariant == Spec => []MarkInv
<1> QED BY InitMark, NextMark, PTL DEF Spec

(* Whatever the program writes, is sent or is killed by, the bytes that    *)
(* pmem_fwrite and the --copy branch copy appear under the mark of their   *)
(* descriptor: the flush in write_start_* and write_end_* is enough.       *)
THEOREM WellMarkedHolds == Spec => []WellMarked
<1>1. MarkInv => WellMarked
  BY DEF MarkInv, Coherent, ScreenOk, Faithful, WellMarked
<1> QED BY <1>1, MarkInvariant, PTL

(* After mark_close, in ptrace_cmd, errmark_run_program or guard_ptrace,   *)
(* no mark is on at the terminal; after exit(8) of guard_malloc the one of *)
(* cur_fd is, and after a death of errmark at most that.                   *)
THEOREM MarkingAtExitHolds == Spec => []MarkingAtExit
<1>1. MarkInv => MarkingAtExit
  BY DEF MarkInv
<1> QED BY <1>1, MarkInvariant, PTL

-----------------------------------------------------------------------------
(* How far the finding NoStrayEnd reaches: an end string for a marking     *)
(* that is not on is what the second mark_close at the end writes, always  *)
(* when something was marked, and nothing else writes one.                 *)
StrayView == out.stray <=> pc = "done" /\ mark_state = 1 /\ out.cur_fd \in marked

(* Only write_end_* can write one.                                         *)
LEMMA StraySame ==
  ASSUME NEW m \in OutType
  PROVE  /\ m.stray \in BOOLEAN
         /\ Flush(m).stray = m.stray
         /\ \A fd : MarkOn(m, fd).stray = m.stray
         /\ \A fd : MarkOff(m, fd).stray = (m.stray \/ fd \notin m.lit)
         /\ \A item : Fwrite(m, item).stray = m.stray
         /\ \A item : RawWrite(m, item).stray = m.stray
         /\ MarkOpen(m).stray = m.stray
         /\ \A fd : [m EXCEPT !.cur_fd = fd].stray = m.stray
         /\ \A s : [m EXCEPT !.outbuf = s].stray = m.stray
BY DEF OutType, Flush, MarkOn, MarkOff, Fwrite, RawWrite, MarkOpen

LEMMA SwitchStray ==
  ASSUME NEW m \in OutType, NEW fd
  PROVE  /\ SwitchTo(m, fd).stray = m.stray
         /\ SwitchFrom(m, fd).stray = (m.stray \/ (fd \in marked /\ fd \notin m.lit))
<1>1. /\ Flush(m) \in OutType /\ Flush(m).lit = m.lit /\ Flush(m).stray = m.stray
      /\ m.stray \in BOOLEAN
  BY FlushType, StraySame
<1>2. CASE fd \in marked
  <2>1. /\ MarkOn(Flush(m), fd).stray = m.stray
        /\ MarkOff(Flush(m), fd).stray = (m.stray \/ fd \notin m.lit)
    BY <1>1, StraySame
  <2> QED BY <1>2, <2>1, Zenon DEF SwitchFrom, SwitchTo, WriteStart, WriteEnd
<1>3. CASE fd \notin marked
  BY <1>1, <1>3, Zenon DEF SwitchFrom, SwitchTo, WriteStart, WriteEnd
<1> QED BY <1>2, <1>3
LEMMA BeforeWriteStray ==
  ASSUME NEW m \in OutType, m.lit = {m.cur_fd} \cap marked, marked \subseteq StdFds,
         NEW fd \in StdFds, NEW buf, NEW len
  PROVE  BeforeWrite(m, fd, buf, len).stray = m.stray
<1>1. CASE ~Skipped(buf, len) /\ fd # m.cur_fd
  <2> DEFINE from == SwitchFrom(m, m.cur_fd)
             to   == SwitchTo(from, fd)
  <2>1. m.cur_fd \in StdFds \cup {NoFd} /\ m.stray \in BOOLEAN
    BY DEF OutType
  <2>2. from \in OutType /\ from.stray = m.stray
    <3>1. from.stray = (m.stray \/ (m.cur_fd \in marked /\ m.cur_fd \notin m.lit))
      BY SwitchStray
    <3>2. ~(m.cur_fd \in marked /\ m.cur_fd \notin m.lit)
      OBVIOUS
    <3>3. from \in OutType
      BY <2>1, SwitchType
    <3> HIDE DEF from
    <3> QED BY <2>1, <3>1, <3>2, <3>3, Zenon
  <2> HIDE DEF from
  <2>3. to \in OutType /\ to.stray = m.stray
    BY <2>2, SwitchStray, SwitchType
  <2> HIDE DEF to
  <2>4. [to EXCEPT !.cur_fd = fd].stray = m.stray
    BY <2>3, StraySame
  <2> QED BY <1>1, <2>4 DEF BeforeWrite, to, from
<1>2. CASE ~(~Skipped(buf, len) /\ fd # m.cur_fd)
  BY <1>2 DEF BeforeWrite
<1> QED BY <1>1, <1>2

(* mark_close ends the marking once, and once more.                        *)
LEMMA CloseStray ==
  ASSUME MarkInv, ~out.stray
  PROVE  LET once  == MarkCloseIfOpen(out)
             twice == MarkCloseIfOpen(once)
         IN  /\ out.lit = {out.cur_fd} \cap marked => ~once.stray
             /\ twice.stray <=> mark_state = 1 /\ out.cur_fd \in marked
             /\ once \in OutType /\ twice \in OutType
<1> DEFINE once  == MarkCloseIfOpen(out)
           twice == MarkCloseIfOpen(once)
<1>1. /\ out \in OutType /\ once \in OutType /\ twice \in OutType
      /\ once.lit = {} /\ once.cur_fd = out.cur_fd /\ mark_state \in {0, 1}
  BY CloseIfOpen, MarkFacts DEF Coherent
<1>2. CASE mark_state = 1
  <2>1. once = SwitchFrom(out, out.cur_fd)
    BY <1>2 DEF MarkCloseIfOpen, MarkClose
  <2>2. once.stray = (out.stray \/ (out.cur_fd \in marked /\ out.cur_fd \notin out.lit))
    BY <1>1, <2>1, SwitchStray
  <2>3. twice = SwitchFrom(once, once.cur_fd)
    BY <1>2 DEF MarkCloseIfOpen, MarkClose
  <2> HIDE DEF once
  <2>4. twice.stray = (once.stray \/ (once.cur_fd \in marked /\ once.cur_fd \notin once.lit))
    BY <1>1, <2>3, SwitchStray
  <2> HIDE DEF twice
  <2>5. out.lit = {out.cur_fd} \cap marked => ~once.stray
    <3>1. out.lit = {out.cur_fd} \cap marked /\ out.cur_fd \in marked => out.cur_fd \in out.lit
      OBVIOUS
    <3> QED BY <2>2, <3>1, Zenon
  <2>6. twice.stray <=> out.cur_fd \in marked
    <3>1. out.cur_fd \notin once.lit
      BY <1>1
    <3> QED BY <1>1, <2>2, <2>4, <3>1, Zenon
  <2> QED BY <1>1, <1>2, <2>5, <2>6 DEF twice, once
<1>3. CASE mark_state = 0
  <2>1. once = out /\ twice = out
    BY <1>3 DEF MarkCloseIfOpen
  <2> QED BY <1>1, <1>3, <2>1
<1> QED BY <1>1, <1>2, <1>3

LEMMA QuietStray ==
  ASSUME MarkInv, StrayView, UNCHANGED <<marked, mark_state>>,
         out'.stray = out.stray, out'.cur_fd = out.cur_fd,
         pc' = pc \/ {pc, pc'} \cap {"done"} = {}
  PROVE  StrayView'
BY DEF StrayView

LEMMA CopyStray ==
  ASSUME MarkInv, StrayView, CopyToStdout \/ CopyBoth
  PROVE  StrayView'
<1>1. out \in OutType /\ wcall.fd \in StdFds /\ pc = "copy" /\ pc' = "resume"
  BY MarkFacts DEF MarkInv, TypeOK, LoopTypeOK, CopyToStdout, CopyBoth
<1>2. \/ out' \in {out, Flush(out)}
      \/ \E kind \in Kinds : out' \in {Fwrite(out, CallItem(kind, wcall.fd)),
                                       Flush(Fwrite(out, CallItem(kind, wcall.fd)))}
  BY PmemFwriteCases DEF CopyToStdout, CopyBoth, Kinds
<1>3. ASSUME NEW kind \in Kinds
      PROVE  LET m == Fwrite(out, CallItem(kind, wcall.fd))
             IN  /\ m.stray = out.stray /\ m.cur_fd = out.cur_fd
                 /\ Flush(m).stray = out.stray /\ Flush(m).cur_fd = out.cur_fd
  <2> DEFINE m == Fwrite(out, CallItem(kind, wcall.fd))
  <2>1. m \in OutType /\ m.stray = out.stray /\ m.cur_fd = out.cur_fd
    BY <1>1, WriteItem, FwriteType, StraySame
  <2> HIDE DEF m
  <2>2. Flush(m).stray = m.stray /\ Flush(m).cur_fd = m.cur_fd
    BY <2>1, StraySame, FlushType
  <2> QED BY <2>1, <2>2 DEF m
<1>4. out'.stray = out.stray /\ out'.cur_fd = out.cur_fd
  <2>1. Flush(out).stray = out.stray /\ Flush(out).cur_fd = out.cur_fd
    BY <1>1, StraySame, FlushType
  <2> QED BY <1>2, <1>3, <2>1
<1>5. UNCHANGED <<marked, mark_state>>
  BY DEF CopyToStdout, CopyBoth
<1> QED BY <1>1, <1>4, <1>5, QuietStray

LEMMA MarkEntryStray ==
  ASSUME MarkInv, StrayView, MarkEntry
  PROVE  StrayView'
<1>1. pc = "entry" /\ pc' \in {"nullify", "resume"} /\ marked' = marked
  BY DEF MarkEntry, EntryBody
<1>2. out.lit = {out.cur_fd} \cap marked /\ out \in OutType /\ marked \subseteq StdFds
  BY <1>1, MarkFacts DEF MarkInv, LitView, Final
<1> DEFINE m == IF mark_state = 0 THEN MarkOpen(out) ELSE out
<1>3. out' = out \/ (TracedStd(wcall')
                      /\ out' = BeforeWrite(m, wcall'.fd, wcall'.buf, wcall'.len))
  BY DEF MarkEntry, EntryBody
<1>4. m \in OutType /\ m.stray = out.stray /\ m.lit = {m.cur_fd} \cap marked
  <2>1. CASE mark_state = 0
    <3>1. out.cur_fd = NoFd
      BY <2>1 DEF MarkInv, OpenView
    <3>2. MarkOpen(out) = out
      BY <1>2, <3>1 DEF MarkOpen, OutType
    <3> QED BY <1>2, <2>1, <3>2
  <2>2. CASE mark_state # 0
    BY <1>2, <2>2
  <2> QED BY <2>1, <2>2
<1> HIDE DEF m
<1>5. out'.stray = out.stray
  BY <1>2, <1>3, <1>4, BeforeWriteStray DEF TracedStd
<1> QED BY <1>1, <1>5 DEF StrayView

LEMMA EndStray ==
  ASSUME MarkInv, StrayView, Wait \/ Finish \/ MallocFails \/ PtraceFails \/ ErrmarkKilled
  PROVE  StrayView'
<1>1. UNCHANGED <<marked, mark_state>> /\ out \in OutType
  BY MarkFacts DEF Wait, Finish, MallocFails, PtraceFails, ErrmarkKilled, LetGo
<1>2. pc # "done" /\ ~out.stray
  BY DEF StrayView, Wait, Finish, MallocFails, PtraceFails, ErrmarkKilled, Final
<1>3. CASE Wait
  <2>1. pc = "wait" /\ pc' # "done" /\ out' \in {out, MarkCloseIfOpen(out)}
    BY <1>3 DEF Wait, Waited
  <2>2. out.lit = {out.cur_fd} \cap marked
    BY <2>1 DEF MarkInv, LitView, Final
  <2>3. ~out'.stray
    BY <1>2, <2>1, <2>2, CloseStray
  <2> QED BY <2>1, <2>3 DEF StrayView
<1>4. CASE Finish
  <2> DEFINE m == MarkCloseIfOpen(MarkCloseIfOpen(out))
  <2>1. /\ m.stray <=> mark_state = 1 /\ out.cur_fd \in marked
        /\ m \in OutType /\ m.cur_fd = out.cur_fd
    BY <1>2, CloseStray, CloseIfOpen
  <2>2. out' = Flush(m) /\ pc' = "done"
    BY <1>4 DEF Finish
  <2> HIDE DEF m
  <2>3. Flush(m).stray = m.stray /\ Flush(m).cur_fd = m.cur_fd
    BY <2>1, StraySame, FlushType
  <2> QED BY <1>1, <2>1, <2>2, <2>3 DEF StrayView
<1>5. CASE MallocFails
  <2>1. out' = Flush(out) /\ pc' = "oom"
    BY <1>5 DEF MallocFails
  <2>2. ~Flush(out).stray
    BY <1>1, <1>2, StraySame
  <2> QED BY <2>1, <2>2 DEF StrayView
<1>6. CASE PtraceFails
  <2> DEFINE m == MarkCloseIfOpen(out)
  <2>1. out.lit = {out.cur_fd} \cap marked
    BY <1>6 DEF PtraceFails, MarkInv, LitView, Final
  <2>2. m \in OutType /\ ~m.stray
    BY <1>2, <2>1, CloseStray
  <2>3. out' = [m EXCEPT !.outbuf = << >>] /\ pc' = "aborted"
    BY <1>6 DEF PtraceFails
  <2> HIDE DEF m
  <2>4. ~out'.stray
    BY <2>2, <2>3, StraySame
  <2> QED BY <2>3, <2>4 DEF StrayView
<1>7. CASE ErrmarkKilled
  <2>1. out' = [out EXCEPT !.outbuf = << >>] /\ pc' = "killed"
    BY <1>7 DEF ErrmarkKilled
  <2>2. ~out'.stray
    BY <1>1, <1>2, <2>1, StraySame
  <2> QED BY <2>1, <2>2 DEF StrayView
<1> QED BY <1>3, <1>4, <1>5, <1>6, <1>7

LEMMA WorldStray ==
  ASSUME MarkInv, StrayView, OfProgram \/ OfKernel \/ OfOthers \/ ChildTraceMe \/ ChildExec
  PROVE  StrayView'
<1>1. pc' = pc /\ UNCHANGED <<marked, mark_state>>
  BY DEF OfProgram, OfKernel, OfOthers, ChildTraceMe, ChildExec
<1>2. out' = out \/ \E item \in Item : item.kind = "raw" /\ out' = RawWrite(out, item)
  <2>1. CASE KernelWrite
    <3>1. CASE regs.arg1 \in StdFds
      <4>1. /\ CallItem("raw", regs.arg1) \in Item
            /\ CallItem("raw", regs.arg1).kind = "raw"
        BY <3>1, WriteItem DEF Kinds
      <4> QED BY <2>1, <4>1 DEF KernelWrite
    <3>2. CASE regs.arg1 \notin StdFds
      BY <2>1, <3>2 DEF KernelWrite
    <3> QED BY <3>1, <3>2
  <2>2. CASE ~KernelWrite
    BY <2>2 DEF OfProgram, Program, CallWrite, CallOther, CallExit, Trap, OfKernel, Kernel,
                KernelOther, KernelExit, SignalOnReturn, SignalInUser, ReturnToUser,
                OfOthers, SendSignal, Kill, ChildTraceMe, ChildExec
  <2> QED BY <2>1, <2>2
<1>3. out'.stray = out.stray /\ out'.cur_fd = out.cur_fd
  <2>1. \A item \in Item : item.kind = "raw" =>
          /\ RawWrite(out, item).stray = out.stray
          /\ RawWrite(out, item).cur_fd = out.cur_fd
    BY MarkFacts, StraySame, RawWriteCoherent
  <2> QED BY <1>2, <2>1
<1> QED BY <1>1, <1>3, QuietStray

(* mark-write.c:227-230 promises end strings "only on transition to/from   *)
(* stdout/stderr": the one end string too many is the last thing errmark   *)
(* writes before it exits, and it writes it whenever the descriptor that   *)
(* was marked last has marks.                                              *)
THEOREM StrayOnlyAtEnd == Spec => []StrayView
<1>1. Init => StrayView
  BY DEF Init, OutInit, RunInit, StrayView
<1>2. MarkInv /\ StrayView /\ [Next]_vars => StrayView'
  <2> SUFFICES ASSUME MarkInv, StrayView, [Next]_vars PROVE StrayView'
    OBVIOUS
  <2>1. CASE GetRegs
    <3>1. /\ pc = "getregs" /\ UNCHANGED <<out, marked, mark_state>>
          /\ pc' \in {"finish", "resume", "entry", "exit"}
      BY <2>1, NextType DEF GetRegs, Dispatch, TypeOK, LoopTypeOK, Bit, MarkInv
    <3> QED BY <3>1 DEF StrayView
  <2>2. CASE Nullify \/ ExitStop \/ Resume \/ UNCHANGED vars
    BY <2>2 DEF StrayView, Nullify, ExitStop, ExitBody, Resume
  <2> QED BY <2>1, <2>2, CopyStray, MarkEntryStray, EndStray, WorldStray
          DEF Next, Tracer, Terminated
<1> QED BY <1>1, <1>2, MarkInvariant, PTL DEF Spec
=============================================================================
