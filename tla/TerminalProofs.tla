--------------------------- MODULE TerminalProofs ---------------------------
(***************************************************************************)
(* What the operators of Terminal and MarkWrite do to the types of the     *)
(* output side, proved once for the theorems about the tracing loop.       *)
(***************************************************************************)
EXTENDS MarkWrite, SequenceTheorems, TLAPS

(* fflush moves well-formed items to a well-formed screen and keeps the    *)
(* marks and cur_fd.                                                       *)
LEMMA FlushType ==
  ASSUME NEW m \in OutType
  PROVE  /\ Flush(m) \in OutType
         /\ Flush(m).cur_fd = m.cur_fd
         /\ Flush(m).lit = m.lit
         /\ Flush(m).outbuf = << >>
<1> DEFINE new == [i \in 1 .. Len(m.outbuf) |-> Lit(m.outbuf[i], m.lit)]
<1>1. /\ m.outbuf \in Seq(Item) /\ m.screen \in Seq(Shown) /\ m.lit \in SUBSET StdFds
  BY DEF OutType
<1>2. \A i \in 1 .. Len(m.outbuf) : Lit(m.outbuf[i], m.lit) \in Shown
  <2>1. TAKE i \in 1 .. Len(m.outbuf)
  <2>2. m.outbuf[i] \in Item
    BY <1>1
  <2> QED BY <1>1, <2>2 DEF Item, Shown, Lit
<1>3. new \in Seq(Shown)
  <2>1. Len(m.outbuf) \in Nat
    BY <1>1
  <2> QED BY <1>2, <2>1
<1>4. m.screen \o new \in Seq(Shown)
  BY <1>1, <1>3
<1> HIDE DEF new
<1>5. Flush(m) = [m EXCEPT !.screen = m.screen \o new, !.outbuf = << >>]
  BY DEF Flush, new
<1>6. << >> \in Seq(Item)
  OBVIOUS
<1> QED BY <1>4, <1>5, <1>6 DEF OutType

(* The marks keep the type; they change which marks are on as they say.    *)
LEMMA MarkType ==
  ASSUME NEW m \in OutType, NEW fd \in StdFds
  PROVE  /\ MarkOn(m, fd) \in OutType
         /\ MarkOn(m, fd).cur_fd = m.cur_fd
         /\ MarkOn(m, fd).lit = m.lit \cup {fd}
         /\ MarkOff(m, fd) \in OutType
         /\ MarkOff(m, fd).cur_fd = m.cur_fd
         /\ MarkOff(m, fd).lit = m.lit \ {fd}
<1>1. m.lit \cup {fd} \in SUBSET StdFds /\ m.lit \ {fd} \in SUBSET StdFds
  BY DEF OutType
<1>2. (m.stray \/ fd \notin m.lit) \in BOOLEAN
  OBVIOUS
<1> QED BY <1>1, <1>2 DEF MarkOn, MarkOff, OutType

LEMMA FwriteType ==
  ASSUME NEW m \in OutType, NEW item \in Item
  PROVE  /\ Fwrite(m, item) \in OutType
         /\ Fwrite(m, item).cur_fd = m.cur_fd
         /\ Fwrite(m, item).lit = m.lit
<1>1. Append(m.outbuf, item) \in Seq(Item)
  BY DEF OutType
<1> QED BY <1>1 DEF Fwrite, OutType

(* The kernel's own write appears with the marks that happen to be on.     *)
LEMMA RawWriteType ==
  ASSUME NEW m \in OutType, NEW item \in Item
  PROVE  RawWrite(m, item) \in OutType
<1>1. Lit(item, m.lit) \in Shown
  BY DEF OutType, Lit, Item, Shown
<1>2. Append(m.screen, Lit(item, m.lit)) \in Seq(Shown)
  BY <1>1 DEF OutType
<1> QED BY <1>2 DEF RawWrite, OutType

-----------------------------------------------------------------------------
(* The functions of mark-write.c keep the type; cur_fd is moved by         *)
(* before_write and mark_open alone.                                       *)
LEMMA SwitchType ==
  ASSUME NEW m \in OutType, NEW fd \in StdFds \cup {NoFd}, marked \subseteq StdFds
  PROVE  /\ SwitchFrom(m, fd) \in OutType
         /\ SwitchFrom(m, fd).cur_fd = m.cur_fd
         /\ SwitchTo(m, fd) \in OutType
         /\ SwitchTo(m, fd).cur_fd = m.cur_fd
<1>1. CASE fd \in marked
  <2>1. fd \in StdFds /\ Flush(m) \in OutType /\ Flush(m).cur_fd = m.cur_fd
    BY <1>1, FlushType
  <2> QED BY <1>1, <2>1, MarkType DEF SwitchFrom, SwitchTo, WriteStart, WriteEnd
<1>2. CASE fd \notin marked
  BY <1>2 DEF SwitchFrom, SwitchTo, WriteStart, WriteEnd
<1> QED BY <1>1, <1>2

LEMMA MarkOpenCloseType ==
  ASSUME NEW m \in OutType, marked \subseteq StdFds
  PROVE  MarkOpen(m) \in OutType /\ MarkClose(m) \in OutType
<1>1. m.cur_fd \in StdFds \cup {NoFd}
  BY DEF OutType
<1>2. MarkOpen(m) \in OutType
  BY DEF MarkOpen, OutType
<1> QED BY <1>1, <1>2, SwitchType DEF MarkClose

LEMMA BeforeWriteType ==
  ASSUME NEW m \in OutType, marked \subseteq StdFds, NEW fd, NEW buf, NEW len
  PROVE  BeforeWrite(m, fd, buf, len) \in OutType
<1>1. CASE ~Skipped(buf, len) /\ fd \in StdFds /\ fd # m.cur_fd
  <2> DEFINE from == SwitchFrom(m, m.cur_fd)
             to   == SwitchTo(from, fd)
  <2>1. from \in OutType
    BY SwitchType DEF OutType
  <2>2. to \in OutType
    BY <1>1, <2>1, SwitchType
  <2> HIDE DEF to
  <2>3. [to EXCEPT !.cur_fd = fd] \in OutType
    BY <1>1, <2>2 DEF OutType
  <2> QED BY <1>1, <2>3 DEF BeforeWrite, to
<1>2. CASE ~(~Skipped(buf, len) /\ fd \in StdFds /\ fd # m.cur_fd)
  BY <1>2 DEF BeforeWrite
<1> QED BY <1>1, <1>2

-----------------------------------------------------------------------------
(* What has been put out, on the screen or into the buffer of stdout.      *)

(* The same stretch of bytes, whatever marks it is under.                  *)
SameBytes(x, y) == x.kind = y.kind /\ x.fd = y.fd /\ x.id = y.id

(* n has put out what m has, or less at the end.                           *)
Within(n, m) ==
  /\ Len(Issued(n)) <= Len(Issued(m))
  /\ \A i \in 1 .. Len(Issued(n)) : SameBytes(Issued(n)[i], Issued(m)[i])

(* n has put out one item more than m.                                     *)
OneMore(n, m, item) ==
  /\ Len(Issued(n)) = Len(Issued(m)) + 1
  /\ \A i \in 1 .. Len(Issued(m)) : SameBytes(Issued(n)[i], Issued(m)[i])
  /\ SameBytes(Issued(n)[Len(Issued(m)) + 1], item)

(* What is on the screen of m stays there.                                 *)
Kept(n, m) ==
  /\ Len(m.screen) <= Len(n.screen)
  /\ \A i \in 1 .. Len(m.screen) : n.screen[i] = m.screen[i]

(* Nothing was put out from m to n, but the buffer may have been flushed   *)
(* before a mark.                                                          *)
Moved(n, m) ==
  \/ n.screen = m.screen /\ n.outbuf = m.outbuf /\ n.lit = m.lit
  \/ n.screen = Flush(m).screen /\ n.outbuf = << >>

(* The items of two sequences put together, one by one.                    *)
LEMMA ConcatItems ==
  ASSUME NEW S, NEW T, NEW s \in Seq(S), NEW t \in Seq(T)
  PROVE  /\ Len(s) \in Nat /\ Len(t) \in Nat
         /\ Len(s \o t) = Len(s) + Len(t)
         /\ \A i \in 1 .. Len(s) : (s \o t)[i] = s[i]
         /\ \A i \in 1 .. Len(t) : (s \o t)[Len(s) + i] = t[i]
<1>1. s \in Seq(S \cup T) /\ t \in Seq(S \cup T)
  OBVIOUS
<1>2. Len(s) \in Nat /\ Len(t) \in Nat
  BY <1>1
<1>3. /\ Len(s \o t) = Len(s) + Len(t)
      /\ \A i \in 1 .. Len(s) + Len(t) :
           (s \o t)[i] = IF i <= Len(s) THEN s[i] ELSE t[i - Len(s)]
  BY <1>1, ConcatProperties
<1>4. ASSUME NEW i \in 1 .. Len(s) PROVE (s \o t)[i] = s[i]
  BY <1>2, <1>3
<1>5. ASSUME NEW i \in 1 .. Len(t) PROVE (s \o t)[Len(s) + i] = t[i]
  <2>1. Len(s) + i \in 1 .. Len(s) + Len(t) /\ ~(Len(s) + i <= Len(s))
    BY <1>2
  <2>2. (Len(s) + i) - Len(s) = i
    BY <1>2
  <2> QED BY <1>3, <2>1, <2>2
<1> QED BY <1>2, <1>3, <1>4, <1>5

(* The items of a flushed screen, and of what was put out, one by one.     *)
LEMMA ShownItems ==
  ASSUME NEW m \in OutType
  PROVE  /\ Len(m.screen) \in Nat /\ Len(m.outbuf) \in Nat
         /\ Len(Issued(m)) = Len(m.screen) + Len(m.outbuf)
         /\ Len(Flush(m).screen) = Len(m.screen) + Len(m.outbuf)
         /\ \A i \in 1 .. Len(m.screen) :
              Issued(m)[i] = m.screen[i] /\ Flush(m).screen[i] = m.screen[i]
         /\ \A i \in 1 .. Len(m.outbuf) :
              /\ Issued(m)[Len(m.screen) + i] = m.outbuf[i]
              /\ Flush(m).screen[Len(m.screen) + i] = Lit(m.outbuf[i], m.lit)
<1> DEFINE new == [i \in 1 .. Len(m.outbuf) |-> Lit(m.outbuf[i], m.lit)]
<1>1. m.outbuf \in Seq(Item) /\ m.screen \in Seq(Shown)
  BY DEF OutType
<1>2. Len(m.screen) \in Nat /\ Len(m.outbuf) \in Nat
  BY <1>1
<1>3. new \in Seq(Shown)
  <2>1. \A i \in 1 .. Len(m.outbuf) : Lit(m.outbuf[i], m.lit) \in Shown
    <3>1. TAKE i \in 1 .. Len(m.outbuf)
    <3>2. m.outbuf[i] \in Item /\ m.lit \in SUBSET StdFds
      BY <1>1 DEF OutType
    <3> QED BY <3>2 DEF Item, Shown, Lit
  <2> QED BY <1>2, <2>1
<1>10. Len(new) = Len(m.outbuf)
  BY <1>2
<1>4. \A i \in 1 .. Len(m.outbuf) : new[i] = Lit(m.outbuf[i], m.lit)
  OBVIOUS
<1>5. Flush(m).screen = m.screen \o new
  BY DEF Flush, OutType
<1> HIDE DEF new
<1> DEFINE shown == m.screen
           buf   == m.outbuf
<1>6. shown \in Seq(Shown) /\ buf \in Seq(Item)
  BY <1>1
<1> HIDE DEF shown, buf
<1>7. /\ Len(shown \o new) = Len(shown) + Len(new)
      /\ \A i \in 1 .. Len(shown) : (shown \o new)[i] = shown[i]
      /\ \A i \in 1 .. Len(new) : (shown \o new)[Len(shown) + i] = new[i]
  BY <1>3, <1>6, ConcatItems
<1>9. /\ Len(shown \o buf) = Len(shown) + Len(buf)
      /\ \A i \in 1 .. Len(shown) : (shown \o buf)[i] = shown[i]
      /\ \A i \in 1 .. Len(buf) : (shown \o buf)[Len(shown) + i] = buf[i]
  BY <1>6, ConcatItems
<1> QED
  BY <1>2, <1>4, <1>5, <1>7, <1>9, <1>10, Zenon DEF Issued, shown, buf

LEMMA FlushEmpty ==
  ASSUME NEW m \in OutType, m.outbuf = << >>
  PROVE  Flush(m).screen = m.screen
<1>1. /\ Flush(m).screen \in Seq(Shown) /\ m.screen \in Seq(Shown)
  BY FlushType DEF OutType
<1>2. Len(m.outbuf) = 0
  OBVIOUS
<1>3. /\ Len(Flush(m).screen) = Len(m.screen) + 0 /\ Len(m.screen) \in Nat
      /\ \A i \in 1 .. Len(m.screen) : Flush(m).screen[i] = m.screen[i]
  BY <1>2, ShownItems, Zenon
<1> QED BY <1>1, <1>3, SeqEqual

(* Items are moved from the buffer to the screen, in their order.          *)
LEMMA MovedFacts ==
  ASSUME NEW m \in OutType, NEW n \in OutType, Moved(n, m)
  PROVE  /\ Within(n, m) /\ Within(m, n) /\ Kept(n, m)
         /\ Flush(n).screen = Flush(m).screen
<1>1. CASE n.screen = m.screen /\ n.outbuf = m.outbuf /\ n.lit = m.lit
  <2>1. Issued(n) = Issued(m)
    BY <1>1 DEF Issued
  <2>2. Flush(n).screen = Flush(m).screen
    BY <1>1 DEF Flush, OutType
  <2>3. Len(Issued(m)) \in Nat /\ Len(m.screen) \in Nat
    BY ShownItems
  <2> QED BY <1>1, <2>1, <2>2, <2>3 DEF Within, SameBytes, Kept
<1>2. CASE n.screen = Flush(m).screen /\ n.outbuf = << >>
  <2>1. Len(n.outbuf) = 0
    BY <1>2
  <2>2. Flush(n).screen = n.screen
    BY <1>2, FlushEmpty
  <2>3. /\ Len(Issued(n)) = Len(n.screen) + 0 /\ Len(n.screen) \in Nat
        /\ \A i \in 1 .. Len(n.screen) : Issued(n)[i] = n.screen[i]
    BY <2>1, ShownItems, Zenon
  <2> DEFINE k == Len(m.screen)
             b == Len(m.outbuf)
             w == Flush(m).screen
             o == Issued(m)
             p == Issued(n)
             buf == m.outbuf
  <2>4. /\ k \in Nat /\ b \in Nat /\ Len(o) = k + b /\ Len(w) = k + b
        /\ \A i \in 1 .. k : o[i] = m.screen[i] /\ w[i] = m.screen[i]
        /\ \A i \in 1 .. b : o[k + i] = buf[i] /\ w[k + i] = Lit(buf[i], m.lit)
    BY ShownItems, Zenon
  <2>5. Len(p) = Len(w) /\ \A i \in 1 .. Len(w) : p[i] = w[i]
    BY <1>2, <2>3
  <2>6. Kept(n, m)
    <3>1. n.screen = w
      BY <1>2
    <3> HIDE DEF w, k
    <3>2. k <= Len(w) /\ \A i \in 1 .. k : w[i] = m.screen[i]
      BY <2>4
    <3> QED BY <3>1, <3>2, Zenon DEF Kept, k
  <2> HIDE DEF k, b, w, o, p, buf
  <2>7. \A i \in 1 .. k + b : SameBytes(p[i], o[i])
    <3> SUFFICES ASSUME NEW i \in 1 .. k + b
                 PROVE  SameBytes(w[i], o[i])
      BY <2>4, <2>5
    <3>1. CASE i \in 1 .. k
      BY <2>4, <3>1 DEF SameBytes
    <3>2. CASE i \notin 1 .. k
      <4> DEFINE j == i - k
      <4>1. j \in 1 .. b /\ i = k + j
        BY <2>4, <3>2
      <4> HIDE DEF j
      <4>2. o[i] = buf[j] /\ w[i] = Lit(buf[j], m.lit)
        BY <2>4, <4>1
      <4> QED BY <4>2 DEF SameBytes, Lit
    <3> QED BY <3>1, <3>2
  <2>8. Len(p) = k + b /\ Len(o) = k + b /\ k + b <= k + b
    BY <2>4, <2>5
  <2>9. \A i \in 1 .. k + b : SameBytes(o[i], p[i])
    BY <2>7 DEF SameBytes
  <2> QED BY <1>2, <2>2, <2>6, <2>7, <2>8, <2>9, Zenon DEF Within, o, p, w
<1> QED BY <1>1, <1>2 DEF Moved

LEMMA MovedTwice ==
  ASSUME NEW m \in OutType, NEW n \in OutType, NEW p, Moved(n, m), Moved(p, n)
  PROVE  Moved(p, m)
<1>1. Flush(n).screen = Flush(m).screen
  BY MovedFacts
<1> QED BY <1>1 DEF Moved

(* A mark is written after the buffer and puts out nothing.                *)
LEMMA MarkMoved ==
  ASSUME NEW m \in OutType, NEW fd \in StdFds \cup {NoFd}, marked \subseteq StdFds
  PROVE  /\ SwitchFrom(m, fd) \in OutType /\ Moved(SwitchFrom(m, fd), m)
         /\ SwitchTo(m, fd) \in OutType /\ Moved(SwitchTo(m, fd), m)
<1>1. SwitchFrom(m, fd) \in OutType /\ SwitchTo(m, fd) \in OutType
  BY SwitchType
<1>2. CASE fd \in marked
  <2> DEFINE w == Flush(m)
  <2>1. w \in OutType /\ w.outbuf = << >> /\ fd \in StdFds
    BY <1>2, FlushType
  <2> HIDE DEF w
  <2>2. /\ MarkOn(w, fd).screen = w.screen /\ MarkOn(w, fd).outbuf = w.outbuf
        /\ MarkOff(w, fd).screen = w.screen /\ MarkOff(w, fd).outbuf = w.outbuf
    BY <2>1 DEF MarkOn, MarkOff, OutType
  <2>3. SwitchTo(m, fd) = MarkOn(w, fd) /\ SwitchFrom(m, fd) = MarkOff(w, fd)
    BY <1>2 DEF SwitchTo, SwitchFrom, WriteStart, WriteEnd, w
  <2>4. Moved(SwitchTo(m, fd), m) /\ Moved(SwitchFrom(m, fd), m)
    BY <2>1, <2>2, <2>3, Zenon DEF Moved, w
  <2> QED BY <1>1, <2>4
<1>3. CASE fd \notin marked
  <2>1. SwitchTo(m, fd) = m /\ SwitchFrom(m, fd) = m
    BY <1>3 DEF SwitchTo, SwitchFrom, WriteStart, WriteEnd
  <2> QED BY <1>1, <2>1, Zenon DEF Moved
<1> QED BY <1>2, <1>3

(* Nor do the functions of mark-write.c that are called from outside.      *)
LEMMA BeforeWriteMoved ==
  ASSUME NEW m \in OutType, marked \subseteq StdFds, NEW fd, NEW buf, NEW len
  PROVE  Moved(BeforeWrite(m, fd, buf, len), m)
<1>1. CASE ~Skipped(buf, len) /\ fd \in StdFds /\ fd # m.cur_fd
  <2> DEFINE from == SwitchFrom(m, m.cur_fd)
             to   == SwitchTo(from, fd)
  <2>1. from \in OutType /\ Moved(from, m)
    BY MarkMoved DEF OutType
  <2> HIDE DEF from
  <2>2. to \in OutType /\ Moved(to, from)
    BY <1>1, <2>1, MarkMoved
  <2> HIDE DEF to
  <2> DEFINE next == [to EXCEPT !.cur_fd = fd]
  <2>3. next.screen = to.screen /\ next.outbuf = to.outbuf /\ next.lit = to.lit
    BY <2>2 DEF OutType
  <2>4. Moved(next, to)
    BY <2>3, Zenon DEF Moved
  <2> HIDE DEF next
  <2>5. Moved(to, m)
    BY <2>1, <2>2, MovedTwice
  <2>6. Moved(next, m)
    BY <2>2, <2>4, <2>5, MovedTwice
  <2> QED BY <1>1, <2>6 DEF BeforeWrite, next, to, from
<1>2. CASE ~(~Skipped(buf, len) /\ fd \in StdFds /\ fd # m.cur_fd)
  BY <1>2 DEF BeforeWrite, Moved
<1> QED BY <1>1, <1>2

LEMMA MarkOpenCloseMoved ==
  ASSUME NEW m \in OutType, marked \subseteq StdFds
  PROVE  Moved(MarkOpen(m), m) /\ Moved(MarkClose(m), m)
<1>1. Moved(MarkOpen(m), m)
  BY DEF Moved, MarkOpen, OutType
<1>2. Moved(MarkClose(m), m)
  BY MarkMoved DEF MarkClose, OutType
<1> QED BY <1>1, <1>2

-----------------------------------------------------------------------------
(* One more item from errmark's fwrite, flushed or not.                    *)
LEMMA FwriteOneMore ==
  ASSUME NEW m \in OutType, NEW item \in Item
  PROVE  /\ OneMore(Fwrite(m, item), m, item)
         /\ OneMore(Flush(Fwrite(m, item)), m, item)
         /\ Kept(Fwrite(m, item), m) /\ Kept(Flush(Fwrite(m, item)), m)
         /\ Flush(Fwrite(m, item)).outbuf = << >>
         /\ Len(Flush(Fwrite(m, item)).screen) = Len(Issued(m)) + 1
         /\ SameBytes(Flush(Fwrite(m, item)).screen[Len(Issued(m)) + 1], item)
<1> DEFINE n == Fwrite(m, item)
           w == Flush(n)
<1>1. n \in OutType /\ n.screen = m.screen /\ n.outbuf = Append(m.outbuf, item)
  BY FwriteType DEF Fwrite, OutType
<1>2. m.outbuf \in Seq(Item) /\ m.screen \in Seq(Shown)
  BY DEF OutType
<1> HIDE DEF n
<1>3. w \in OutType /\ w.outbuf = << >> /\ Moved(w, n)
  BY <1>1, FlushType DEF Moved
<1> HIDE DEF w
<1> DEFINE k == Len(m.screen)
           b == Len(m.outbuf)
           o == Issued(m)
           p == Issued(n)
           buf == m.outbuf
           more == n.outbuf
<1>4. /\ k \in Nat /\ b \in Nat /\ Len(o) = k + b
      /\ \A i \in 1 .. k : o[i] = m.screen[i]
      /\ \A i \in 1 .. b : o[k + i] = buf[i]
  BY ShownItems, Zenon
<1>5. /\ Len(more) = b + 1
      /\ \A i \in 1 .. b : more[i] = buf[i]
      /\ more[b + 1] = item
  BY <1>1, <1>2
<1>6. /\ Len(p) = k + Len(more)
      /\ \A i \in 1 .. k : p[i] = m.screen[i]
      /\ \A i \in 1 .. Len(more) : p[k + i] = more[i]
  <2> DEFINE r == Issued(n)
  <2>1. /\ Len(r) = Len(n.screen) + Len(n.outbuf)
        /\ \A i \in 1 .. Len(n.screen) : r[i] = n.screen[i]
        /\ \A i \in 1 .. Len(n.outbuf) : r[Len(n.screen) + i] = n.outbuf[i]
    BY <1>1, ShownItems, Zenon
  <2>2. n.screen = m.screen
    BY <1>1
  <2> HIDE DEF r
  <2>3. /\ Len(r) = Len(m.screen) + Len(n.outbuf)
        /\ \A i \in 1 .. Len(m.screen) : r[i] = m.screen[i]
        /\ \A i \in 1 .. Len(n.outbuf) : r[Len(m.screen) + i] = n.outbuf[i]
    BY <2>1, <2>2, Zenon
  <2> QED BY <2>3, Zenon DEF r
<1> HIDE DEF k, b, o, p, buf, more
<1>7. /\ Len(p) = Len(o) + 1
      /\ \A i \in 1 .. Len(o) : p[i] = o[i]
      /\ p[Len(o) + 1] = item
  <2>1. Len(p) = Len(o) + 1 /\ Len(o) + 1 = k + (b + 1) /\ b + 1 \in 1 .. Len(more)
    BY <1>4, <1>5, <1>6
  <2>2. p[Len(o) + 1] = item
    BY <1>5, <1>6, <2>1
  <2>3. ASSUME NEW i \in 1 .. Len(o) PROVE p[i] = o[i]
    <3>1. CASE i \in 1 .. k
      BY <1>4, <1>6, <3>1
    <3>2. CASE i \notin 1 .. k
      <4> DEFINE j == i - k
      <4>1. j \in 1 .. b /\ i = k + j /\ j \in 1 .. Len(more)
        BY <1>4, <1>5, <3>2
      <4> HIDE DEF j
      <4> QED BY <1>4, <1>5, <1>6, <4>1
    <3> QED BY <3>1, <3>2
  <2> QED BY <2>1, <2>2, <2>3
<1>8. OneMore(n, m, item)
  BY <1>7, Zenon DEF OneMore, SameBytes, o, p
<1>9. Kept(n, m)
  <2>1. k <= k
    BY <1>4
  <2> QED BY <1>1, <2>1, Zenon DEF Kept, k
<1> QED
  <2> DEFINE q == Issued(w)
             v == w.screen
  <2>1. Within(w, n) /\ Within(n, w) /\ Kept(w, n)
    BY <1>1, <1>3, MovedFacts
  <2>2. /\ Len(q) <= Len(p) /\ Len(p) <= Len(q)
        /\ \A i \in 1 .. Len(q) : SameBytes(q[i], p[i])
    BY <2>1, Zenon DEF Within, q, p
  <2>3. Len(w.outbuf) = 0
    BY <1>3
  <2>4. Len(q) = Len(v) + 0 /\ Len(v) \in Nat /\ \A i \in 1 .. Len(v) : q[i] = v[i]
    BY <1>3, <2>3, ShownItems, Zenon
  <2>5. Kept(w, m)
    BY <1>1, <2>1 DEF Kept
  <2> HIDE DEF q, v
  <2>6. Len(o) \in Nat
    BY <1>4
  <2>7. Len(q) = Len(p) /\ Len(q) = Len(v)
    BY <1>7, <2>2, <2>4, <2>6
  <2>8. \A i \in 1 .. Len(o) : SameBytes(q[i], o[i])
    BY <1>7, <2>2, <2>6, <2>7
  <2>9. Len(o) + 1 \in 1 .. Len(q)
    BY <1>7, <2>6, <2>7
  <2>10. SameBytes(q[Len(o) + 1], item) /\ SameBytes(v[Len(o) + 1], item)
    BY <1>7, <2>2, <2>4, <2>7, <2>9
  <2>11. OneMore(w, m, item)
    BY <1>7, <2>7, <2>8, <2>10, Zenon DEF OneMore, q, o
  <2>12. Len(v) = Len(o) + 1
    BY <1>7, <2>7
  <2> QED
    BY <1>3, <1>8, <1>9, <2>5, <2>10, <2>11, <2>12, Zenon DEF v, o, n, w

(* A write of the kernel itself, when stdout has nothing in its buffer.    *)
LEMMA RawOneMore ==
  ASSUME NEW m \in OutType, NEW item \in Item, m.outbuf = << >>, item.dest = "tty"
  PROVE  /\ OneMore(RawWrite(m, item), m, item)
         /\ Kept(RawWrite(m, item), m)
         /\ Len(RawWrite(m, item).screen) = Len(m.screen) + 1
         /\ SameBytes(RawWrite(m, item).screen[Len(m.screen) + 1], item)
<1> DEFINE n == RawWrite(m, item)
           v == n.screen
           k == Len(m.screen)
           o == Issued(m)
           q == Issued(n)
<1>1. m.screen \in Seq(Shown) /\ k \in Nat
  BY DEF OutType
<1>2. n \in OutType
  BY RawWriteType
<1>3. v = Append(m.screen, Lit(item, m.lit)) /\ n.outbuf = << >>
  BY DEF RawWrite, OutType
<1>4. Len(m.outbuf) = 0 /\ Len(n.outbuf) = 0
  BY <1>3
<1>5. Len(o) = k + 0 /\ \A i \in 1 .. k : o[i] = m.screen[i]
  BY <1>4, ShownItems, Zenon
<1> HIDE DEF n
<1>6. Len(q) = Len(v) + 0 /\ Len(v) \in Nat /\ \A i \in 1 .. Len(v) : q[i] = v[i]
  BY <1>2, <1>4, ShownItems, Zenon
<1>7. /\ Len(v) = k + 1 /\ v[k + 1] = Lit(item, m.lit)
      /\ \A i \in 1 .. k : v[i] = m.screen[i]
  BY <1>1, <1>3
<1> HIDE DEF v, k, o, q
<1>8. Len(q) = k + 1 /\ Len(o) = k /\ k + 1 \in 1 .. Len(v) /\ k <= k + 1
  BY <1>1, <1>5, <1>6, <1>7
<1>9. SameBytes(v[k + 1], item) /\ SameBytes(q[k + 1], item)
  BY <1>6, <1>7, <1>8 DEF SameBytes, Lit
<1>10. \A i \in 1 .. k : SameBytes(q[i], o[i])
  BY <1>1, <1>5, <1>6, <1>7 DEF SameBytes
<1>11. OneMore(n, m, item)
  BY <1>8, <1>9, <1>10, Zenon DEF OneMore, q, o
<1>12. Kept(n, m)
  BY <1>7, <1>8, Zenon DEF Kept, v, k
<1> QED BY <1>7, <1>9, <1>11, <1>12, Zenon DEF v, k, n

(* errmark dies: what is in the buffer is lost, what is shown stays.       *)
LEMMA DropWithin ==
  ASSUME NEW m \in OutType, NEW n, n.screen = m.screen, n.outbuf = << >>
  PROVE  Within(n, m) /\ Kept(n, m)
<1> DEFINE k == Len(m.screen)
           b == Len(m.outbuf)
           o == Issued(m)
           q == Issued(n)
<1>1. m.screen \in Seq(Shown) /\ k \in Nat
  BY DEF OutType
<1>2. q = m.screen
  BY <1>1 DEF Issued
<1>3. /\ b \in Nat /\ Len(o) = k + b
      /\ \A i \in 1 .. k : o[i] = m.screen[i]
  BY ShownItems, Zenon
<1>4. k <= Len(o) /\ k <= k
  <2> HIDE DEF o, k, b
  <2> QED BY <1>1, <1>3
<1> HIDE DEF o
<1>5. \A i \in 1 .. k : SameBytes(q[i], o[i])
  BY <1>2, <1>3 DEF SameBytes
<1> HIDE DEF q
<1>6. Within(n, m)
  BY <1>2, <1>4, <1>5, Zenon DEF Within, o, q, k
<1> HIDE DEF k
<1>7. Kept(n, m)
  BY <1>4, Zenon DEF Kept, k
<1> QED BY <1>6, <1>7

-----------------------------------------------------------------------------
(* The order of what was put out: its ids go up, and are at most N.        *)
Rising(m)    == \A i, j \in 1 .. Len(Issued(m)) :
                  i < j => Issued(m)[i].id < Issued(m)[j].id
UpTo(m, N)   == \A i \in 1 .. Len(Issued(m)) : Issued(m)[i].id <= N
Before(m, N) == \A i \in 1 .. Len(Issued(m)) : Issued(m)[i].id < N

LEMMA OrderWithin ==
  ASSUME NEW m \in OutType, NEW n \in OutType, Within(n, m), NEW N \in Nat
  PROVE  /\ Rising(m) => Rising(n)
         /\ UpTo(m, N) => UpTo(n, N)
         /\ Before(m, N) => Before(n, N)
<1> DEFINE o == Issued(m)
           q == Issued(n)
<1>1. Len(o) \in Nat /\ Len(q) \in Nat
  <2>1. \A a, b \in Nat : a + b \in Nat
    OBVIOUS
  <2> QED BY <2>1, ShownItems, Zenon
<1>2. Len(q) <= Len(o) /\ \A i \in 1 .. Len(q) : q[i].id = o[i].id
  BY DEF Within, SameBytes
<1> HIDE DEF o, q
<1>3. \A i \in 1 .. Len(q) : i \in 1 .. Len(o)
  BY <1>1, <1>2
<1>4. Rising(m) => Rising(n)
  BY <1>2, <1>3, Zenon DEF Rising, o, q
<1>5. UpTo(m, N) => UpTo(n, N)
  BY <1>2, <1>3, Zenon DEF UpTo, o, q
<1>6. Before(m, N) => Before(n, N)
  BY <1>2, <1>3, Zenon DEF Before, o, q
<1> QED BY <1>4, <1>5, <1>6

(* Every id is that of a system call.                                      *)
LEMMA IdsNat ==
  ASSUME NEW m \in OutType
  PROVE  \A i \in 1 .. Len(Issued(m)) : Issued(m)[i].id \in Nat
<1> DEFINE o == Issued(m)
           k == Len(m.screen)
           b == Len(m.outbuf)
           buf == m.outbuf
           shown == m.screen
<1>1. shown \in Seq(Shown) /\ buf \in Seq(Item) /\ k = Len(shown) /\ b = Len(buf)
  BY DEF OutType
<1>2. \A x \in Shown \cup Item : x.id \in Nat
  BY DEF Shown, Item
<1>3. /\ k \in Nat /\ b \in Nat /\ Len(o) = k + b
      /\ \A i \in 1 .. k : o[i] = shown[i]
      /\ \A i \in 1 .. b : o[k + i] = buf[i]
  BY ShownItems, Zenon
<1> HIDE DEF k, b, buf, shown, o
<1> SUFFICES ASSUME NEW i \in 1 .. Len(o) PROVE o[i].id \in Nat
  BY Zenon DEF o
<1>4. CASE i \in 1 .. k
  <2>1. shown[i] \in Shown
    BY <1>1, <1>4
  <2> QED BY <1>2, <1>3, <1>4, <2>1
<1>5. CASE i \notin 1 .. k
  <2> DEFINE j == i - k
  <2>1. j \in 1 .. b /\ i = k + j
    BY <1>3, <1>5
  <2> HIDE DEF j
  <2>2. buf[j] \in Item
    BY <1>1, <2>1
  <2> QED BY <1>2, <1>3, <2>1, <2>2
<1> QED BY <1>4, <1>5

LEMMA OrderOneMore ==
  ASSUME NEW m \in OutType, NEW n \in OutType, NEW item \in Item, OneMore(n, m, item),
         Rising(m), Before(m, item.id)
  PROVE  Rising(n) /\ UpTo(n, item.id)
<1> DEFINE o == Issued(m)
           q == Issued(n)
           L == Len(o)
<1>1. L \in Nat
  <2>1. \A a, b \in Nat : a + b \in Nat
    OBVIOUS
  <2> QED BY <2>1, ShownItems, Zenon
<1>2. item.id \in Nat
  BY DEF Item
<1>3. \A i \in 1 .. L : o[i].id \in Nat
  BY IdsNat, Zenon
<1>4. /\ Len(q) = L + 1 /\ q[L + 1].id = item.id
      /\ \A i \in 1 .. L : q[i].id = o[i].id
  BY DEF OneMore, SameBytes
<1>5. \A i, j \in 1 .. L : i < j => o[i].id < o[j].id
  BY Zenon DEF Rising
<1>6. \A i \in 1 .. L : o[i].id < item.id
  BY Zenon DEF Before
<1> HIDE DEF o, q, L
<1>7. \A i, j \in 1 .. L + 1 : i < j => q[i].id < q[j].id
  <2> SUFFICES ASSUME NEW i \in 1 .. L + 1, NEW j \in 1 .. L + 1, i < j
               PROVE  q[i].id < q[j].id
    OBVIOUS
  <2>1. i \in 1 .. L
    BY <1>1
  <2>2. CASE j \in 1 .. L
    BY <1>4, <1>5, <2>1, <2>2
  <2>3. CASE j = L + 1
    BY <1>4, <1>6, <2>1, <2>3
  <2> QED BY <1>1, <2>2, <2>3
<1>8. \A i \in 1 .. L + 1 : q[i].id <= item.id
  <2> SUFFICES ASSUME NEW i \in 1 .. L + 1 PROVE q[i].id <= item.id
    OBVIOUS
  <2>1. CASE i \in 1 .. L
    <3>1. q[i].id < item.id /\ q[i].id \in Nat
      BY <1>3, <1>4, <1>6, <2>1
    <3> QED BY <1>2, <3>1
  <2>2. CASE i = L + 1
    BY <1>2, <1>4, <2>2
  <2> QED BY <1>1, <2>1, <2>2
<1>9. Rising(n)
  BY <1>4, <1>7, Zenon DEF Rising, q
<1>10. UpTo(n, item.id)
  BY <1>4, <1>8, Zenon DEF UpTo, q
<1> QED BY <1>9, <1>10

LEMMA IssuedLength ==
  ASSUME NEW m \in OutType
  PROVE  Len(Issued(m)) \in Nat
<1>1. Len(m.screen) \in Nat /\ Len(m.outbuf) \in Nat
  BY DEF OutType
<1>2. Len(Issued(m)) = Len(m.screen) + Len(m.outbuf)
  BY ShownItems, Zenon
<1>3. \A a, b \in Nat : a + b \in Nat
  OBVIOUS
<1> QED BY <1>1, <1>2, <1>3, Zenon

LEMMA WithinTwice ==
  ASSUME NEW m \in OutType, NEW n \in OutType, NEW p \in OutType, Within(n, m), Within(p, n)
  PROVE  Within(p, m)
<1> DEFINE o == Issued(m)
           q == Issued(n)
           r == Issued(p)
<1>1. Len(o) \in Nat /\ Len(q) \in Nat /\ Len(r) \in Nat
  BY IssuedLength, Zenon
<1>2. /\ Len(q) <= Len(o) /\ \A i \in 1 .. Len(q) : SameBytes(q[i], o[i])
      /\ Len(r) <= Len(q) /\ \A i \in 1 .. Len(r) : SameBytes(r[i], q[i])
  BY DEF Within
<1> HIDE DEF o, q, r
<1>3. Len(r) <= Len(o) /\ \A i \in 1 .. Len(r) : i \in 1 .. Len(q)
  BY <1>1, <1>2
<1>4. \A i \in 1 .. Len(r) : SameBytes(r[i], o[i])
  BY <1>2, <1>3, Zenon DEF SameBytes
<1> QED BY <1>3, <1>4, Zenon DEF Within, o, r

LEMMA KeptTwice ==
  ASSUME NEW m \in OutType, NEW n \in OutType, NEW p \in OutType, Kept(n, m), Kept(p, n)
  PROVE  Kept(p, m)
<1> DEFINE o == m.screen
           q == n.screen
           r == p.screen
<1>1. o \in Seq(Shown) /\ q \in Seq(Shown) /\ r \in Seq(Shown)
  BY DEF OutType
<1>2. /\ Len(o) <= Len(q) /\ \A i \in 1 .. Len(o) : q[i] = o[i]
      /\ Len(q) <= Len(r) /\ \A i \in 1 .. Len(q) : r[i] = q[i]
  BY DEF Kept
<1> HIDE DEF o, q, r
<1>3. Len(o) <= Len(r) /\ \A i \in 1 .. Len(o) : i \in 1 .. Len(q)
  BY <1>1, <1>2
<1>4. \A i \in 1 .. Len(o) : r[i] = o[i]
  BY <1>2, <1>3, Zenon
<1> QED BY <1>3, <1>4, Zenon DEF Kept, o, r

LEMMA OneMoreWithin ==
  ASSUME NEW m \in OutType, NEW n \in OutType, NEW item, OneMore(n, m, item)
  PROVE  Within(m, n)
<1> DEFINE o == Issued(m)
           q == Issued(n)
<1>1. Len(o) \in Nat
  <2>1. \A a, b \in Nat : a + b \in Nat
    OBVIOUS
  <2> QED BY <2>1, ShownItems, Zenon
<1>2. Len(q) = Len(o) + 1 /\ \A i \in 1 .. Len(o) : SameBytes(q[i], o[i])
  BY DEF OneMore
<1> HIDE DEF o, q
<1>3. Len(o) <= Len(q)
  BY <1>1, <1>2
<1>4. \A i \in 1 .. Len(o) : SameBytes(o[i], q[i])
  BY <1>2 DEF SameBytes
<1> QED BY <1>3, <1>4, Zenon DEF Within, o, q

(* What is on the screen has been put out.                                 *)
LEMMA ScreenIssued ==
  ASSUME NEW m \in OutType
  PROVE  \A i \in 1 .. Len(m.screen) : i \in 1 .. Len(Issued(m)) /\ Issued(m)[i] = m.screen[i]
<1> DEFINE k == Len(m.screen)
           b == Len(m.outbuf)
           o == Issued(m)
<1>1. /\ k \in Nat /\ b \in Nat /\ Len(o) = k + b
      /\ \A i \in 1 .. k : o[i] = m.screen[i]
  BY ShownItems, Zenon
<1> HIDE DEF k, b, o
<1>2. \A i \in 1 .. k : i \in 1 .. Len(o)
  BY <1>1
<1> QED BY <1>1, <1>2, Zenon DEF k, o

-----------------------------------------------------------------------------
(* The screen as it will be after the next flush: the log of MarkedLog.    *)
LEMMA LogItems ==
  ASSUME NEW m \in OutType
  PROVE  /\ Flush(m).screen \in Seq(Shown) /\ Len(Flush(m).screen) = Len(Issued(m))
         /\ \A i \in 1 .. Len(Issued(m)) : SameBytes(Flush(m).screen[i], Issued(m)[i])
<1> DEFINE n == Flush(m)
<1>1. n \in OutType /\ Moved(n, m) /\ n.outbuf = << >>
  BY FlushType DEF Moved
<1>2. Within(n, m) /\ Within(m, n)
  BY <1>1, MovedFacts
<1> HIDE DEF n
<1> DEFINE o == Issued(m)
           q == Issued(n)
           w == n.screen
<1>3. Len(n.outbuf) = 0 /\ w \in Seq(Shown)
  BY <1>1 DEF OutType
<1>4. Len(q) = Len(w) + 0 /\ Len(w) \in Nat /\ \A i \in 1 .. Len(w) : q[i] = w[i]
  BY <1>1, <1>3, ShownItems, Zenon
<1>5. /\ Len(q) <= Len(o) /\ Len(o) <= Len(q)
      /\ \A i \in 1 .. Len(q) : SameBytes(q[i], o[i])
  BY <1>2, Zenon DEF Within
<1>6. Len(o) \in Nat
  <2>1. \A a, b \in Nat : a + b \in Nat
    OBVIOUS
  <2> QED BY <2>1, ShownItems, Zenon
<1> HIDE DEF o, q, w
<1>7. Len(w) = Len(o) /\ \A i \in 1 .. Len(o) : SameBytes(w[i], o[i])
  BY <1>4, <1>5, <1>6 DEF SameBytes
<1> QED BY <1>3, <1>7, Zenon DEF n, o, w

(* An item put out by errmark is the next entry of the log.                *)
LEMMA LogAppend ==
  ASSUME NEW m \in OutType, NEW item \in Item
  PROVE  /\ Flush(Fwrite(m, item)).screen = Append(Flush(m).screen, Lit(item, m.lit))
         /\ Flush(Flush(Fwrite(m, item))).screen = Flush(Fwrite(m, item)).screen
<1> DEFINE n == Fwrite(m, item)
<1>1. /\ n \in OutType /\ n.screen = m.screen /\ n.lit = m.lit
      /\ n.outbuf = Append(m.outbuf, item)
  BY FwriteType DEF Fwrite, OutType
<1>2. m.outbuf \in Seq(Item) /\ m.screen \in Seq(Shown)
  BY DEF OutType
<1> HIDE DEF n
<1>3. Flush(n) \in OutType /\ Flush(n).outbuf = << >> /\ Flush(m) \in OutType
  BY <1>1, FlushType
<1>4. Flush(Flush(n)).screen = Flush(n).screen
  BY <1>3, FlushEmpty
<1> DEFINE k == Len(m.screen)
           b == Len(m.outbuf)
           u == Flush(m).screen
           w == Flush(n).screen
           new == Lit(item, m.lit)
           buf == m.outbuf
           more == n.outbuf
           v == Append(u, new)
<1>5. u \in Seq(Shown) /\ w \in Seq(Shown)
  BY <1>3 DEF OutType
<1>6. new \in Shown
  BY DEF OutType, Lit, Item, Shown
<1>7. /\ k \in Nat /\ b \in Nat /\ Len(u) = k + b
      /\ \A i \in 1 .. k : u[i] = m.screen[i]
      /\ \A i \in 1 .. b : u[k + i] = Lit(buf[i], m.lit)
  BY ShownItems, Zenon
<1>8. /\ Len(more) = b + 1
      /\ \A i \in 1 .. b : more[i] = buf[i]
      /\ more[b + 1] = item
  BY <1>1, <1>2
<1>9. /\ Len(w) = k + Len(more)
      /\ \A i \in 1 .. k : w[i] = m.screen[i]
      /\ \A i \in 1 .. Len(more) : w[k + i] = Lit(more[i], m.lit)
  <2> DEFINE p == Flush(n).screen
  <2>1. /\ Len(p) = Len(n.screen) + Len(n.outbuf)
        /\ \A i \in 1 .. Len(n.screen) : p[i] = n.screen[i]
        /\ \A i \in 1 .. Len(n.outbuf) : p[Len(n.screen) + i] = Lit(n.outbuf[i], n.lit)
    BY <1>1, ShownItems, Zenon
  <2>2. n.screen = m.screen /\ n.lit = m.lit
    BY <1>1
  <2> HIDE DEF p
  <2>3. /\ Len(p) = Len(m.screen) + Len(n.outbuf)
        /\ \A i \in 1 .. Len(m.screen) : p[i] = m.screen[i]
        /\ \A i \in 1 .. Len(n.outbuf) : p[Len(m.screen) + i] = Lit(n.outbuf[i], m.lit)
    BY <2>1, <2>2, Zenon
  <2> QED BY <2>3, Zenon DEF p
<1>10. new = Lit(item, m.lit)
  OBVIOUS
<1> HIDE DEF k, b, u, w, new, buf, more
<1>11. /\ v \in Seq(Shown) /\ Len(v) = Len(u) + 1 /\ v[Len(u) + 1] = new
       /\ \A i \in 1 .. Len(u) : v[i] = u[i]
  BY <1>5, <1>6
<1> HIDE DEF v
<1>12. Len(w) = Len(v)
  BY <1>7, <1>8, <1>9, <1>11
<1>13. ASSUME NEW i \in 1 .. Len(w) PROVE w[i] = v[i]
  <2>1. CASE i \in 1 .. k
    BY <1>7, <1>9, <1>11, <2>1
  <2>2. CASE i \in k + 1 .. k + b
    <3> DEFINE j == i - k
    <3>1. j \in 1 .. b /\ j \in 1 .. Len(more) /\ i = k + j /\ i \in 1 .. Len(u)
      BY <1>7, <1>8, <2>2
    <3> HIDE DEF j
    <3> QED BY <1>7, <1>8, <1>9, <1>11, <3>1
  <2>3. CASE i = k + (b + 1)
    <3>1. b + 1 \in 1 .. Len(more) /\ i = Len(u) + 1
      BY <1>7, <1>8, <2>3
    <3> QED BY <1>8, <1>9, <1>10, <1>11, <2>3, <3>1
  <2> QED BY <1>7, <1>8, <1>9, <2>1, <2>2, <2>3
<1>14. w = v
  BY <1>5, <1>11, <1>12, <1>13, SeqEqual
<1> QED BY <1>4, <1>14, Zenon DEF w, v, u, new, n
=============================================================================
