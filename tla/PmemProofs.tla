------------------------------ MODULE PmemProofs ------------------------------
(***************************************************************************)
(* pmem_copy and pmem_fwrite, for every word and page size, every range,   *)
(* every set of mapped pages and every time the program may be killed:     *)
(* the bytes that arrive, the return value, and that the tracing loop's    *)
(* one-step copy has no outcome too few.                                   *)
(***************************************************************************)
EXTENDS PmemTransferProps, SequenceTheorems, TLAPS

USE DEF vars, args

-----------------------------------------------------------------------------
(* Words and pages.                                                        *)

(* Quotient and remainder, and that there is only one of each.             *)
LEMMA Division ==
  ASSUME NEW a \in Nat, NEW w \in Nat \ {0}
  PROVE  /\ a % w \in 0 .. w - 1 /\ a \div w \in Nat
         /\ a = w * (a \div w) + (a % w)
  OBVIOUS

LEMMA NoMultiple ==
  ASSUME NEW w \in Nat \ {0}, NEW d \in Int, NEW r \in Int, w * d = r, -w < r, r < w
  PROVE  d = 0
<1>1. ~(d >= 1)
  OBVIOUS
<1>2. ~(d <= -1)
  OBVIOUS
<1> QED BY <1>1, <1>2

LEMMA DivisionUnique ==
  ASSUME NEW a \in Nat, NEW w \in Nat \ {0}, NEW q \in Nat, NEW r \in 0 .. w - 1,
         a = w * q + r
  PROVE  a % w = r /\ a \div w = q
<1> DEFINE q0 == a \div w
           r0 == a % w
<1>1. q0 \in Nat /\ r0 \in 0 .. w - 1 /\ a = w * q0 + r0
  BY Division
<1> HIDE DEF q0, r0
<1>2. w * (q0 - q) = r - r0
  BY <1>1
<1>3. q0 - q = 0
  BY <1>1, <1>2, NoMultiple
<1> QED BY <1>1, <1>3 DEF q0, r0

(* The next aligned address after a, and none in between.                  *)
LEMMA NextAligned ==
  ASSUME NEW a \in Nat, NEW w \in Nat \ {0}
  PROVE  /\ (a + (w - (a % w))) % w = 0
         /\ \A b \in Nat : a < b /\ b < a + (w - (a % w)) => b % w # 0
<1> DEFINE q == a \div w
           r == a % w
<1>1. q \in Nat /\ r \in 0 .. w - 1 /\ a = w * q + r
  BY Division
<1> HIDE DEF q, r
<1>2. (a + (w - r)) % w = 0
  <2>1. a + (w - r) = w * (q + 1) + 0 /\ q + 1 \in Nat /\ a + (w - r) \in Nat /\ 0 \in 0 .. w - 1
    BY <1>1
  <2> QED BY <2>1, DivisionUnique
<1>3. ASSUME NEW b \in Nat, a < b, b < a + (w - r) PROVE b % w # 0
  <2> DEFINE s == r + (b - a)
  <2>1. s \in 0 .. w - 1 /\ s # 0 /\ b = w * q + s
    BY <1>1, <1>3
  <2> HIDE DEF s
  <2>2. b % w = s
    BY <1>1, <2>1, DivisionUnique
  <2> QED BY <2>1, <2>2
<1> QED BY <1>2, <1>3 DEF r

(* An aligned word does not reach into the next page.                      *)
LEMMA SamePage ==
  ASSUME NEW a \in Nat, NEW w \in Nat \ {0}, NEW p \in Nat \ {0}, p % w = 0, a % w = 0,
         NEW b \in a .. a + w - 1
  PROVE  b \div p = a \div p
<1> DEFINE k == a \div w
           j == p \div w
           q == a \div p
           r == a % p
<1>1. /\ k \in Nat /\ a = w * k + 0 /\ j \in Nat /\ p = w * j + 0
      /\ q \in Nat /\ r \in 0 .. p - 1 /\ a = p * q + r
  BY Division
<1> HIDE DEF k, j, q, r
<1> DEFINE m == k - j * q
<1>2. m \in Int /\ r = w * m
  <2>1. j * q \in Nat
    BY <1>1
  <2>2. p * q = w * (j * q)
    BY <1>1
  <2>3. w * (k - j * q) = w * k - w * (j * q)
    BY <1>1, <2>1
  <2> QED BY <1>1, <2>1, <2>2, <2>3
<1> HIDE DEF m
<1>3. m <= j - 1
  <2>1. w * (j - m) = p - r /\ p - r > 0
    BY <1>1, <1>2
  <2>2. ~(j - m <= 0)
    BY <1>1, <1>2, <2>1
  <2> QED BY <1>1, <1>2, <2>2
<1>4. r <= p - w
  <2>1. w * (j - 1 - m) >= 0
    BY <1>1, <1>2, <1>3
  <2>2. w * (j - 1 - m) = p - w - r
    BY <1>1, <1>2
  <2> QED BY <1>1, <2>1, <2>2
<1> DEFINE s == r + (b - a)
<1>5. s \in 0 .. p - 1 /\ b = p * q + s /\ b \in Nat
  BY <1>1, <1>4
<1> HIDE DEF s
<1>6. b \div p = q
  BY <1>1, <1>5, DivisionUnique
<1> QED BY <1>6 DEF q

-----------------------------------------------------------------------------
(* The inductive invariant.                                                *)

(* The words asked for so far could be read, one at an unaligned start     *)
(* also when no byte of it was needed.                                     *)
ReadSoFar ==
  \A a \in AskedFor : (a < start + bytes_read \/ (start % Word # 0 /\ a = start)) => WordOk(a)

(* The function is where its variables say, past the head at an aligned    *)
(* address or at the end of the range, and past the words within one.      *)
Going ==
  pc # "done" =>
    /\ raddr = start + bytes_read /\ len = size - bytes_read /\ ~flushed
    /\ pc = "head" => bytes_read = 0
    /\ pc # "head" => ReadSoFar /\ (len = 0 \/ raddr % Word = 0)
    /\ pc = "tail" => len < Word

(* It came to the end of the range ...                                     *)
AllRead ==
  /\ ret = size /\ bytes_read = size /\ (flushed <=> func = "fwrite")
  /\ \A a \in AskedFor : WordOk(a)

(* ... or it broke off at a word of the range that it could not read.      *)
BrokenOff ==
  /\ ret = bytes_read \/ (ret = -1 /\ (alive => bytes_read = 0))
  /\ ~flushed
  /\ raddr = start + bytes_read /\ raddr \in AskedFor
  /\ size # 0 => bytes_read < size
  /\ alive => ~WordOk(raddr)
  /\ bytes_read # 0 => WordOk(start)

PmemInv ==
  /\ TypeOK
  /\ Len(got) = bytes_read /\ CopiedInOrder
  /\ Going
  /\ pc = "done" => AllRead \/ BrokenOff

-----------------------------------------------------------------------------
(* The bytes from a on.                                                    *)
BytesFrom(a, s)     == s \in Seq(Nat) /\ \A i \in 1 .. Len(s) : s[i] = a + i - 1
AddressRange(b, sz) == [i \in 1 .. sz |-> b + i - 1]

LEMMA MoreBytes ==
  ASSUME NEW a \in Nat, NEW s, BytesFrom(a, s), NEW sz \in Nat
  PROVE  /\ BytesFrom(a, s \o AddressRange(a + Len(s), sz))
         /\ Len(s \o AddressRange(a + Len(s), sz)) = Len(s) + sz
<1> DEFINE L    == Len(s)
           b    == a + L
           more == AddressRange(b, sz)
           t    == s \o more
<1>1. L \in Nat /\ s \in Seq(Nat) /\ \A i \in 1 .. L : s[i] = a + i - 1
  BY DEF BytesFrom
<1>2. more \in Seq(Nat) /\ Len(more) = sz /\ \A i \in 1 .. sz : more[i] = b + i - 1
  BY DEF AddressRange
<1> HIDE DEF more
<1>3. /\ t \in Seq(Nat) /\ Len(t) = L + sz
      /\ \A i \in 1 .. L + sz : t[i] = IF i <= L THEN s[i] ELSE more[i - L]
  BY <1>1, <1>2, ConcatProperties
<1> HIDE DEF L, t
<1>4. ASSUME NEW i \in 1 .. L + sz PROVE t[i] = a + i - 1
  <2>1. CASE i <= L
    <3>1. i \in 1 .. L
      BY <1>1, <2>1
    <3>2. t[i] = s[i]
      BY <1>3, <2>1
    <3>3. s[i] = a + i - 1
      BY <1>1, <3>1
    <3> QED BY <3>2, <3>3
  <2>2. CASE ~(i <= L)
    <3>1. i - L \in 1 .. sz
      BY <1>1, <2>2
    <3>2. t[i] = b + (i - L) - 1
      BY <1>2, <1>3, <2>2, <3>1
    <3> QED BY <1>1, <3>2 DEF L
  <2> QED BY <2>1, <2>2
<1>5. BytesFrom(a, t) /\ Len(t) = L + sz
  BY <1>3, <1>4 DEF BytesFrom
<1> QED BY <1>5 DEF t, more, b, L

LEMMA TypeFacts ==
  ASSUME TypeOK
  PROVE  /\ Word \in Nat \ {0} /\ PageSize \in Nat \ {0} /\ PageSize % Word = 0
         /\ start \in Nat /\ size \in Nat /\ raddr \in Nat /\ len \in Nat /\ bytes_read \in Nat
         /\ got \in Seq(Nat) /\ phase \in 0 .. Word - 1 /\ raddr % Word = phase
  BY SizesAssumption, Division DEF TypeOK, phase

(* A step that takes sz bytes leaves those in order.                       *)
LEMMA TakeBytes ==
  ASSUME TypeOK, Len(got) = bytes_read, CopiedInOrder, raddr = start + bytes_read,
         NEW sz \in Nat, bytes_read + sz <= size, UNCHANGED args,
         got' = got \o [i \in 1 .. sz |-> raddr + i - 1], bytes_read' = bytes_read + sz
  PROVE  got' \in Seq(Nat) /\ Len(got') = bytes_read' /\ CopiedInOrder' /\ bytes_read' \in Nat
<1>1. /\ got \in Seq(Nat) /\ start \in Nat /\ raddr \in Nat /\ bytes_read \in Nat /\ size \in Nat
      /\ raddr = start + Len(got) /\ BytesFrom(start, got)
  BY TypeFacts DEF CopiedInOrder, BytesFrom
<1>2. got' = got \o AddressRange(raddr, sz)
  BY DEF AddressRange
<1>3. BytesFrom(start, got') /\ Len(got') = Len(got) + sz
  <2>1. /\ BytesFrom(start, got \o AddressRange(start + Len(got), sz))
        /\ Len(got \o AddressRange(start + Len(got), sz)) = Len(got) + sz
    <3>1. \A a \in Nat : \A s : BytesFrom(a, s) => \A n \in Nat :
            /\ BytesFrom(a, s \o AddressRange(a + Len(s), n))
            /\ Len(s \o AddressRange(a + Len(s), n)) = Len(s) + n
      BY MoreBytes, Zenon
    <3>2. start \in Nat /\ BytesFrom(start, got) /\ sz \in Nat
      BY <1>1
    <3> QED BY <3>1, <3>2, Zenon
  <2> QED BY <1>1, <1>2, <2>1, Zenon
<1>4. Len(got') = bytes_read + sz /\ bytes_read + sz \in Nat /\ start' = start /\ size' = size
  BY <1>1, <1>3
<1> QED BY <1>1, <1>3, <1>4 DEF CopiedInOrder, BytesFrom

(* The range and the memory stay what they are.                            *)
LEMMA SameRange ==
  ASSUME UNCHANGED args
  PROVE  AskedFor' = AskedFor /\ \A a : WordOk(a)' <=> WordOk(a)
  BY DEF AskedFor, WordOk, Readable

LEMMA HeadStep ==
  ASSUME PmemInv, UnalignedHead
  PROVE  PmemInv'
<1>1. /\ TypeOK /\ pc = "head" /\ bytes_read = 0 /\ raddr = start /\ len = size /\ ~flushed
      /\ Len(got) = bytes_read /\ CopiedInOrder /\ UNCHANGED <<args, alive>>
  BY TypeFacts DEF PmemInv, Going, UnalignedHead
<1>2. /\ Word \in Nat \ {0} /\ start \in Nat /\ size \in Nat /\ got \in Seq(Nat)
      /\ phase \in 0 .. Word - 1 /\ start % Word = phase
  BY <1>1, TypeFacts
<1>3. CASE phase = 0 /\ pc' = "body" /\ UNCHANGED <<raddr, len, bytes_read, got, flushed, ret>>
  <2>1. TypeOK' /\ Len(got') = bytes_read' /\ CopiedInOrder'
    BY <1>1, <1>3 DEF TypeOK, CopiedInOrder, Pages
  <2>2. ReadSoFar'
    <3>1. \A a \in AskedFor : ~(a < start) /\ ~(start % Word # 0 /\ a = start)
      BY <1>2, <1>3 DEF AskedFor
    <3> QED BY <1>1, <1>2, <1>3, <3>1, SameRange DEF ReadSoFar
  <2> QED BY <1>1, <1>2, <1>3, <2>1, <2>2 DEF PmemInv, Going
<1>4. CASE phase # 0 /\ PeekOk(raddr) /\ Take(HeadSize) /\ pc' = "body" /\ UNCHANGED ret
  <2> DEFINE sz == HeadSize
  <2>1. /\ sz \in Nat /\ sz <= size /\ sz <= Word - phase
        /\ sz = Word - phase \/ sz = size
    BY <1>1, <1>2 DEF HeadSize
  <2>2. /\ got' = got \o [i \in 1 .. sz |-> raddr + i - 1] /\ raddr' = raddr + sz
        /\ len' = len - sz /\ bytes_read' = bytes_read + sz /\ flushed' = flushed
    BY <1>4 DEF Take
  <2> HIDE DEF sz
  <2>3. got' \in Seq(Nat) /\ Len(got') = bytes_read' /\ CopiedInOrder' /\ bytes_read' \in Nat
    BY <1>1, <1>2, <2>1, <2>2, TakeBytes
  <2>4. TypeOK'
    BY <1>1, <1>2, <1>4, <2>1, <2>2, <2>3 DEF TypeOK, Pages
  <2>5. len' = 0 \/ raddr' % Word = 0
    <3>1. CASE sz = size
      BY <1>1, <1>2, <2>2, <3>1
    <3>2. CASE sz = Word - phase
      <4>1. raddr' = start + (Word - (start % Word))
        BY <1>1, <1>2, <2>2, <3>2
      <4> QED BY <1>2, <4>1, NextAligned
    <3> QED BY <2>1, <3>1, <3>2
  <2>6. ReadSoFar'
    <3>1. ASSUME NEW a \in AskedFor, a < start + sz \/ a = start PROVE a = start
      <4>1. SUFFICES ASSUME a # start PROVE FALSE
        OBVIOUS
      <4>2. a \in Nat /\ start < a /\ a % Word = 0 /\ a < start + (Word - (start % Word))
        BY <1>2, <2>1, <3>1, <4>1 DEF AskedFor
      <4> QED BY <1>2, <4>2, NextAligned
    <3>2. WordOk(start)
      BY <1>1, <1>4 DEF PeekOk, WordOk
    <3>3. start' = start /\ start' + bytes_read' = start + sz
      BY <1>1, <1>2, <2>1, <2>2
    <3> QED BY <1>1, <3>1, <3>2, <3>3, SameRange DEF ReadSoFar
  <2>7. raddr' = start' + bytes_read' /\ len' = size' - bytes_read' /\ ~flushed'
    BY <1>1, <1>2, <2>1, <2>2
  <2> QED BY <1>4, <2>3, <2>4, <2>5, <2>6, <2>7, <1>1 DEF PmemInv, Going
<1>5. CASE phase # 0 /\ ~PeekOk(raddr) /\ PeekError
  <2>1. /\ pc' = "done" /\ ret' = -1
        /\ UNCHANGED <<raddr, len, bytes_read, got, flushed>>
    BY <1>1, <1>5 DEF PeekError, Return
  <2>2. TypeOK' /\ Len(got') = bytes_read' /\ CopiedInOrder'
    BY <1>1, <2>1 DEF TypeOK, CopiedInOrder, Pages
  <2>3. raddr \in AskedFor /\ (alive => ~WordOk(raddr))
    BY <1>1, <1>2, <1>5 DEF AskedFor, PeekOk, WordOk
  <2>4. BrokenOff'
    BY <1>1, <1>2, <2>1, <2>3, SameRange DEF BrokenOff
  <2> QED BY <2>1, <2>2, <2>4 DEF PmemInv, Going
<1> QED BY <1>3, <1>4, <1>5 DEF UnalignedHead

(* Of the addresses in an aligned word, the word itself is asked for.      *)
LEMMA OneWord ==
  ASSUME TypeOK, raddr % Word = 0, ReadSoFar, raddr = start + bytes_read, WordOk(raddr),
         NEW a \in AskedFor, a < raddr + Word
  PROVE  WordOk(a)
<1>1. Word \in Nat \ {0} /\ start \in Nat /\ size \in Nat /\ raddr \in Nat /\ a \in Nat
  <2>1. Word \in Nat \ {0} /\ start \in Nat /\ size \in Nat /\ raddr \in Nat
    BY TypeFacts
  <2>2. a \in Nat
    BY <2>1 DEF AskedFor
  <2> QED BY <2>1, <2>2
<1>2. CASE a < raddr
  BY <1>2 DEF ReadSoFar
<1>3. CASE start % Word # 0 /\ a = start
  BY <1>3 DEF ReadSoFar
<1>4. CASE ~(a < raddr) /\ ~(start % Word # 0 /\ a = start)
  <2>1. a % Word = 0
    BY <1>4 DEF AskedFor
  <2>2. ~(raddr < a)
    <3>1. raddr + (Word - (raddr % Word)) = raddr + Word
      BY <1>1
    <3> QED BY <1>1, <2>1, <3>1, NextAligned
  <2> QED BY <1>1, <1>4, <2>2
<1> QED BY <1>2, <1>3, <1>4

(* What a word that cannot be read leaves.                                 *)
LEMMA ErrorStep ==
  ASSUME PmemInv, pc \in {"body", "tail"}, len > 0, ~PeekOk(raddr), PeekError,
         UNCHANGED <<args, alive>>
  PROVE  PmemInv'
<1>1. /\ TypeOK /\ raddr = start + bytes_read /\ len = size - bytes_read /\ ~flushed
      /\ Len(got) = bytes_read /\ CopiedInOrder /\ ReadSoFar /\ raddr % Word = 0
  BY TypeFacts DEF PmemInv, Going
<1>2. /\ Word \in Nat \ {0} /\ start \in Nat /\ size \in Nat /\ bytes_read \in Nat
      /\ raddr \in Nat /\ len \in Nat
  BY <1>1, TypeFacts
<1>3. /\ pc' = "done" /\ ret' = (IF bytes_read # 0 /\ alive THEN bytes_read ELSE -1)
      /\ UNCHANGED <<raddr, len, bytes_read, got, flushed>>
  BY DEF PeekError, Return
<1>4. TypeOK' /\ Len(got') = bytes_read' /\ CopiedInOrder'
  BY <1>1, <1>2, <1>3 DEF TypeOK, CopiedInOrder, Pages
<1>5. raddr \in AskedFor /\ (alive => ~WordOk(raddr)) /\ bytes_read < size
  BY <1>1, <1>2 DEF AskedFor, PeekOk, WordOk
<1>6. bytes_read # 0 => WordOk(start)
  BY <1>1, <1>2, <1>5 DEF ReadSoFar, AskedFor
<1>7. ret' = bytes_read \/ (ret' = -1 /\ (alive => bytes_read = 0))
  BY <1>3
<1>8. BrokenOff'
  BY <1>1, <1>3, <1>5, <1>6, <1>7, SameRange DEF BrokenOff
<1> QED BY <1>3, <1>4, <1>8 DEF PmemInv, Going

LEMMA WordsStep ==
  ASSUME PmemInv, WholeWords
  PROVE  PmemInv'
<1>1. /\ TypeOK /\ pc = "body" /\ raddr = start + bytes_read /\ len = size - bytes_read
      /\ ~flushed /\ Len(got) = bytes_read /\ CopiedInOrder /\ UNCHANGED <<args, alive>>
      /\ ReadSoFar /\ (len = 0 \/ raddr % Word = 0)
  BY TypeFacts DEF PmemInv, Going, WholeWords
<1>2. /\ Word \in Nat \ {0} /\ start \in Nat /\ size \in Nat /\ bytes_read \in Nat
      /\ raddr \in Nat /\ len \in Nat
  BY <1>1, TypeFacts
<1>3. CASE len < Word /\ pc' = "tail" /\ UNCHANGED <<raddr, len, bytes_read, got, flushed, ret>>
  <2>1. TypeOK' /\ Len(got') = bytes_read' /\ CopiedInOrder'
    BY <1>1, <1>3 DEF TypeOK, CopiedInOrder, Pages
  <2>2. ReadSoFar'
    BY <1>1, <1>3, SameRange DEF ReadSoFar
  <2> QED BY <1>1, <1>3, <2>1, <2>2 DEF PmemInv, Going
<1>4. CASE len >= Word /\ PeekOk(raddr) /\ Take(Word) /\ UNCHANGED <<pc, ret>>
  <2>1. /\ got' = got \o [i \in 1 .. Word |-> raddr + i - 1] /\ raddr' = raddr + Word
        /\ len' = len - Word /\ bytes_read' = bytes_read + Word /\ flushed' = flushed
    BY <1>4 DEF Take
  <2>2. got' \in Seq(Nat) /\ Len(got') = bytes_read' /\ CopiedInOrder' /\ bytes_read' \in Nat
    BY <1>1, <1>2, <1>4, <2>1, TakeBytes
  <2>3. TypeOK'
    BY <1>1, <1>2, <1>4, <2>1, <2>2 DEF TypeOK, Pages
  <2>4. raddr % Word = 0 /\ WordOk(raddr)
    BY <1>1, <1>2, <1>4 DEF PeekOk, WordOk
  <2>5. raddr' % Word = 0
    <3>1. raddr' = raddr + (Word - (raddr % Word))
      <4>1. raddr % Word = 0 /\ raddr' = raddr + Word
        BY <2>1, <2>4
      <4> QED BY <1>2, <4>1
    <3> QED BY <1>2, <3>1, NextAligned
  <2>6. ReadSoFar'
    <3>1. ASSUME NEW a \in AskedFor, a < raddr + Word \/ (start % Word # 0 /\ a = start)
          PROVE  WordOk(a)
      BY <1>1, <2>4, <3>1, OneWord DEF ReadSoFar
    <3>2. start' = start /\ start' + bytes_read' = raddr + Word
      BY <1>1, <1>2, <2>1
    <3> QED BY <1>1, <3>1, <3>2, SameRange DEF ReadSoFar
  <2>7. raddr' = start' + bytes_read' /\ len' = size' - bytes_read' /\ ~flushed'
    BY <1>1, <1>2, <2>1
  <2> QED BY <1>1, <1>4, <2>2, <2>3, <2>5, <2>6, <2>7 DEF PmemInv, Going
<1>5. CASE len >= Word /\ ~PeekOk(raddr) /\ PeekError
  BY <1>1, <1>2, <1>5, ErrorStep
<1> QED BY <1>3, <1>4, <1>5 DEF WholeWords

LEMMA TailStep ==
  ASSUME PmemInv, RuntTail
  PROVE  PmemInv'
<1>1. /\ TypeOK /\ pc = "tail" /\ raddr = start + bytes_read /\ len = size - bytes_read
      /\ ~flushed /\ Len(got) = bytes_read /\ CopiedInOrder /\ UNCHANGED <<args, alive>>
      /\ ReadSoFar /\ (len = 0 \/ raddr % Word = 0) /\ len < Word
  BY TypeFacts DEF PmemInv, Going, RuntTail
<1>2. /\ Word \in Nat \ {0} /\ start \in Nat /\ size \in Nat /\ bytes_read \in Nat
      /\ raddr \in Nat /\ len \in Nat
  BY <1>1, TypeFacts
<1>3. CASE Complete(len) /\ (len > 0 => PeekOk(raddr))
  <2>1. /\ got' = got \o [i \in 1 .. len |-> raddr + i - 1]
        /\ bytes_read' = bytes_read + len /\ (flushed' <=> func = "fwrite")
        /\ pc' = "done" /\ ret' = bytes_read + len /\ UNCHANGED <<raddr, len>>
    BY <1>3 DEF Complete, Return, Flushes
  <2>2. got' \in Seq(Nat) /\ Len(got') = bytes_read' /\ CopiedInOrder' /\ bytes_read' \in Nat
    BY <1>1, <1>2, <2>1, TakeBytes
  <2>3. TypeOK'
    <3>1. flushed' \in BOOLEAN
      BY <1>3 DEF Complete, Flushes
    <3> QED BY <1>1, <1>2, <2>1, <2>2, <3>1 DEF TypeOK, Pages
  <2>4. ASSUME NEW a \in AskedFor PROVE WordOk(a)
    <3>1. a \in Nat /\ (a < start + size \/ (start % Word # 0 /\ a = start))
      BY <1>2 DEF AskedFor
    <3>2. CASE len = 0
      <4>1. bytes_read = size
        BY <1>1, <1>2, <3>2
      <4> QED BY <1>1, <3>1, <4>1 DEF ReadSoFar
    <3>3. CASE len > 0
      <4>1. WordOk(raddr) /\ raddr % Word = 0
        BY <1>1, <1>2, <1>3, <3>3 DEF PeekOk, WordOk
      <4>2. CASE a < start + size
        <5>1. a < raddr + Word
          BY <1>1, <1>2, <3>1, <4>2
        <5> QED BY <1>1, <4>1, <5>1, OneWord
      <4> QED BY <1>1, <3>1, <4>2 DEF ReadSoFar
    <3> QED BY <1>2, <3>2, <3>3
  <2>5. AllRead'
    <3>1. ret' = size' /\ bytes_read' = size' /\ (flushed' <=> func' = "fwrite")
      BY <1>1, <1>2, <2>1
    <3> QED BY <1>1, <2>4, <3>1, SameRange DEF AllRead
  <2> QED BY <2>1, <2>2, <2>3, <2>5 DEF PmemInv, Going
<1>4. CASE len > 0 /\ ~PeekOk(raddr) /\ PeekError
  BY <1>1, <1>4, ErrorStep
<1>5. (len = 0 /\ Complete(0)) => Complete(len)
  OBVIOUS
<1> QED BY <1>2, <1>3, <1>4, <1>5 DEF RuntTail, TailSize

LEMMA KillStep ==
  ASSUME PmemInv, Kill
  PROVE  PmemInv'
<1>1. /\ pc # "done" /\ alive' \in BOOLEAN
      /\ UNCHANGED <<pc, args, raddr, len, bytes_read, got, flushed, ret>>
  BY DEF Kill
<1>2. TypeOK' /\ CopiedInOrder'
  BY <1>1 DEF PmemInv, TypeOK, CopiedInOrder, Pages
<1>3. Going'
  BY <1>1, SameRange DEF PmemInv, Going, ReadSoFar
<1> QED BY <1>1, <1>2, <1>3 DEF PmemInv

LEMMA StutterStep ==
  ASSUME PmemInv, UNCHANGED vars
  PROVE  PmemInv'
<1>1. TypeOK' /\ CopiedInOrder'
  BY DEF PmemInv, TypeOK, CopiedInOrder, Pages
<1>2. Going' /\ (AllRead => AllRead') /\ (BrokenOff => BrokenOff')
  BY SameRange DEF PmemInv, Going, ReadSoFar, AllRead, BrokenOff
<1> QED BY <1>1, <1>2 DEF PmemInv

LEMMA InitPmem == Init => PmemInv
<1> SUFFICES ASSUME Init PROVE PmemInv
  OBVIOUS
<1>1. /\ pc = "head" /\ func \in {"copy", "fwrite"} /\ start \in Nat /\ size \in Nat
      /\ raddr = start /\ len = size /\ bytes_read = 0 /\ got = << >> /\ flushed = FALSE
      /\ ret = NotYet /\ mapped \subseteq Pages /\ alive = TRUE
  BY RangeAssumption DEF Init
<1>2. got \in Seq(Nat) /\ Len(got) = 0
  BY <1>1
<1>3. CopiedInOrder
  BY <1>1, <1>2 DEF CopiedInOrder
<1>4. flushed \in BOOLEAN /\ alive \in BOOLEAN
  BY <1>1, Zenon
<1>5. TypeOK
  BY <1>1, <1>2, <1>4 DEF TypeOK
<1> QED BY <1>1, <1>2, <1>3, <1>5 DEF PmemInv, Going

(* Where head, words and tail have got to, and with what.                  *)
THEOREM PmemInvariant == Spec => []PmemInv
<1>1. PmemInv /\ [Next]_vars => PmemInv'
  BY HeadStep, WordsStep, TailStep, KillStep, StutterStep DEF Next, Returned
<1> QED BY <1>1, InitPmem, PTL DEF Spec

(* The variables of both functions keep their types: no count and no       *)
(* length goes below 0, as a size_t that is too small would.               *)
THEOREM PmemTypeCorrect == Spec => []TypeOK
<1>1. PmemInv => TypeOK
  BY DEF PmemInv
<1> QED BY <1>1, PmemInvariant, PTL

(* The bytes of the range arrive in order, none twice and none left out    *)
(* (pmem-copy.c:29-91, pmem-fwrite.c:35-99).                               *)
THEOREM CopiedInOrderHolds == Spec => []CopiedInOrder
<1>1. PmemInv => CopiedInOrder
  BY DEF PmemInv
<1> QED BY <1>1, PmemInvariant, PTL

(* "number of bytes actually read successfully": -1 hides some only when   *)
(* the program was killed.                                                 *)
THEOREM ReturnCountsHolds == Spec => []ReturnCounts
<1>1. PmemInv => ReturnCounts
  <2> SUFFICES ASSUME PmemInv, pc = "done", ret # Len(got)
               PROVE  ret = -1 /\ (alive => got = << >>)
    BY DEF ReturnCounts
  <2>1. got \in Seq(Nat) /\ Len(got) = bytes_read
    BY DEF PmemInv, TypeOK
  <2>2. ret = -1 /\ (alive => bytes_read = 0)
    BY <2>1 DEF PmemInv, AllRead, BrokenOff
  <2>3. Len(got) = 0 => got = << >>
    BY <2>1
  <2> QED BY <2>1, <2>2, <2>3
<1> QED BY <1>1, PmemInvariant, PTL

-----------------------------------------------------------------------------
(* What the tracing loop makes of a call in one step.                      *)

(* When the whole range was read.                                          *)
LEMMA AllReadOutcome ==
  ASSUME PmemInv, pc = "done", AllRead
  PROVE  \E r \in CopyResults(Buffer, size, TRUE) :
           /\ r.bytes = IF got = << >> THEN "none" ELSE IF Len(got) = size THEN "all" ELSE "some"
           /\ func = "fwrite" => r.flushed = flushed
<1>1. /\ got \in Seq(Nat) /\ Len(got) = size /\ size \in Nat /\ Buffer = "good"
      /\ flushed \in BOOLEAN /\ (func = "fwrite" => flushed = TRUE)
  BY DEF PmemInv, TypeOK, AllRead, Buffer
<1>2. CASE size = 0
  <2>1. got = << >>
    BY <1>1, <1>2
  <2>2. [bytes |-> "none", flushed |-> TRUE] \in CopyResults(Buffer, size, TRUE)
    BY <1>2 DEF CopyResults
  <2> QED BY <1>1, <2>1, <2>2
<1>3. CASE size > 0
  <2>1. got # << >>
    BY <1>1, <1>3
  <2>2. [bytes |-> "all", flushed |-> TRUE] \in CopyResults(Buffer, size, TRUE)
    BY <1>1, <1>3 DEF CopyResults
  <2> QED BY <1>1, <2>1, <2>2
<1>4. size = 0 \/ size > 0
  BY <1>1
<1> QED BY <1>2, <1>3, <1>4, Zenon

(* When a word could not be read: the program is gone, or its memory has a *)
(* gap there.                                                              *)
LEMMA BrokenOffOutcome ==
  ASSUME PmemInv, pc = "done", BrokenOff
  PROVE  \E r \in CopyResults(Buffer, size, alive) :
           /\ r.bytes = IF got = << >> THEN "none" ELSE IF Len(got) = size THEN "all" ELSE "some"
           /\ func = "fwrite" => r.flushed = flushed
<1>1. /\ got \in Seq(Nat) /\ Len(got) = bytes_read /\ size \in Nat /\ bytes_read \in Nat
      /\ bytes_read <= size /\ flushed = FALSE /\ alive \in BOOLEAN
      /\ (size # 0 => bytes_read < size)
  BY DEF PmemInv, TypeOK, BrokenOff, CopiedInOrder
<1>2. ~(alive /\ Buffer = "good")
  <2>1. alive => \E a \in AskedFor : ~WordOk(a)
    BY DEF BrokenOff
  <2> QED BY <2>1 DEF Buffer
<1>3. bytes_read # 0 => Buffer # "null"
  BY DEF BrokenOff, Buffer
<1>4. CASE got = << >>
  <2>1. [bytes |-> "none", flushed |-> FALSE] \in CopyResults(Buffer, size, alive)
    BY <1>1, <1>2 DEF CopyResults
  <2> QED BY <1>1, <1>4, <2>1
<1>5. CASE got # << >>
  <2>1. bytes_read # 0 /\ Len(got) # size /\ size > 0
    BY <1>1, <1>5
  <2>2. [bytes |-> "some", flushed |-> FALSE] \in CopyResults(Buffer, size, alive)
    BY <1>1, <1>2, <1>3, <2>1 DEF CopyResults
  <2> QED BY <1>1, <1>5, <2>1, <2>2
<1> QED BY <1>4, <1>5

(* RunProgram makes the copy one step with the outcomes of CopyOutcomes:   *)
(* the functions have no other, however the words fall and whenever the    *)
(* program is killed.                                                      *)
THEOREM OutcomeKnownHolds == Spec => []OutcomeKnown
<1>1. PmemInv => OutcomeKnown
  <2> SUFFICES ASSUME PmemInv, pc = "done" PROVE OutcomeKnown
    BY DEF OutcomeKnown
  <2>1. AllRead \/ BrokenOff
    BY DEF PmemInv
  <2> QED BY <2>1, AllReadOutcome, BrokenOffOutcome DEF OutcomeKnown
<1> QED BY <1>1, PmemInvariant, PTL

(* Past an unaligned start every byte before the first one that cannot be  *)
(* read arrives (pmem-copy.c:57-60: what was read so far is returned).     *)
THEOREM LongestPrefixHolds == Spec => []LongestPrefix
<1>1. PmemInv => LongestPrefix
  <2> SUFFICES ASSUME PmemInv, pc = "done", alive, Len(got) < size,
                      got # << >> \/ start % Word = 0
               PROVE  ~Readable(start + Len(got))
    BY DEF LongestPrefix
  <2>1. /\ TypeOK /\ got \in Seq(Nat) /\ Len(got) = bytes_read /\ size \in Nat
        /\ Word \in Nat \ {0} /\ PageSize \in Nat \ {0} /\ PageSize % Word = 0
        /\ start \in Nat /\ raddr \in Nat
    BY TypeFacts DEF PmemInv, TypeOK
  <2>2. BrokenOff
    BY <2>1 DEF PmemInv, AllRead
  <2>3. raddr = start + Len(got) /\ raddr \in AskedFor /\ ~WordOk(raddr)
    BY <2>1, <2>2 DEF BrokenOff
  <2>4. raddr % Word = 0
    <3>1. Len(got) = 0 => got = << >>
      BY <2>1
    <3>2. raddr = start => start % Word = 0
      BY <2>1, <2>3, <3>1
    <3> QED BY <2>3, <3>2 DEF AskedFor
  <2>5. PICK b \in raddr .. raddr + Word - 1 : ~Readable(b)
    BY <2>3 DEF WordOk
  <2>6. b \div PageSize = raddr \div PageSize
    BY <2>1, <2>4, SamePage
  <2> QED BY <2>3, <2>5, <2>6 DEF Readable
<1> QED BY <1>1, PmemInvariant, PTL

(* How far the finding ReadableIsRead reaches: a range that can be read is *)
(* read and returned whole exactly when the word at an unaligned start can *)
(* be read too.                                                            *)
THEOREM ReadableIsReadWhen ==
  Spec => [](pc = "done" /\ alive /\ size > 0
               /\ (\A a \in start .. start + size - 1 : Readable(a))
             => (ret = size <=> start % Word = 0 \/ WordOk(start)))
<1>1. PmemInv => (pc = "done" /\ alive /\ size > 0
                    /\ (\A a \in start .. start + size - 1 : Readable(a))
                  => (ret = size <=> start % Word = 0 \/ WordOk(start)))
  <2> SUFFICES ASSUME PmemInv, pc = "done", alive, size > 0,
                      \A a \in start .. start + size - 1 : Readable(a)
               PROVE  ret = size <=> start % Word = 0 \/ WordOk(start)
    OBVIOUS
  <2>1. /\ Word \in Nat \ {0} /\ PageSize \in Nat \ {0} /\ PageSize % Word = 0
        /\ start \in Nat /\ size \in Nat /\ raddr \in Nat
    BY TypeFacts DEF PmemInv
  <2>2. CASE AllRead
    BY <2>2 DEF AllRead, AskedFor
  <2>3. CASE BrokenOff
    <3>1. ret # size
      <4>1. bytes_read \in Nat /\ bytes_read < size /\ (ret = bytes_read \/ ret = -1)
        BY <2>1, <2>3 DEF BrokenOff, PmemInv, TypeOK
      <4> QED BY <2>1, <4>1
    <3>2. raddr \in AskedFor /\ ~WordOk(raddr)
      BY <2>3 DEF BrokenOff
    <3>3. Readable(raddr)
      BY <2>1, <3>2 DEF AskedFor
    <3>4. raddr % Word # 0
      <4> SUFFICES ASSUME raddr % Word = 0 PROVE FALSE
        OBVIOUS
      <4>1. PICK b \in raddr .. raddr + Word - 1 : ~Readable(b)
        BY <3>2 DEF WordOk
      <4>2. b \div PageSize = raddr \div PageSize
        BY <2>1, <4>1, SamePage
      <4> QED BY <3>3, <4>1, <4>2 DEF Readable
    <3>5. raddr = start
      BY <3>2, <3>4 DEF AskedFor
    <3> QED BY <3>1, <3>2, <3>4, <3>5
  <2> QED BY <2>2, <2>3 DEF PmemInv
<1> QED BY <1>1, PmemInvariant, PTL
=============================================================================
