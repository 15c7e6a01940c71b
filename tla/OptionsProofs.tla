--------------------------- MODULE OptionsProofs ---------------------------
(***************************************************************************)
(* The command line, for every set of command lines and commands and every *)
(* error limit: what the options mean, which of them let the program run,  *)
(* and by what name it is known.                                           *)
(***************************************************************************)
EXTENDS OptionsProps, SequenceTheorems, FiniteSetTheorems, WellFoundedInduction, TLAPS

Opts == [opt : OptionNames, arg : Seq(STRING)]

-----------------------------------------------------------------------------
(* Pointers: NULL or one value.                                            *)
LEMMA Pointers ==
  /\ Cardinality(NULL) <= 1
  /\ \A x : Cardinality({x}) <= 1
  /\ \A x : {x} # NULL
<1>1. Cardinality(NULL) <= 1
  <2>1. Cardinality(NULL) = 0
    BY FS_EmptySet DEF NULL
  <2> QED BY <2>1
<1>2. \A x : Cardinality({x}) <= 1
  <2> SUFFICES ASSUME NEW x PROVE Cardinality({x}) <= 1
    OBVIOUS
  <2>1. Cardinality({x}) = 1
    BY FS_Singleton
  <2> QED BY <2>1
<1>3. \A x : {x} # NULL
  BY DEF NULL
<1> QED BY <1>1, <1>2, <1>3

(* Every set of naturals that is not empty has a first element: induction, *)
(* when the set is one of counterexamples.                                 *)
LEMMA FirstOf ==
  ASSUME NEW S, S \subseteq Nat, S # {}
  PROVE  \E x \in S : \A y \in S : x <= y
<1> DEFINE R == OpToRel(<, Nat)
<1>1. \A x, y \in Nat : y < x => <<y, x>> \in R
  BY DEF OpToRel
<1>2. IsWellFoundedOn(R, Nat)
  BY NatLessThanWellFounded
<1> HIDE DEF R
<1>3. PICK x \in S : \A y \in S : ~ (<<y, x>> \in R)
  BY <1>2, WFMin
<1>4. \A y \in S : x <= y
  <2> SUFFICES ASSUME NEW y \in S PROVE x <= y
    OBVIOUS
  <2>1. ~(y < x)
    BY <1>1, <1>3
  <2> QED BY <2>1
<1> QED BY <1>4

-----------------------------------------------------------------------------
LEMMA SubStrings ==
  ASSUME NEW s, NEW m \in Nat, NEW n \in Nat, \A i \in m .. n : s[i] \in STRING
  PROVE  /\ SubSeq(s, m, n) \in Seq(STRING)
         /\ Len(SubSeq(s, m, n)) = IF m <= n THEN n - m + 1 ELSE 0
         /\ \A i \in 1 .. n - m + 1 : SubSeq(s, m, n)[i] = s[m + i - 1]
<1>1. m \in Int /\ n \in Int
  OBVIOUS
<1> QED BY <1>1, SubSeqProperties

(* A mark specification is cut at the first separator of its body.         *)
LEMMA CutFacts ==
  ASSUME NEW spec \in Seq(STRING), Len(spec) > 1
  PROVE  /\ MarkBody(spec) \in Seq(STRING) /\ Len(MarkBody(spec)) = Len(spec) - 2
         /\ \A i \in 1 .. Len(spec) - 2 : MarkBody(spec)[i] = spec[i + 2]
         /\ Cut(spec) \in 1 .. Len(spec) - 1
         /\ \A i \in 1 .. Cut(spec) - 1 : spec[i + 2] # spec[2]
         /\ Cut(spec) <= Len(spec) - 2 => spec[Cut(spec) + 2] = spec[2]
<1> DEFINE b == MarkBody(spec)
<1>1. /\ b \in Seq(STRING) /\ Len(b) = Len(spec) - 2
      /\ \A i \in 1 .. Len(spec) - 2 : b[i] = spec[i + 2]
  <2>1. PICK n \in Nat : n = Len(spec)
    BY LenProperties
  <2>2. n = 2 \/ 3 <= n
    BY <2>1
  <2>3. \A i \in 3 .. n : spec[i] \in STRING
    BY <2>1, ElementOfSeq
  <2>4. b = SubSeq(spec, 3, n)
    BY <2>1 DEF MarkBody
  <2> HIDE DEF b
  <2>5. /\ b \in Seq(STRING) /\ Len(b) = IF 3 <= n THEN n - 3 + 1 ELSE 0
        /\ \A i \in 1 .. n - 3 + 1 : b[i] = spec[3 + i - 1]
    BY <2>1, <2>3, <2>4, SubStrings
  <2> QED BY <2>1, <2>2, <2>5
<1>2. /\ Seps(spec) \subseteq 1 .. Len(spec) - 2
      /\ \A i \in 1 .. Len(spec) - 2 : i \in Seps(spec) <=> spec[i + 2] = spec[2]
  BY <1>1 DEF Seps
<1> HIDE DEF b
<1>3. CASE Seps(spec) = {}
  <2>1. Cut(spec) = Len(spec) - 1
    BY <1>1, <1>3 DEF Cut, b
  <2> QED BY <1>1, <1>2, <1>3, <2>1, LenProperties DEF b
<1>4. CASE Seps(spec) # {}
  <2>1. Len(spec) \in Nat /\ Seps(spec) \subseteq Nat
    BY <1>2, LenProperties
  <2>2. \E i \in Seps(spec) : \A j \in Seps(spec) : i <= j
    BY <1>4, <2>1, FirstOf
  <2>3. Cut(spec) = CHOOSE i \in Seps(spec) : \A j \in Seps(spec) : i <= j
    BY <1>4 DEF Cut
  <2>4. Cut(spec) \in Seps(spec) /\ \A j \in Seps(spec) : Cut(spec) <= j
    BY <2>2, <2>3
  <2>5. \A i \in 1 .. Cut(spec) - 1 : spec[i + 2] # spec[2]
    BY <1>2, <2>1, <2>4
  <2> QED BY <1>1, <1>2, <2>1, <2>4, <2>5 DEF b
<1> QED BY <1>3, <1>4

(* So the parts of a specification describe it.                            *)
LEMMA ConcatStrings ==
  ASSUME NEW s \in Seq(STRING), NEW t \in Seq(STRING)
  PROVE  /\ s \o t \in Seq(STRING) /\ Len(s \o t) = Len(s) + Len(t)
         /\ \A i \in 1 .. Len(s) + Len(t) :
              (s \o t)[i] = IF i <= Len(s) THEN s[i] ELSE t[i - Len(s)]
<1>1. s \o t \in Seq(STRING)
  OBVIOUS
<1>2. /\ Len(s \o t) = Len(s) + Len(t)
      /\ \A i \in 1 .. Len(s) + Len(t) :
           (s \o t)[i] = IF i <= Len(s) THEN s[i] ELSE t[i - Len(s)]
  BY ConcatProperties
<1> QED BY <1>1, <1>2

LEMMA CutDescribes ==
  ASSUME NEW spec \in Seq(STRING), Len(spec) > 1
  PROVE  Describes(spec, MarkStart(spec), MarkEnd(spec))
<1> DEFINE n == Len(spec)
           c == Cut(spec)
           b == MarkBody(spec)
           s == MarkStart(spec)
           e == MarkEnd(spec)
           front == SubSeq(spec, 1, 2)
<1>1. /\ b \in Seq(STRING) /\ Len(b) = n - 2 /\ n \in Nat
      /\ \A i \in 1 .. n - 2 : b[i] = spec[i + 2]
      /\ c \in 1 .. n - 1 /\ \A i \in 1 .. c - 1 : spec[i + 2] # spec[2]
      /\ c <= n - 2 => spec[c + 2] = spec[2]
  BY CutFacts, LenProperties
<1>2. \A i \in 1 .. n : spec[i] \in STRING
  BY ElementOfSeq
<1>0. n \in Nat /\ c \in Nat /\ 1 <= c /\ c <= n - 1
  BY <1>1
<1>3. front \in Seq(STRING) /\ Len(front) = 2 /\ front[1] = spec[1] /\ front[2] = spec[2]
  <2>1. /\ front \in Seq(STRING) /\ Len(front) = IF 1 <= 2 THEN 2 - 1 + 1 ELSE 0
        /\ \A i \in 1 .. 2 - 1 + 1 : front[i] = spec[1 + i - 1]
    BY <1>1, <1>2, SubSeqProperties
  <2> QED BY <2>1
<1>4. /\ s \in Seq(STRING) /\ Len(s) = c - 1
      /\ \A i \in 1 .. c - 1 : s[i] = spec[i + 2]
  <2>1. \A i \in 1 .. c - 1 : b[i] \in STRING
    BY <1>1, <1>2
  <2>2. /\ s \in Seq(STRING) /\ Len(s) = IF 1 <= c - 1 THEN c - 1 - 1 + 1 ELSE 0
        /\ \A i \in 1 .. c - 1 - 1 + 1 : s[i] = b[1 + i - 1]
    <3>1. s = SubSeq(b, 1, c - 1)
      BY DEF MarkStart
    <3> HIDE DEF s, b, c
    <3>2. c - 1 \in Nat
      BY <1>0
    <3> QED BY <2>1, <3>1, <3>2, SubStrings
  <2> HIDE DEF s, b, c, n
  <2>3. Len(s) = c - 1
    BY <1>0, <2>2
  <2>4. \A i \in 1 .. c - 1 : s[i] = b[i]
    BY <1>0, <2>2
  <2>5. \A i \in 1 .. c - 1 : b[i] = spec[i + 2]
    BY <1>0, <1>1
  <2> QED BY <2>2, <2>3, <2>4, <2>5
<1>5. /\ e \in Seq(STRING) /\ Len(e) = IF c <= n - 2 THEN n - 2 - c ELSE 0
      /\ \A i \in 1 .. n - 2 - c : e[i] = spec[c + i + 2]
  <2>1. \A i \in c + 1 .. n - 2 : b[i] \in STRING
    BY <1>1, <1>2
  <2>2. /\ e \in Seq(STRING)
        /\ Len(e) = IF c + 1 <= n - 2 THEN n - 2 - (c + 1) + 1 ELSE 0
        /\ \A i \in 1 .. n - 2 - (c + 1) + 1 : e[i] = b[c + 1 + i - 1]
    <3>1. Len(b) = n - 2 /\ e = SubSeq(b, c + 1, Len(b))
      BY <1>1 DEF MarkEnd
    <3> HIDE DEF e, b, c, n
    <3>2. c + 1 \in Nat /\ (n >= 2 => n - 2 \in Nat)
      BY <1>0
    <3>3. n >= 2
      BY <1>0
    <3>4. n - 2 \in Nat /\ e = SubSeq(b, c + 1, n - 2)
      BY <3>1, <3>2, <3>3
    <3> QED BY <2>1, <3>2, <3>4, SubStrings
  <2>3. \A i \in 1 .. n - 2 - c : e[i] = spec[c + i + 2]
    <3> SUFFICES ASSUME NEW i \in 1 .. n - 2 - c PROVE e[i] = spec[c + i + 2]
      OBVIOUS
    <3> HIDE DEF n, c
    <3>1. i \in 1 .. n - 2 - (c + 1) + 1 /\ c + i \in 1 .. n - 2 /\ c + 1 + i - 1 = c + i
      BY <1>0
    <3> QED BY <1>1, <2>2, <3>1
  <2> QED BY <1>1, <2>2, <2>3
<1> HIDE DEF n, c, b, s, e, front
<1>6. \A k \in 1 .. Len(s) : s[k] # spec[2]
  BY <1>1, <1>4
<1>7. /\ front \o s \in Seq(STRING) /\ Len(front \o s) = c + 1
      /\ \A i \in 1 .. c + 1 : (front \o s)[i] = spec[i]
  <2>1. /\ front \o s \in Seq(STRING) /\ Len(front \o s) = Len(front) + Len(s)
        /\ \A i \in 1 .. Len(front) + Len(s) :
             (front \o s)[i] = IF i <= Len(front) THEN front[i] ELSE s[i - Len(front)]
    <3>1. front \in Seq(STRING) /\ s \in Seq(STRING)
      BY <1>3, <1>4
    <3> QED BY <3>1, ConcatStrings
  <2>2. \A i \in 1 .. c + 1 : (front \o s)[i] = spec[i]
    <3> SUFFICES ASSUME NEW i \in 1 .. c + 1 PROVE (front \o s)[i] = spec[i]
      OBVIOUS
    <3>1. CASE i <= 2
      <4>1. i \in 1 .. Len(front) + Len(s) /\ i <= Len(front)
        BY <1>0, <1>3, <1>4, <3>1
      <4>2. (front \o s)[i] = front[i]
        BY <2>1, <4>1
      <4>3. i = 1 \/ i = 2
        BY <1>0, <3>1
      <4> QED BY <1>3, <4>2, <4>3
    <3>2. CASE i > 2
      <4>1. i - 2 \in 1 .. c - 1 /\ i - 2 + 2 = i
        BY <1>0, <3>2
      <4>2. s[i - 2] = spec[i]
        BY <1>4, <4>1
      <4>3. (front \o s)[i] = s[i - 2]
        <5>1. /\ i \in 1 .. Len(front) + Len(s) /\ ~(i <= Len(front))
              /\ i - Len(front) = i - 2
          BY <1>0, <1>3, <1>4, <3>2
        <5> QED BY <2>1, <5>1
      <4> QED BY <4>2, <4>3
    <3>3. i <= 2 \/ i > 2
      BY <1>0
    <3> QED BY <3>1, <3>2, <3>3
  <2>3. Len(front) + Len(s) = c + 1
    BY <1>0, <1>3, <1>4
  <2> QED BY <2>1, <2>2, <2>3
<1>8. CASE c = n - 1
  <2>1. e = << >>
    BY <1>1, <1>5, <1>8, EmptySeq
  <2>2. spec = front \o s
    <3>1. spec \in Seq(STRING) /\ Len(spec) = c + 1
      BY <1>0, <1>8 DEF n
    <3>2. \A i \in 1 .. Len(spec) : spec[i] = (front \o s)[i]
      BY <1>7, <3>1
    <3> QED BY <1>7, <3>1, <3>2, SeqEqual
  <2> QED BY <1>6, <2>1, <2>2 DEF Describes, front, s, e
<1>9. CASE c <= n - 2
  <2> DEFINE mid == front \o s \o <<spec[2]>>
  <2>1. <<spec[2]>> \in Seq(STRING) /\ Len(<<spec[2]>>) = 1 /\ <<spec[2]>>[1] = spec[2]
    BY <1>1, <1>2
  <2>2. /\ mid \in Seq(STRING) /\ Len(mid) = c + 2
        /\ \A i \in 1 .. c + 2 : mid[i] = spec[i]
    <3>1. /\ mid \in Seq(STRING) /\ Len(mid) = Len(front \o s) + 1
          /\ \A i \in 1 .. Len(front \o s) + 1 :
               mid[i] = IF i <= Len(front \o s) THEN (front \o s)[i]
                        ELSE <<spec[2]>>[i - Len(front \o s)]
      <4>1. front \o s \in Seq(STRING) /\ <<spec[2]>> \in Seq(STRING)
        BY <1>7, <2>1
      <4> HIDE DEF mid
      <4>2. mid = (front \o s) \o <<spec[2]>>
        BY DEF mid
      <4>3. Len(<<spec[2]>>) = 1
        BY <2>1
      <4> QED BY <4>1, <4>2, <4>3, ConcatStrings
    <3>2. \A i \in 1 .. c + 2 : mid[i] = spec[i]
      <4> SUFFICES ASSUME NEW i \in 1 .. c + 2 PROVE mid[i] = spec[i]
        OBVIOUS
      <4>1. CASE i <= c + 1
        BY <1>0, <1>7, <3>1, <4>1
      <4>2. CASE i = c + 2
        <5>1. mid[i] = <<spec[2]>>[1]
          BY <1>0, <1>7, <3>1, <4>2
        <5>2. spec[c + 2] = spec[2]
          BY <1>1, <1>9
        <5> QED BY <2>1, <4>2, <5>1, <5>2
      <4>3. i <= c + 1 \/ i = c + 2
        BY <1>0
      <4> QED BY <4>1, <4>2, <4>3
    <3>3. Len(front \o s) + 1 = c + 2
      BY <1>0, <1>7
    <3> HIDE DEF mid
    <3> QED BY <3>1, <3>2, <3>3
  <2> HIDE DEF mid
  <2>3. /\ mid \o e \in Seq(STRING) /\ Len(mid \o e) = n
        /\ \A i \in 1 .. n : (mid \o e)[i] = spec[i]
    <3>1. /\ mid \o e \in Seq(STRING) /\ Len(mid \o e) = Len(mid) + Len(e)
          /\ \A i \in 1 .. Len(mid) + Len(e) :
               (mid \o e)[i] = IF i <= Len(mid) THEN mid[i] ELSE e[i - Len(mid)]
      <4>1. mid \in Seq(STRING) /\ e \in Seq(STRING)
        BY <1>5, <2>2
      <4> QED BY <4>1, ConcatStrings
    <3>2. Len(mid) + Len(e) = n
      BY <1>1, <1>5, <1>9, <2>2
    <3>3. \A i \in 1 .. n : (mid \o e)[i] = spec[i]
      <4> SUFFICES ASSUME NEW i \in 1 .. n PROVE (mid \o e)[i] = spec[i]
        OBVIOUS
      <4>1. CASE i <= c + 2
        BY <1>0, <2>2, <3>1, <3>2, <4>1
      <4>2. CASE i > c + 2
        <5>1. i - (c + 2) \in 1 .. n - 2 - c /\ c + (i - (c + 2)) + 2 = i
          BY <1>0, <4>2
        <5>2. e[i - (c + 2)] = spec[i]
          BY <1>5, <5>1
        <5>3. (mid \o e)[i] = e[i - (c + 2)]
          BY <1>0, <2>2, <3>1, <3>2, <4>2
        <5> QED BY <5>2, <5>3
      <4>3. i <= c + 2 \/ i > c + 2
        BY <1>0
      <4> QED BY <4>1, <4>2, <4>3
    <3> QED BY <3>1, <3>2, <3>3
  <2>4. spec = mid \o e
    BY <1>1, <2>3, SeqEqual DEF n
  <2> QED BY <1>6, <2>4 DEF Describes, front, s, e, mid
<1> QED BY <1>1, <1>8, <1>9

-----------------------------------------------------------------------------
(* sname: its loop, as the value of s after n characters.                  *)
Scan(path, s, n) ==
  IF n = 0 THEN 1 ELSE IF n > 1 /\ path[n - 1] = "/" THEN n ELSE s[n - 1]

(* The loop computes something, whatever the path: there is a function     *)
(* that gives s after every number of turns.                               *)
LEMMA ScanExists ==
  ASSUME NEW path, NEW len \in Nat
  PROVE  \E s : s = [n \in 0 .. len |-> Scan(path, s, n)]
<1> DEFINE Good(m) == \E s : s = [n \in 0 .. m |-> Scan(path, s, n)]
           Bad == {m \in Nat : ~Good(m)}
<1>1. SUFFICES ASSUME Bad # {} PROVE FALSE
  <2>1. Bad = {} => Good(len)
    OBVIOUS
  <2> QED BY <2>1
<1>2. PICK m \in Bad : \A k \in Bad : m <= k
  <2>1. Bad \subseteq Nat
    OBVIOUS
  <2> HIDE DEF Bad
  <2> QED BY <1>1, <2>1, FirstOf
<1>3. m \in Nat /\ ~Good(m)
  OBVIOUS
<1>4. CASE m = 0
  <2> DEFINE s == [n \in 0 .. 0 |-> 1]
  <2>1. s = [n \in 0 .. 0 |-> Scan(path, s, n)]
    BY DEF Scan
  <2>2. Good(0)
    BY <2>1
  <2> QED BY <1>3, <1>4, <2>2
<1>5. CASE m > 0
  <2>1. Good(m - 1)
    <3>1. m - 1 \in Nat /\ ~(m <= m - 1)
      BY <1>3, <1>5
    <3>2. m - 1 \notin Bad
      BY <1>2, <3>1
    <3> QED BY <3>1, <3>2
  <2>2. PICK s : s = [n \in 0 .. m - 1 |-> Scan(path, s, n)]
    BY <2>1
  <2> DEFINE t == [n \in 0 .. m |-> Scan(path, s, n)]
  <2>3. \A n \in 0 .. m - 1 : t[n] = s[n]
    BY <1>3, <2>2
  <2>4. \A n \in 0 .. m : Scan(path, s, n) = Scan(path, t, n)
    <3> SUFFICES ASSUME NEW n \in 0 .. m PROVE Scan(path, s, n) = Scan(path, t, n)
      OBVIOUS
    <3>1. n # 0 => n - 1 \in 0 .. m - 1
      BY <1>3
    <3>2. n # 0 => s[n - 1] = t[n - 1]
      BY <2>3, <3>1
    <3> HIDE DEF t
    <3> QED BY <3>2 DEF Scan
  <2>5. t = [n \in 0 .. m |-> Scan(path, t, n)]
    <3>1. t = [n \in 0 .. m |-> Scan(path, s, n)]
      OBVIOUS
    <3> HIDE DEF t
    <3> QED BY <2>4, <3>1
  <2>6. Good(m)
    BY <2>5
  <2> QED BY <1>3, <2>6
<1> QED BY <1>3, <1>4, <1>5

(* What it computes: the start of the last component that is not empty.    *)
LEMMA SnameStartFacts ==
  ASSUME NEW path, NEW len \in Nat, len = Len(path)
  PROVE  LET a == SnameStart(path)
         IN  /\ a \in Nat /\ 1 <= a /\ a <= len + 1 /\ (a = len + 1 => len = 0)
             /\ a > 1 => path[a - 1] = "/"
             /\ \A i \in a .. len - 1 : path[i] # "/"
<1> DEFINE s == CHOOSE s : s = [n \in 0 .. len |-> Scan(path, s, n)]
           Fits(n) == /\ s[n] \in Nat /\ 1 <= s[n] /\ s[n] <= n + 1
                      /\ s[n] = n + 1 => n = 0
                      /\ s[n] > 1 => path[s[n] - 1] = "/"
                      /\ \A i \in s[n] .. n - 1 : path[i] # "/"
           Bad == {n \in 0 .. len : ~Fits(n)}
<1>1. s = [n \in 0 .. len |-> Scan(path, s, n)]
  BY ScanExists
<1>2. SnameStart(path) = s[len]
  BY DEF SnameStart, Scan
<1> HIDE DEF s
<1>3. SUFFICES ASSUME Bad # {} PROVE FALSE
  <2>1. Bad = {} => Fits(len)
    OBVIOUS
  <2> QED BY <1>2, <2>1
<1>4. PICK m \in Bad : \A k \in Bad : m <= k
  <2>1. Bad \subseteq Nat
    OBVIOUS
  <2> HIDE DEF Bad
  <2> QED BY <1>3, <2>1, FirstOf
<1>5. m \in Nat /\ m <= len /\ ~Fits(m)
  OBVIOUS
<1>6. s[m] = Scan(path, s, m)
  BY <1>1, <1>5
<1>7. CASE m = 0
  BY <1>5, <1>6, <1>7 DEF Scan
<1>8. CASE m > 0
  <2>1. m - 1 \in 0 .. len /\ ~(m <= m - 1)
    BY <1>5, <1>8
  <2>2. Fits(m - 1)
    BY <1>4, <2>1
  <2>3. CASE m > 1 /\ path[m - 1] = "/"
    <3>1. s[m] = m
      BY <1>6, <2>3 DEF Scan
    <3> QED BY <1>5, <2>3, <3>1
  <2>4. CASE ~(m > 1 /\ path[m - 1] = "/")
    <3>1. s[m] = s[m - 1]
      BY <1>6, <1>8, <2>4 DEF Scan
    <3>2. \A i \in s[m] .. m - 1 : path[i] # "/"
      <4> SUFFICES ASSUME NEW i \in s[m] .. m - 1 PROVE path[i] # "/"
        OBVIOUS
      <4>1. CASE i = m - 1
        BY <1>5, <2>2, <2>4, <3>1, <4>1
      <4>2. CASE i # m - 1
        <5>1. i \in s[m - 1] .. m - 1 - 1
          BY <1>5, <2>2, <3>1, <4>2
        <5> QED BY <2>2, <5>1
      <4> QED BY <4>1, <4>2
    <3> QED BY <1>5, <2>2, <3>1, <3>2
  <2> QED BY <2>3, <2>4
<1> QED BY <1>5, <1>7, <1>8

(* The name is the rest of the path from there.                            *)
LEMMA NameOfPath ==
  ASSUME NEW path \in Seq(STRING)
  PROVE  LET name == SubSeq(path, SnameStart(path), Len(path))
         IN  /\ sname({path}) = {name}
             /\ IsSuffix(name, path)
             /\ name = << >> => path = << >>
             /\ Len(name) < Len(path) => path[Len(path) - Len(name)] = "/"
             /\ \A i \in 1 .. Len(name) - 1 : name[i] # "/"
<1> DEFINE a == SnameStart(path)
           name == SubSeq(path, a, Len(path))
<1>1. PICK len \in Nat : len = Len(path)
  BY LenProperties
<1>2. /\ a \in Nat /\ 1 <= a /\ a <= len + 1 /\ (a = len + 1 => len = 0)
      /\ a > 1 => path[a - 1] = "/"
      /\ \A i \in a .. len - 1 : path[i] # "/"
  BY <1>1, SnameStartFacts
<1>3. name = SubSeq(path, a, len)
  BY <1>1
<1>4. sname({path}) = {name}
  BY DEF sname
<1> HIDE DEF a, name
<1>5. \A i \in a .. len : path[i] \in STRING
  BY <1>1, <1>2, ElementOfSeq
<1>6. PICK n \in Nat : n = Len(name) /\ n = len - a + 1
  <2>1. Len(name) = IF a <= len THEN len - a + 1 ELSE 0
    BY <1>2, <1>3, <1>5, SubSeqProperties
  <2>2. Len(name) = len - a + 1
    BY <1>2, <2>1
  <2> QED BY <1>2, <2>2
<1>7. name \in Seq(STRING) /\ \A i \in 1 .. n : name[i] = path[a + i - 1]
  <2>1. name \in Seq(STRING) /\ \A i \in 1 .. len - a + 1 : name[i] = path[a + i - 1]
    BY <1>2, <1>3, <1>5, SubSeqProperties
  <2> QED BY <1>6, <2>1
<1>8. name = << >> => path = << >>
  <2>1. name = << >> => n = 0
    BY <1>6
  <2>2. n = 0 => len = 0
    BY <1>2, <1>6
  <2>3. len = 0 => path = << >>
    BY <1>1, EmptySeq
  <2> QED BY <2>1, <2>2, <2>3
<1>9. n < len => path[len - n] = "/"
  <2>1. n < len => a > 1 /\ len - n = a - 1
    BY <1>2, <1>6
  <2> QED BY <1>2, <2>1
<1>10. \A i \in 1 .. n - 1 : name[i] # "/"
  <2> SUFFICES ASSUME NEW i \in 1 .. n - 1 PROVE name[i] # "/"
    OBVIOUS
  <2>1. a + i - 1 \in a .. len - 1 /\ i \in 1 .. n
    BY <1>2, <1>6
  <2> QED BY <1>2, <1>7, <2>1
<1>11. IsSuffix(name, path)
  <2> DEFINE p == Reverse(path)
             q == Reverse(name)
  <2>1. p \in Seq(STRING) /\ Len(p) = len /\ \A i \in 1 .. len : p[i] = path[len - i + 1]
    <3>1. \A i \in 1 .. len : path[len - i + 1] \in STRING
      BY <1>1, ElementOfSeq
    <3>2. p = [i \in 1 .. len |-> path[len - i + 1]]
      BY <1>1 DEF Reverse
    <3> HIDE DEF p
    <3> QED BY <3>1, <3>2
  <2>2. q \in Seq(STRING) /\ Len(q) = n /\ \A i \in 1 .. n : q[i] = name[n - i + 1]
    <3>1. \A i \in 1 .. n : name[n - i + 1] \in STRING
      <4>1. \A i \in 1 .. n : name[i] \in STRING
        BY <1>6, <1>7, ElementOfSeq
      <4>2. \A i \in 1 .. n : n - i + 1 \in 1 .. n
        BY <1>6
      <4> QED BY <4>1, <4>2
    <3>2. q = [i \in 1 .. n |-> name[n - i + 1]]
      BY <1>6 DEF Reverse
    <3> HIDE DEF q
    <3> QED BY <3>1, <3>2
  <2> HIDE DEF p, q
  <2>3. n <= len
    BY <1>2, <1>6
  <2>4. /\ SubSeq(q, 1, n) \in Seq(STRING) /\ Len(SubSeq(q, 1, n)) = n
        /\ \A i \in 1 .. n : SubSeq(q, 1, n)[i] = q[i]
    <3> DEFINE u == SubSeq(q, 1, n)
    <3>1. \A i \in 1 .. n : q[i] \in STRING
      BY <2>2, ElementOfSeq
    <3>2. /\ u \in Seq(STRING) /\ Len(u) = IF 1 <= n THEN n - 1 + 1 ELSE 0
          /\ \A i \in 1 .. n - 1 + 1 : u[i] = q[1 + i - 1]
      BY <3>1, SubSeqProperties
    <3> HIDE DEF u
    <3>3. Len(u) = n /\ \A i \in 1 .. n : u[i] = q[i]
      BY <3>2
    <3> QED BY <3>2, <3>3 DEF u
  <2>5. /\ SubSeq(p, 1, n) \in Seq(STRING) /\ Len(SubSeq(p, 1, n)) = n
        /\ \A i \in 1 .. n : SubSeq(p, 1, n)[i] = p[i]
    <3> DEFINE u == SubSeq(p, 1, n)
    <3>1. \A i \in 1 .. n : p[i] \in STRING
      BY <2>1, <2>3, ElementOfSeq
    <3>2. /\ u \in Seq(STRING) /\ Len(u) = IF 1 <= n THEN n - 1 + 1 ELSE 0
          /\ \A i \in 1 .. n - 1 + 1 : u[i] = p[1 + i - 1]
      BY <3>1, SubSeqProperties
    <3> HIDE DEF u
    <3>3. Len(u) = n /\ \A i \in 1 .. n : u[i] = p[i]
      BY <3>2
    <3> QED BY <3>2, <3>3 DEF u
  <2>6. \A i \in 1 .. n : SubSeq(q, 1, n)[i] = SubSeq(p, 1, n)[i]
    <3> SUFFICES ASSUME NEW i \in 1 .. n PROVE q[i] = p[i]
      BY <2>4, <2>5
    <3>1. n - i + 1 \in 1 .. n /\ a + (n - i + 1) - 1 = len - i + 1 /\ i \in 1 .. len
      BY <1>2, <1>6, <2>3
    <3>2. q[i] = name[n - i + 1]
      BY <2>2
    <3>3. name[n - i + 1] = path[a + (n - i + 1) - 1]
      BY <1>7, <3>1
    <3>4. p[i] = path[len - i + 1]
      BY <2>1, <3>1
    <3> QED BY <3>1, <3>2, <3>3, <3>4
  <2>7. SubSeq(q, 1, n) = SubSeq(p, 1, n)
    BY <2>4, <2>5, <2>6, SeqEqual
  <2>8. IsPrefix(q, p)
    BY <2>1, <2>2, <2>3, <2>7 DEF IsPrefix
  <2> QED BY <2>8 DEF IsSuffix, p, q
<1> QED BY <1>1, <1>4, <1>6, <1>8, <1>9, <1>10, <1>11 DEF name, a

-----------------------------------------------------------------------------
(* The buffer of fshow_str: the largest of what it needed so far.          *)
LEMMA LargestOf ==
  ASSUME NEW d \in Nat, NEW T, T \subseteq {2, 5, 11}
  PROVE  /\ Max({d} \cup T) \in {d} \cup T
         /\ Max({d} \cup T) \in Nat
<1> DEFINE S == {d} \cup T
<1>1. \E x \in S : \A y \in S : x >= y
  <2>1. CASE 11 \in T /\ d <= 11
    BY <2>1
  <2>2. CASE 11 \notin T /\ 5 \in T /\ d <= 5
    BY <2>2
  <2>3. CASE T \subseteq {2} /\ 2 \in T /\ d <= 2
    BY <2>3
  <2>4. CASE \A y \in T : y <= d
    BY <2>4
  <2>5. (11 \in T => d > 11) /\ (5 \in T => d > 5) /\ (2 \in T => d > 2)
          => \A y \in T : y <= d
    OBVIOUS
  <2>6. 11 \notin T /\ 5 \notin T => T \subseteq {2}
    OBVIOUS
  <2>7. CASE 11 \in T /\ d > 11
    BY <2>4, <2>7
  <2>8. CASE 11 \notin T /\ 5 \in T /\ d > 5
    BY <2>4, <2>8
  <2>9. CASE 11 \notin T /\ 5 \notin T
    BY <2>3, <2>4, <2>6, <2>9
  <2>10. (d <= 11 \/ d > 11) /\ (d <= 5 \/ d > 5)
    OBVIOUS
  <2> QED BY <2>1, <2>2, <2>7, <2>8, <2>9, <2>10
<1>2. S \subseteq Nat
  OBVIOUS
<1> HIDE DEF S
<1>3. Max(S) \in S
  BY <1>1 DEF Max
<1>4. Max(S) \in Nat
  BY <1>2, <1>3
<1> QED BY <1>3, <1>4 DEF S

LEMMA ReprSizesFacts ==
  ASSUME NEW str
  PROVE  /\ ReprSizes(str) \subseteq {2, 5, 11}
         /\ "high" \notin Range(str) => ReprSizes(str) \subseteq {2, 5}
<1>1. \A c : ReprLen(c) \in {1, 4, 10} /\ (c # "high" => ReprLen(c) \in {1, 4})
  BY DEF ReprLen
<1>2. \A c : ReprLen(c) + 1 \in {2, 5, 11} /\ (c # "high" => ReprLen(c) + 1 \in {2, 5})
  BY <1>1
<1> QED BY <1>2 DEF ReprSizes

-----------------------------------------------------------------------------
(* The invariant.  What has been read of the command line is known option  *)
(* by option: the errors are counted, -h and -V have ended errmark, and    *)
(* the loop ends for one of its two reasons.                               *)
ReadView ==
  /\ cmdline \in Seq(Opts) /\ err_count <= optind - 1
  /\ \A i \in 1 .. optind - 1 :
       /\ cmdline[i].opt = "unknown" => err_count > 0
       /\ cmdline[i].opt \in {"h", "V"} => pc = "exit"
  /\ pc \in {"checks", "run"} => optind > Len(cmdline) \/ err_count > MaxErrors
  /\ pc = "run" => err_count = 0 /\ (copy_fh <=> copy_fname # NULL)

(* The copy file is that of the last --copy that was read.                 *)
NoCopyFrom(i) == \A j \in i .. optind - 1 : cmdline[j].opt # "copy"
CopyView ==
  \/ copy_fname = NULL /\ NoCopyFrom(1)
  \/ \E i \in 1 .. optind - 1 :
       /\ cmdline[i].opt = "copy" /\ copy_fname = {cmdline[i].arg}
       /\ NoCopyFrom(i + 1)

(* The marks of a descriptor are those of the last option that was read    *)
(* and says something about it.                                            *)
NoneSetsFrom(i, fd) == \A j \in i .. optind - 1 : ~Sets(cmdline[j], fd)
MarksView ==
  /\ DOMAIN start = Fds /\ DOMAIN end = Fds
  /\ \A fd \in Fds :
       \/ start[fd] = NULL /\ end[fd] = NULL /\ NoneSetsFrom(1, fd)
       \/ \E i \in 1 .. optind - 1 :
            /\ Sets(cmdline[i], fd) /\ NoneSetsFrom(i + 1, fd)
            /\ \E s \in start[fd], e \in end[fd] : AsksToTheLetter(cmdline[i], s, e)

(* The path is the first word of the command, and the name that of sname.  *)
NameView ==
  \/ cmd_path = NULL /\ cmd_name = NULL /\ (pc = "run" => command = << >>)
  \/ /\ command # << >> /\ cmd_path = {command[1]} /\ cmd_name = sname(cmd_path)

OptionsInv == TypeOK /\ StartsHaveEnds /\ ReadView /\ CopyView /\ MarksView /\ NameView

LEMMA OptionsInit == Init => OptionsInv
<1> SUFFICES ASSUME Init PROVE OptionsInv
  OBVIOUS
<1>0. cmdline \in Seq(Opts)
  BY LinesAssumption DEF Init, Opts
<1>1. PICK n \in Nat : n = Len(cmdline)
  BY <1>0, LenProperties
<1>2. TypeOK
  <2>1. Cardinality(NULL) <= 1
    BY Pointers
  <2>2. \A fd \in Fds : start[fd] = NULL /\ end[fd] = NULL
    BY DEF Init
  <2>3. cmd_path \subseteq Range(command)
    BY DEF Init, NULL
  <2>4. errprint_fh \in {"stdout", "stderr"}
    BY DEF Init, EprintFh
  <2>5. \A fd \in Fds : Cardinality(start[fd]) <= 1 /\ Cardinality(end[fd]) <= 1
    BY <2>1, <2>2
  <2>6. optind \in 1 .. Len(cmdline) + 1 /\ err_count \in 0 .. Len(cmdline)
    BY <1>1 DEF Init
  <2>7. Cardinality(cmd_name) <= 1
    BY <2>1 DEF Init
  <2> QED BY <2>3, <2>4, <2>5, <2>6, <2>7 DEF Init, TypeOK
<1>3. StartsHaveEnds /\ NameView
  BY DEF Init, StartsHaveEnds, NameView
<1>4. ReadView
  BY <1>0 DEF Init, ReadView
<1>5. CopyView /\ MarksView
  BY DEF Init, CopyView, MarksView, NoCopyFrom, NoneSetsFrom
<1> QED BY <1>2, <1>3, <1>4, <1>5 DEF OptionsInv

(* What one option does to the marks.                                      *)
Changes(o) ==
  /\ DOMAIN start' = Fds /\ DOMAIN end' = Fds
  /\ \A fd \in Fds :
       \/ ~Sets(o, fd) /\ start'[fd] = start[fd] /\ end'[fd] = end[fd]
       \/ Sets(o, fd) /\ \E s, e : start'[fd] = {s} /\ end'[fd] = {e} /\ AsksToTheLetter(o, s, e)

LEMMA SetMarksChanges ==
  ASSUME NEW o, NEW fd \in Fds, NEW s, NEW e, SetMarks(fd, s, e),
         DOMAIN start = Fds, DOMAIN end = Fds,
         \A f \in Fds : Sets(o, f) <=> f = fd, AsksToTheLetter(o, s, e)
  PROVE  Changes(o)
<1>1. start' = [start EXCEPT ![fd] = {s}] /\ end' = [end EXCEPT ![fd] = {e}]
  BY DEF SetMarks
<1>2. DOMAIN start' = Fds /\ DOMAIN end' = Fds
  BY <1>1
<1>3. start'[fd] = {s} /\ end'[fd] = {e}
  BY <1>1
<1>4. \A f \in Fds : f # fd => start'[f] = start[f] /\ end'[f] = end[f]
  BY <1>1
<1> HIDE <1>1
<1> QED BY <1>2, <1>3, <1>4 DEF Changes

LEMMA MarkChanges ==
  ASSUME NEW o \in Opts, o.opt = "mark", opt_mark(o.arg),
         DOMAIN start = Fds, DOMAIN end = Fds
  PROVE  Changes(o)
<1> DEFINE spec == o.arg
<1>1. spec \in Seq(STRING)
  BY DEF Opts
<1>2. PICK n \in Nat : n = Len(spec)
  BY <1>1, LenProperties
<1>3. \A f \in Fds : Sets(o, f) <=> n > 1 /\ spec[1] = Digits[f]
  BY <1>2 DEF Sets
<1>4. MarkOk(spec) <=> n > 0 /\ spec[1] \in {"1", "2"}
  BY <1>2 DEF MarkOk
<1>0. Digits[1] = "1" /\ Digits[2] = "2"
  BY DEF Digits
<1> HIDE DEF spec
<1>5. CASE ~MarkOk(spec) \/ n = 1
  <2>1. UNCHANGED <<start, end>>
    BY <1>2, <1>5 DEF opt_mark, spec
  <2>2. \A f \in Fds : ~Sets(o, f)
    <3>1. n > 1 => ~(spec[1] \in {"1", "2"})
      BY <1>4, <1>5
    <3> QED BY <1>0, <1>3, <3>1 DEF Fds
  <2> QED BY <2>1, <2>2 DEF Changes
<1>6. CASE MarkOk(spec) /\ n # 1
  <2>1. n > 1 /\ spec[1] \in {"1", "2"}
    BY <1>4, <1>6
  <2>2. SetMarks(MarkFd(spec), MarkStart(spec), MarkEnd(spec))
    BY <1>2, <1>6 DEF opt_mark, spec
  <2>3. MarkFd(spec) \in Fds /\ \A f \in Fds : Sets(o, f) <=> f = MarkFd(spec)
    BY <1>0, <1>3, <2>1 DEF MarkFd, Fds
  <2>4. AsksToTheLetter(o, MarkStart(spec), MarkEnd(spec))
    BY <1>1, <1>2, <2>1, CutDescribes DEF AsksToTheLetter, spec
  <2> QED BY <2>2, <2>3, <2>4, SetMarksChanges
<1> QED BY <1>5, <1>6

LEMMA ColorChanges ==
  ASSUME NEW o \in Opts, o.opt = "color", opt_color(o.arg),
         DOMAIN start = Fds, DOMAIN end = Fds
  PROVE  Changes(o)
<1>1. \A f \in Fds : Sets(o, f) <=> f = 2 /\ lookup_color(o.arg) # {}
  BY DEF Sets
<1>2. CASE lookup_color(o.arg) = {}
  <2>1. UNCHANGED <<start, end>>
    BY <1>2 DEF opt_color
  <2> QED BY <1>1, <1>2, <2>1 DEF Changes
<1>3. CASE lookup_color(o.arg) # {}
  <2>1. PICK ent \in lookup_color(o.arg) : SetMarks(2, ent.esc_start, ent.esc_end)
    BY <1>3 DEF opt_color
  <2>2. 2 \in Fds
    BY DEF Fds
  <2>3. AsksToTheLetter(o, ent.esc_start, ent.esc_end)
    BY DEF AsksToTheLetter
  <2> QED BY <1>1, <1>3, <2>1, <2>2, <2>3, SetMarksChanges
<1> QED BY <1>2, <1>3

(* What one option does, as the invariant sees it.                         *)
Effect(o) ==
  /\ Changes(o)
  /\ dbuf' = dbuf \/ dbuf' = Max({dbuf} \cup ReprSizes(o.arg))
  /\ \/ pc' = pc /\ exit_code' = exit_code /\ o.opt \notin {"h", "V"}
     \/ pc' = "exit" /\ exit_code' \in {0, 2}

LEMMA OptionEffect ==
  ASSUME Option, cmdline \in Seq(Opts), optind \in Nat \ {0},
         DOMAIN start = Fds, DOMAIN end = Fds
  PROVE  LET o == cmdline[optind]
         IN  /\ o \in Opts /\ optind \in 1 .. Len(cmdline) /\ pc = "options"
             /\ Effect(o)
<1>1. PICK n \in Nat : n = Len(cmdline)
  BY LenProperties
<1>2. optind \in 1 .. n /\ pc = "options"
  BY <1>1 DEF Option, InLoop
<1>3. PICK o \in Opts : o = cmdline[optind]
  BY <1>1, <1>2, ElementOfSeq
<1>4. /\ o.opt = "mark" => opt_mark(o.arg)
      /\ o.opt = "color" => opt_color(o.arg)
      /\ o.opt \in {"h", "V"} => Exit(0) /\ UNCHANGED <<start, end, dbuf>>
      /\ o.opt \notin {"mark", "color", "h", "V"} => GoOn /\ UNCHANGED <<start, end, dbuf>>
  BY <1>3 DEF Option
<1>5. ASSUME o.opt = "mark" PROVE Effect(o)
  <2>1. opt_mark(o.arg)
    BY <1>4, <1>5
  <2>2. Changes(o)
    BY <1>3, <1>5, <2>1, MarkChanges
  <2>3. dbuf' = dbuf \/ dbuf' = Max({dbuf} \cup ReprSizes(o.arg))
    BY <2>1 DEF opt_mark, fshow_str
  <2>4. (pc' = pc /\ exit_code' = exit_code) \/ (pc' = "exit" /\ exit_code' = 2)
    BY <2>1 DEF opt_mark, Exit, GoOn
  <2> QED BY <1>5, <2>2, <2>3, <2>4 DEF Effect
<1>6. ASSUME o.opt = "color" PROVE Effect(o)
  <2>1. opt_color(o.arg)
    BY <1>4, <1>6
  <2>2. Changes(o)
    BY <1>3, <1>6, <2>1, ColorChanges
  <2>3. dbuf' = dbuf
    BY <2>1 DEF opt_color
  <2>4. (pc' = pc /\ exit_code' = exit_code) \/ (pc' = "exit" /\ exit_code' = 2)
    BY <2>1 DEF opt_color, Exit, GoOn
  <2> QED BY <1>6, <2>2, <2>3, <2>4 DEF Effect
<1>7. ASSUME o.opt \notin {"mark", "color"} PROVE Effect(o)
  <2>1. \A fd \in Fds : ~Sets(o, fd)
    BY <1>7 DEF Sets
  <2>2. UNCHANGED <<start, end, dbuf>>
    BY <1>4, <1>7
  <2>3. Changes(o)
    BY <2>1, <2>2 DEF Changes
  <2>4. \/ pc' = pc /\ exit_code' = exit_code /\ o.opt \notin {"h", "V"}
        \/ pc' = "exit" /\ exit_code' = 0
    BY <1>4, <1>7 DEF Exit, GoOn
  <2> QED BY <2>2, <2>3, <2>4 DEF Effect
<1>8. Effect(o)
  BY <1>5, <1>6, <1>7
<1> QED BY <1>1, <1>2, <1>3, <1>8

(* One turn of the loop.                                                   *)
LEMMA OptionKeeps == OptionsInv /\ Option => OptionsInv'
<1> SUFFICES ASSUME OptionsInv, Option PROVE OptionsInv'
  OBVIOUS
<1>1. PICK n \in Nat : n = Len(cmdline) /\ cmdline \in Seq(Opts)
  BY LenProperties DEF OptionsInv, ReadView
<1>2. PICK o \in Opts, k \in 1 .. n :
        o = cmdline[k] /\ k = optind /\ pc = "options" /\ Effect(o)
  <2>1. optind \in Nat \ {0}
    BY <1>1 DEF OptionsInv, TypeOK
  <2>2. DOMAIN start = Fds /\ DOMAIN end = Fds
    BY DEF OptionsInv, MarksView
  <2> QED BY <1>1, <2>1, <2>2, OptionEffect
<1>3. /\ optind' = optind + 1 /\ err_count' = Errors(o)
      /\ copy_fname' = IF o.opt = "copy" THEN {o.arg} ELSE copy_fname
      /\ verbose' = (verbose \/ o.opt = "v") /\ debug' = (debug \/ o.opt = "d")
      /\ UNCHANGED <<cmdline, command, cmd_path, cmd_name, copy_fh, errprint_fh>>
  BY <1>2 DEF Option, commandVars
<1>4. err_count \in Nat /\ err_count <= optind - 1
  BY DEF OptionsInv, TypeOK, ReadView
<1>5. err_count' \in {err_count, err_count + 1} /\ (o.opt = "unknown" => err_count' > 0)
  BY <1>3, <1>4 DEF Errors
<1>6. /\ pc' \in {"options", "exit"} /\ exit_code' \in {exit_code, 0, 2}
      /\ o.opt \in {"h", "V"} => pc' = "exit"
  BY <1>2 DEF Effect
<1>7. Changes(o)
  BY <1>2 DEF Effect
<1>8. \A i \in 1 .. optind' - 1 : i = k \/ i \in 1 .. optind - 1
  BY <1>2, <1>3
<1>9. o = cmdline'[k]
  BY <1>2, <1>3
<1>10. TypeOK'
  <2>1. dbuf' \in Nat
    <3>1. dbuf \in Nat
      BY DEF OptionsInv, TypeOK
    <3>2. Max({dbuf} \cup ReprSizes(o.arg)) \in Nat
      BY <3>1, LargestOf, ReprSizesFacts
    <3> QED BY <1>2, <3>1, <3>2 DEF Effect
  <2>2. \A fd \in Fds : Cardinality(start'[fd]) <= 1 /\ Cardinality(end'[fd]) <= 1
    <3> SUFFICES ASSUME NEW fd \in Fds
                 PROVE  Cardinality(start'[fd]) <= 1 /\ Cardinality(end'[fd]) <= 1
      OBVIOUS
    <3>1. Cardinality(start[fd]) <= 1 /\ Cardinality(end[fd]) <= 1
      BY DEF OptionsInv, TypeOK
    <3>2. CASE start'[fd] = start[fd] /\ end'[fd] = end[fd]
      BY <3>1, <3>2
    <3>3. CASE \E s, e : start'[fd] = {s} /\ end'[fd] = {e}
      BY <3>3, Pointers
    <3> QED BY <1>7, <3>2, <3>3 DEF Changes
  <2>3. optind' \in 1 .. Len(cmdline') + 1 /\ err_count' \in 0 .. Len(cmdline')
    <3>1. optind' \in 1 .. n + 1 /\ err_count' \in 0 .. n
      BY <1>2, <1>3, <1>4, <1>5
    <3> QED BY <1>1, <1>3, <3>1
  <2>4. verbose' \in BOOLEAN /\ debug' \in BOOLEAN /\ copy_fh' \in BOOLEAN
    BY <1>3, Zenon DEF OptionsInv, TypeOK
  <2>5. pc' \in {"options", "checks", "run", "exit", "crash"} /\ exit_code' \in {NoCode, 0, 1, 2}
    BY <1>6 DEF OptionsInv, TypeOK
  <2>6. /\ errprint_fh' \in {"stdout", "stderr"} /\ command' \in Commands
        /\ cmd_path' \subseteq Range(command') /\ Cardinality(cmd_name') <= 1
    BY <1>3 DEF OptionsInv, TypeOK
  <2> QED BY <2>1, <2>2, <2>3, <2>4, <2>5, <2>6 DEF TypeOK
<1>11. StartsHaveEnds'
  <2> SUFFICES ASSUME NEW fd \in Fds PROVE start'[fd] = NULL <=> end'[fd] = NULL
    BY DEF StartsHaveEnds
  <2>1. start[fd] = NULL <=> end[fd] = NULL
    BY DEF OptionsInv, StartsHaveEnds
  <2>2. CASE start'[fd] = start[fd] /\ end'[fd] = end[fd]
    BY <2>1, <2>2
  <2>3. CASE \E s, e : start'[fd] = {s} /\ end'[fd] = {e}
    BY <2>3, Pointers
  <2> QED BY <1>7, <2>2, <2>3 DEF Changes
<1>12. ReadView'
  <2>1. \A i \in 1 .. optind' - 1 :
          /\ cmdline'[i].opt = "unknown" => err_count' > 0
          /\ cmdline'[i].opt \in {"h", "V"} => pc' = "exit"
    <3> SUFFICES ASSUME NEW i \in 1 .. optind' - 1
                 PROVE  /\ cmdline'[i].opt = "unknown" => err_count' > 0
                        /\ cmdline'[i].opt \in {"h", "V"} => pc' = "exit"
      OBVIOUS
    <3>1. CASE i = k
      BY <1>5, <1>6, <1>9, <3>1
    <3>2. CASE i \in 1 .. optind - 1
      <4>1. /\ cmdline[i].opt = "unknown" => err_count > 0
            /\ cmdline[i].opt \notin {"h", "V"}
        BY <1>2, <3>2 DEF OptionsInv, ReadView
      <4>2. err_count > 0 => err_count' > 0
        BY <1>4, <1>5
      <4> QED BY <1>3, <4>1, <4>2
    <3> QED BY <1>8, <3>1, <3>2
  <2>2. err_count' <= optind' - 1
    BY <1>2, <1>3, <1>4, <1>5
  <2> QED BY <1>1, <1>3, <1>6, <2>1, <2>2 DEF ReadView
<1>13. CopyView'
  <2>1. CASE o.opt = "copy"
    <3>1. copy_fname' = {cmdline'[k].arg} /\ cmdline'[k].opt = "copy"
      BY <1>3, <1>9, <2>1
    <3>2. k \in 1 .. optind' - 1
      BY <1>2, <1>3
    <3>3. NoCopyFrom(k + 1)'
      BY <1>2, <1>3 DEF NoCopyFrom
    <3> QED BY <3>1, <3>2, <3>3 DEF CopyView
  <2>2. CASE o.opt # "copy"
    <3>1. copy_fname' = copy_fname
      BY <1>3, <2>2
    <3>2. \A m \in 1 .. k : NoCopyFrom(m) => NoCopyFrom(m)'
      BY <1>2, <1>3, <1>9, <2>2 DEF NoCopyFrom
    <3>3. CASE copy_fname = NULL /\ NoCopyFrom(1)
      <4>1. NoCopyFrom(1)'
        BY <1>2, <3>2, <3>3
      <4> QED BY <3>1, <3>3, <4>1 DEF CopyView
    <3>4. CASE \E i \in 1 .. optind - 1 :
                 /\ cmdline[i].opt = "copy" /\ copy_fname = {cmdline[i].arg}
                 /\ NoCopyFrom(i + 1)
      <4>1. PICK i \in 1 .. optind - 1 :
              /\ cmdline[i].opt = "copy" /\ copy_fname = {cmdline[i].arg}
              /\ NoCopyFrom(i + 1)
        BY <3>4
      <4>2. i + 1 \in 1 .. k /\ i \in 1 .. optind' - 1
        BY <1>2, <1>3
      <4>3. NoCopyFrom(i + 1)'
        BY <3>2, <4>1, <4>2
      <4> QED BY <1>3, <3>1, <4>1, <4>2, <4>3 DEF CopyView
    <3> QED BY <3>3, <3>4 DEF OptionsInv, CopyView
  <2> QED BY <2>1, <2>2
<1>14. MarksView'
  <2> SUFFICES ASSUME NEW fd \in Fds
               PROVE  \/ start'[fd] = NULL /\ end'[fd] = NULL /\ NoneSetsFrom(1, fd)'
                      \/ \E i \in 1 .. optind' - 1 :
                           /\ Sets(cmdline'[i], fd) /\ NoneSetsFrom(i + 1, fd)'
                           /\ \E s \in start'[fd], e \in end'[fd] : AsksToTheLetter(cmdline'[i], s, e)
    BY <1>7 DEF MarksView, Changes
  <2>1. CASE Sets(o, fd) /\ \E s, e : start'[fd] = {s} /\ end'[fd] = {e} /\ AsksToTheLetter(o, s, e)
    <3>1. PICK s, e : start'[fd] = {s} /\ end'[fd] = {e} /\ AsksToTheLetter(o, s, e)
      BY <2>1
    <3>2. s \in start'[fd] /\ e \in end'[fd]
      BY <3>1
    <3>3. Sets(cmdline'[k], fd) /\ AsksToTheLetter(cmdline'[k], s, e)
      BY <1>9, <2>1, <3>1
    <3>4. k \in 1 .. optind' - 1
      BY <1>2, <1>3
    <3>5. NoneSetsFrom(k + 1, fd)'
      BY <1>2, <1>3 DEF NoneSetsFrom
    <3> QED BY <3>2, <3>3, <3>4, <3>5
  <2>2. CASE ~Sets(o, fd) /\ start'[fd] = start[fd] /\ end'[fd] = end[fd]
    <3>1. \A m \in 1 .. k : NoneSetsFrom(m, fd) => NoneSetsFrom(m, fd)'
      <4> SUFFICES ASSUME NEW m \in 1 .. k, NoneSetsFrom(m, fd),
                          NEW j \in m .. optind' - 1
                   PROVE  ~Sets(cmdline'[j], fd)
        BY DEF NoneSetsFrom
      <4>1. CASE j = k
        BY <1>9, <2>2, <4>1
      <4>2. CASE j # k
        <5>1. j \in m .. optind - 1
          BY <1>2, <1>3, <4>2
        <5> QED BY <1>3, <5>1 DEF NoneSetsFrom
      <4> QED BY <4>1, <4>2
    <3>2. CASE start[fd] = NULL /\ end[fd] = NULL /\ NoneSetsFrom(1, fd)
      <4>1. NoneSetsFrom(1, fd)'
        BY <1>2, <3>1, <3>2
      <4> QED BY <2>2, <3>2, <4>1
    <3>3. CASE \E i \in 1 .. optind - 1 :
                 /\ Sets(cmdline[i], fd) /\ NoneSetsFrom(i + 1, fd)
                 /\ \E s \in start[fd], e \in end[fd] : AsksToTheLetter(cmdline[i], s, e)
      <4>1. PICK i \in 1 .. optind - 1 :
              /\ Sets(cmdline[i], fd) /\ NoneSetsFrom(i + 1, fd)
              /\ \E s \in start[fd], e \in end[fd] : AsksToTheLetter(cmdline[i], s, e)
        BY <3>3
      <4>2. i + 1 \in 1 .. k /\ i \in 1 .. optind' - 1
        BY <1>2, <1>3
      <4>3. NoneSetsFrom(i + 1, fd)'
        BY <3>1, <4>1, <4>2
      <4>4. cmdline'[i] = cmdline[i]
        BY <1>3
      <4> QED BY <2>2, <4>1, <4>2, <4>3, <4>4
    <3> QED BY <3>2, <3>3 DEF OptionsInv, MarksView
  <2> QED BY <1>7, <2>1, <2>2 DEF Changes
<1>15. NameView'
  BY <1>3, <1>6 DEF OptionsInv, NameView
<1> QED BY <1>10, <1>11, <1>12, <1>13, <1>14, <1>15 DEF OptionsInv

(* The end of the loop, the crash of --debug, and a wait for nothing.      *)
LEMMA LoopEndKeeps == OptionsInv /\ (EndOfOptions \/ DebugPrint \/ Over) => OptionsInv'
<1> SUFFICES ASSUME OptionsInv, EndOfOptions \/ DebugPrint \/ Over PROVE OptionsInv'
  OBVIOUS
<1>1. /\ UNCHANGED <<cmdline, optind, command, cmd_path, cmd_name, verbose, debug, start, end>>
      /\ UNCHANGED <<copy_fname, copy_fh, err_count, exit_code, errprint_fh, dbuf>>
  BY DEF EndOfOptions, DebugPrint, Over, commandVars, vars
<1>2. \/ pc = "options" /\ pc' = "checks" /\ (optind > Len(cmdline) \/ err_count > MaxErrors)
      \/ pc = "options" /\ pc' = "crash"
      \/ pc' = pc
  BY DEF EndOfOptions, DebugPrint, InLoop, Over, vars
<1>3. TypeOK'
  <2>1. pc' \in {"options", "checks", "run", "exit", "crash"}
    BY <1>2 DEF OptionsInv, TypeOK
  <2> QED BY <1>1, <2>1 DEF OptionsInv, TypeOK
<1>4. StartsHaveEnds' /\ CopyView' /\ MarksView'
  BY <1>1 DEF OptionsInv, StartsHaveEnds, CopyView, MarksView, NoCopyFrom, NoneSetsFrom
<1>5. ReadView'
  <2>1. cmdline' \in Seq(Opts) /\ err_count' <= optind' - 1
    BY <1>1 DEF OptionsInv, ReadView
  <2>2. \A i \in 1 .. optind' - 1 :
          /\ cmdline'[i].opt = "unknown" => err_count' > 0
          /\ cmdline'[i].opt \in {"h", "V"} => pc' = "exit"
    BY <1>1, <1>2 DEF OptionsInv, ReadView
  <2>3. pc' \in {"checks", "run"} => optind' > Len(cmdline') \/ err_count' > MaxErrors
    BY <1>1, <1>2 DEF OptionsInv, ReadView
  <2>4. pc' = "run" => err_count' = 0 /\ (copy_fh' <=> copy_fname' # NULL)
    BY <1>1, <1>2 DEF OptionsInv, ReadView
  <2> QED BY <2>1, <2>2, <2>3, <2>4 DEF ReadView
<1>6. NameView'
  BY <1>1, <1>2 DEF OptionsInv, NameView
<1> QED BY <1>3, <1>4, <1>5, <1>6 DEF OptionsInv

(* The checks after the loop, and the copy file.                           *)
LEMMA SetCommandFacts ==
  ASSUME SetCommand, dbuf \in Nat, verbose \in BOOLEAN, debug \in BOOLEAN
  PROVE  /\ cmd_path' = IF command = << >> THEN NULL ELSE {command[1]}
         /\ cmd_name' = sname(cmd_path')
         /\ verbose' \in BOOLEAN /\ dbuf' \in Nat
         /\ \/ dbuf' = dbuf
            \/ dbuf' = Max({dbuf} \cup UNION {ReprSizes(str) : str \in Range(command)})
         /\ \/ pc' = "exit" /\ exit_code' = 2 /\ copy_fh' = copy_fh
            \/ pc' = "run" /\ copy_fh' = (copy_fname # NULL) /\ exit_code' = exit_code
<1> DEFINE T == UNION {ReprSizes(str) : str \in Range(command)}
<1>1. T \subseteq {2, 5, 11}
  BY ReprSizesFacts
<1>2. dbuf' = dbuf \/ dbuf' = Max({dbuf} \cup T)
  BY DEF SetCommand, fshow_str_array
<1>3. dbuf' \in Nat
  <2> HIDE DEF T
  <2> QED BY <1>1, <1>2, LargestOf
<1>4. verbose' \in BOOLEAN
  BY Zenon DEF SetCommand
<1>5. /\ cmd_path' = IF command = << >> THEN NULL ELSE {command[1]}
      /\ cmd_name' = sname(cmd_path')
  BY DEF SetCommand
<1>6. \/ pc' = "exit" /\ exit_code' = 2 /\ copy_fh' = copy_fh
      \/ pc' = "run" /\ copy_fh' = (copy_fname # NULL) /\ exit_code' = exit_code
  BY DEF SetCommand, Exit
<1> QED BY <1>2, <1>3, <1>4, <1>5, <1>6

LEMMA CommandPath ==
  ASSUME command \in Commands, command # << >>
  PROVE  command[1] \in Seq(STRING) /\ command[1] \in Range(command)
<1>1. command \in Seq(Seq(STRING))
  BY CommandsAssumption
<1>2. PICK n \in Nat : n = Len(command)
  BY <1>1, LenProperties
<1>3. n # 0
  BY <1>1, <1>2, EmptySeq
<1>4. 1 \in 1 .. n
  BY <1>3
<1>5. 1 \in DOMAIN command
  BY <1>1, <1>2, <1>4, LenProperties
<1> QED BY <1>1, <1>2, <1>4, <1>5, ElementOfSeq DEF Range

LEMMA ChecksKeeps == OptionsInv /\ Checks => OptionsInv'
<1> SUFFICES ASSUME OptionsInv, Checks PROVE OptionsInv'
  OBVIOUS
<1>1. /\ pc = "checks"
      /\ UNCHANGED <<cmdline, optind, command, debug, start, end, copy_fname, err_count>>
      /\ errprint_fh' = errprint_fh
  BY DEF Checks
<1>2. StartsHaveEnds' /\ CopyView' /\ MarksView'
  BY <1>1 DEF OptionsInv, StartsHaveEnds, CopyView, MarksView, NoCopyFrom, NoneSetsFrom
<1>3. /\ cmdline' \in Seq(Opts) /\ err_count' <= optind' - 1
      /\ \A i \in 1 .. optind' - 1 :
           /\ cmdline'[i].opt = "unknown" => err_count' > 0
           /\ cmdline'[i].opt \notin {"h", "V"}
  BY <1>1 DEF OptionsInv, ReadView
<1>4. optind' > Len(cmdline') \/ err_count' > MaxErrors
  BY <1>1 DEF OptionsInv, ReadView
<1>5. /\ optind' \in 1 .. Len(cmdline') + 1 /\ err_count' \in 0 .. Len(cmdline')
      /\ \A fd \in Fds : Cardinality(start'[fd]) <= 1 /\ Cardinality(end'[fd]) <= 1
      /\ errprint_fh' \in {"stdout", "stderr"} /\ command' \in Commands
  BY <1>1 DEF OptionsInv, TypeOK
<1>6. CASE err_count # 0
  <2>1. /\ pc' = "exit" /\ exit_code' = 1
        /\ UNCHANGED <<verbose, cmd_path, cmd_name, copy_fh, dbuf>>
    BY <1>6 DEF Checks, Exit
  <2>2. TypeOK'
    <3>1. cmd_path' \subseteq Range(command') /\ Cardinality(cmd_name') <= 1 /\ dbuf' \in Nat
      BY <1>1, <2>1 DEF OptionsInv, TypeOK
    <3>2. verbose' \in BOOLEAN /\ debug' \in BOOLEAN /\ copy_fh' \in BOOLEAN
      BY <1>1, <2>1 DEF OptionsInv, TypeOK
    <3> QED BY <1>5, <2>1, <3>1, <3>2 DEF TypeOK
  <2>3. ReadView'
    BY <1>3, <2>1 DEF ReadView
  <2>4. NameView'
    BY <1>1, <2>1 DEF OptionsInv, NameView
  <2> QED BY <1>2, <2>2, <2>3, <2>4 DEF OptionsInv
<1>7. CASE err_count = 0
  <2>1. dbuf \in Nat /\ verbose \in BOOLEAN /\ debug \in BOOLEAN
    BY DEF OptionsInv, TypeOK
  <2>2. SetCommand
    BY <1>7 DEF Checks
  <2>3. /\ cmd_path' = IF command = << >> THEN NULL ELSE {command[1]}
        /\ cmd_name' = sname(cmd_path')
        /\ verbose' \in BOOLEAN /\ dbuf' \in Nat
        /\ \/ pc' = "exit" /\ exit_code' = 2 /\ copy_fh' = copy_fh
           \/ pc' = "run" /\ copy_fh' = (copy_fname # NULL) /\ exit_code' = exit_code
    BY <2>1, <2>2, SetCommandFacts
  <2>4. ReadView'
    BY <1>1, <1>3, <1>4, <1>7, <2>3 DEF ReadView
  <2>5. ASSUME command = << >>
        PROVE  NameView' /\ cmd_path' \subseteq Range(command') /\ Cardinality(cmd_name') <= 1
    <3>1. cmd_path' = NULL /\ cmd_name' = NULL
      BY <2>3, <2>5 DEF sname, NULL
    <3>2. NameView'
      BY <1>1, <2>5, <3>1 DEF NameView
    <3>3. cmd_path' \subseteq Range(command') /\ Cardinality(cmd_name') <= 1
      BY <3>1, Pointers DEF NULL
    <3> QED BY <3>2, <3>3
  <2>6. ASSUME command # << >>
        PROVE  NameView' /\ cmd_path' \subseteq Range(command') /\ Cardinality(cmd_name') <= 1
    <3>1. cmd_path' = {command[1]} /\ cmd_name' = sname({command[1]})
      BY <2>3, <2>6
    <3>2. NameView'
      BY <1>1, <2>6, <3>1 DEF NameView
    <3>3. command[1] \in Seq(STRING) /\ command[1] \in Range(command)
      BY <2>6, CommandPath DEF OptionsInv, TypeOK
    <3>4. Cardinality(cmd_name') <= 1
      BY <3>1, <3>3, NameOfPath, Pointers
    <3> QED BY <1>1, <3>1, <3>2, <3>3, <3>4
  <2>7. TypeOK'
    <3>1. copy_fh' \in BOOLEAN /\ debug' \in BOOLEAN
      BY <1>1, <2>3 DEF OptionsInv, TypeOK
    <3>2. pc' \in {"options", "checks", "run", "exit", "crash"} /\ exit_code' \in {NoCode, 0, 1, 2}
      BY <2>3 DEF OptionsInv, TypeOK
    <3> QED BY <1>5, <2>3, <2>5, <2>6, <3>1, <3>2 DEF TypeOK
  <2> QED BY <1>2, <2>4, <2>5, <2>6, <2>7 DEF OptionsInv
<1> QED BY <1>6, <1>7

-----------------------------------------------------------------------------
(* While errmark reads its options, for any number of them, it knows how   *)
(* many it did not understand, which --copy and which mark came last, and  *)
(* the name of the command: the inductive invariant.                       *)
THEOREM OptionsInvariant == Spec => []OptionsInv
<1>1. OptionsInv /\ [Next]_vars => OptionsInv'
  <2> SUFFICES ASSUME OptionsInv, [Next]_vars PROVE OptionsInv'
    OBVIOUS
  <2>1. CASE Option
    BY <2>1, OptionKeeps
  <2>2. CASE EndOfOptions \/ DebugPrint \/ Over
    BY <2>2, LoopEndKeeps
  <2>3. CASE Checks
    BY <2>3, ChecksKeeps
  <2>4. CASE UNCHANGED vars
    BY <2>4 DEF vars, commandVars, OptionsInv, TypeOK, StartsHaveEnds, ReadView, CopyView,
                MarksView, NameView, NoCopyFrom, NoneSetsFrom
  <2> QED BY <2>1, <2>2, <2>3, <2>4 DEF Next
<1> QED BY <1>1, OptionsInit, PTL DEF Spec

(* The counters and pointers of main() keep their types.                   *)
THEOREM OptionsTypeCorrect == Spec => []TypeOK
<1>1. OptionsInv => TypeOK
  BY DEF OptionsInv
<1> QED BY <1>1, OptionsInvariant, PTL

(* A descriptor has a start string if and only if it has an end string,    *)
(* whatever --mark and --color were given and in whatever order.           *)
THEOREM StartsHaveEndsHolds == Spec => []StartsHaveEnds
<1>1. OptionsInv => StartsHaveEnds
  BY DEF OptionsInv
<1> QED BY <1>1, OptionsInvariant, PTL

(* The program is run only when every option was understood, and with the  *)
(* file of the last --copy, whatever the limit of errors is: the loop may  *)
(* end before the last option, but then it does not go on to run.          *)
THEOREM OnlyCleanRunsHolds == Spec => []OnlyCleanRuns
<1>1. OptionsInv => OnlyCleanRuns
  <2> SUFFICES ASSUME OptionsInv, pc = "run"
               PROVE  /\ \A i \in 1 .. Len(cmdline) :
                           Done(i) /\ cmdline[i].opt \notin {"unknown", "h", "V"}
                      /\ copy_fh <=> \E i \in 1 .. Len(cmdline) : cmdline[i].opt = "copy"
                      /\ \A f \in copy_fname : \E i \in 1 .. Len(cmdline) :
                           /\ cmdline[i] = [opt |-> "copy", arg |-> f]
                           /\ \A j \in i + 1 .. Len(cmdline) : cmdline[j].opt # "copy"
    BY DEF OnlyCleanRuns
  <2>1. cmdline \in Seq(Opts) /\ err_count = 0 /\ (copy_fh <=> copy_fname # NULL)
    BY DEF OptionsInv, ReadView
  <2>2. PICK n \in Nat : n = Len(cmdline)
    BY <2>1, LenProperties
  <2>3. optind = n + 1
    <3>1. optind > n
      BY <2>1, <2>2, ErrorsAssumption DEF OptionsInv, ReadView
    <3>2. optind \in 1 .. n + 1
      BY <2>2 DEF OptionsInv, TypeOK
    <3> QED BY <3>1, <3>2
  <2>4. \A i \in 1 .. n : i \in 1 .. optind - 1
    BY <2>3
  <2>5. \A i \in 1 .. n : Done(i) /\ cmdline[i].opt \notin {"unknown", "h", "V"}
    BY <2>1, <2>4 DEF OptionsInv, ReadView, Done
  <2>6. CASE copy_fname = NULL /\ NoCopyFrom(1)
    <3>1. \A i \in 1 .. n : cmdline[i].opt # "copy"
      BY <2>3, <2>6 DEF NoCopyFrom
    <3>2. \A f \in copy_fname : FALSE
      BY <2>6 DEF NULL
    <3> QED BY <2>1, <2>2, <2>5, <2>6, <3>1, <3>2
  <2>7. CASE \E i \in 1 .. optind - 1 :
               /\ cmdline[i].opt = "copy" /\ copy_fname = {cmdline[i].arg}
               /\ NoCopyFrom(i + 1)
    <3>1. PICK i \in 1 .. n : /\ cmdline[i].opt = "copy" /\ copy_fname = {cmdline[i].arg}
                              /\ NoCopyFrom(i + 1)
      BY <2>3, <2>7
    <3>2. cmdline[i] \in Opts
      BY <2>1, <2>2, ElementOfSeq
    <3>3. cmdline[i] = [opt |-> "copy", arg |-> cmdline[i].arg]
      BY <3>1, <3>2 DEF Opts
    <3>4. \A j \in i + 1 .. n : cmdline[j].opt # "copy"
      BY <2>3, <3>1 DEF NoCopyFrom
    <3>5. copy_fname # NULL /\ \A f \in copy_fname : f = cmdline[i].arg
      BY <3>1, Pointers
    <3> QED BY <2>1, <2>2, <2>5, <3>1, <3>3, <3>4, <3>5
  <2> QED BY <2>6, <2>7 DEF OptionsInv, CopyView
<1> QED BY <1>1, OptionsInvariant, PTL

(* MarksAreLast with the words of the comment at mark-write.c:29-33 taken  *)
(* to the letter: the end string is all that follows the second separator, *)
(* and so a third one that closes it, as in the example there, is kept.    *)
MarksToTheLetter ==
  \A fd \in Fds :
    LET setters == {i \in 1 .. Len(cmdline) : Done(i) /\ Sets(cmdline[i], fd)}
    IN  IF setters = {} THEN start[fd] = NULL /\ end[fd] = NULL
        ELSE LET last == CHOOSE i \in setters : \A j \in setters : j <= i
             IN  \E s \in start[fd], e \in end[fd] : AsksToTheLetter(cmdline[last], s, e)

(* How far the finding EndsAsExample reaches: no specification that is     *)
(* closed is read as the example means it, they are all read to the letter.*)
THEOREM LetterHolds == Spec => []MarksToTheLetter
<1>1. OptionsInv => MarksToTheLetter
  <2> SUFFICES ASSUME OptionsInv, NEW fd \in Fds
               PROVE  LET setters == {i \in 1 .. Len(cmdline) : Done(i) /\ Sets(cmdline[i], fd)}
                      IN  IF setters = {} THEN start[fd] = NULL /\ end[fd] = NULL
                          ELSE LET last == CHOOSE i \in setters : \A j \in setters : j <= i
                               IN  \E s \in start[fd], e \in end[fd] : AsksToTheLetter(cmdline[last], s, e)
    BY DEF MarksToTheLetter
  <2> DEFINE setters == {i \in 1 .. Len(cmdline) : Done(i) /\ Sets(cmdline[i], fd)}
             last == CHOOSE i \in setters : \A j \in setters : j <= i
  <2>1. PICK n \in Nat : n = Len(cmdline)
    BY LenProperties DEF OptionsInv, ReadView
  <2>2. optind \in 1 .. n + 1
    BY <2>1 DEF OptionsInv, TypeOK
  <2>3. setters = {i \in 1 .. optind - 1 : Sets(cmdline[i], fd)}
    <3>1. \A i : i \in 1 .. n /\ i \in 1 .. optind - 1 <=> i \in 1 .. optind - 1
      BY <2>2
    <3> QED BY <2>1, <3>1 DEF Done
  <2> HIDE DEF setters
  <2>4. ASSUME start[fd] = NULL, end[fd] = NULL, NoneSetsFrom(1, fd)
        PROVE  setters = {} /\ start[fd] = NULL /\ end[fd] = NULL
    BY <2>3, <2>4 DEF NoneSetsFrom
  <2>5. ASSUME NEW i \in 1 .. optind - 1, Sets(cmdline[i], fd), NoneSetsFrom(i + 1, fd),
               \E s \in start[fd], e \in end[fd] : AsksToTheLetter(cmdline[i], s, e)
        PROVE  setters # {} /\ \E s \in start[fd], e \in end[fd] : AsksToTheLetter(cmdline[last], s, e)
    <3>1. i \in setters /\ setters \subseteq Int
      BY <2>3, <2>5
    <3>2. \A j \in setters : j <= i
      <4> SUFFICES ASSUME NEW j \in setters, j > i PROVE FALSE
        BY <3>1
      <4>1. j \in i + 1 .. optind - 1 /\ Sets(cmdline[j], fd)
        BY <2>2, <2>3
      <4> QED BY <2>5, <4>1 DEF NoneSetsFrom
    <3>3. last \in setters /\ \A j \in setters : j <= last
      BY <3>1, <3>2
    <3> HIDE DEF last
    <3>4. last = i
      BY <3>1, <3>2, <3>3
    <3> QED BY <2>5, <3>1, <3>4
  <2>6. IF setters = {} THEN start[fd] = NULL /\ end[fd] = NULL
        ELSE \E s \in start[fd], e \in end[fd] : AsksToTheLetter(cmdline[last], s, e)
    <3> HIDE DEF last
    <3> QED BY <2>4, <2>5 DEF OptionsInv, MarksView
  <2> QED BY <2>6 DEF setters, last
<1> QED BY <1>1, OptionsInvariant, PTL

(* The marks of a descriptor are those that the last option about it asks  *)
(* for, cut at the separator the user chose; they are NULL if there is no  *)
(* such option.                                                            *)
THEOREM MarksAreLastHolds == Spec => []MarksAreLast
<1>1. ASSUME MarksToTheLetter PROVE MarksAreLast
  <2>1. \A o, s, e : AsksToTheLetter(o, s, e) => AsksFor(o, s, e)
    BY DEF AsksFor
  <2> SUFFICES ASSUME NEW fd \in Fds
               PROVE  LET setters == {i \in 1 .. Len(cmdline) : Done(i) /\ Sets(cmdline[i], fd)}
                      IN  IF setters = {} THEN start[fd] = NULL /\ end[fd] = NULL
                          ELSE LET last == CHOOSE i \in setters : \A j \in setters : j <= i
                               IN  \E s \in start[fd], e \in end[fd] : AsksFor(cmdline[last], s, e)
    BY DEF MarksAreLast
  <2> DEFINE setters == {i \in 1 .. Len(cmdline) : Done(i) /\ Sets(cmdline[i], fd)}
             last == CHOOSE i \in setters : \A j \in setters : j <= i
  <2>2. IF setters = {} THEN start[fd] = NULL /\ end[fd] = NULL
        ELSE \E s \in start[fd], e \in end[fd] : AsksToTheLetter(cmdline[last], s, e)
    BY <1>1 DEF MarksToTheLetter
  <2> HIDE DEF setters, last
  <2>3. IF setters = {} THEN start[fd] = NULL /\ end[fd] = NULL
        ELSE \E s \in start[fd], e \in end[fd] : AsksFor(cmdline[last], s, e)
    BY <2>1, <2>2, Zenon
  <2> QED BY <2>3 DEF setters, last
<1> QED BY <1>1, LetterHolds, PTL

(* The command is known by the last component of its path, of any length   *)
(* and with slashes anywhere, and has no name only if it has no path.      *)
THEOREM CommandNamedHolds == Spec => []CommandNamed
<1>1. OptionsInv => CommandNamed
  <2> SUFFICES ASSUME OptionsInv, pc = "run"
               PROVE  /\ cmd_name = NULL <=> command = << >>
                      /\ \A path \in cmd_path, name \in cmd_name :
                           /\ IsSuffix(name, path)
                           /\ name = << >> => path = << >>
                           /\ Len(name) < Len(path) => path[Len(path) - Len(name)] = "/"
                           /\ \A i \in 1 .. Len(name) - 1 : name[i] # "/"
    BY DEF CommandNamed
  <2>1. CASE cmd_path = NULL /\ cmd_name = NULL /\ command = << >>
    BY <2>1 DEF NULL
  <2>2. CASE command # << >> /\ cmd_path = {command[1]} /\ cmd_name = sname(cmd_path)
    <3>1. PICK path \in Seq(STRING) : cmd_path = {path} /\ cmd_name = sname({path})
      BY <2>2, CommandPath DEF OptionsInv, TypeOK
    <3> DEFINE name == SubSeq(path, SnameStart(path), Len(path))
    <3>2. /\ sname({path}) = {name} /\ IsSuffix(name, path)
          /\ name = << >> => path = << >>
          /\ Len(name) < Len(path) => path[Len(path) - Len(name)] = "/"
          /\ \A i \in 1 .. Len(name) - 1 : name[i] # "/"
      BY NameOfPath
    <3> HIDE DEF name
    <3>3. cmd_name # NULL
      BY <3>1, <3>2, Pointers
    <3>4. \A p \in cmd_path, q \in cmd_name : p = path /\ q = name
      BY <3>1, <3>2
    <3> QED BY <2>2, <3>2, <3>3, <3>4
  <2> QED BY <2>1, <2>2 DEF OptionsInv, NameView
<1> QED BY <1>1, OptionsInvariant, PTL

-----------------------------------------------------------------------------
(* How far the findings wide_char and debug_option reach.                  *)
LineInv == cmdline \in CommandLines /\ OptionsInv

LEMMA LineInvariant == Spec => []LineInv
<1>1. Init => cmdline \in CommandLines
  BY DEF Init
<1>2. cmdline \in CommandLines /\ [Next]_vars => (cmdline \in CommandLines)'
  BY DEF Next, Option, DebugPrint, EndOfOptions, Checks, Over, vars
<1>3. Spec => [](cmdline \in CommandLines)
  BY <1>1, <1>2, PTL DEF Spec
<1> QED BY <1>3, OptionsInvariant, PTL DEF LineInv

(* The buffer of fshow_str is large enough as long as no option and no     *)
(* word of the command has a char of 0x80 or more.                         *)
THEOREM NarrowReprFits ==
  ASSUME \A line \in CommandLines : \A i \in 1 .. Len(line) : "high" \notin Range(line[i].arg),
         \A words \in Commands : \A str \in Range(words) : "high" \notin Range(str)
  PROVE  Spec => []ReprFits
<1>1. Init => ReprFits
  BY DEF Init, ReprFits
<1>2. LineInv /\ ReprFits /\ [Next]_vars => ReprFits'
  <2> SUFFICES ASSUME LineInv, ReprFits, [Next]_vars PROVE ReprFits'
    OBVIOUS
  <2>1. dbuf \in Nat /\ dbuf <= 8
    BY DEF LineInv, OptionsInv, TypeOK, ReprFits
  <2>2. \A T : T \subseteq {2, 5} => Max({dbuf} \cup T) <= 8
    <3> SUFFICES ASSUME NEW T, T \subseteq {2, 5} PROVE Max({dbuf} \cup T) <= 8
      OBVIOUS
    <3>1. Max({dbuf} \cup T) \in {dbuf} \cup T
      BY <2>1, LargestOf
    <3>2. \A x \in {dbuf} \cup T : x <= 8
      <4>1. \A x \in {2, 5} : x <= 8
        OBVIOUS
      <4> QED BY <2>1, <4>1
    <3> QED BY <3>1, <3>2
  <2>3. CASE Option
    <3>1. cmdline \in Seq(Opts) /\ DOMAIN start = Fds /\ DOMAIN end = Fds
      BY DEF LineInv, OptionsInv, ReadView, MarksView
    <3>2. optind \in Nat \ {0}
      <4>1. PICK n \in Nat : n = Len(cmdline)
        BY <3>1, LenProperties
      <4> QED BY <4>1 DEF LineInv, OptionsInv, TypeOK
    <3>3. optind \in 1 .. Len(cmdline) /\ Effect(cmdline[optind])
      BY <2>3, <3>1, <3>2, OptionEffect
    <3>4. "high" \notin Range(cmdline[optind].arg)
      <4>1. cmdline \in CommandLines
        BY DEF LineInv
      <4>2. \A i \in 1 .. Len(cmdline) : "high" \notin Range(cmdline[i].arg)
        BY <4>1
      <4> QED BY <3>3, <4>2
    <3>5. ReprSizes(cmdline[optind].arg) \subseteq {2, 5}
      BY <3>4, ReprSizesFacts
    <3> QED BY <2>1, <2>2, <3>3, <3>5 DEF Effect, ReprFits
  <2>4. CASE Checks
    <3>1. CASE err_count # 0
      BY <2>1, <2>4, <3>1 DEF Checks, ReprFits
    <3>2. CASE err_count = 0
      <4> DEFINE T == UNION {ReprSizes(str) : str \in Range(command)}
      <4>1. SetCommand /\ verbose \in BOOLEAN /\ debug \in BOOLEAN
        BY <2>4, <3>2 DEF Checks, LineInv, OptionsInv, TypeOK
      <4>2. dbuf' = dbuf \/ dbuf' = Max({dbuf} \cup T)
        BY <2>1, <4>1, SetCommandFacts
      <4>3. \A str \in Range(command) : "high" \notin Range(str)
        BY DEF LineInv, OptionsInv, TypeOK
      <4>4. T \subseteq {2, 5}
        BY <4>3, ReprSizesFacts
      <4> HIDE DEF T
      <4> QED BY <2>1, <2>2, <4>2, <4>4 DEF ReprFits
    <3> QED BY <3>1, <3>2
  <2>5. CASE EndOfOptions \/ DebugPrint \/ Over \/ UNCHANGED vars
    BY <2>1, <2>5 DEF EndOfOptions, DebugPrint, Over, vars, ReprFits
  <2> QED BY <2>3, <2>4, <2>5 DEF Next
<1> QED BY <1>1, <1>2, LineInvariant, PTL DEF Spec

(* --debug is harmless as long as no other option comes after it.          *)
THEOREM LastDebugHasStream ==
  ASSUME \A line \in CommandLines : \A i \in 1 .. Len(line) - 1 : line[i].opt # "d"
  PROVE  Spec => []DebugHasStream
<1> DEFINE Inv == DebugHasStream /\ (debug => optind > Len(cmdline))
<1>1. Init => Inv
  BY DEF Init, DebugHasStream
<1>2. LineInv /\ Inv /\ [Next]_vars => Inv'
  <2> SUFFICES ASSUME LineInv, Inv, [Next]_vars PROVE Inv'
    OBVIOUS
  <2>1. PICK n \in Nat : n = Len(cmdline)
    BY LenProperties DEF LineInv, OptionsInv, ReadView
  <2>2. CASE Option
    <3>1. /\ optind \in 1 .. n /\ optind' = optind + 1 /\ cmdline' = cmdline
          /\ debug' = (debug \/ cmdline[optind].opt = "d")
      BY <2>1, <2>2 DEF Option, LineInv, OptionsInv, TypeOK
    <3>2. debug' => optind' > n
      <4>1. ~debug
        BY <2>2 DEF Option
      <4>2. ASSUME cmdline[optind].opt = "d" PROVE optind' > n
        <5>1. ~(optind \in 1 .. n - 1)
          BY <2>1, <4>2 DEF LineInv
        <5> QED BY <3>1, <5>1
      <4> QED BY <3>1, <4>1, <4>2, Zenon
    <3>3. pc' \in {"options", "exit"}
      <4>1. cmdline \in Seq(Opts) /\ DOMAIN start = Fds /\ DOMAIN end = Fds
        BY DEF LineInv, OptionsInv, ReadView, MarksView
      <4>2. optind \in Nat \ {0}
        BY <3>1
      <4>3. pc = "options" /\ Effect(cmdline[optind])
        BY <2>2, <4>1, <4>2, OptionEffect
      <4> QED BY <4>3 DEF Effect
    <3> QED BY <2>1, <3>1, <3>2, <3>3 DEF DebugHasStream
  <2>3. CASE DebugPrint
    <3>1. debug /\ optind <= n
      BY <2>1, <2>3 DEF DebugPrint
    <3>2. optind > n /\ optind \in Nat
      BY <2>1, <3>1 DEF LineInv, OptionsInv, TypeOK
    <3> QED BY <3>1, <3>2
  <2>4. CASE EndOfOptions \/ Checks \/ Over \/ UNCHANGED vars
    <3>1. UNCHANGED <<debug, optind, cmdline>>
      BY <2>4 DEF EndOfOptions, Checks, Over, vars
    <3>2. pc' # "crash"
      BY <2>4 DEF EndOfOptions, Checks, SetCommand, Exit, Over, vars, DebugHasStream
    <3> QED BY <3>1, <3>2 DEF DebugHasStream
  <2> QED BY <2>2, <2>3, <2>4 DEF Next
<1>3. Inv => DebugHasStream
  OBVIOUS
<1> QED BY <1>1, <1>2, <1>3, LineInvariant, PTL DEF Spec
=============================================================================
