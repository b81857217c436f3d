------------------------------ MODULE WireProofs ------------------------------
(***************************************************************************)
(* Lemmas about the byte streams of Wire: runs of bytes, the messages of a *)
(* stream, and sequences of runs that follow each other.                   *)
(***************************************************************************)
EXTENDS Wire, TLAPS, SequenceTheorems

-----------------------------------------------------------------------------
(* Runs of bytes.                                                          *)

LEMMA BytesFacts ==
    ASSUME NEW a \in Nat, NEW n \in Nat
    PROVE  /\ Bytes(a, n) \in Seq(Nat) /\ Len(Bytes(a, n)) = n
           /\ \A i \in 1 .. n : Bytes(a, n)[i] = a + i
           /\ Bytes(a, n) = <<>> <=> n = 0
<1>1. Bytes(a, n) \in [1 .. n -> Nat]  BY DEF Bytes
<1>2. Bytes(a, n) \in Seq(Nat)  BY <1>1, SeqDef
<1>3. Len(Bytes(a, n)) = n  BY <1>1, <1>2, LenProperties
<1>4. \A i \in 1 .. n : Bytes(a, n)[i] = a + i  BY DEF Bytes
<1>5. Bytes(a, n) = <<>> <=> n = 0  BY <1>2, <1>3, EmptySeq
<1>. QED  BY <1>2, <1>3, <1>4, <1>5

\* A sequence that agrees with a run in its length and its bytes is the run.
LEMMA BytesUnique ==
    ASSUME NEW a \in Nat, NEW s \in Seq(Nat), \A i \in 1 .. Len(s) : s[i] = a + i
    PROVE  s = Bytes(a, Len(s))
<1>1. Len(s) \in Nat  BY LenProperties
<1>. QED  BY <1>1, BytesFacts, SeqEqual

LEMMA BytesJoin ==
    ASSUME NEW a \in Nat, NEW m \in Nat, NEW n \in Nat
    PROVE  Bytes(a, m) \o Bytes(a + m, n) = Bytes(a, m + n)
<1> DEFINE s == Bytes(a, m) \o Bytes(a + m, n)
<1>0. a + m \in Nat /\ m + n \in Nat  OBVIOUS
<1>1. /\ Bytes(a, m) \in Seq(Nat) /\ Len(Bytes(a, m)) = m
      /\ \A i \in 1 .. m : Bytes(a, m)[i] = a + i
  BY BytesFacts
<1>2. /\ Bytes(a + m, n) \in Seq(Nat) /\ Len(Bytes(a + m, n)) = n
      /\ \A i \in 1 .. n : Bytes(a + m, n)[i] = (a + m) + i
  BY <1>0, BytesFacts
<1>3. /\ s \in Seq(Nat) /\ Len(s) = m + n
      /\ \A i \in 1 .. m + n :
            s[i] = IF i <= m THEN Bytes(a, m)[i] ELSE Bytes(a + m, n)[i - m]
  <2> DEFINE l == Bytes(a, m)
             r == Bytes(a + m, n)
  <2>1. l \in Seq(Nat) /\ r \in Seq(Nat) /\ Len(l) = m /\ Len(r) = n  BY <1>1, <1>2
  <2> HIDE DEF l, r
  <2>2. /\ l \o r \in Seq(Nat) /\ Len(l \o r) = m + n
        /\ \A i \in 1 .. m + n : (l \o r)[i] = IF i <= m THEN l[i] ELSE r[i - m]
    BY <2>1, ConcatProperties
  <2>. QED  BY <2>2 DEF l, r
<1>4. \A i \in 1 .. Len(s) : s[i] = a + i
  <2> SUFFICES ASSUME NEW i \in 1 .. m + n PROVE s[i] = a + i  BY <1>3
  <2>1. CASE i <= m  BY <1>1, <1>3, <2>1
  <2>2. CASE ~(i <= m)
    <3>1. i - m \in 1 .. n  BY <2>2
    <3>2. s[i] = Bytes(a + m, n)[i - m]  BY <1>3, <2>2
    <3>3. Bytes(a + m, n)[i - m] = (a + m) + (i - m)  BY <1>2, <3>1
    <3>4. (a + m) + (i - m) = a + i  OBVIOUS
    <3>. QED  BY <3>2, <3>3, <3>4
  <2>. QED  BY <2>1, <2>2
<1> HIDE DEF s
<1>5. s = Bytes(a, Len(s))  BY <1>3, <1>4, BytesUnique
<1>. QED  BY <1>3, <1>5 DEF s

LEMMA BytesCut ==
    ASSUME NEW a \in Nat, NEW n \in Nat, NEW i \in 0 .. n, NEW j \in i .. n
    PROVE  SubSeq(Bytes(a, n), i + 1, j) = Bytes(a + i, j - i)
<1> DEFINE s == SubSeq(Bytes(a, n), i + 1, j)
<1>1. \A l \in i + 1 .. j : Bytes(a, n)[l] \in Nat /\ Bytes(a, n)[l] = a + l
  <2> DEFINE r == Bytes(a, n)
  <2>1. \A l \in 1 .. n : r[l] = a + l  BY BytesFacts
  <2> HIDE DEF r
  <2>2. \A l \in i + 1 .. j : l \in 1 .. n  OBVIOUS
  <2>3. \A l \in i + 1 .. j : r[l] \in Nat /\ r[l] = a + l  BY <2>1, <2>2
  <2>. QED  BY <2>3 DEF r
<1>2. /\ s \in Seq(Nat) /\ Len(s) = IF i + 1 <= j THEN j - (i + 1) + 1 ELSE 0
      /\ \A l \in 1 .. j - (i + 1) + 1 : s[l] = Bytes(a, n)[(i + 1) + l - 1]
  <2>1. i + 1 \in Int /\ j \in Int  OBVIOUS
  <2>. QED  BY <1>1, <2>1, SubSeqProperties
<1>3. Len(s) = j - i  BY <1>2
<1>4. \A l \in 1 .. Len(s) : s[l] = (a + i) + l
  <2> SUFFICES ASSUME NEW l \in 1 .. j - i PROVE s[l] = (a + i) + l  BY <1>3
  <2>1. s[l] = Bytes(a, n)[i + l] /\ i + l \in i + 1 .. j  BY <1>2
  <2>. QED  BY <1>1, <2>1
<1> HIDE DEF s
<1>5. a + i \in Nat  OBVIOUS
<1>6. s = Bytes(a + i, Len(s))  BY <1>2, <1>4, <1>5, BytesUnique
<1>. QED  BY <1>3, <1>6 DEF s

\* A run says where it starts.
LEMMA BytesStart ==
    ASSUME NEW a \in Nat, NEW b \in Nat, NEW m \in Nat \ {0}, NEW n \in Nat,
           Bytes(a, m) = Bytes(b, n)
    PROVE  a = b /\ m = n
<1>1. m = n  BY BytesFacts
<1>2. Bytes(a, m)[1] = a + 1 /\ Bytes(b, m)[1] = b + 1  BY DEF Bytes
<1>. QED  BY <1>1, <1>2

-----------------------------------------------------------------------------
(* The messages of a stream.                                               *)

LEMMA StreamFacts ==
    ASSUME starts \in Streams
    PROVE  /\ starts \in Seq(Nat) /\ Len(starts) \in Nat \ {0} /\ DOMAIN starts = 1 .. Len(starts)
           /\ starts[1] = 0 /\ Total \in Nat
           /\ \A i \in DOMAIN starts : starts[i] \in Nat /\ starts[i] <= Total
           /\ \A i \in Messages : i \in DOMAIN starts /\ i + 1 \in DOMAIN starts
           /\ \A i \in Messages : BodyLen(i) \in Nat
           /\ \A i, j \in DOMAIN starts : starts[i] = starts[j] => i = j
           /\ \A i \in DOMAIN starts : starts[i] < Total => i \in Messages
<1>1. /\ starts \in Seq(Nat) /\ starts # <<>> /\ starts[1] = 0
      /\ \A i, j \in DOMAIN starts : i < j => starts[i] + HeadLen <= starts[j]
      /\ HeadLen \in Nat \ {0}
  BY SizesAssumption
<1>2. Len(starts) \in Nat \ {0} /\ DOMAIN starts = 1 .. Len(starts)
      /\ \A i \in DOMAIN starts : starts[i] \in Nat
  BY <1>1, EmptySeq, LenProperties, ElementOfSeq
<1>3. Total \in Nat  BY <1>2 DEF Total
<1>4. \A i \in DOMAIN starts : starts[i] <= Total
  <2> SUFFICES ASSUME NEW i \in DOMAIN starts PROVE starts[i] <= starts[Len(starts)]
    BY DEF Total
  <2>1. CASE i = Len(starts)  BY <1>2, <2>1
  <2>2. CASE i # Len(starts)
    <3>1. i < Len(starts) /\ Len(starts) \in DOMAIN starts  BY <1>2, <2>2
    <3>2. starts[i] + HeadLen <= starts[Len(starts)]  BY <1>1, <3>1
    <3>. QED  BY <1>1, <1>2, <3>1, <3>2
  <2>. QED  BY <2>1, <2>2
<1>5. \A i \in Messages : i \in DOMAIN starts /\ i + 1 \in DOMAIN starts
  BY <1>2 DEF Messages
<1>6. \A i \in Messages : BodyLen(i) \in Nat
  <2> SUFFICES ASSUME NEW i \in Messages PROVE starts[i + 1] - starts[i] - HeadLen \in Nat
    BY DEF BodyLen
  <2>1. i \in DOMAIN starts /\ i + 1 \in DOMAIN starts /\ i < i + 1  BY <1>2, <1>5
  <2>2. starts[i] + HeadLen <= starts[i + 1]  BY <1>1, <2>1
  <2>. QED  BY <1>1, <1>2, <2>1, <2>2
<1>7. \A i, j \in DOMAIN starts : starts[i] = starts[j] => i = j
  <2> SUFFICES ASSUME NEW i \in DOMAIN starts, NEW j \in DOMAIN starts, i < j
               PROVE  starts[i] # starts[j]
    BY <1>2
  <2>1. starts[i] + HeadLen <= starts[j]  BY <1>1
  <2>. QED  BY <1>1, <1>2, <2>1
<1>8. \A i \in DOMAIN starts : starts[i] < Total => i \in Messages
  BY <1>2, <1>3 DEF Messages, Total
<1>. QED  BY <1>1, <1>2, <1>3, <1>4, <1>5, <1>6, <1>7, <1>8

\* A whole head is understood.
LEMMA HeadIsParsed ==
    ASSUME starts \in Streams, NEW i \in Messages
    PROVE  ParseLen(Bytes(starts[i], HeadLen)) = BodyLen(i)
<1>1. HeadLen \in Nat \ {0}  BY SizesAssumption
<1>2. \A j \in Messages : j \in DOMAIN starts /\ starts[j] \in Nat  BY StreamFacts
<1> DEFINE h == Bytes(starts[i], HeadLen)
<1>3. \A j \in Messages : h = Bytes(starts[j], HeadLen) => j = i
  <2> SUFFICES ASSUME NEW j \in Messages, h = Bytes(starts[j], HeadLen) PROVE j = i  OBVIOUS
  <2>1. starts[i] = starts[j]  BY <1>1, <1>2, BytesStart
  <2>. QED  BY <1>2, <2>1, StreamFacts
<1>4. \E j \in Messages : h = Bytes(starts[j], HeadLen)  OBVIOUS
<1> HIDE DEF h
<1>5. (CHOOSE j \in Messages : h = Bytes(starts[j], HeadLen)) = i  BY <1>3, <1>4
<1>6. ParseLen(h) = BodyLen(i)  BY <1>4, <1>5 DEF ParseLen
<1>. QED  BY <1>6 DEF h

\* The reply to message i is message i.
LEMMA ReplyIsMessage ==
    ASSUME starts \in Streams, NEW i \in Messages
    PROVE  Frame(starts[i], Bytes(starts[i] + HeadLen, BodyLen(i)))
              = Bytes(starts[i], HeadLen + BodyLen(i))
<1>1. HeadLen \in Nat \ {0} /\ starts[i] \in Nat /\ BodyLen(i) \in Nat
  BY SizesAssumption, StreamFacts
<1>2. Len(Bytes(starts[i] + HeadLen, BodyLen(i))) = BodyLen(i)
  <2>1. starts[i] + HeadLen \in Nat  BY <1>1
  <2>. QED  BY <1>1, <2>1, BytesFacts
<1>. QED  BY <1>1, <1>2, HeadIsParsed, BytesJoin DEF Frame

-----------------------------------------------------------------------------
(* Runs in order.                                                          *)

Runs == Seq(Seq(Nat))

LEMMA RunFacts ==
    ASSUME NEW s \in Runs
    PROVE  /\ Len(s) \in Nat /\ DOMAIN s = 1 .. Len(s) /\ (s = <<>> <=> Len(s) = 0)
           /\ \A i \in DOMAIN s : /\ s[i] \in Seq(Nat) /\ Len(s[i]) \in Nat
                                  /\ s[i] # <<>> => s[i][1] \in Nat /\ Len(s[i]) > 0
<1>1. Len(s) \in Nat /\ DOMAIN s = 1 .. Len(s) /\ (s = <<>> <=> Len(s) = 0)
  BY LenProperties, EmptySeq DEF Runs
<1>2. \A i \in DOMAIN s : s[i] \in Seq(Nat)  BY <1>1, ElementOfSeq DEF Runs
<1>3. \A t \in Seq(Nat) : Len(t) \in Nat /\ (t # <<>> => t[1] \in Nat /\ Len(t) > 0)
  <2> SUFFICES ASSUME NEW t \in Seq(Nat)
               PROVE  Len(t) \in Nat /\ (t # <<>> => t[1] \in Nat /\ Len(t) > 0)
    OBVIOUS
  <2>1. Len(t) \in Nat /\ (t # <<>> => Len(t) \in Nat \ {0})  BY LenProperties, EmptySeq
  <2>2. t # <<>> => 1 \in 1 .. Len(t)  BY <2>1
  <2>. QED  BY <2>1, <2>2, ElementOfSeq
<1>. QED  BY <1>1, <1>2, <1>3

LEMMA NoRuns == ASSUME NEW a \in Nat PROVE InOrder(<<>>, a, a)
BY DEF InOrder, Begin

LEMMA NoRunsLeft == ASSUME NEW a, NEW b, InOrder(<<>>, a, b) PROVE a = b
BY DEF InOrder, Begin

\* The first run starts where the runs do.
LEMMA FirstRun ==
    ASSUME NEW s \in Runs, NEW a \in Nat, NEW b \in Nat, InOrder(s, a, b), s # <<>>
    PROVE  /\ Len(s[1]) \in Nat \ {0} /\ s[1] = Bytes(a, Len(s[1]))
           /\ Begin(s, 2, b) = a + Len(s[1])
<1>1. 1 \in DOMAIN s /\ Len(s) \in Nat  BY RunFacts
<1>2. Begin(s, 1, b) = a  BY DEF InOrder
<1>. QED  BY <1>1, <1>2, RunFacts DEF InOrder

LEMMA RunsAppend ==
    ASSUME NEW s \in Runs, NEW a \in Nat, NEW b \in Nat, NEW n \in Nat \ {0},
           InOrder(s, a, b)
    PROVE  Append(s, Bytes(b, n)) \in Runs /\ InOrder(Append(s, Bytes(b, n)), a, b + n)
<1> DEFINE r == Bytes(b, n)
           t == Append(s, r)
<1>1. r \in Seq(Nat) /\ Len(r) = n /\ r # <<>> /\ r[1] = b + 1
  <2>1. r[1] = b + 1  BY DEF Bytes
  <2>. QED  BY <2>1, BytesFacts
<1>2. Len(s) \in Nat /\ DOMAIN s = 1 .. Len(s)  BY RunFacts
<1>3. /\ t \in Runs /\ Len(t) = Len(s) + 1
      /\ \A i \in 1 .. Len(s) : t[i] = s[i]
      /\ t[Len(s) + 1] = r
  BY <1>1, AppendProperties DEF Runs
<1>4. DOMAIN t = 1 .. Len(s) + 1  BY <1>3, RunFacts
<1> HIDE DEF t
<1>5. \A i \in 1 .. Len(s) + 1 : Begin(t, i, b + n) = Begin(s, i, b)
  <2> SUFFICES ASSUME NEW i \in 1 .. Len(s) + 1 PROVE Begin(t, i, b + n) = Begin(s, i, b)
    OBVIOUS
  <2>1. CASE i <= Len(s)
    <3>1. t[i] = s[i]  BY <1>2, <1>3, <2>1
    <3>. QED  BY <1>2, <1>3, <2>1, <3>1 DEF Begin
  <2>2. CASE i = Len(s) + 1  BY <1>1, <1>2, <1>3, <2>2 DEF Begin
  <2>. QED  BY <1>2, <2>1, <2>2
<1>6. Begin(t, Len(s) + 2, b + n) = b + n  BY <1>2, <1>3 DEF Begin
<1>7. Begin(s, Len(s) + 1, b) = b  BY <1>2 DEF Begin
<1>8. \A i \in DOMAIN t : t[i] # <<>>  BY <1>1, <1>2, <1>3, <1>4 DEF InOrder
<1>9. ASSUME NEW i \in DOMAIN t
      PROVE  /\ t[i] = Bytes(Begin(t, i, b + n), Len(t[i]))
             /\ Begin(t, i + 1, b + n) = Begin(t, i, b + n) + Len(t[i])
  <2>1. CASE i \in 1 .. Len(s)
    <3>1. t[i] = s[i] /\ i + 1 \in 1 .. Len(s) + 1 /\ i \in 1 .. Len(s) + 1
      BY <1>2, <1>3, <2>1
    <3>2. /\ s[i] = Bytes(Begin(s, i, b), Len(s[i]))
          /\ Begin(s, i + 1, b) = Begin(s, i, b) + Len(s[i])
      BY <1>2, <2>1 DEF InOrder
    <3>. QED  BY <1>5, <3>1, <3>2
  <2>2. CASE i = Len(s) + 1
    <3>1. t[i] = r /\ Begin(t, i, b + n) = b  BY <1>2, <1>3, <1>5, <1>7, <2>2
    <3>2. i + 1 = Len(s) + 2  BY <1>2, <2>2
    <3>. QED  BY <1>1, <1>6, <3>1, <3>2
  <2>. QED  BY <1>2, <1>4, <2>1, <2>2
<1>10. Begin(t, 1, b + n) = a  BY <1>2, <1>5 DEF InOrder
<1>. QED  BY <1>3, <1>8, <1>9, <1>10 DEF InOrder, t

LEMMA RunsTail ==
    ASSUME NEW s \in Runs, NEW a \in Nat, NEW b \in Nat, InOrder(s, a, b), s # <<>>
    PROVE  Tail(s) \in Runs /\ InOrder(Tail(s), a + Len(s[1]), b)
<1> DEFINE t == Tail(s)
<1>1. Len(s) \in Nat /\ Len(s) > 0 /\ DOMAIN s = 1 .. Len(s)  BY RunFacts
<1>2. /\ t \in Runs /\ Len(t) = Len(s) - 1
      /\ \A i \in 1 .. Len(t) : t[i] = s[i + 1]
  BY HeadTailProperties DEF Runs
<1>3. DOMAIN t = 1 .. Len(s) - 1  BY <1>2, RunFacts
<1> HIDE DEF t
<1>4. \A i \in 1 .. Len(s) : Begin(t, i, b) = Begin(s, i + 1, b)
  BY <1>1, <1>2 DEF Begin
<1>5. \A i \in DOMAIN t : t[i] = s[i + 1] /\ i + 1 \in DOMAIN s /\ i \in 1 .. Len(s)
                          /\ i + 1 \in 1 .. Len(s)
  BY <1>1, <1>2, <1>3
<1>6. Begin(t, 1, b) = a + Len(s[1])  BY <1>1, <1>4, FirstRun
<1>7. \A i \in DOMAIN t : t[i] # <<>>  BY <1>5 DEF InOrder
<1>8. ASSUME NEW i \in DOMAIN t
      PROVE  /\ t[i] = Bytes(Begin(t, i, b), Len(t[i]))
             /\ Begin(t, i + 1, b) = Begin(t, i, b) + Len(t[i])
  BY <1>4, <1>5 DEF InOrder
<1>. QED  BY <1>2, <1>6, <1>7, <1>8 DEF InOrder, t

\* Some bytes of the first run are taken off.
LEMMA RunsCut ==
    ASSUME NEW s \in Runs, NEW a \in Nat, NEW b \in Nat, InOrder(s, a, b), s # <<>>,
           NEW n \in Nat, n < Len(s[1]), NEW t \in Runs, Len(t) = Len(s),
           t[1] = SubSeq(s[1], n + 1, Len(s[1])),
           \A i \in 2 .. Len(s) : t[i] = s[i]
    PROVE  InOrder(t, a + n, b)
<1>1. Len(s) \in Nat /\ Len(s) > 0 /\ DOMAIN s = 1 .. Len(s) /\ DOMAIN t = 1 .. Len(s)
  BY RunFacts
<1>2. /\ Len(s[1]) \in Nat \ {0} /\ s[1] = Bytes(a, Len(s[1]))
      /\ Begin(s, 2, b) = a + Len(s[1])
  BY FirstRun
<1>3. t[1] = Bytes(a + n, Len(s[1]) - n)
  <2> DEFINE l == Len(s[1])
  <2>1. l \in Nat /\ n \in 0 .. l /\ l \in n .. l  BY <1>2
  <2>2. t[1] = SubSeq(Bytes(a, l), n + 1, l)  BY <1>2
  <2> HIDE DEF l
  <2>3. t[1] = Bytes(a + n, l - n)  BY <2>1, <2>2, BytesCut
  <2>. QED  BY <2>3 DEF l
<1>4. Len(t[1]) = Len(s[1]) - n /\ t[1] # <<>> /\ t[1][1] = a + n + 1
  <2>1. Len(s[1]) - n \in Nat \ {0} /\ a + n \in Nat  BY <1>2
  <2>2. Len(t[1]) = Len(s[1]) - n /\ t[1] # <<>>
    <3> DEFINE c == a + n
               k == Len(s[1]) - n
    <3>1. c \in Nat /\ k \in Nat /\ k # 0 /\ t[1] = Bytes(c, k)  BY <1>3, <2>1
    <3> HIDE DEF c, k
    <3>2. Len(Bytes(c, k)) = k /\ Bytes(c, k) # <<>>  BY <3>1, BytesFacts
    <3>3. Len(t[1]) = k /\ t[1] # <<>>  BY <3>1, <3>2, Zenon
    <3>. QED  BY <3>3 DEF k
  <2>3. t[1][1] = a + n + 1  BY <1>3, <2>1 DEF Bytes
  <2>. QED  BY <2>2, <2>3
<1>5. Begin(t, 1, b) = a + n  BY <1>1, <1>4 DEF Begin
<1>6. \A i \in 2 .. Len(s) + 1 : Begin(t, i, b) = Begin(s, i, b)  BY <1>1 DEF Begin
<1>7. \A i \in DOMAIN t : t[i] # <<>>  BY <1>1, <1>4 DEF InOrder
<1>8. ASSUME NEW i \in DOMAIN t
      PROVE  /\ t[i] = Bytes(Begin(t, i, b), Len(t[i]))
             /\ Begin(t, i + 1, b) = Begin(t, i, b) + Len(t[i])
  <2>1. CASE i = 1
    <3>1. Begin(t, 2, b) = a + Len(s[1])  BY <1>1, <1>2, <1>6
    <3>2. t[1] = Bytes(Begin(t, 1, b), Len(t[1]))  BY <1>3, <1>4, <1>5
    <3>3. Begin(t, 2, b) = Begin(t, 1, b) + Len(t[1])  BY <1>2, <1>4, <1>5, <3>1
    <3>4. i + 1 = 2  BY <2>1
    <3>. QED  BY <2>1, <3>2, <3>3, <3>4
  <2>2. CASE i # 1
    <3>1. i \in 2 .. Len(s) /\ i \in 2 .. Len(s) + 1 /\ i + 1 \in 2 .. Len(s) + 1
      BY <1>1, <2>2
    <3>. QED  BY <1>1, <1>6, <3>1 DEF InOrder
  <2>. QED  BY <2>1, <2>2
<1>. QED  BY <1>5, <1>7, <1>8 DEF InOrder
=============================================================================
