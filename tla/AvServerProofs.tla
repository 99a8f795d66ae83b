--------------------------- MODULE AvServerProofs ---------------------------
(***************************************************************************)
(* Safety of the AV server, for every value of its constants: the type     *)
(* invariant, the framing of both directions of the connection, the end of *)
(* frame flag and the clean slate a connection leaves.  The framing lemmas *)
(* come first, then the inductive invariant, action by action.             *)
(***************************************************************************)
EXTENDS AvServer, SequenceTheorems, TLAPS

-----------------------------------------------------------------------------
(* Bytes and framing. *)

\* B is a set of bytes of messages whose size is a number.
IsBytes(B) == \A b \in B : b.pos \in Nat \ {0} /\ b.msg.size \in Nat

\* A slice of a message is a sequence of its bytes.
LEMMA BytesOfSeq ==
    ASSUME NEW B, NEW m, NEW f \in Nat \ {0}, NEW l \in Nat, f <= l + 1,
           \A p \in f .. l : Byte(m, p) \in B
    PROVE  BytesOf(m, f, l) \in Seq(B)
<1> DEFINE n == l - f + 1
           b == [i \in 1 .. n |-> Byte(m, f + i - 1)]
<1>1. n \in Nat
  OBVIOUS
<1>2. b \in [1 .. n -> B]
  <2> SUFFICES ASSUME NEW i \in 1 .. n PROVE Byte(m, f + i - 1) \in B
    BY Zenon
  <2>1. f + i - 1 \in f .. l
    OBVIOUS
  <2> QED
    BY <2>1
<1>3. b \in Seq(B)
  BY <1>1, <1>2
<1>4. QED
  BY <1>3 DEF BytesOf

\* Its length, and its bytes.
LEMMA BytesOfAt ==
    ASSUME NEW m, NEW f \in Nat \ {0}, NEW l \in Nat, f <= l + 1
    PROVE  /\ Len(BytesOf(m, f, l)) = l - f + 1
           /\ \A i \in 1 .. (l - f + 1) : BytesOf(m, f, l)[i] = Byte(m, f + i - 1)
<1> DEFINE n == l - f + 1
           C == {Byte(m, p) : p \in f .. l}
           b == BytesOf(m, f, l)
<1>1. n \in Nat
  OBVIOUS
<1>2. b \in Seq(C)
  <2>1. \A p \in f .. l : Byte(m, p) \in C
    OBVIOUS
  <2> HIDE DEF C
  <2>2. QED
    BY <2>1, BytesOfSeq
<1>3. DOMAIN b = 1 .. Len(b) /\ Len(b) \in Nat
  BY <1>2, LenProperties
<1>4. DOMAIN b = 1 .. n
  BY DEF BytesOf
<1>5. Len(b) = n
  BY <1>1, <1>3, <1>4
<1>6. \A i \in 1 .. n : b[i] = Byte(m, f + i - 1)
  BY DEF BytesOf
<1>7. QED
  BY <1>5, <1>6

\* Concatenation, index by index.
LEMMA ConcatAt ==
    ASSUME NEW B, NEW s \in Seq(B), NEW b \in Seq(B)
    PROVE  /\ s \o b \in Seq(B)
           /\ Len(s) \in Nat /\ Len(b) \in Nat
           /\ Len(s \o b) = Len(s) + Len(b)
           /\ \A i \in 1 .. Len(s) : (s \o b)[i] = s[i]
           /\ \A i \in Len(s) + 1 .. Len(s) + Len(b) : (s \o b)[i] = b[i - Len(s)]
<1> DEFINE t == s \o b
<1>1. /\ t \in Seq(B)
      /\ Len(t) = Len(s) + Len(b)
      /\ \A i \in 1 .. Len(s) + Len(b) :
            t[i] = IF i <= Len(s) THEN s[i] ELSE b[i - Len(s)]
  BY ConcatProperties, Zenon
<1>2. Len(s) \in Nat /\ Len(b) \in Nat
  BY LenProperties
<1> HIDE DEF t
<1>3. ASSUME NEW i \in 1 .. Len(s) PROVE t[i] = s[i]
  BY <1>1, <1>2
<1>4. ASSUME NEW i \in Len(s) + 1 .. Len(s) + Len(b) PROVE t[i] = b[i - Len(s)]
  BY <1>1, <1>2
<1>5. QED
  BY <1>1, <1>2, <1>3, <1>4 DEF t

\* Going on with the message under way, or starting one at a boundary, keeps a
\* stream framed.
LEMMA FramedAppend ==
    ASSUME NEW B, IsBytes(B), NEW s \in Seq(B), Framed(s),
           NEW m, m.size \in Nat,
           NEW f \in Nat \ {0}, NEW l \in Nat, f <= l + 1, l <= m.size,
           \A p \in f .. l : Byte(m, p) \in B,
           (f = 1 /\ AtStart(s)) \/ After(s, m, f - 1)
    PROVE  /\ Framed(s \o BytesOf(m, f, l))
           /\ s \o BytesOf(m, f, l) \in Seq(B)
           /\ f <= l => After(s \o BytesOf(m, f, l), m, l)
<1> DEFINE b == BytesOf(m, f, l)
           t == s \o b
           L == Len(s)
           T == Len(t)
<1>1. /\ b \in Seq(B)
      /\ Len(b) = l - f + 1
      /\ \A i \in 1 .. (l - f + 1) : b[i] = Byte(m, f + i - 1)
  BY BytesOfSeq, BytesOfAt
<1> HIDE DEF b
<1>2. /\ t \in Seq(B) /\ L \in Nat /\ T = L + (l - f + 1)
      /\ \A i \in 1 .. L : t[i] = s[i]
      /\ \A i \in L + 1 .. L + (l - f + 1) : t[i] = b[i - L]
  <2>1. /\ t \in Seq(B) /\ Len(s) \in Nat
        /\ Len(t) = Len(s) + Len(b)
        /\ \A i \in 1 .. Len(s) : t[i] = s[i]
        /\ \A i \in Len(s) + 1 .. Len(s) + Len(b) : t[i] = b[i - Len(s)]
    BY <1>1, ConcatAt, Zenon
  <2> HIDE DEF t
  <2>2. QED
    BY <1>1, <2>1, Zenon
<1> HIDE DEF t
<1>3. /\ \A i \in 1 .. L : s[i] \in B
      /\ s # <<>> <=> L > 0
      /\ t # <<>> <=> T > 0
  BY <1>2, ElementOfSeq, EmptySeq
<1> HIDE DEF L, T
<1>4. ASSUME NEW i \in L + 1 .. T PROVE t[i] = Byte(m, f + i - L - 1)
  <2>1. i - L \in 1 .. (l - f + 1) /\ i \in L + 1 .. L + (l - f + 1)
    BY <1>2
  <2>2. f + (i - L) - 1 = f + i - L - 1
    BY <1>2
  <2>3. QED
    BY <1>1, <1>2, <2>1, <2>2
<1>5. T \in Nat /\ L <= T
  BY <1>2
<1>6. ASSUME NEW i \in 1 .. L
      PROVE  /\ t[i] = s[i] /\ s[i].pos \in Nat \ {0} /\ s[i].msg.size \in Nat
             /\ s[i].pos <= s[i].msg.size
             /\ \A j \in i .. L : RunsOn(s, i, j)
  BY <1>2, <1>3 DEF IsBytes, Framed, L
<1>7. t # <<>> => t[1].pos = 1
  <2>1. CASE s = <<>>
    <3>1. L = 0
      BY <2>1, <1>3, <1>2
    <3>2. f = 1
      BY <2>1 DEF After
    <3>3. T > 0 => t[1] = Byte(m, 1)
      BY <1>4, <1>5, <3>1, <3>2
    <3>4. QED
      BY <3>3, <1>3 DEF Byte
  <2>2. CASE s # <<>>
    BY <2>2, <1>2, <1>3 DEF Framed
  <2>3. QED
    BY <2>1, <2>2
<1>8. ASSUME NEW i \in 1 .. T, NEW j \in i .. T PROVE RunsOn(t, i, j)
  <2>1. CASE i > L
    <3>1. t[i] = Byte(m, f + i - L - 1) /\ t[j] = Byte(m, f + j - L - 1)
      <4>1. i \in L + 1 .. T /\ j \in L + 1 .. T
        BY <1>2, <1>5, <2>1
      <4>2. QED
        BY <1>4, <4>1
    <3>2. f + j - L - 1 <= m.size
      BY <1>2
    <3>3. t[i].msg = m /\ t[i].pos = f + i - L - 1
      BY <3>1 DEF Byte
    <3>4. t[i].pos + j - i = f + j - L - 1
      BY <3>3, <1>2
    <3>5. QED
      BY <3>1, <3>2, <3>3, <3>4 DEF RunsOn
  <2>2. CASE j <= L
    <3>1. i \in 1 .. L /\ j \in i .. L /\ j \in 1 .. L
      BY <1>2, <2>2
    <3>2. t[i] = s[i] /\ t[j] = s[j] /\ RunsOn(s, i, j)
      BY <1>6, <3>1
    <3>3. QED
      BY <3>2 DEF RunsOn
  <2>3. CASE i <= L /\ j > L
    <3> DEFINE pos == s[i].pos
               size == s[i].msg.size
    <3>1. i \in 1 .. L /\ L \in i .. L /\ L \in 1 .. L /\ s # <<>>
      BY <1>2, <1>3, <2>3
    <3>2. t[i] = s[i] /\ pos \in Nat /\ size \in Nat /\ RunsOn(s, i, L)
      BY <1>6, <3>1
    <3>3. t[j] = Byte(m, f + j - L - 1)
      BY <1>4, <2>3, <1>5, <1>2
    <3>4. pos + L - i <= size => s[L].msg = s[i].msg /\ s[L].pos = pos + L - i
      BY <3>2 DEF RunsOn, Byte
    <3> HIDE DEF pos, size
    <3>5. CASE f = 1 /\ AtStart(s)
      <4>1. s[L].pos = s[L].msg.size
        BY <3>1, <3>5 DEF AtStart, L
      <4>2. ~(pos + L - i < size)
        <5> SUFFICES ASSUME pos + L - i < size PROVE FALSE
          OBVIOUS
        <5>1. pos + L - i <= size
          BY <3>2, <3>1, <1>2
        <5>2. s[L].msg.size = size
          BY <5>1, <3>4 DEF size
        <5>3. QED
          BY <5>1, <5>2, <3>4, <4>1, <3>2, <1>2
      <4>3. pos + j - i > size
        BY <4>2, <2>3, <1>2, <3>2
      <4>4. pos + j - i = size + 1 => j = L + 1
        BY <4>2, <2>3, <1>2, <3>2
      <4>5. j = L + 1 => t[j].pos = 1
        BY <3>3, <3>5, <1>2 DEF Byte
      <4>6. QED
        BY <4>3, <4>4, <4>5, <3>2 DEF RunsOn, pos, size
    <3>6. CASE After(s, m, f - 1)
      <4>1. s[L].msg = m /\ s[L].pos = f - 1
        BY <3>6 DEF After, Byte, L
      <4>2. CASE pos + L - i <= size
        <5>1. m = s[i].msg /\ pos + L - i = f - 1
          BY <4>1, <4>2, <3>4
        <5>2. m.size = size
          BY <5>1 DEF size
        <5>3. pos + j - i = f + j - L - 1
          <6>1. pos = f - 1 - L + i
            BY <5>1, <3>2, <3>1, <1>2
          <6>2. QED
            BY <6>1, <1>2, <2>3
        <5>4. f + j - L - 1 <= size
          BY <5>2, <1>2
        <5>5. t[j] = Byte(t[i].msg, pos + j - i)
          BY <3>2, <3>3, <5>1, <5>3
        <5>6. QED
          BY <5>3, <5>4, <5>5, <3>2 DEF RunsOn, pos, size
      <4>3. CASE ~(pos + L - i <= size)
        <5>1. pos + j - i > size + 1
          BY <4>3, <2>3, <1>2, <3>2
        <5>2. ~(pos + j - i <= size) /\ pos + j - i # size + 1
          BY <5>1, <3>2, <1>2
        <5>3. QED
          BY <5>2, <3>2 DEF RunsOn, pos, size
      <4>4. QED
        BY <4>2, <4>3
    <3>7. QED
      BY <3>5, <3>6
  <2>4. QED
    BY <2>1, <2>2, <2>3, <1>2
<1>9. ASSUME NEW i \in 1 .. T PROVE t[i].pos <= t[i].msg.size
  <2>1. CASE i > L
    <3>1. t[i] = Byte(m, f + i - L - 1)
      BY <1>4, <1>5, <2>1, <1>2
    <3>2. f + i - L - 1 <= m.size
      BY <1>2
    <3>3. QED
      BY <3>1, <3>2 DEF Byte
  <2>2. CASE i <= L
    <3>1. i \in 1 .. L
      BY <1>2, <2>2
    <3>2. QED
      BY <1>6, <3>1
  <2>3. QED
    BY <2>1, <2>2, <1>2
<1>10. Framed(t)
  BY <1>7, <1>8, <1>9 DEF Framed, T
<1>11. f <= l => After(t, m, l)
  <2> SUFFICES ASSUME f <= l PROVE After(t, m, l)
    OBVIOUS
  <2>1. T \in L + 1 .. T /\ f + T - L - 1 = l
    BY <1>2
  <2>2. t[T] = Byte(m, l)
    BY <1>4, <2>1
  <2>3. QED
    BY <2>1, <2>2, <1>2, <1>3 DEF After, T
<1>12. QED
  BY <1>2, <1>10, <1>11 DEF t, b

\* Dropping whole messages from the front keeps a stream framed.
LEMMA FramedDrop ==
    ASSUME NEW B, IsBytes(B), NEW s \in Seq(B), Framed(s), AtStart(s),
           NEW n \in 1 .. Len(s), s[n].pos = s[n].msg.size
    PROVE  LET t == SubSeq(s, n + 1, Len(s))
           IN  t \in Seq(B) /\ Framed(t) /\ AtStart(t)
<1> DEFINE t == SubSeq(s, n + 1, Len(s))
           L == Len(s)
<1>1. L \in Nat /\ n \in Nat /\ n <= L /\ \A i \in 1 .. L : s[i] \in B
  BY LenProperties, ElementOfSeq
<1>2. /\ t \in Seq(B)
      /\ Len(t) = IF n + 1 <= L THEN L - (n + 1) + 1 ELSE 0
      /\ \A i \in 1 .. L - (n + 1) + 1 : t[i] = s[(n + 1) + i - 1]
  <2>1. \A i \in n + 1 .. L : s[i] \in B
    BY <1>1
  <2>2. n + 1 \in Int /\ L \in Int
    BY <1>1
  <2>3. QED
    BY <2>1, <2>2, SubSeqProperties
<1> HIDE DEF t
<1>3. Len(t) = L - n /\ Len(t) \in Nat
  BY <1>1, <1>2
<1>4. ASSUME NEW i \in 1 .. L - n
      PROVE  /\ t[i] = s[n + i] /\ n + i \in 1 .. L
             /\ s[n + i].pos <= s[n + i].msg.size
             /\ \A j \in i .. L - n : RunsOn(s, n + i, n + j)
  <2>1. n + i \in 1 .. L /\ (n + 1) + i - 1 = n + i
    BY <1>1
  <2>2. \A j \in i .. L - n : n + j \in n + i .. L
    BY <1>1
  <2>3. QED
    BY <1>2, <2>1, <2>2 DEF Framed
<1>5. ASSUME NEW i \in 1 .. Len(t), NEW j \in i .. Len(t) PROVE RunsOn(t, i, j)
  <2>1. i \in 1 .. L - n /\ j \in 1 .. L - n /\ j \in i .. L - n
    BY <1>1, <1>3
  <2>2. t[i] = s[n + i] /\ t[j] = s[n + j] /\ RunsOn(s, n + i, n + j)
    BY <1>4, <2>1
  <2>3. s[n + i].pos \in Nat
    BY <1>1, <1>4, <2>1 DEF IsBytes
  <2>4. s[n + i].pos + (n + j) - (n + i) = s[n + i].pos + j - i
    BY <1>1, <2>1, <2>3
  <2>5. QED
    BY <2>2, <2>4 DEF RunsOn
<1>6. t # <<>> => t[1].pos = 1
  <2> SUFFICES ASSUME t # <<>> PROVE t[1].pos = 1
    OBVIOUS
  <2>1. 1 \in 1 .. L - n /\ n + 1 \in n .. L /\ n \in 1 .. L
    BY <1>1, <1>2, <1>3, EmptySeq
  <2>2. RunsOn(s, n, n + 1)
    BY <2>1 DEF Framed
  <2>3. s[n].pos + (n + 1) - n = s[n].msg.size + 1
    BY <1>1, <2>1 DEF IsBytes
  <2>4. QED
    BY <1>4, <2>1, <2>2, <2>3 DEF RunsOn
<1>7. Framed(t)
  BY <1>3, <1>4, <1>5, <1>6 DEF Framed
<1>8. AtStart(t)
  <2> SUFFICES ASSUME t # <<>> PROVE t[Len(t)].pos = t[Len(t)].msg.size
    BY DEF AtStart
  <2>1. Len(t) \in 1 .. L - n /\ n + Len(t) = L /\ s # <<>>
    BY <1>1, <1>2, <1>3, EmptySeq
  <2>2. t[Len(t)] = s[L]
    BY <1>4, <2>1
  <2>3. QED
    BY <2>1, <2>2 DEF AtStart
<1>9. QED
  BY <1>2, <1>7, <1>8 DEF t

\* The message at the front of a framed stream ends where its size says.
LEMMA FramedFront ==
    ASSUME NEW B, IsBytes(B), NEW s \in Seq(B), Framed(s), s # <<>>,
           s[1].msg.size \in 1 .. Len(s)
    PROVE  LET z == s[1].msg.size IN s[z].pos = z /\ s[z].msg = s[1].msg
<1> DEFINE z == s[1].msg.size
<1>1. 1 \in 1 .. Len(s) /\ z \in 1 .. Len(s) /\ Len(s) \in Nat
  BY EmptySeq
<1>2. s[1].pos = 1 /\ RunsOn(s, 1, z)
  BY <1>1 DEF Framed
<1>3. s[1].pos + z - 1 = z
  BY <1>1, <1>2
<1>4. QED
  BY <1>1, <1>2, <1>3 DEF RunsOn, Byte

\* Dropping from the front of s drops from the front of s \o b.
LEMMA DropConcat ==
    ASSUME NEW B, NEW s \in Seq(B), NEW b \in Seq(B), NEW n \in 0 .. Len(s)
    PROVE  /\ SubSeq(s, n + 1, Len(s)) \in Seq(B)
           /\ Len(SubSeq(s, n + 1, Len(s))) = Len(s) - n
           /\ SubSeq(s, n + 1, Len(s)) \o b = SubSeq(s \o b, n + 1, Len(s \o b))
<1> DEFINE t == s \o b
           u == SubSeq(s, n + 1, Len(s))
           v == SubSeq(t, n + 1, Len(t))
           L == Len(s)
           M == Len(b)
<1>1. /\ t \in Seq(B) /\ L \in Nat /\ M \in Nat /\ Len(t) = L + M
      /\ \A i \in 1 .. L : t[i] = s[i]
      /\ \A i \in L + 1 .. L + M : t[i] = b[i - L]
  BY ConcatAt
<1>2. /\ \A i \in 1 .. L : s[i] \in B
      /\ \A i \in 1 .. M : b[i] \in B
      /\ \A i \in 1 .. Len(t) : t[i] \in B
  BY <1>1, ElementOfSeq
<1>3. n \in Nat /\ n <= L
  BY <1>1
<1> HIDE DEF t, M
<1>4. /\ u \in Seq(B)
      /\ Len(u) = L - n
      /\ \A i \in 1 .. L - n : u[i] = s[n + i]
  <2>1. \A i \in n + 1 .. L : s[i] \in B
    BY <1>2, <1>3
  <2>2. n + 1 \in Int /\ L \in Int
    BY <1>1, <1>3
  <2>3. /\ u \in Seq(B)
        /\ Len(u) = IF n + 1 <= L THEN L - (n + 1) + 1 ELSE 0
        /\ \A i \in 1 .. L - (n + 1) + 1 : u[i] = s[(n + 1) + i - 1]
    BY <2>1, <2>2, SubSeqProperties
  <2> HIDE DEF u, L
  <2>4. ASSUME NEW i \in 1 .. L - n PROVE u[i] = s[n + i]
    <3>1. i \in 1 .. L - (n + 1) + 1 /\ (n + 1) + i - 1 = n + i
      BY <1>1, <1>3
    <3>2. QED
      BY <2>3, <3>1
  <2>5. Len(u) = L - n
    BY <2>3, <1>1, <1>3
  <2>6. QED
    BY <2>3, <2>4, <2>5
<1>5. /\ v \in Seq(B)
      /\ Len(v) = L + M - n
      /\ \A i \in 1 .. L + M - n : v[i] = t[n + i]
  <2> DEFINE T == Len(t)
  <2>1. \A i \in n + 1 .. T : t[i] \in B
    BY <1>1, <1>2, <1>3
  <2>2. n + 1 \in Int /\ T \in Int
    BY <1>1, <1>3
  <2>3. /\ v \in Seq(B)
        /\ Len(v) = IF n + 1 <= T THEN T - (n + 1) + 1 ELSE 0
        /\ \A i \in 1 .. T - (n + 1) + 1 : v[i] = t[(n + 1) + i - 1]
    BY <2>1, <2>2, SubSeqProperties
  <2>4. T = L + M
    BY <1>1
  <2> HIDE DEF v, T, L
  <2>5. ASSUME NEW i \in 1 .. L + M - n PROVE v[i] = t[n + i]
    <3>1. i \in 1 .. T - (n + 1) + 1 /\ (n + 1) + i - 1 = n + i
      BY <1>1, <1>3, <2>4
    <3>2. QED
      BY <2>3, <3>1
  <2>6. Len(v) = L + M - n
    BY <2>3, <2>4, <1>1, <1>3
  <2>7. QED
    BY <2>3, <2>5, <2>6
<1> HIDE DEF u, v
<1>6. /\ u \o b \in Seq(B) /\ Len(u \o b) = (L - n) + M
      /\ \A i \in 1 .. Len(u) : (u \o b)[i] = u[i]
      /\ \A i \in Len(u) + 1 .. Len(u) + M : (u \o b)[i] = b[i - Len(u)]
  BY <1>4, ConcatAt DEF M
<1> HIDE DEF L
<1>7. ASSUME NEW i \in 1 .. L + M - n PROVE (u \o b)[i] = v[i]
  <2>1. CASE i <= L - n
    <3>1. i \in 1 .. L - n /\ n + i \in 1 .. L
      BY <1>1, <1>3, <2>1
    <3>2. QED
      BY <1>1, <1>4, <1>5, <1>6, <3>1
  <2>2. CASE i > L - n
    <3>1. /\ i \in Len(u) + 1 .. Len(u) + M /\ n + i \in L + 1 .. L + M
          /\ i - Len(u) = n + i - L
      BY <1>1, <1>3, <1>4, <2>2
    <3>2. (u \o b)[i] = b[i - Len(u)]
      BY <1>6, <3>1
    <3>3. v[i] = t[n + i] /\ t[n + i] = b[n + i - L]
      BY <1>1, <1>5, <3>1
    <3>4. QED
      BY <3>1, <3>2, <3>3
  <2>3. i <= L - n \/ i > L - n
    BY <1>1, <1>3
  <2>4. QED
    BY <2>1, <2>2, <2>3
<1>8. Len(u \o b) = Len(v) /\ Len(v) = L + M - n
  BY <1>1, <1>3, <1>5, <1>6
<1>9. u \o b = v
  BY <1>5, <1>6, <1>7, <1>8, SeqEqual
<1>10. QED
  BY <1>4, <1>9 DEF u, v, t, L

MovesAlong(s, b, n) ==
    (s \o SubSeq(b, 1, n)) \o SubSeq(b, n + 1, Len(b)) = s \o b

\* Moving a prefix of b to the end of s leaves s \o b as it was.
LEMMA MovePrefix ==
    ASSUME NEW B, NEW s \in Seq(B), NEW b \in Seq(B), NEW n \in 1 .. Len(b)
    PROVE  /\ s \o SubSeq(b, 1, n) \in Seq(B)
           /\ SubSeq(b, n + 1, Len(b)) \in Seq(B)
           /\ Len(s \o SubSeq(b, 1, n)) = Len(s) + n
           /\ MovesAlong(s, b, n)
<1> DEFINE c == SubSeq(b, 1, n)
           d == SubSeq(b, n + 1, Len(b))
<1>1. Len(b) \in Nat /\ \A i \in 1 .. Len(b) : b[i] \in B
  BY LenProperties, ElementOfSeq
<1>2. c \in Seq(B) /\ Len(c) = n
  <2>1. \A i \in 1 .. n : b[i] \in B
    BY <1>1
  <2>2. /\ SubSeq(b, 1, n) \in Seq(B)
        /\ Len(SubSeq(b, 1, n)) = IF 1 <= n THEN n - 1 + 1 ELSE 0
    BY <2>1, SubSeqProperties
  <2>3. QED
    BY <2>2
<1>3. d \in Seq(B)
  <2>1. \A i \in n + 1 .. Len(b) : b[i] \in B
    BY <1>1
  <2>2. n + 1 \in Int /\ Len(b) \in Int
    BY <1>1
  <2>3. QED
    BY <2>1, <2>2, SubSeqProperties
<1>4. b = c \o d
  <2>1. /\ 1 \in 1 .. Len(b) + 1 /\ n \in 1 - 1 .. Len(b) /\ Len(b) \in n .. Len(b)
    BY <1>1
  <2>2. c \o SubSeq(b, n + 1, Len(b)) = SubSeq(b, 1, Len(b))
    BY <2>1, ConcatAdjacentSubSeq
  <2>3. QED
    BY <2>2, SubSeqFull
<1> HIDE DEF c, d
<1>5. (s \o c) \o d = s \o (c \o d)
  BY <1>2, <1>3, ConcatAssociative, SMTT(30)
<1>6. (s \o c) \o d = s \o b
  BY <1>4, <1>5
<1>7. s \o c \in Seq(B) /\ Len(s \o c) = Len(s) + n
  BY <1>2, ConcatAt
<1>8. QED
  <2>1. MovesAlong(s, b, n)
    BY <1>6 DEF c, d, MovesAlong
  <2>2. QED
    BY <1>3, <1>7, <2>1 DEF c, d

-----------------------------------------------------------------------------
(* The messages of the protocol. *)

LEMMA ClientMsgSize ==
    ASSUME NEW m \in ClientMsgs
    PROVE  m.size \in Nat \ {0} /\ m.kind # "data"
BY ConstantsAssumption DEF ClientMsgs

LEMMA OutMsgSize ==
    ASSUME NEW m \in OutMsgs
    PROVE  m.size \in Nat \ {0}
BY ConstantsAssumption DEF OutMsgs, HandshakeMsg

LEMMA Bytes ==
    /\ IsBytes(InByte)
    /\ IsBytes(OutByte)
    /\ \A m \in ClientMsgs, p \in Nat \ {0} : Byte(m, p) \in InByte
    /\ \A m \in OutMsgs, p \in Nat \ {0} : Byte(m, p) \in OutByte
<1>1. IsBytes(InByte)
  BY ClientMsgSize DEF IsBytes, InByte
<1>2. IsBytes(OutByte)
  BY OutMsgSize DEF IsBytes, OutByte
<1>3. \A m \in ClientMsgs, p \in Nat \ {0} : Byte(m, p) \in InByte
  BY DEF Byte, InByte
<1>4. \A m \in OutMsgs, p \in Nat \ {0} : Byte(m, p) \in OutByte
  BY DEF Byte, OutByte
<1>5. QED
  BY <1>1, <1>2, <1>3, <1>4

LEMMA RxCapNat == RxCap \in Nat /\ HeaderLen <= RxCap /\ RxCap > 0
BY ConstantsAssumption DEF RxCap

-----------------------------------------------------------------------------
(* What on_writable sends. *)

LEMMA OutgoingFacts ==
    ASSUME IInv, Writing
    PROVE  /\ client
           /\ Outgoing.msg \in OutMsgs
           /\ Outgoing.off \in Nat /\ Outgoing.off < Outgoing.msg.size
           /\ Outgoing.due \in 0 .. HandshakesMax
           /\ Outgoing.sent \in 0 .. frame.len
           /\ Outgoing.chunk \in Nat
           /\ Outgoing.last \in BOOLEAN
           /\ frame = NoFrame => Outgoing.sent = 0
           /\ frame # NoFrame /\ ~Outgoing.last => Outgoing.sent < frame.len
           /\ Outgoing.last => /\ frame # NoFrame /\ Outgoing.sent = frame.len
                               /\ Outgoing.msg.kind = "data" /\ Outgoing.msg.last
           /\ \/ Outgoing.off = 0 /\ AtStart(wire)
              \/ Outgoing.off > 0 /\ After(wire, Outgoing.msg, Outgoing.off)
<1>1. client
  BY DEF IInv, FrameInv, NothingOutlivesClient, Writing
<1>2. /\ msg \in OutMsgs \cup {NoMsg} /\ off \in 0 .. msg.size
      /\ NoMsg.size = 0 /\ (msg # NoMsg => msg.size \in Nat \ {0})
  BY OutMsgSize DEF IInv, TypeOK, NoMsg
<1>3. CASE ~AtBoundary
  <2>1. /\ Outgoing = [msg |-> msg, off |-> off, due |-> due,
                       sent |-> frameSent, last |-> lastBuilt, chunk |-> chunk]
        /\ off \in Nat /\ off < msg.size /\ msg \in OutMsgs
    BY <1>2, <1>3 DEF Outgoing, AtBoundary
  <2>2. \/ off = 0 /\ AtStart(wire)
        \/ off > 0 /\ After(wire, msg, off)
    <3>1. msg.size \in Nat
      BY <2>1, OutMsgSize
    <3>2. CASE off = 0
      BY <1>1, <3>2 DEF IInv, WireInv
    <3>3. CASE off > 0
      <4>1. off \in 1 .. msg.size - 1
        BY <2>1, <3>1, <3>3
      <4>2. QED
        BY <1>1, <3>3, <4>1 DEF IInv, WireInv
    <3>4. QED
      BY <2>1, <3>2, <3>3
  <2>3. QED
    BY <1>1, <2>1, <2>2 DEF IInv, TypeOK, FrameInv, LastBuiltInFlight
<1>4. CASE AtBoundary
  <2>1. off = msg.size /\ ~lastBuilt /\ off \in Nat
    BY <1>2, <1>4 DEF AtBoundary, IInv, FrameInv, LastBuiltInFlight
  <2>2. AtStart(wire)
    BY <1>1, <1>2, <2>1 DEF IInv, WireInv
  <2>3. CASE due > 0
    <3>1. /\ Outgoing.msg = HandshakeMsg /\ Outgoing.off = 0
          /\ Outgoing.due = due - 1 /\ Outgoing.sent = frameSent
          /\ Outgoing.last = lastBuilt /\ Outgoing.chunk = chunk
      BY <1>4, <2>3 DEF Outgoing, BuildHandshake
    <3>2. HandshakeMsg \in OutMsgs /\ HandshakeMsg.size > 0
      BY OutMsgSize DEF OutMsgs
    <3>3. due - 1 \in 0 .. HandshakesMax
      BY <2>3, ConstantsAssumption DEF IInv, TypeOK
    <3>4. QED
      BY <1>1, <2>1, <2>2, <3>1, <3>2, <3>3 DEF IInv, TypeOK, FrameInv
  <2>4. CASE ~(due > 0)
    <3> DEFINE left == frame.len - frameSent
               last == NextLen = left
    <3>1. frame # NoFrame /\ due = 0
      BY <2>1, <2>4, <1>2 DEF Writing, TxPending, IInv, TypeOK
    <3>2. /\ frame \in [len : FrameLens, id : ReqIds] /\ frame.len \in Nat
          /\ frameSent \in Nat /\ frameSent < frame.len
          /\ chunk \in Nat /\ frameNum \in Nat
      <4>1. /\ frame \in [len : FrameLens, id : ReqIds] \cup {NoFrame}
            /\ frameSent \in 0 .. frame.len /\ frameSent < frame.len
            /\ chunk \in Nat /\ frameNum \in Nat
        BY <2>1, <3>1 DEF IInv, TypeOK, FrameInv
      <4>2. frame \in [len : FrameLens, id : ReqIds]
        BY <3>1, <4>1
      <4>3. frame.len \in Nat
        BY <4>2, ConstantsAssumption
      <4>4. QED
        BY <4>1, <4>2, <4>3
    <3>3. NextLen \in Nat \ {0} /\ NextLen <= left
      <4>1. left \in Nat \ {0} /\ MaxChunkData \in Nat \ {0}
        BY <3>2, ConstantsAssumption
      <4>2. NextLen = IF left > MaxChunkData THEN MaxChunkData ELSE left
        BY DEF NextLen
      <4> HIDE DEF left
      <4>3. QED
        BY <4>1, <4>2
    <3>4. /\ Outgoing.msg = DataMsg(frame.id, frameNum, chunk, frameSent, NextLen, last)
          /\ Outgoing.off = 0 /\ Outgoing.due = due
          /\ Outgoing.sent = frameSent + NextLen
          /\ Outgoing.last = last /\ Outgoing.chunk = chunk + 1
      BY <1>4, <2>4 DEF Outgoing, BuildChunk
    <3> DEFINE d == DataMsg(frame.id, frameNum, chunk, frameSent, NextLen, last)
    <3>5. d \in OutMsgs /\ d.kind = "data" /\ d.last = last /\ d.size > 0
      BY <3>2, <3>3, ConstantsAssumption DEF DataMsg, OutMsgs
    <3> HIDE DEF d
    <3>6. /\ frameSent + NextLen \in 0 .. frame.len
          /\ last <=> frameSent + NextLen = frame.len
          /\ last \in BOOLEAN
      BY <3>2, <3>3
    <3>7. due \in 0 .. HandshakesMax
      BY DEF IInv, TypeOK
    <3>8. Outgoing.msg = d
      BY <3>4 DEF d
    <3> HIDE DEF last
    <3>9. QED
      BY <1>1, <2>2, <3>1, <3>2, <3>4, <3>5, <3>6, <3>7, <3>8
  <2>5. QED
    BY <2>3, <2>4
<1>5. QED
  BY <1>3, <1>4

-----------------------------------------------------------------------------
(* The invariant, one conjunct at a time. *)

\* CloseClient leaves a clean slate.
LEMMA CloseFacts ==
    ASSUME IInv, CloseClient, pc' = "select", UNCHANGED wset
    PROVE  IInv'
<1>1. /\ heap' = 0 /\ frame' = NoFrame /\ frameSent' = 0 /\ lastBuilt' = FALSE
      /\ chunk' = 0 /\ msg' = NoMsg /\ off' = 0
      /\ client' = FALSE /\ rx' = <<>> /\ sock' = <<>> /\ head' = 0 /\ count' = 0 /\ due' = 0
      /\ peer' = "gone"
      /\ UNCHANGED <<ring, frameNum, backlog, wire, conns, sends, asked, delivered>>
  BY DEF CloseClient, ReleaseFrame, IInv, FrameInv, NothingOutlivesClient, histVars
<1>2. TypeOK'
  <2>1. <<>> \in Seq(InByte) /\ Len(<<>>) = 0
    BY EmptySeq
  <2>2. 0 \in 0 .. QueueLen - 1 /\ 0 \in 0 .. QueueLen /\ 0 \in 0 .. HandshakesMax
    BY ConstantsAssumption
  <2>3. 0 \in 0 .. NoMsg.size /\ 0 \in 0 .. NoFrame.len
    BY DEF NoMsg, NoFrame
  <2>4. /\ rx' \in Seq(InByte) /\ Len(rx') <= RxCap /\ sock' \in Seq(InByte)
    BY <1>1, <2>1, RxCapNat
  <2>5. /\ frame' \in [len : FrameLens, id : ReqIds] \cup {NoFrame}
        /\ frameSent' \in 0 .. frame'.len
        /\ msg' \in OutMsgs \cup {NoMsg} /\ off' \in 0 .. msg'.size
    BY <1>1, <2>3
  <2>6. QED
    BY <1>1, <2>2, <2>4, <2>5 DEF IInv, TypeOK
<1>3. StreamInv'
  <2>1. <<>> \o <<>> = <<>>
    <3>1. <<>> \in Seq(InByte)
      BY EmptySeq
    <3>2. QED
      BY <3>1, ConcatEmptySeq
  <2>2. Framed(<<>>) /\ AtStart(<<>>)
    BY EmptySeq DEF Framed, AtStart
  <2>3. QED
    BY <1>1, <2>1, <2>2 DEF StreamInv
<1>4. RoomInv'
  BY <1>1, EmptySeq, RxCapNat DEF RoomInv
<1>5. QueueInv'
  BY <1>1 DEF QueueInv
<1>6. WireInv'
  BY <1>1 DEF IInv, WireInv
<1>7. FrameInv'
  BY <1>1 DEF FrameInv, LastBuiltInFlight, NothingOutlivesClient, AtBoundary, NoMsg
<1>8. QED
  BY <1>2, <1>3, <1>4, <1>5, <1>6, <1>7 DEF IInv

\* The server's buffers of the two directions.
connVars == <<client, rx, queueVars, due, frameVars, frameNum, msgVars, sock, wire,
              histVars>>

\* A step of the task that only moves its place in the turn.
LEMMA MoveFacts ==
    ASSUME IInv, UNCHANGED connVars, UNCHANGED <<conns, sends, peer, backlog>>,
           pc' \in {"select", "recv", "parse", "write", "capture"},
           wset' \in BOOLEAN,
           client,
           pc' # "parse" => Len(rx) < RxCap
    PROVE  IInv'
<1>1. TypeOK'
  BY DEF IInv, TypeOK, connVars, queueVars, frameVars, msgVars, histVars
<1>2. StreamInv'
  BY DEF IInv, StreamInv, connVars
<1>3. RoomInv'
  BY DEF RoomInv, connVars
<1>4. WireInv'
  BY DEF IInv, WireInv, connVars, msgVars
<1>5. FrameInv'
  BY DEF IInv, FrameInv, LastBuiltInFlight, NothingOutlivesClient, AtBoundary,
         connVars, queueVars, frameVars, msgVars
<1>6. QueueInv'
  BY DEF IInv, QueueInv, connVars, queueVars
<1>7. QED
  BY <1>1, <1>2, <1>3, <1>4, <1>5, <1>6 DEF IInv

\* A step of the network that leaves both directions of the connection alone.
LEMMA NetworkFacts ==
    ASSUME IInv, UNCHANGED connVars, UNCHANGED taskVars,
           conns' \in Nat, sends' \in Nat, backlog' \in Nat,
           peer' \in {"gone", "open", "closed", "reset"}
    PROVE  IInv'
<1>1. TypeOK'
  BY DEF IInv, TypeOK, connVars, taskVars, queueVars, frameVars, msgVars, histVars
<1>2. StreamInv'
  BY DEF IInv, StreamInv, connVars
<1>3. RoomInv'
  BY DEF IInv, RoomInv, connVars, taskVars
<1>4. WireInv'
  BY DEF IInv, WireInv, connVars, msgVars
<1>5. FrameInv'
  BY DEF IInv, FrameInv, LastBuiltInFlight, NothingOutlivesClient, AtBoundary,
         connVars, queueVars, frameVars, msgVars, taskVars
<1>6. QueueInv'
  BY DEF IInv, QueueInv, connVars, queueVars
<1>7. QED
  BY <1>1, <1>2, <1>3, <1>4, <1>5, <1>6 DEF IInv

\* Receiving moves bytes from the socket to s_rx.
LEMMA RecvStep ==
    ASSUME IInv, NEW n \in 1 .. RxCap, Recv(n)
    PROVE  IInv'
<1>1. /\ n \in 1 .. Len(sock) /\ n <= RxCap - Len(rx)
      /\ rx' = rx \o SubSeq(sock, 1, n)
      /\ sock' = SubSeq(sock, n + 1, Len(sock))
      /\ client /\ pc' = "parse" /\ UNCHANGED wset
      /\ UNCHANGED <<client, queueVars, due, frameVars, frameNum, msgVars, backlog, peer,
                     wire, conns, sends, histVars>>
  BY LenProperties, RxCapNat DEF Recv, IInv, TypeOK, FrameInv, NothingOutlivesClient
<1>2. rx \in Seq(InByte) /\ sock \in Seq(InByte) /\ Len(rx) \in Nat
  BY LenProperties DEF IInv, TypeOK
<1>3. /\ rx' \in Seq(InByte) /\ sock' \in Seq(InByte)
      /\ Len(rx') = Len(rx) + n
      /\ rx' \o sock' = rx \o sock
  <2>1. n \in 1 .. Len(sock)
    BY <1>1
  <2>2. /\ rx \o SubSeq(sock, 1, n) \in Seq(InByte)
        /\ SubSeq(sock, n + 1, Len(sock)) \in Seq(InByte)
        /\ Len(rx \o SubSeq(sock, 1, n)) = Len(rx) + n
        /\ MovesAlong(rx, sock, n)
    BY <1>2, <2>1, MovePrefix
  <2>3. QED
    BY <1>1, <2>2 DEF MovesAlong
<1>4. TypeOK'
  BY <1>1, <1>2, <1>3, RxCapNat
     DEF IInv, TypeOK, queueVars, frameVars, msgVars, histVars
<1>5. StreamInv'
  BY <1>3 DEF IInv, StreamInv
<1>6. RoomInv'
  BY <1>1 DEF RoomInv
<1>7. WireInv'
  BY <1>1 DEF IInv, WireInv, msgVars
<1>8. FrameInv'
  BY <1>1 DEF IInv, FrameInv, LastBuiltInFlight, NothingOutlivesClient, AtBoundary,
              queueVars, frameVars, msgVars
<1>9. QueueInv'
  BY <1>1 DEF IInv, QueueInv, queueVars
<1>10. QED
  BY <1>4, <1>5, <1>6, <1>7, <1>8, <1>9 DEF IInv

\* A message that is whole in s_rx is consumed up to its end.
LEMMA ConsumeFacts ==
    ASSUME IInv, HeaderIn, Whole, Consume
    PROVE  /\ client
           /\ rx' \in Seq(InByte) /\ Len(rx') <= RxCap
           /\ StreamInv'
           /\ UNCHANGED <<taskVars, client, frameVars, frameNum, msgVars, netVars>>
<1> DEFINE z == Current.size
           s == rx \o sock
<1>1. /\ rx \in Seq(InByte) /\ sock \in Seq(InByte) /\ Len(rx) \in Nat
      /\ Len(rx) > 0 /\ Len(rx) <= RxCap /\ rx # <<>>
  BY LenProperties, EmptySeq, ConstantsAssumption DEF IInv, TypeOK, HeaderIn
<1>2. rx[1] \in InByte /\ Current \in ClientMsgs
  <2>1. 1 \in 1 .. Len(rx)
    BY <1>1
  <2>2. rx[1] \in InByte
    BY <1>1, <2>1, ElementOfSeq
  <2>3. QED
    BY <2>2 DEF Current, InByte
<1>3. z \in 1 .. Len(rx)
  BY <1>1, <1>2, ClientMsgSize DEF Whole
<1>4. /\ s \in Seq(InByte) /\ Len(s) \in Nat /\ Len(rx) <= Len(s)
      /\ \A i \in 1 .. Len(rx) : s[i] = rx[i]
  BY <1>1, ConcatAt
<1>5. Framed(s) /\ AtStart(s) /\ s # <<>>
  BY <1>1, <1>4, EmptySeq DEF IInv, StreamInv
<1>6. s[1].msg = Current
  BY <1>1, <1>4 DEF Current
<1> HIDE DEF s, z
<1>7. z \in 1 .. Len(s) /\ s[1].msg.size = z
  BY <1>3, <1>4, <1>6 DEF z
<1>8. s[z].pos = s[z].msg.size
  BY <1>4, <1>5, <1>7, Bytes, FramedFront
<1>9. LET t == SubSeq(s, z + 1, Len(s)) IN Framed(t) /\ AtStart(t)
  BY <1>4, <1>5, <1>7, <1>8, Bytes, FramedDrop
<1>10. rx' = SubSeq(rx, z + 1, Len(rx)) /\ sock' = sock
  BY DEF Consume, netVars, z
<1>11. /\ rx' \in Seq(InByte) /\ Len(rx') = Len(rx) - z
       /\ rx' \o sock' = SubSeq(s, z + 1, Len(s))
  <2>1. z \in 0 .. Len(rx)
    BY <1>3
  <2>2. QED
    BY <1>1, <1>10, <2>1, DropConcat DEF s
<1>12. StreamInv'
  BY <1>9, <1>11 DEF StreamInv
<1>13. Len(rx') <= RxCap
  BY <1>1, <1>3, <1>11, RxCapNat
<1>14. QED
  BY <1>11, <1>12, <1>13
     DEF Consume, HeaderIn, IInv, FrameInv, NothingOutlivesClient

\* A message parsed touches the queue, the answers owed and the history only.
LEMMA ParseFacts ==
    ASSUME IInv, HeaderIn, Whole, Consume,
           ring' \in [0 .. QueueLen - 1 -> ReqIds \cup {NoReq}],
           head' \in 0 .. QueueLen - 1, count' \in 0 .. QueueLen,
           due' \in 0 .. HandshakesMax,
           asked' \in Nat, delivered' = delivered,
           QueueInv'
    PROVE  IInv'
<1>1. /\ client
      /\ rx' \in Seq(InByte) /\ Len(rx') <= RxCap
      /\ StreamInv'
      /\ UNCHANGED <<taskVars, client, frameVars, frameNum, msgVars, netVars>>
  BY ConsumeFacts
<1>2. TypeOK'
  BY <1>1 DEF IInv, TypeOK, taskVars, frameVars, msgVars, netVars
<1>3. RoomInv'
  BY <1>1 DEF RoomInv, HeaderIn, taskVars
<1>4. WireInv'
  BY <1>1 DEF IInv, WireInv, msgVars, netVars
<1>5. FrameInv'
  BY <1>1 DEF IInv, FrameInv, LastBuiltInFlight, NothingOutlivesClient,
              frameVars, msgVars
<1>6. QED
  BY <1>1, <1>2, <1>3, <1>4, <1>5 DEF IInv

LEMMA HandshakeStep ==
    ASSUME IInv, HandleHandshake
    PROVE  IInv'
<1>1. due' \in 0 .. HandshakesMax /\ asked' \in Nat
  BY ConstantsAssumption DEF HandleHandshake, IInv, TypeOK
<1>2. /\ ring' \in [0 .. QueueLen - 1 -> ReqIds \cup {NoReq}]
      /\ head' \in 0 .. QueueLen - 1 /\ count' \in 0 .. QueueLen
      /\ delivered' = delivered
  BY DEF HandleHandshake, IInv, TypeOK, queueVars
<1>3. HeaderIn /\ Whole /\ Consume
  BY DEF HandleHandshake
<1>4. QueueInv'
  BY DEF HandleHandshake, IInv, QueueInv, queueVars
<1>5. QED
  BY <1>1, <1>2, <1>3, <1>4, ParseFacts

LEMMA IgnoreStep ==
    ASSUME IInv, IgnoreMsg
    PROVE  IInv'
<1>1. /\ ring' \in [0 .. QueueLen - 1 -> ReqIds \cup {NoReq}]
      /\ head' \in 0 .. QueueLen - 1 /\ count' \in 0 .. QueueLen
      /\ due' \in 0 .. HandshakesMax /\ asked' \in Nat
      /\ delivered' = delivered
  BY DEF IgnoreMsg, IInv, TypeOK, queueVars, histVars
<1>2. HeaderIn /\ Whole /\ Consume
  BY DEF IgnoreMsg
<1>3. QueueInv'
  BY DEF IgnoreMsg, IInv, QueueInv, queueVars
<1>4. QED
  BY <1>1, <1>2, <1>3, ParseFacts

\* What is at the front of s_rx came from a client.
LEMMA CurrentType ==
    ASSUME IInv, HeaderIn
    PROVE  Current \in ClientMsgs
<1>1. rx \in Seq(InByte) /\ 1 \in 1 .. Len(rx)
  BY LenProperties, ConstantsAssumption DEF IInv, TypeOK, HeaderIn
<1>2. rx[1] \in InByte
  BY <1>1, ElementOfSeq
<1>3. QED
  BY <1>2 DEF Current, InByte

\* A position modulo the length of the ring is a place of the ring.
LEMMA RingPlace ==
    ASSUME NEW i \in Nat
    PROVE  i % QueueLen \in 0 .. QueueLen - 1
BY ConstantsAssumption

LEMMA RequestStep ==
    ASSUME IInv, HandleRequest
    PROVE  IInv'
<1>1. HeaderIn /\ Whole /\ Consume /\ Current.kind = "request"
  BY DEF HandleRequest
<1>2. Current.id \in ReqIds
  BY <1>1, CurrentType DEF ClientMsgs, HandshakeMsg
<1>3. /\ ring \in [0 .. QueueLen - 1 -> ReqIds \cup {NoReq}]
      /\ head \in 0 .. QueueLen - 1 /\ count \in 0 .. QueueLen
  BY DEF IInv, TypeOK
<1>4. /\ ring' \in [0 .. QueueLen - 1 -> ReqIds \cup {NoReq}]
      /\ head' \in 0 .. QueueLen - 1 /\ count' \in 0 .. QueueLen
  <2>1. CASE count = QueueLen
    BY <1>3, <2>1 DEF HandleRequest, PushRequest, queueVars
  <2>2. CASE count # QueueLen
    <3>1. /\ ring' = [ring EXCEPT ![(head + count) % QueueLen] = Current.id]
          /\ count' = count + 1 /\ head' = head
      BY <2>2 DEF HandleRequest, PushRequest
    <3>2. count + 1 \in 0 .. QueueLen
      BY <1>3, <2>2, ConstantsAssumption
    <3>3. QED
      BY <1>2, <1>3, <3>1, <3>2
  <2>3. QED
    BY <2>1, <2>2
<1>5. due' \in 0 .. HandshakesMax /\ asked' \in Nat /\ delivered' = delivered
  BY DEF HandleRequest, IInv, TypeOK, histVars
<1>6. QueueInv'
  <2>1. CASE count = QueueLen
    BY <2>1 DEF HandleRequest, PushRequest, queueVars, IInv, QueueInv
  <2>2. CASE count # QueueLen
    <3>1. /\ ring' = [ring EXCEPT ![(head + count) % QueueLen] = Current.id]
          /\ count' = count + 1 /\ head' = head
      BY <2>2 DEF HandleRequest, PushRequest
    <3> SUFFICES ASSUME NEW i \in 0 .. count PROVE ring'[(head + i) % QueueLen] \in ReqIds
      <4>1. count' - 1 = count
        BY <1>3, <3>1
      <4>2. \A i \in 0 .. count' - 1 : ring'[(head + i) % QueueLen] \in ReqIds
        BY <4>1
      <4>3. QED
        BY <3>1, <4>2 DEF QueueInv
    <3>2. (head + i) % QueueLen \in 0 .. QueueLen - 1
      BY <1>3, RingPlace
    <3>3. CASE i = count
      BY <1>2, <1>3, <3>1, <3>2, <3>3
    <3>4. CASE i # count
      <4>1. i \in 0 .. count - 1
        BY <1>3, <3>4
      <4>2. ring[(head + i) % QueueLen] \in ReqIds
        BY <4>1 DEF IInv, QueueInv
      <4>3. QED
        BY <1>2, <1>3, <3>1, <3>2, <4>2
    <3>5. QED
      BY <3>3, <3>4
  <2>3. QED
    BY <2>1, <2>2
<1>7. QED
  BY <1>1, <1>4, <1>5, <1>6, ParseFacts

\* The iteration that finds no whole message leaves room in s_rx.
LEMMA ParseDoneStep ==
    ASSUME IInv, ParseDone
    PROVE  IInv'
<1>1. Len(rx) \in Nat
  BY LenProperties DEF IInv, TypeOK
<1>2. Len(rx) < RxCap
  <2>1. CASE ~HeaderIn
    BY <1>1, <2>1, RxCapNat, ConstantsAssumption DEF ParseDone, HeaderIn
  <2>2. CASE HeaderIn
    <3>1. Current.size \in Nat
      BY <2>2, CurrentType, ClientMsgSize
    <3>2. ~(Current.size - HeaderLen > MaxRxPayload) /\ ~(Len(rx) >= Current.size)
      BY <2>2 DEF ParseDone, BadFrame, Whole
    <3>3. QED
      BY <1>1, <3>1, <3>2, ConstantsAssumption DEF RxCap
  <2>3. QED
    BY <2>1, <2>2
<1>3. client
  BY DEF ParseDone, IInv, FrameInv, NothingOutlivesClient
<1>4. UNCHANGED connVars /\ UNCHANGED <<conns, sends, peer, backlog, wset>>
  BY DEF ParseDone, connVars, netVars
<1>5. pc' = "write" /\ wset' \in BOOLEAN
  BY <1>4 DEF ParseDone, IInv, TypeOK
<1>6. QED
  BY <1>2, <1>3, <1>4, <1>5, MoveFacts

\* The other steps that only move the task.
LEMMA MoveSteps ==
    ASSUME IInv, \/ \E w \in BOOLEAN : Select(w)
                 \/ RecvNothing \/ NotWritable \/ NothingToCapture
    PROVE  IInv'
<1>1. client
  BY DEF IInv, FrameInv, NothingOutlivesClient, Select, RecvNothing, NotWritable,
         NothingToCapture
<1>2. Len(rx) < RxCap
  BY DEF IInv, RoomInv, Select, RecvNothing, NotWritable, NothingToCapture
<1>3. UNCHANGED connVars /\ UNCHANGED <<conns, sends, peer, backlog>>
  BY DEF Select, RecvNothing, NotWritable, NothingToCapture, connVars, netVars
<1>4. /\ pc' \in {"select", "recv", "parse", "write", "capture"}
      /\ wset' \in BOOLEAN
  BY DEF Select, RecvNothing, NotWritable, NothingToCapture, IInv, TypeOK
<1>5. QED
  BY <1>1, <1>2, <1>3, <1>4, MoveFacts

\* The steps that drop the client.
LEMMA CloseSteps ==
    ASSUME IInv, RecvEnds \/ ParseDrops \/ SendFails
    PROVE  IInv'
BY CloseFacts DEF RecvEnds, ParseDrops, SendFails

\* The steps of the network, but for the client's messages.
LEMMA NetworkSteps ==
    ASSUME IInv, \/ AcceptFails \/ Connect
                 \/ \E how \in {"closed", "reset"} : ClientLeaves(how)
    PROVE  IInv'
<1>1. UNCHANGED connVars /\ UNCHANGED taskVars
  BY DEF AcceptFails, Connect, ClientLeaves, connVars, netVars, taskVars
<1>2. /\ conns' \in Nat /\ sends' \in Nat /\ backlog' \in Nat
      /\ peer' \in {"gone", "open", "closed", "reset"}
  <2>1. /\ conns \in Nat /\ sends \in Nat /\ backlog \in Nat
        /\ peer \in {"gone", "open", "closed", "reset"}
    BY DEF IInv, TypeOK
  <2>2. CASE AcceptFails
    BY <2>1, <2>2 DEF AcceptFails
  <2>3. CASE Connect
    BY <2>1, <2>3 DEF Connect
  <2>4. CASE \E how \in {"closed", "reset"} : ClientLeaves(how)
    BY <2>1, <2>4 DEF ClientLeaves
  <2>5. QED
    BY <2>2, <2>3, <2>4
<1>3. QED
  BY <1>1, <1>2, NetworkFacts

\* Accepting finds the clean slate the last client left.
LEMMA AcceptStep ==
    ASSUME IInv, AcceptClient
    PROVE  IInv'
<1>1. /\ off = msg.size /\ msg.size \in Nat
      /\ msg \in OutMsgs \cup {NoMsg} /\ off \in 0 .. msg.size
      /\ frame = NoFrame /\ backlog \in Nat /\ backlog > 0 /\ ~lastBuilt
  BY OutMsgSize DEF AcceptClient, IInv, TypeOK, FrameInv, NothingOutlivesClient,
                    LastBuiltInFlight, AtBoundary, NoMsg
<1>2. /\ client' = TRUE /\ rx' = <<>> /\ head' = 0 /\ count' = 0 /\ due' = 0
      /\ frameNum' = 0 /\ backlog' = backlog - 1 /\ peer' = "open" /\ sock' = <<>>
      /\ wire' = <<>> /\ asked' = 0 /\ delivered' = <<>>
      /\ UNCHANGED <<pc, wset, ring, frame, frameSent, lastBuilt, chunk, heap, msg, off,
                     conns, sends>>
  BY DEF AcceptClient, taskVars, frameVars, msgVars
<1>3. TypeOK'
  <2>1. /\ <<>> \in Seq(InByte) /\ <<>> \in Seq(OutByte) /\ <<>> \in Seq(OutMsgs)
        /\ Len(<<>>) = 0
    BY EmptySeq
  <2>2. 0 \in 0 .. QueueLen - 1 /\ 0 \in 0 .. QueueLen /\ 0 \in 0 .. HandshakesMax
    BY ConstantsAssumption
  <2>3. backlog - 1 \in Nat /\ 0 <= RxCap
    BY <1>1, RxCapNat
  <2>4. QED
    BY <1>2, <2>1, <2>2, <2>3 DEF IInv, TypeOK
<1>4. StreamInv'
  <2>1. <<>> \o <<>> = <<>>
    <3>1. <<>> \in Seq(InByte)
      BY EmptySeq
    <3>2. QED
      BY <3>1, ConcatEmptySeq
  <2>2. Framed(<<>>) /\ AtStart(<<>>)
    BY EmptySeq DEF Framed, AtStart
  <2>3. QED
    BY <1>2, <2>1, <2>2 DEF StreamInv
<1>5. RoomInv'
  BY <1>2, EmptySeq, RxCapNat DEF RoomInv
<1>6. QueueInv'
  BY <1>2 DEF QueueInv
<1>7. WireInv'
  <2>1. ~(off \in 1 .. msg.size - 1)
    BY <1>1
  <2>2. Framed(<<>>) /\ AtStart(<<>>)
    BY EmptySeq DEF Framed, AtStart
  <2>3. QED
    BY <1>2, <2>1, <2>2 DEF WireInv
<1>8. FrameInv'
  BY <1>1, <1>2 DEF IInv, FrameInv, LastBuiltInFlight, NothingOutlivesClient
<1>9. QED
  BY <1>3, <1>4, <1>5, <1>6, <1>7, <1>8 DEF IInv

\* Taking the oldest request off the ring leaves requests in it.
LEMMA PopFacts ==
    ASSUME IInv, count > 0, PopRequest
    PROVE  /\ ring[head] \in ReqIds
           /\ ring' = ring /\ head' \in 0 .. QueueLen - 1 /\ count' \in 0 .. QueueLen
           /\ QueueInv'
<1>1. /\ head \in 0 .. QueueLen - 1 /\ count \in 0 .. QueueLen
      /\ QueueLen \in Nat \ {0}
      /\ \A i \in 0 .. count - 1 : ring[(head + i) % QueueLen] \in ReqIds
  BY ConstantsAssumption DEF IInv, TypeOK, QueueInv
<1>2. ring' = ring /\ head' = (head + 1) % QueueLen /\ count' = count - 1
  BY DEF PopRequest
<1>3. ring[head] \in ReqIds
  <2>1. 0 \in 0 .. count - 1 /\ (head + 0) % QueueLen = head
    BY <1>1
  <2>2. QED
    BY <1>1, <2>1
<1>4. head' \in 0 .. QueueLen - 1 /\ count' \in 0 .. QueueLen
  BY <1>1, <1>2
<1>5. ASSUME NEW i \in 0 .. count - 2
      PROVE  ring[(head' + i) % QueueLen] \in ReqIds
  <2>1. i + 1 \in 0 .. count - 1 /\ i + 1 < QueueLen
    BY <1>1
  <2>2. (head' + i) % QueueLen = (head + (i + 1)) % QueueLen
    <3>1. CASE head = QueueLen - 1
      <4>1. head' = 0
        BY <1>1, <1>2, <3>1
      <4>2. head + (i + 1) = QueueLen + i
        BY <1>1, <3>1
      <4>3. QED
        BY <1>1, <2>1, <4>1, <4>2
    <3>2. CASE head # QueueLen - 1
      <4>1. head' = head + 1
        BY <1>1, <1>2, <3>2
      <4>2. head' + i = head + (i + 1)
        BY <1>1, <4>1
      <4>3. QED
        BY <4>2
    <3>3. QED
      BY <3>1, <3>2
  <2>3. QED
    BY <1>1, <2>1, <2>2
<1>6. QueueInv'
  <2>1. count' - 1 = count - 2
    BY <1>1, <1>2
  <2>2. \A i \in 0 .. count' - 1 : ring[(head' + i) % QueueLen] \in ReqIds
    BY <1>5, <2>1
  <2>3. QED
    BY <1>2, <2>2 DEF QueueInv
<1>7. QED
  BY <1>2, <1>3, <1>4, <1>6

LEMMA CaptureStep ==
    ASSUME IInv, NEW len \in FrameLens, Capture(len)
    PROVE  IInv'
<1>1. /\ pc = "capture" /\ count > 0 /\ frame = NoFrame /\ client /\ heap = 0
      /\ ~lastBuilt /\ len \in Nat \ {0}
  BY ConstantsAssumption
     DEF Capture, Capturing, IInv, FrameInv, LastBuiltInFlight, NothingOutlivesClient
<1>2. /\ frame' = [len |-> len, id |-> ring[head]]
      /\ frameSent' = 0 /\ lastBuilt' = FALSE /\ chunk' = 0 /\ heap' = heap + 1
      /\ pc' = "select"
      /\ UNCHANGED <<wset, client, rx, due, frameNum, msg, off, backlog, peer, sock, wire,
                     conns, sends, asked, delivered>>
  BY DEF Capture, msgVars, netVars, histVars
<1>3. /\ ring[head] \in ReqIds
      /\ ring' = ring /\ head' \in 0 .. QueueLen - 1 /\ count' \in 0 .. QueueLen
      /\ QueueInv'
  BY <1>1, PopFacts DEF Capture
<1>4. frame' \in [len : FrameLens, id : ReqIds] /\ frame'.len = len /\ frame' # NoFrame
  BY <1>1, <1>2, <1>3 DEF NoFrame
<1>5. 0 \in 0 .. len
  BY <1>1
<1>6. TypeOK'
  <2>1. /\ frameSent' \in 0 .. frame'.len
        /\ heap' \in Nat
        /\ lastBuilt' \in BOOLEAN
    <3>1. frameSent' \in 0 .. frame'.len
      BY <1>2, <1>4, <1>5
    <3>2. heap' \in Nat
      BY <1>1, <1>2
    <3>3. lastBuilt' \in BOOLEAN
      BY <1>2
    <3>4. QED
      BY <3>1, <3>2, <3>3
  <2>2. chunk' \in Nat /\ pc' \in {"select", "recv", "parse", "write", "capture"}
    BY <1>2
  <2>3. frame' \in [len : FrameLens, id : ReqIds] \cup {NoFrame}
    BY <1>4
  <2>4. UNCHANGED <<wset, client, rx, due, frameNum, msg, off, backlog, peer, sock, wire,
                    conns, sends, asked, delivered>>
    BY <1>2
  <2>5. QED
    BY <1>3, <2>1, <2>2, <2>3, <2>4 DEF IInv, TypeOK
<1>7. StreamInv'
  BY <1>2 DEF IInv, StreamInv
<1>8. RoomInv'
  BY <1>1, <1>2 DEF IInv, RoomInv
<1>9. WireInv'
  BY <1>2 DEF IInv, WireInv
<1>10. FrameInv'
  BY <1>1, <1>2, <1>4 DEF FrameInv, LastBuiltInFlight, NothingOutlivesClient
<1>11. QED
  BY <1>3, <1>6, <1>7, <1>8, <1>9, <1>10 DEF IInv

LEMMA CaptureFailsStep ==
    ASSUME IInv, CaptureFails
    PROVE  IInv'
<1>1. pc = "capture" /\ count > 0 /\ client
  BY DEF CaptureFails, Capturing, IInv, FrameInv, NothingOutlivesClient
<1>2. /\ pc' = "select"
      /\ UNCHANGED <<wset, client, rx, due, frame, frameSent, lastBuilt, chunk, heap,
                     frameNum, msg, off, backlog, peer, sock, wire, conns, sends, asked,
                     delivered>>
  BY DEF CaptureFails, frameVars, msgVars, netVars, histVars
<1>3. ring' = ring /\ head' \in 0 .. QueueLen - 1 /\ count' \in 0 .. QueueLen /\ QueueInv'
  BY <1>1, PopFacts DEF CaptureFails
<1>4. TypeOK'
  BY <1>2, <1>3 DEF IInv, TypeOK
<1>5. StreamInv'
  BY <1>2 DEF IInv, StreamInv
<1>6. RoomInv'
  BY <1>1, <1>2 DEF IInv, RoomInv
<1>7. WireInv'
  BY <1>2 DEF IInv, WireInv
<1>8. FrameInv'
  BY <1>1, <1>2 DEF IInv, FrameInv, LastBuiltInFlight, NothingOutlivesClient
<1>9. QED
  BY <1>3, <1>4, <1>5, <1>6, <1>7, <1>8 DEF IInv

\* A client writes whole messages.
LEMMA ClientSendsStep ==
    ASSUME IInv, NEW m \in ClientMsgs, ClientSends(m)
    PROVE  IInv'
<1> DEFINE b == BytesOf(m, 1, m.size)
<1>1. /\ rx \in Seq(InByte) /\ sock \in Seq(InByte) /\ sends \in Nat
      /\ m.size \in Nat \ {0} /\ IsBytes(InByte)
      /\ \A p \in 1 .. m.size : Byte(m, p) \in InByte
  BY Bytes, ClientMsgSize DEF IInv, TypeOK
<1>2. /\ sock' = sock \o b /\ sends' = sends + 1
      /\ UNCHANGED <<pc, wset, client, rx, ring, head, count, due, frame, frameSent,
                     lastBuilt, chunk, heap, frameNum, msg, off, backlog, peer, wire, conns,
                     asked, delivered>>
  BY DEF ClientSends, taskVars, queueVars, frameVars, msgVars, histVars
<1>3. b \in Seq(InByte) /\ 1 \in Nat \ {0} /\ m.size \in Nat /\ 1 <= m.size + 1 /\ 1 <= m.size
  BY <1>1, BytesOfSeq
<1>4. sock \o b \in Seq(InByte) /\ rx \o sock \in Seq(InByte)
  BY <1>1, <1>3, ConcatAt
<1>5. Framed((rx \o sock) \o b) /\ After((rx \o sock) \o b, m, m.size)
  <2>1. Framed(rx \o sock) /\ AtStart(rx \o sock)
    BY DEF IInv, StreamInv
  <2> DEFINE s == rx \o sock
             z == m.size
  <2>2. /\ s \in Seq(InByte) /\ Framed(s) /\ AtStart(s) /\ z \in Nat /\ z <= m.size
        /\ m.size \in Nat /\ 1 <= z + 1 /\ 1 <= z
        /\ \A p \in 1 .. z : Byte(m, p) \in InByte
    BY <1>1, <1>4, <2>1
  <2> HIDE DEF s, z
  <2>3. /\ Framed(s \o BytesOf(m, 1, z))
        /\ s \o BytesOf(m, 1, z) \in Seq(InByte)
        /\ 1 <= z => After(s \o BytesOf(m, 1, z), m, z)
    BY <1>1, <2>2, FramedAppend
  <2>4. QED
    BY <2>2, <2>3 DEF s, z
<1> HIDE DEF b
<1>6. (rx \o sock) \o b = rx \o (sock \o b)
  BY <1>1, <1>3, ConcatAssociative, SMTT(30)
<1>7. Framed(rx \o (sock \o b)) /\ After(rx \o (sock \o b), m, m.size)
  BY <1>5, <1>6
<1>8. StreamInv'
  BY <1>2, <1>7 DEF StreamInv, AtStart, After, Byte
<1>9. TypeOK'
  BY <1>1, <1>2, <1>4 DEF IInv, TypeOK
<1>10. RoomInv'
  BY <1>2 DEF IInv, RoomInv
<1>11. QueueInv'
  BY <1>2 DEF IInv, QueueInv
<1>12. WireInv'
  BY <1>2 DEF IInv, WireInv
<1>13. FrameInv'
  BY <1>2 DEF IInv, FrameInv, LastBuiltInFlight, NothingOutlivesClient, AtBoundary
<1>14. QED
  BY <1>8, <1>9, <1>10, <1>11, <1>12, <1>13 DEF IInv

-----------------------------------------------------------------------------
(* What send() takes. *)

\* An empty slice of a message is nothing.
LEMMA PutNothing ==
    ASSUME NEW B, NEW s \in Seq(B), NEW m, NEW p \in Nat
    PROVE  s \o BytesOf(m, p + 1, p) = s
<1>1. BytesOf(m, p + 1, p) = <<>>
  <2>1. BytesOf(m, p + 1, p) \in Seq({})
    <3>1. p + 1 \in Nat \ {0} /\ p + 1 <= p + 1 /\ \A q \in p + 1 .. p : Byte(m, q) \in {}
      OBVIOUS
    <3>2. QED
      BY <3>1, BytesOfSeq
  <2>2. Len(BytesOf(m, p + 1, p)) = 0
    <3>1. p + 1 \in Nat \ {0} /\ p + 1 <= p + 1 /\ p - (p + 1) + 1 = 0
      OBVIOUS
    <3>2. QED
      BY <3>1, BytesOfAt
  <2>3. QED
    BY <2>1, <2>2, EmptySeq
<1>2. QED
  BY <1>1, ConcatEmptySeq

\* The wire after k bytes of the outgoing message.
LEMMA PutFacts ==
    ASSUME IInv, Writing, NEW k \in Nat, k <= Outgoing.msg.size - Outgoing.off, Put(k)
    PROVE  /\ wire' \in Seq(OutByte) /\ Framed(wire')
           /\ IF Outgoing.off + k \in 1 .. Outgoing.msg.size - 1
              THEN After(wire', Outgoing.msg, Outgoing.off + k) ELSE AtStart(wire')
           /\ delivered' \in Seq(OutMsgs)
           /\ due' \in 0 .. HandshakesMax
           /\ pc' = "capture"
           /\ UNCHANGED <<wset, client, rx, ring, head, count, backlog, peer, sock, conns,
                          sends, asked>>
<1> DEFINE m == Outgoing.msg
           o == Outgoing.off
           f == o + 1
           l == o + k
           t == wire \o BytesOf(m, f, l)
<1>1. /\ m \in OutMsgs /\ o \in Nat /\ o < m.size /\ m.size \in Nat \ {0}
      /\ Outgoing.due \in 0 .. HandshakesMax
      /\ (o = 0 /\ AtStart(wire)) \/ (o > 0 /\ After(wire, m, o))
  BY OutgoingFacts, OutMsgSize
<1>2. wire \in Seq(OutByte) /\ Framed(wire) /\ delivered \in Seq(OutMsgs)
  BY DEF IInv, TypeOK, WireInv
<1>3. k <= m.size - o
  OBVIOUS
<1>4. /\ wire' = t
      /\ delivered' = IF k > 0 /\ l = m.size THEN Append(delivered, m) ELSE delivered
      /\ due' = Outgoing.due /\ pc' = "capture"
      /\ UNCHANGED <<wset, client, rx, ring, head, count, backlog, peer, sock, conns,
                     sends, asked>>
  BY DEF Put, queueVars
<1> HIDE DEF m, o
<1>5. /\ f \in Nat \ {0} /\ l \in Nat /\ f <= l + 1 /\ l <= m.size /\ m.size \in Nat
      /\ (k > 0 => f <= l) /\ f - 1 = o /\ (f = 1 <=> o = 0)
  BY <1>1, <1>3
<1>6. \A p \in f .. l : Byte(m, p) \in OutByte
  BY <1>1, <1>5, Bytes
<1>7. (f = 1 /\ AtStart(wire)) \/ After(wire, m, f - 1)
  BY <1>1, <1>5
<1> HIDE DEF f, l
<1>8. /\ Framed(wire \o BytesOf(m, f, l))
      /\ wire \o BytesOf(m, f, l) \in Seq(OutByte)
      /\ f <= l => After(wire \o BytesOf(m, f, l), m, l)
  BY <1>2, <1>5, <1>6, <1>7, Bytes, FramedAppend
<1>9. IF l \in 1 .. m.size - 1 THEN After(t, m, l) ELSE AtStart(t)
  <2>1. CASE k = 0
    <3>1. t = wire /\ l = o
      BY <1>1, <1>2, <2>1, PutNothing DEF f, l
    <3>2. o \in 1 .. m.size - 1 <=> o > 0
      BY <1>1
    <3>3. QED
      BY <1>1, <3>1, <3>2
  <2>2. CASE k # 0
    <3>1. After(t, m, l) /\ l \in 1 .. m.size
      BY <1>1, <1>3, <1>5, <1>8, <2>2 DEF l
    <3>2. l = m.size => AtStart(t)
      BY <3>1 DEF After, AtStart, Byte
    <3>3. l \in 1 .. m.size - 1 \/ l = m.size
      BY <1>1, <3>1
    <3>4. ~(l \in 1 .. m.size - 1 /\ l = m.size)
      BY <1>1
    <3>5. QED
      BY <3>1, <3>2, <3>3, <3>4
  <2>3. QED
    BY <2>1, <2>2
<1>10. delivered' \in Seq(OutMsgs)
  <2>1. Append(delivered, m) \in Seq(OutMsgs)
    BY <1>1, <1>2, AppendProperties
  <2>2. QED
    BY <1>2, <1>4, <2>1
<1>11. QED
  BY <1>1, <1>4, <1>8, <1>9, <1>10 DEF m, o, l

LEMMA SendSliceStep ==
    ASSUME IInv, NEW k \in Nat, SendSlice(k)
    PROVE  IInv'
<1>1. Writing /\ k <= Outgoing.msg.size - Outgoing.off /\ ~EndsFrame(k) /\ Put(k)
  BY DEF SendSlice
<1>2. /\ wire' \in Seq(OutByte) /\ Framed(wire')
      /\ IF Outgoing.off + k \in 1 .. Outgoing.msg.size - 1
         THEN After(wire', Outgoing.msg, Outgoing.off + k) ELSE AtStart(wire')
      /\ delivered' \in Seq(OutMsgs)
      /\ due' \in 0 .. HandshakesMax
      /\ pc' = "capture"
      /\ UNCHANGED <<wset, client, rx, ring, head, count, backlog, peer, sock, conns,
                     sends, asked>>
  BY <1>1, PutFacts
<1>3. /\ client
      /\ Outgoing.msg \in OutMsgs
      /\ Outgoing.off \in Nat /\ Outgoing.off < Outgoing.msg.size
      /\ Outgoing.sent \in 0 .. frame.len
      /\ Outgoing.chunk \in Nat
      /\ Outgoing.last \in BOOLEAN
      /\ frame = NoFrame => Outgoing.sent = 0
      /\ frame # NoFrame /\ ~Outgoing.last => Outgoing.sent < frame.len
      /\ Outgoing.last => /\ frame # NoFrame /\ Outgoing.sent = frame.len
                          /\ Outgoing.msg.kind = "data" /\ Outgoing.msg.last
  BY <1>1, OutgoingFacts
<1>4. /\ msg' = Outgoing.msg /\ off' = Outgoing.off + k
      /\ frameSent' = Outgoing.sent /\ lastBuilt' = Outgoing.last
      /\ chunk' = Outgoing.chunk
      /\ UNCHANGED <<frame, heap, frameNum>>
  BY DEF SendSlice
<1>5. /\ Outgoing.msg.size \in Nat \ {0}
      /\ Outgoing.off + k \in 0 .. Outgoing.msg.size
  BY <1>1, <1>3, OutMsgSize
<1>6. Outgoing.last => Outgoing.off + k < Outgoing.msg.size
  BY <1>1, <1>3, <1>5 DEF EndsFrame
<1>7. TypeOK'
  <2>1. /\ msg' \in OutMsgs \cup {NoMsg} /\ off' \in 0 .. msg'.size
        /\ frameSent' \in 0 .. frame'.len
        /\ lastBuilt' \in BOOLEAN /\ chunk' \in Nat
    BY <1>3, <1>4, <1>5
  <2>2. UNCHANGED <<frame, heap, frameNum>>
    BY <1>4
  <2>3. pc' \in {"select", "recv", "parse", "write", "capture"}
    BY <1>2
  <2>4. QED
    BY <1>2, <2>1, <2>2, <2>3 DEF IInv, TypeOK
<1>8. StreamInv'
  BY <1>2 DEF IInv, StreamInv
<1>9. RoomInv'
  BY <1>2, <1>1 DEF IInv, RoomInv, Writing
<1>10. QueueInv'
  BY <1>2 DEF IInv, QueueInv
<1>11. WireInv'
  BY <1>2, <1>4 DEF WireInv
<1>12. FrameInv'
  BY <1>2, <1>3, <1>4, <1>6 DEF IInv, FrameInv, LastBuiltInFlight, NothingOutlivesClient
<1>13. QED
  BY <1>7, <1>8, <1>9, <1>10, <1>11, <1>12 DEF IInv

LEMMA FinishFrameStep ==
    ASSUME IInv, NEW k \in Nat, FinishFrame(k)
    PROVE  IInv'
<1>1. Writing /\ k <= Outgoing.msg.size - Outgoing.off /\ EndsFrame(k) /\ Put(k)
  BY DEF FinishFrame
<1>2. /\ wire' \in Seq(OutByte) /\ Framed(wire')
      /\ IF Outgoing.off + k \in 1 .. Outgoing.msg.size - 1
         THEN After(wire', Outgoing.msg, Outgoing.off + k) ELSE AtStart(wire')
      /\ delivered' \in Seq(OutMsgs)
      /\ due' \in 0 .. HandshakesMax
      /\ pc' = "capture"
      /\ UNCHANGED <<wset, client, rx, ring, head, count, backlog, peer, sock, conns,
                     sends, asked>>
  BY <1>1, PutFacts
<1>3. client /\ Outgoing.msg \in OutMsgs /\ frame # NoFrame
  BY <1>1, OutgoingFacts DEF EndsFrame
<1>4. /\ heap' = heap - 1 /\ frame' = NoFrame /\ frameSent' = 0 /\ lastBuilt' = FALSE
      /\ chunk' = 0 /\ msg' = NoMsg /\ off' = 0 /\ frameNum' = frameNum + 1
  BY <1>3 DEF FinishFrame, ReleaseFrame
<1>5. heap = 1 /\ frameNum \in Nat
  BY <1>3 DEF IInv, TypeOK, FrameInv, NothingOutlivesClient
<1>6. AtStart(wire')
  <2>1. Outgoing.msg.size \in Nat \ {0} /\ Outgoing.off + k = Outgoing.msg.size
    BY <1>1, <1>3, OutMsgSize DEF EndsFrame
  <2>2. ~(Outgoing.off + k \in 1 .. Outgoing.msg.size - 1)
    BY <2>1
  <2>3. QED
    BY <1>2, <2>2
<1>7. TypeOK'
  <2>1. /\ frame' \in [len : FrameLens, id : ReqIds] \cup {NoFrame}
        /\ frameSent' \in 0 .. frame'.len
        /\ msg' \in OutMsgs \cup {NoMsg} /\ off' \in 0 .. msg'.size
    BY <1>4 DEF NoFrame, NoMsg
  <2>2. heap' \in Nat /\ frameNum' \in Nat /\ chunk' \in Nat /\ lastBuilt' \in BOOLEAN
    <3>1. heap' \in Nat /\ frameNum' \in Nat
      BY <1>4, <1>5
    <3>2. chunk' \in Nat /\ lastBuilt' \in BOOLEAN
      BY <1>4
    <3>3. QED
      BY <3>1, <3>2
  <2>3. pc' \in {"select", "recv", "parse", "write", "capture"}
    BY <1>2
  <2>4. QED
    BY <1>2, <2>1, <2>2, <2>3 DEF IInv, TypeOK
<1>8. StreamInv'
  BY <1>2 DEF IInv, StreamInv
<1>9. RoomInv'
  BY <1>2, <1>1 DEF IInv, RoomInv, Writing
<1>10. QueueInv'
  BY <1>2 DEF IInv, QueueInv
<1>11. WireInv'
  BY <1>2, <1>4, <1>6 DEF WireInv, NoMsg
<1>12. FrameInv'
  BY <1>2, <1>3, <1>4, <1>5 DEF FrameInv, LastBuiltInFlight, NothingOutlivesClient
<1>13. QED
  BY <1>7, <1>8, <1>9, <1>10, <1>11, <1>12 DEF IInv

-----------------------------------------------------------------------------
(* The invariant holds of every behaviour. *)

LEMMA InitInv == Init => IInv
<1> SUFFICES ASSUME Init PROVE IInv
  OBVIOUS
<1>1. TypeOK
  <2>1. /\ <<>> \in Seq(InByte) /\ <<>> \in Seq(OutByte) /\ <<>> \in Seq(OutMsgs)
        /\ Len(<<>>) = 0 /\ 0 <= RxCap
    BY EmptySeq, RxCapNat
  <2>2. Ring0 \in [0 .. QueueLen - 1 -> ReqIds \cup {NoReq}]
    BY DEF Ring0
  <2>3. 0 \in 0 .. QueueLen - 1 /\ 0 \in 0 .. QueueLen /\ 0 \in 0 .. HandshakesMax
    BY ConstantsAssumption
  <2>4. /\ frame \in [len : FrameLens, id : ReqIds] \cup {NoFrame}
        /\ frameSent \in 0 .. frame.len
        /\ msg \in OutMsgs \cup {NoMsg} /\ off \in 0 .. msg.size
    BY DEF Init, NoFrame, NoMsg
  <2>5. /\ pc = "select" /\ wset = FALSE /\ client = FALSE /\ lastBuilt = FALSE
        /\ rx = <<>> /\ ring = Ring0 /\ head = 0 /\ count = 0 /\ due = 0
        /\ chunk = 0 /\ frameNum = 0 /\ heap = 0 /\ backlog = 0 /\ peer = "gone"
        /\ sock = <<>> /\ wire = <<>> /\ conns = 0 /\ sends = 0 /\ asked = 0
        /\ delivered = <<>>
    BY DEF Init
  <2>6. QED
    BY <2>1, <2>2, <2>3, <2>4, <2>5 DEF TypeOK
<1>2. Framed(<<>>) /\ AtStart(<<>>) /\ <<>> \o <<>> = <<>>
  <2>1. <<>> \in Seq(InByte)
    BY EmptySeq
  <2>2. QED
    BY <2>1, EmptySeq, ConcatEmptySeq DEF Framed, AtStart
<1>3. StreamInv
  BY <1>2 DEF Init, StreamInv
<1>4. RoomInv
  BY EmptySeq, RxCapNat DEF Init, RoomInv
<1>5. QueueInv /\ WireInv /\ FrameInv
  BY <1>2 DEF Init, QueueInv, WireInv, FrameInv, LastBuiltInFlight, NothingOutlivesClient,
              AtBoundary, NoFrame, NoMsg
<1>6. QED
  BY <1>1, <1>3, <1>4, <1>5 DEF IInv

LEMMA NextInv == IInv /\ [Next]_vars => IInv'
<1> SUFFICES ASSUME IInv, [Next]_vars PROVE IInv'
  OBVIOUS
<1>1. CASE AcceptFails \/ Connect \/ \E how \in {"closed", "reset"} : ClientLeaves(how)
  BY <1>1, NetworkSteps
<1>2. CASE AcceptClient
  BY <1>2, AcceptStep
<1>3. CASE \/ \E w \in BOOLEAN : Select(w)
           \/ RecvNothing \/ NotWritable \/ NothingToCapture
  BY <1>3, MoveSteps
<1>4. CASE \E n \in 1 .. RxCap : Recv(n)
  BY <1>4, RecvStep
<1>5. CASE RecvEnds \/ ParseDrops \/ SendFails
  BY <1>5, CloseSteps
<1>6. CASE ParseDone
  BY <1>6, ParseDoneStep
<1>7. CASE HandleHandshake
  BY <1>7, HandshakeStep
<1>8. CASE HandleRequest
  BY <1>8, RequestStep
<1>9. CASE IgnoreMsg
  BY <1>9, IgnoreStep
<1>10. CASE Writing /\ \E k \in 0 .. Outgoing.msg.size : SendSlice(k) \/ FinishFrame(k)
  <2>1. PICK k \in 0 .. Outgoing.msg.size : SendSlice(k) \/ FinishFrame(k)
    BY <1>10
  <2>2. Outgoing.msg \in OutMsgs
    BY <1>10, OutgoingFacts
  <2>3. k \in Nat
    BY <2>2, OutMsgSize
  <2>4. QED
    BY <2>1, <2>3, SendSliceStep, FinishFrameStep
<1>11. CASE \E len \in FrameLens : Capture(len)
  BY <1>11, CaptureStep
<1>12. CASE CaptureFails
  BY <1>12, CaptureFailsStep
<1>13. CASE \E m \in ClientMsgs : ClientSends(m)
  BY <1>13, ClientSendsStep
<1>14. CASE UNCHANGED vars
  <2>1. UNCHANGED connVars /\ UNCHANGED taskVars /\ UNCHANGED <<conns, sends, backlog, peer>>
    BY <1>14 DEF vars, connVars, netVars
  <2>2. /\ conns' \in Nat /\ sends' \in Nat /\ backlog' \in Nat
        /\ peer' \in {"gone", "open", "closed", "reset"}
    BY <2>1 DEF IInv, TypeOK
  <2>3. QED
    BY <2>1, <2>2, NetworkFacts
<1>15. QED
  BY <1>1, <1>2, <1>3, <1>4, <1>5, <1>6, <1>7, <1>8, <1>9, <1>10, <1>11, <1>12,
     <1>13, <1>14 DEF Next, Turn, Environment

\* Every behaviour of the server satisfies the inductive invariant.
THEOREM Inductive == Spec => []IInv
<1>1. QED
  BY InitInv, NextInv, PTL DEF Spec

\* The state keeps its types: the ring, the answers owed and the offset into the
\* message being sent stay within their bounds (server.c:37-66).
THEOREM TypeCorrect == Spec => []TypeOK
<1>1. IInv => TypeOK
  BY DEF IInv
<1>2. QED
  BY Inductive, <1>1, PTL

\* The parser stays in step with the client's messages however recv() slices them
\* and whatever is parsed, ignored or refused (on_readable).
THEOREM ParserStaysInSync == Spec => []ParserInSync
<1>1. IInv => ParserInSync
  BY DEF IInv, StreamInv, ParserInSync
<1>2. QED
  BY Inductive, <1>1, PTL

\* recv() is never asked for 0 bytes, whose answer on_readable would take for the
\* end of the stream.
THEOREM RecvAlwaysHasRoom == Spec => []RecvHasRoom
<1>1. IInv => RecvHasRoom
  BY DEF IInv, RoomInv, RecvHasRoom
<1>2. QED
  BY Inductive, <1>1, PTL

\* Whatever send() takes at a time, and whatever is captured or parsed meanwhile,
\* what the client receives is whole messages one after the other (on_writable,
\* capture_frame).
THEOREM WireStaysAtomic == Spec => []WireAtomic
<1>1. IInv => WireAtomic
  BY DEF IInv, WireInv, WireAtomic
<1>2. QED
  BY Inductive, <1>1, PTL

\* The comment at server.c:388-390: s_last_built only holds while the last chunk
\* of the frame is in flight.
THEOREM LastBuiltMeansInFlight == Spec => []LastBuiltInFlight
<1>1. IInv => LastBuiltInFlight
  BY DEF IInv, FrameInv
<1>2. QED
  BY Inductive, <1>1, PTL

\* No JPEG buffer is leaked or freed twice, and nothing of a connection reaches
\* the next one (close_client, release_frame).
THEOREM CleanSlate == Spec => []NothingOutlivesClient
<1>1. IInv => NothingOutlivesClient
  BY DEF IInv, FrameInv
<1>2. QED
  BY Inductive, <1>1, PTL

-----------------------------------------------------------------------------
(* What the server has to send: liveness needs that select() asks for       *)
(* writability while anything is left, and that sending uses it up.         *)

Extra  == HeaderLen + DataHeaderLen   \* what a chunk adds to its data
Answer == HeaderLen + HandshakeLen    \* the answer to a handshake
Unsent == frame.len - frameSent       \* data of the frame not yet in a chunk

\* The bytes in hand: what is left of the message, the answers owed, and the
\* data as if each byte of it were a chunk, than which there are no more.
ToSend == (msg.size - off) + due * Answer + Unsent * (Extra + 1)

\* Every step keeps the debt or lowers it by what the network takes, except that
\* a handshake adds one answer and a capture one frame.
DebtStep ==
    \/ ToSend' + Len(wire') <= ToSend + Len(wire)
    \/ HandleHandshake /\ ToSend' = ToSend + Answer
    \/ frame = NoFrame /\ frame' # NoFrame
          /\ ToSend' = ToSend + frame'.len * (Extra + 1)

DebtOnlyPaid == [][DebtStep]_vars

\* Cutting a chunk of n bytes costs no more than the n bytes were counted for.
LEMMA ChunkPays ==
    ASSUME NEW e \in Nat, NEW u \in Nat, NEW n \in Nat \ {0}, n <= u
    PROVE  (e + n) + (u - n) * (e + 1) <= u * (e + 1)
<1>1. (u - n) * (e + 1) = u * (e + 1) - n * (e + 1)
  OBVIOUS
<1>2. n * (e + 1) = n * e + n /\ n * e \in Nat
  OBVIOUS
<1>3. e <= n * e
  <2>1. (n - 1) * e = n * e - e /\ (n - 1) * e \in Nat
    OBVIOUS
  <2>2. QED
    BY <1>2, <2>1
<1>4. u * (e + 1) \in Nat /\ n * (e + 1) \in Nat
  OBVIOUS
<1>5. QED
  BY <1>1, <1>2, <1>3, <1>4

\* The bytes of the frame and of the wire are counted in numbers.
LEMMA FrameAndWire ==
    ASSUME IInv
    PROVE  /\ frame.len \in Nat /\ frameSent \in Nat /\ frameSent <= frame.len
           /\ frame = NoFrame => frame.len = 0
           /\ frame # NoFrame /\ ~lastBuilt => frameSent < frame.len
           /\ Len(wire) \in Nat
<1>1. /\ frame \in [len : FrameLens, id : ReqIds] \cup {NoFrame}
      /\ frameSent \in 0 .. frame.len /\ wire \in Seq(OutByte)
  BY DEF IInv, TypeOK
<1>2. frame.len \in Nat /\ (frame = NoFrame => frame.len = 0)
  <2>1. CASE frame = NoFrame
    BY <2>1 DEF NoFrame
  <2>2. CASE frame \in [len : FrameLens, id : ReqIds] /\ frame # NoFrame
    BY <2>2, ConstantsAssumption
  <2>3. QED
    BY <1>1, <2>1, <2>2
<1>3. frame # NoFrame /\ ~lastBuilt => frameSent < frame.len
  BY DEF IInv, FrameInv
<1>4. Len(wire) \in Nat
  BY <1>1, LenProperties
<1>5. QED
  BY <1>1, <1>2, <1>3, <1>4

\* The terms of the debt are numbers, and none without its cause.
LEMMA DebtTerms ==
    ASSUME IInv
    PROVE  /\ msg.size - off \in Nat /\ (off < msg.size <=> msg.size - off > 0)
           /\ due * Answer \in Nat /\ (due > 0 <=> due * Answer > 0)
           /\ Unsent \in Nat
           /\ Unsent * (Extra + 1) \in Nat /\ (Unsent > 0 <=> Unsent * (Extra + 1) > 0)
           /\ Extra \in Nat /\ Answer \in Nat \ {0} /\ due \in Nat
           /\ frame = NoFrame => Unsent = 0
<1>1. Extra \in Nat /\ Answer \in Nat \ {0}
  BY ConstantsAssumption DEF Extra, Answer
<1>2. msg.size \in Nat /\ off \in 0 .. msg.size /\ due \in Nat
  BY OutMsgSize, ConstantsAssumption DEF IInv, TypeOK, NoMsg
<1>3. /\ frame.len \in Nat /\ frameSent \in Nat /\ frameSent <= frame.len
      /\ frame = NoFrame => frame.len = 0
  BY FrameAndWire
<1>4. Unsent \in Nat /\ (frame = NoFrame => Unsent = 0)
  BY <1>3 DEF Unsent
<1>5. due * Answer \in Nat /\ (due > 0 <=> due * Answer > 0)
  BY <1>1, <1>2
<1>6. Unsent * (Extra + 1) \in Nat /\ (Unsent > 0 <=> Unsent * (Extra + 1) > 0)
  BY <1>1, <1>4
<1>7. QED
  BY <1>1, <1>2, <1>4, <1>5, <1>6

\* Building the next message moves debt about and does not add to it.
LEMMA OutgoingDebt ==
    ASSUME IInv, Writing
    PROVE  /\ Outgoing.due * Answer \in Nat
           /\ (frame.len - Outgoing.sent) * (Extra + 1) \in Nat
           /\ (Outgoing.msg.size - Outgoing.off) + Outgoing.due * Answer
                 + (frame.len - Outgoing.sent) * (Extra + 1) <= ToSend
<1>1. /\ msg.size - off \in Nat /\ due * Answer \in Nat /\ Unsent \in Nat
      /\ Unsent * (Extra + 1) \in Nat /\ Extra \in Nat /\ Answer \in Nat \ {0}
      /\ due \in Nat
  BY DebtTerms
<1>2. CASE ~AtBoundary
  <2>1. /\ Outgoing.msg = msg /\ Outgoing.off = off /\ Outgoing.due = due
        /\ Outgoing.sent = frameSent
    BY <1>2 DEF Outgoing
  <2>2. QED
    BY <1>1, <2>1 DEF ToSend, Unsent
<1>3. CASE AtBoundary /\ due > 0
  <2>1. /\ Outgoing.msg.size = Answer /\ Outgoing.off = 0 /\ Outgoing.due = due - 1
        /\ frame.len - Outgoing.sent = Unsent
    BY <1>3 DEF Outgoing, BuildHandshake, HandshakeMsg, Answer, Unsent
  <2>2. (due - 1) * Answer = due * Answer - Answer /\ (due - 1) * Answer \in Nat
    BY <1>1, <1>3
  <2>3. (Outgoing.msg.size - Outgoing.off) + Outgoing.due * Answer = due * Answer
    BY <1>1, <2>1, <2>2
  <2>4. QED
    BY <1>1, <2>1, <2>2, <2>3 DEF ToSend
<1>4. CASE AtBoundary /\ ~(due > 0)
  <2>1. /\ Outgoing.msg.size = Extra + NextLen /\ Outgoing.off = 0
        /\ Outgoing.due = due /\ Outgoing.sent = frameSent + NextLen
    BY <1>4 DEF Outgoing, BuildChunk, DataMsg, Extra
  <2>2. Unsent \in Nat \ {0}
    <3>1. off \in 0 .. msg.size /\ off = msg.size /\ msg.size \in Nat
      BY <1>4, OutMsgSize DEF AtBoundary, IInv, TypeOK, NoMsg
    <3>2. frame # NoFrame
      BY <1>1, <1>4, <3>1 DEF Writing, TxPending
    <3>3. ~lastBuilt
      BY <3>1 DEF IInv, FrameInv, LastBuiltInFlight
    <3>4. QED
      BY <3>2, <3>3, FrameAndWire DEF Unsent
  <2>3. NextLen \in Nat \ {0} /\ NextLen <= Unsent
    <3>1. NextLen = IF Unsent > MaxChunkData THEN MaxChunkData ELSE Unsent
      BY DEF NextLen, Unsent
    <3>2. QED
      BY <2>2, <3>1, ConstantsAssumption
  <2>4. frame.len - Outgoing.sent = Unsent - NextLen
    <3>1. frame.len \in Nat /\ frameSent \in Nat
      BY FrameAndWire
    <3>2. QED
      BY <2>1, <2>3, <3>1 DEF Unsent
  <2>5. /\ (Extra + NextLen) + (Unsent - NextLen) * (Extra + 1) <= Unsent * (Extra + 1)
    BY <1>1, <2>3, ChunkPays
  <2>6. (Unsent - NextLen) * (Extra + 1) \in Nat
    BY <1>1, <2>3
  <2>7. QED
    BY <1>1, <2>1, <2>3, <2>4, <2>5, <2>6 DEF ToSend
<1>5. QED
  BY <1>2, <1>3, <1>4

\* The wire grows by what send() took.
LEMMA PutLength ==
    ASSUME IInv, Writing, NEW k \in Nat, k <= Outgoing.msg.size - Outgoing.off, Put(k)
    PROVE  Len(wire') = Len(wire) + k /\ Len(wire) \in Nat
<1> DEFINE b == BytesOf(Outgoing.msg, Outgoing.off + 1, Outgoing.off + k)
<1>1. wire' = wire \o b /\ wire \in Seq(OutByte)
  BY DEF Put, IInv, TypeOK
<1>2. Outgoing.msg \in OutMsgs /\ Outgoing.off \in Nat
  BY OutgoingFacts
<1>3. /\ Outgoing.off + 1 \in Nat \ {0} /\ Outgoing.off + k \in Nat
      /\ Outgoing.off + 1 <= (Outgoing.off + k) + 1
      /\ (Outgoing.off + k) - (Outgoing.off + 1) + 1 = k
  BY <1>2
<1>4. \A p \in Outgoing.off + 1 .. Outgoing.off + k : Byte(Outgoing.msg, p) \in OutByte
  BY <1>2, Bytes
<1>5. b \in Seq(OutByte) /\ Len(b) = k
  BY <1>3, <1>4, BytesOfSeq, BytesOfAt
<1> HIDE DEF b
<1>6. QED
  BY <1>1, <1>5, ConcatProperties, LenProperties

\* What send() takes comes off the debt, and the end of a frame leaves none of it.
LEMMA SliceDebt ==
    ASSUME IInv, NEW k \in Nat, SendSlice(k) \/ FinishFrame(k)
    PROVE  ToSend' + Len(wire') <= ToSend + Len(wire)
<1>1. Writing /\ k <= Outgoing.msg.size - Outgoing.off /\ Put(k)
  BY DEF SendSlice, FinishFrame
<1>2. Len(wire') = Len(wire) + k /\ Len(wire) \in Nat
  BY <1>1, PutLength
<1> DEFINE o == Outgoing.msg.size - Outgoing.off
           a == Outgoing.due * Answer
           r == (frame.len - Outgoing.sent) * (Extra + 1)
<1>3. a \in Nat /\ r \in Nat /\ o + a + r <= ToSend /\ due' = Outgoing.due
  BY <1>1, OutgoingDebt DEF Put
<1>4. Outgoing.msg.size \in Nat /\ Outgoing.off \in Nat /\ o \in Nat /\ k <= o
  BY <1>1, OutgoingFacts, OutMsgSize
<1>5. ToSend \in Nat
  BY DebtTerms DEF ToSend
<1>6. UNCHANGED <<Extra, Answer>>
  BY DEF Extra, Answer
<1>7. CASE SendSlice(k)
  <2>1. /\ msg' = Outgoing.msg /\ off' = Outgoing.off + k /\ frame' = frame
        /\ frameSent' = Outgoing.sent
    BY <1>7 DEF SendSlice
  <2>2. Unsent' * (Extra + 1) = r /\ due' * Answer = a
    BY <1>3, <2>1 DEF Unsent
  <2>3. msg'.size - off' = o - k
    BY <1>4, <2>1
  <2>4. ToSend' = (o - k) + a + r
    BY <1>6, <2>2, <2>3 DEF ToSend
  <2> HIDE DEF o, a, r
  <2>5. QED
    BY <1>2, <1>3, <1>4, <1>5, <2>4
<1>8. CASE FinishFrame(k)
  <2>1. msg' = NoMsg /\ off' = 0 /\ frame' = NoFrame /\ frameSent' = 0
    BY <1>8 DEF FinishFrame, ReleaseFrame
  <2>2. Unsent' = 0 /\ msg'.size - off' = 0
    BY <2>1 DEF Unsent, NoMsg, NoFrame
  <2>3. ToSend' = 0 + a + 0 * (Extra + 1)
    BY <1>3, <1>6, <2>2 DEF ToSend
  <2>4. ToSend' = a
    <3>1. Extra \in Nat
      BY DebtTerms
    <3> HIDE DEF a
    <3>2. QED
      BY <1>3, <2>3, <3>1
  <2>5. k <= o /\ o \in Nat
    BY <1>4
  <2> HIDE DEF o, a, r
  <2>6. QED
    BY <1>2, <1>3, <1>5, <2>4, <2>5
<1>9. QED
  BY <1>7, <1>8

\* A client that is dropped is owed nothing.
LEMMA CloseDebt ==
    ASSUME IInv, CloseClient
    PROVE  ToSend' + Len(wire') <= ToSend + Len(wire)
<1>1. /\ msg' = NoMsg /\ off' = 0 /\ frame' = NoFrame /\ frameSent' = 0 /\ due' = 0
      /\ wire' = wire
  BY DEF CloseClient, ReleaseFrame
<1>2. ToSend' = 0 + 0 * Answer + 0 * (Extra + 1)
  BY <1>1 DEF ToSend, Unsent, NoMsg, NoFrame, Answer, Extra
<1>3. ToSend \in Nat /\ Extra \in Nat /\ Answer \in Nat
  BY DebtTerms DEF ToSend
<1>4. Len(wire) \in Nat
  BY FrameAndWire
<1>5. QED
  BY <1>1, <1>2, <1>3, <1>4

LEMMA SameDebt ==
    ASSUME IInv, UNCHANGED <<msg, off, due, frame, frameSent, wire>>
    PROVE  ToSend' + Len(wire') <= ToSend + Len(wire)
<1>1. ToSend' = ToSend /\ Len(wire') = Len(wire)
  BY DEF ToSend, Unsent, Answer, Extra
<1>2. ToSend \in Nat /\ Len(wire) \in Nat
  BY DebtTerms, FrameAndWire DEF ToSend
<1>3. QED
  BY <1>1, <1>2

LEMMA NextDebt == IInv /\ [Next]_vars => DebtStep \/ UNCHANGED vars
<1> SUFFICES ASSUME IInv, Next PROVE DebtStep
  OBVIOUS
<1>1. CASE \/ AcceptFails \/ \E w \in BOOLEAN : Select(w)
           \/ \E n \in 1 .. RxCap : Recv(n)
           \/ RecvNothing \/ ParseDone \/ HandleRequest \/ IgnoreMsg
           \/ NotWritable \/ CaptureFails \/ NothingToCapture \/ Environment
  <2>1. UNCHANGED <<msg, off, due, frame, frameSent, wire>>
    BY <1>1 DEF AcceptFails, Select, Recv, RecvNothing, ParseDone, HandleRequest,
       IgnoreMsg, Consume, NotWritable, CaptureFails, NothingToCapture, Environment,
       Connect, ClientSends, ClientLeaves, frameVars, msgVars, netVars
  <2>2. QED
    BY <2>1, SameDebt DEF DebtStep
<1>2. CASE AcceptClient
  <2>1. /\ UNCHANGED <<msg, off, frame, frameSent>> /\ due' = 0 /\ wire' = <<>>
        /\ due = 0
    BY <1>2 DEF AcceptClient, frameVars, msgVars, IInv, FrameInv, NothingOutlivesClient
  <2>2. ToSend' = ToSend
    BY <2>1 DEF ToSend, Unsent, Answer, Extra
  <2>3. ToSend \in Nat /\ Len(wire) \in Nat /\ Len(wire') = 0
    BY <2>1, DebtTerms, FrameAndWire, EmptySeq DEF ToSend
  <2>4. QED
    BY <2>2, <2>3 DEF DebtStep
<1>3. CASE RecvEnds \/ ParseDrops \/ SendFails
  BY <1>3, CloseDebt DEF RecvEnds, ParseDrops, SendFails, DebtStep
<1>4. CASE HandleHandshake
  <2>1. /\ UNCHANGED <<msg, off, frame, frameSent, wire>>
        /\ due' = IF due < HandshakesMax THEN due + 1 ELSE due
    BY <1>4 DEF HandleHandshake, Consume, frameVars, msgVars, netVars
  <2>2. CASE due' = due
    BY <2>1, <2>2, SameDebt DEF DebtStep
  <2>3. CASE due' = due + 1
    <3>1. /\ msg.size - off \in Nat /\ due * Answer \in Nat
          /\ Unsent * (Extra + 1) \in Nat /\ due \in Nat /\ Answer \in Nat
      BY DebtTerms
    <3>2. (due + 1) * Answer = due * Answer + Answer
      BY <3>1
    <3>3. ToSend' = (msg.size - off) + (due + 1) * Answer + Unsent * (Extra + 1)
      BY <2>1, <2>3 DEF ToSend, Unsent, Answer, Extra
    <3>4. ToSend' = ToSend + Answer
      BY <3>1, <3>2, <3>3 DEF ToSend
    <3>5. QED
      BY <1>4, <3>4 DEF DebtStep
  <2>4. QED
    BY <2>1, <2>2, <2>3
<1>5. CASE Writing /\ \E k \in 0 .. Outgoing.msg.size : SendSlice(k) \/ FinishFrame(k)
  <2>1. PICK k \in 0 .. Outgoing.msg.size : SendSlice(k) \/ FinishFrame(k)
    BY <1>5
  <2>2. Outgoing.msg \in OutMsgs
    BY <1>5, OutgoingFacts
  <2>3. k \in Nat
    BY <2>2, OutMsgSize
  <2>4. QED
    BY <2>1, <2>3, SliceDebt DEF DebtStep
<1>6. CASE \E len \in FrameLens : Capture(len)
  <2>1. PICK len \in FrameLens : Capture(len)
    BY <1>6
  <2>2. /\ frame = NoFrame /\ frame' = [len |-> len, id |-> ring[head]]
        /\ frameSent' = 0 /\ UNCHANGED <<msg, off, due>>
    BY <2>1 DEF Capture, Capturing, msgVars
  <2>3. len \in Nat \ {0} /\ frame'.len = len /\ frame' # NoFrame /\ Unsent = 0
    <3>1. len \in Nat \ {0} /\ frame'.len = len /\ Unsent = 0
      BY <2>2, DebtTerms, ConstantsAssumption
    <3>2. QED
      BY <2>2, <3>1 DEF NoFrame
  <2>4. Unsent' = len
    BY <2>2, <2>3 DEF Unsent
  <2>5. ToSend' = (msg.size - off) + due * Answer + len * (Extra + 1)
    BY <2>2, <2>4 DEF ToSend, Answer, Extra
  <2>6. ToSend = (msg.size - off) + due * Answer
    <3>1. /\ ToSend = (msg.size - off) + due * Answer + 0 * (Extra + 1)
          /\ msg.size - off \in Nat /\ due * Answer \in Nat /\ Extra \in Nat
      BY <2>3, DebtTerms DEF ToSend
    <3>2. QED
      BY <3>1
  <2>7. QED
    BY <2>2, <2>3, <2>5, <2>6 DEF DebtStep
<1>7. QED
  BY <1>1, <1>2, <1>3, <1>4, <1>5, <1>6 DEF Next, Turn

\* tx_pending, which decides whether select() watches for writability
\* (server.c:352,416), is true exactly while there are bytes to send: it never
\* forgets a chunk, an answer or the rest of a message, and never asks for
\* nothing, which would keep the loop turning.
THEOREM PendingWhileInDebt == Spec => [](TxPending <=> ToSend > 0)
<1>1. IInv => (TxPending <=> ToSend > 0)
  <2> SUFFICES ASSUME IInv PROVE TxPending <=> ToSend > 0
    OBVIOUS
  <2>1. /\ msg.size - off \in Nat /\ (off < msg.size <=> msg.size - off > 0)
        /\ due * Answer \in Nat /\ (due > 0 <=> due * Answer > 0)
        /\ Unsent * (Extra + 1) \in Nat /\ (Unsent > 0 <=> Unsent * (Extra + 1) > 0)
        /\ Unsent \in Nat /\ (frame = NoFrame => Unsent = 0)
    BY DebtTerms
  <2>2. ToSend > 0 <=> off < msg.size \/ due > 0 \/ Unsent > 0
    BY <2>1 DEF ToSend
  <2>3. frame # NoFrame => off < msg.size \/ Unsent > 0
    <3>1. lastBuilt => off < msg.size
      BY DEF IInv, FrameInv, LastBuiltInFlight
    <3>2. frame # NoFrame /\ ~lastBuilt => Unsent > 0
      BY FrameAndWire DEF Unsent
    <3>3. QED
      BY <3>1, <3>2
  <2>4. Unsent > 0 => frame # NoFrame
    BY <2>1
  <2>5. QED
    BY <2>2, <2>3, <2>4 DEF TxPending
<1>2. QED
  BY Inductive, <1>1, PTL

\* Only a handshake and a capture give the server something to send; everything
\* else leaves it, and every byte send() takes is one less of it.  So a client
\* that keeps reading gets its frame to the end, and its answers, after a number
\* of bytes that is known when they are asked for (on_writable, server.c:360-393).
THEOREM DebtIsPaid == Spec => DebtOnlyPaid
<1>1. IInv /\ [Next]_vars => [DebtStep]_vars
  BY NextDebt
<1>2. QED
  BY Inductive, <1>1, PTL DEF Spec, DebtOnlyPaid
=============================================================================
