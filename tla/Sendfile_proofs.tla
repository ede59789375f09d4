--------------------------- MODULE Sendfile_proofs ---------------------------
(***************************************************************************)
(* The inductive invariant of a connection, for every set of answers, file *)
(* size, socket capacity and length of the placeholder frames, and what    *)
(* follows from it.                                                        *)
(*                                                                         *)
(* The invariant has a part about the bytes (Data: everything promised is  *)
(* on the wire, owed, or still to be handed over, in this order) and a     *)
(* part about the stream's and the call's state (Control).  Each action is *)
(* shown to keep both.                                                     *)
(*                                                                         *)
(* First the scanner of heads by itself: what a split of the input leaves  *)
(* unchanged, and heads that are fed to it in pieces.                      *)
(***************************************************************************)
EXTENDS Sendfile, HeadFeed, WellFoundedInduction, SequenceTheorems, TLAPS

\* A non-empty set of naturals has a least element.
LEMMA LeastNat ==
  ASSUME NEW T, T \subseteq Nat, T # {}
  PROVE  \E x \in T : \A y \in T : x <= y
<1> DEFINE R == {p \in Nat \X Nat : p[1] < p[2]}
<1>1. IsWellFoundedOn(R, Nat)
  BY NatLessThanWellFounded, Zenon DEF OpToRel
<1>2. \A x, y \in T : <<y, x>> \in R <=> y < x
  OBVIOUS
<1> HIDE DEF R
<1>3. PICK x \in T : \A y \in T : <<y, x>> \notin R
  BY <1>1, WFMin, Zenon
<1>4. \A y \in T : ~(y < x)
  BY <1>2, <1>3, Zenon
<1>5. \A y \in T : x <= y
  BY <1>4
<1> QED
  BY <1>5

\* The first end is an end, and no end comes before it.
LEMMA FirstEndIsLeast ==
  ASSUME NEW s \in Seq(ByteClass), EndsIn(s) # {}
  PROVE  /\ FirstEnd(s) \in EndsIn(s)
         /\ \A e \in EndsIn(s) : FirstEnd(s) <= e
<1>1. EndsIn(s) \subseteq Nat
  BY DEF EndsIn, HEAD_END
<1>2. \E x \in EndsIn(s) : \A y \in EndsIn(s) : x <= y
  BY <1>1, LeastNat, Zenon
<1> QED
  BY <1>2, Zenon DEF FirstEnd

\* An end is the last of four bytes CR, LF, CR, LF.
LEMMA EndsInBytes ==
  ASSUME NEW s \in Seq(ByteClass), NEW e
  PROVE  e \in EndsIn(s) <=> /\ e \in Nat /\ 4 <= e /\ e <= Len(s)
                             /\ s[e - 3] = CR /\ s[e - 2] = LF /\ s[e - 1] = CR /\ s[e] = LF
<1>1. HEAD_END[1] = CR /\ HEAD_END[2] = LF /\ HEAD_END[3] = CR /\ HEAD_END[4] = LF /\ Len(HEAD_END) = 4
  BY DEF HEAD_END
<1>2. ASSUME e \in EndsIn(s)
      PROVE  /\ e \in Nat /\ 4 <= e /\ e <= Len(s)
             /\ s[e - 3] = CR /\ s[e - 2] = LF /\ s[e - 1] = CR /\ s[e] = LF
  <2>1. e \in 4..Len(s) /\ \A k \in 1..4 : s[e - 4 + k] = HEAD_END[k]
    BY <1>1, <1>2 DEF EndsIn
  <2>2. s[e - 4 + 1] = CR /\ s[e - 4 + 2] = LF /\ s[e - 4 + 3] = CR /\ s[e - 4 + 4] = LF
    BY <1>1, <2>1
  <2>3. e - 4 + 1 = e - 3 /\ e - 4 + 2 = e - 2 /\ e - 4 + 3 = e - 1 /\ e - 4 + 4 = e
    BY <2>1
  <2> QED
    BY <2>1, <2>2, <2>3
<1>3. ASSUME e \in Nat, 4 <= e, e <= Len(s),
             s[e - 3] = CR, s[e - 2] = LF, s[e - 1] = CR, s[e] = LF
      PROVE  e \in EndsIn(s)
  <2>1. e - 4 + 1 = e - 3 /\ e - 4 + 2 = e - 2 /\ e - 4 + 3 = e - 1 /\ e - 4 + 4 = e
    BY <1>3
  <2>2. \A k \in 1..4 : s[e - 4 + k] = HEAD_END[k]
    <3> TAKE k \in 1..4
    <3>1. k = 1 \/ k = 2 \/ k = 3 \/ k = 4
      OBVIOUS
    <3> QED
      BY <3>1, <2>1, <1>1, <1>3
  <2> QED
    BY <2>2, <1>1, <1>3 DEF EndsIn
<1> QED
  BY <1>2, <1>3

\* An end that no end precedes is the first one.
LEMMA FirstEndUnique ==
  ASSUME NEW s \in Seq(ByteClass), NEW e \in EndsIn(s), \A f \in EndsIn(s) : e <= f
  PROVE  FirstEnd(s) = e
<1>1. FirstEnd(s) \in EndsIn(s) /\ FirstEnd(s) <= e /\ e <= FirstEnd(s)
  BY FirstEndIsLeast
<1>2. FirstEnd(s) \in Nat /\ e \in Nat
  BY <1>1, EndsInBytes
<1> QED
  BY <1>1, <1>2

\* The last k elements of a sequence.
LEMMA SuffixProperties ==
  ASSUME NEW S, NEW s \in Seq(S), NEW k \in Nat, k <= Len(s)
  PROVE  /\ SubSeq(s, Len(s) - k + 1, Len(s)) \in Seq(S)
         /\ Len(SubSeq(s, Len(s) - k + 1, Len(s))) = k
         /\ \A i \in 1..k : SubSeq(s, Len(s) - k + 1, Len(s))[i] = s[Len(s) - k + i]
OBVIOUS

\* LastThree is the last three elements, or all there are.
LEMMA LastThreeIsTail ==
  ASSUME NEW a \in Seq(ByteClass)
  PROVE  \E c \in Seq(ByteClass) :
           /\ c = LastThree(a)
           /\ Len(c) = SmallerOf(Len(a), 3)
           /\ \A i \in 1..Len(c) : c[i] = a[Len(a) - Len(c) + i]
<1>1. PICK k \in Nat : k = SmallerOf(Len(a), 3) /\ k <= Len(a)
  BY LenProperties DEF SmallerOf
<1>2. LastThree(a) = SubSeq(a, Len(a) - k + 1, Len(a))
  BY <1>1 DEF LastThree
<1>3. /\ SubSeq(a, Len(a) - k + 1, Len(a)) \in Seq(ByteClass)
      /\ Len(SubSeq(a, Len(a) - k + 1, Len(a))) = k
      /\ \A i \in 1..k : SubSeq(a, Len(a) - k + 1, Len(a))[i] = a[Len(a) - k + i]
  BY <1>1, SuffixProperties
<1> QED
  BY <1>1, <1>2, <1>3, Zenon

\* A concatenation, as a sequence with known elements.
LEMMA Concatenation ==
  ASSUME NEW s \in Seq(ByteClass), NEW t \in Seq(ByteClass)
  PROVE  \E x \in Seq(ByteClass) :
           /\ x = s \o t
           /\ Len(x) = Len(s) + Len(t)
           /\ \A i \in 1..Len(s) : x[i] = s[i]
           /\ \A i \in 1..Len(t) : x[Len(s) + i] = t[i]
<1>1. s \o t \in Seq(ByteClass) /\ Len(s \o t) = Len(s) + Len(t)
  OBVIOUS
<1>2. \A i \in 1..Len(s) : (s \o t)[i] = s[i]
  OBVIOUS
<1>3. \A i \in 1..Len(t) : (s \o t)[Len(s) + i] = t[i]
  OBVIOUS
<1> QED
  BY <1>1, <1>2, <1>3, Zenon

\* The carry of two pieces is the carry of their concatenation.
LEMMA CarryComposes ==
  ASSUME NEW s \in Seq(ByteClass), NEW b \in Seq(ByteClass)
  PROVE  Trailing(LastThree(s), b) = LastThree(s \o b)
<1>1. PICK c \in Seq(ByteClass) : /\ c = LastThree(s)
                                  /\ Len(c) = SmallerOf(Len(s), 3)
                                  /\ \A i \in 1..Len(c) : c[i] = s[Len(s) - Len(c) + i]
  BY LastThreeIsTail
<1>2. PICK x \in Seq(ByteClass) : /\ x = c \o b
                                  /\ Len(x) = Len(c) + Len(b)
                                  /\ \A i \in 1..Len(c) : x[i] = c[i]
                                  /\ \A i \in 1..Len(b) : x[Len(c) + i] = b[i]
  BY Concatenation
<1>3. PICK y \in Seq(ByteClass) : /\ y = s \o b
                                  /\ Len(y) = Len(s) + Len(b)
                                  /\ \A i \in 1..Len(s) : y[i] = s[i]
                                  /\ \A i \in 1..Len(b) : y[Len(s) + i] = b[i]
  BY Concatenation
<1>4. PICK u \in Seq(ByteClass) : /\ u = LastThree(x)
                                  /\ Len(u) = SmallerOf(Len(x), 3)
                                  /\ \A i \in 1..Len(u) : u[i] = x[Len(x) - Len(u) + i]
  BY LastThreeIsTail
<1>5. PICK t \in Seq(ByteClass) : /\ t = LastThree(y)
                                  /\ Len(t) = SmallerOf(Len(y), 3)
                                  /\ \A i \in 1..Len(t) : t[i] = y[Len(y) - Len(t) + i]
  BY LastThreeIsTail
<1>6. Len(s) \in Nat /\ Len(b) \in Nat /\ Len(c) \in Nat
  BY LenProperties
<1>7. /\ Len(u) = Len(t) /\ Len(u) \in Nat
      /\ Len(c) <= Len(s) /\ Len(u) <= Len(c) + Len(b)
  BY <1>1, <1>2, <1>3, <1>4, <1>5, <1>6 DEF SmallerOf
<1>8. ASSUME NEW i \in 1..Len(u)
      PROVE  u[i] = t[i]
  <2>0. Len(c) + Len(b) - Len(u) + i \in Int
    BY <1>6, <1>7
  <2>1. PICK j \in Int : j = Len(c) + Len(b) - Len(u) + i
    BY <2>0, Zenon
  <2>2. /\ 1 <= j /\ j <= Len(c) + Len(b)
        /\ Len(y) - Len(t) + i = Len(s) - Len(c) + j /\ Len(x) - Len(u) + i = j
    BY <1>2, <1>3, <1>6, <1>7, <2>1
  <2>3. u[i] = x[j] /\ t[i] = y[Len(s) - Len(c) + j]
    BY <1>4, <1>5, <1>7, <2>2
  <2>4. CASE j <= Len(c)
    <3>1. j \in 1..Len(c) /\ Len(s) - Len(c) + j \in 1..Len(s)
      BY <1>6, <1>7, <2>2, <2>4
    <3>2. x[j] = c[j] /\ c[j] = s[Len(s) - Len(c) + j]
      BY <3>1, <1>1, <1>2
    <3>3. y[Len(s) - Len(c) + j] = s[Len(s) - Len(c) + j]
      BY <3>1, <1>3
    <3> QED BY <3>2, <3>3, <2>3
  <2>5. CASE ~(j <= Len(c))
    <3>0. /\ j - Len(c) \in 1..Len(b) /\ j = Len(c) + (j - Len(c))
          /\ Len(s) - Len(c) + j = Len(s) + (j - Len(c))
      BY <1>6, <2>2, <2>5
    <3>1. PICK k \in 1..Len(b) : j = Len(c) + k /\ Len(s) - Len(c) + j = Len(s) + k
      BY <3>0, Zenon
    <3>2. x[Len(c) + k] = b[k] /\ y[Len(s) + k] = b[k]
      BY <1>2, <1>3
    <3> QED BY <3>1, <3>2, <2>3
  <2> QED BY <2>4, <2>5
<1>9. u = t
  BY <1>7, <1>8, SeqEqual
<1> QED
  BY <1>1, <1>2, <1>3, <1>4, <1>5, <1>9 DEF Trailing

\* Joined, as a sequence with known elements.
LEMMA JoinedIsWindow ==
  ASSUME NEW c \in Seq(ByteClass), NEW b \in Seq(ByteClass)
  PROVE  \E w \in Seq(ByteClass) :
           /\ w = Joined(c, b)
           /\ Len(w) = Len(c) + SmallerOf(Len(b), 3)
           /\ \A i \in 1..Len(c) : w[i] = c[i]
           /\ \A i \in 1..SmallerOf(Len(b), 3) : w[Len(c) + i] = b[i]
<1>1. PICK n \in Nat : n = SmallerOf(Len(b), 3) /\ n <= Len(b)
  BY LenProperties DEF SmallerOf
<1>2. Len(HEAD_END) - 1 = 3
  BY DEF HEAD_END
<1>3. /\ SubSeq(b, 1, n) \in Seq(ByteClass) /\ Len(SubSeq(b, 1, n)) = n
      /\ \A i \in 1..n : SubSeq(b, 1, n)[i] = b[i]
  BY <1>1
<1>4. PICK p \in Seq(ByteClass) : /\ p = SubSeq(b, 1, n) /\ Len(p) = n
                                  /\ \A i \in 1..n : p[i] = b[i]
  BY <1>3, Zenon
<1>5. PICK w \in Seq(ByteClass) : /\ w = c \o p
                                  /\ Len(w) = Len(c) + Len(p)
                                  /\ \A i \in 1..Len(c) : w[i] = c[i]
                                  /\ \A i \in 1..Len(p) : w[Len(c) + i] = p[i]
  BY Concatenation
<1>6. Joined(c, b) = w
  BY <1>1, <1>2, <1>4, <1>5 DEF Joined
<1>7. \A i \in 1..n : w[Len(c) + i] = b[i]
  BY <1>4, <1>5
<1> QED
  BY <1>1, <1>4, <1>5, <1>6, <1>7

\* Scanning in pieces is scanning the whole: after s, which has no terminator,
\* and with its last three bytes carried over, find_head_end finds in b the
\* first terminator of s followed by b (an index relative to b).
THEOREM SplitScan ==
  ASSUME NEW s \in Seq(ByteClass), NEW b \in Seq(ByteClass), EndsIn(s) = {}
  PROVE  FindHeadEnd(LastThree(s), b) =
           IF EndsIn(s \o b) = {} THEN NotFound ELSE FirstEnd(s \o b) - Len(s)
<1>1. PICK c \in Seq(ByteClass) : /\ c = LastThree(s)
                                  /\ Len(c) = SmallerOf(Len(s), 3)
                                  /\ \A i \in 1..Len(c) : c[i] = s[Len(s) - Len(c) + i]
  BY LastThreeIsTail
<1>2. PICK w \in Seq(ByteClass) : /\ w = Joined(c, b)
                                  /\ Len(w) = Len(c) + SmallerOf(Len(b), 3)
                                  /\ \A i \in 1..Len(c) : w[i] = c[i]
                                  /\ \A i \in 1..SmallerOf(Len(b), 3) : w[Len(c) + i] = b[i]
  BY JoinedIsWindow
<1>3. PICK y \in Seq(ByteClass) : /\ y = s \o b
                                  /\ Len(y) = Len(s) + Len(b)
                                  /\ \A i \in 1..Len(s) : y[i] = s[i]
                                  /\ \A i \in 1..Len(b) : y[Len(s) + i] = b[i]
  BY Concatenation
<1>4. Len(s) \in Nat /\ Len(b) \in Nat /\ Len(c) \in Nat /\ Len(c) <= Len(s) /\ Len(c) <= 3
  BY <1>1, LenProperties DEF SmallerOf
\* A terminator of the whole ends after s.
<1>5. ASSUME NEW e \in EndsIn(y) PROVE e \in Nat /\ e > Len(s) /\ e <= Len(s) + Len(b)
  <2>1. /\ e \in Nat /\ 4 <= e /\ e <= Len(y)
        /\ y[e - 3] = CR /\ y[e - 2] = LF /\ y[e - 1] = CR /\ y[e] = LF
    BY EndsInBytes
  <2>2. CASE e <= Len(s)
    <3>1. s[e - 3] = CR /\ s[e - 2] = LF /\ s[e - 1] = CR /\ s[e] = LF
      <4>1. e - 3 \in 1..Len(s) /\ e - 2 \in 1..Len(s) /\ e - 1 \in 1..Len(s) /\ e \in 1..Len(s)
        BY <2>1, <2>2, <1>4
      <4> QED BY <4>1, <2>1, <1>3
    <3>2. e \in EndsIn(s)
      BY <3>1, <2>1, <2>2, EndsInBytes
    <3> QED BY <3>2
  <2> QED BY <2>1, <2>2, <1>3, <1>4
\* The window shows the whole from the carry on.
<1>6. ASSUME NEW j \in 1..Len(w) PROVE w[j] = y[Len(s) - Len(c) + j]
  <2>1. CASE j <= Len(c)
    <3>1. j \in 1..Len(c) /\ Len(s) - Len(c) + j \in 1..Len(s)
      BY <1>4, <2>1
    <3> QED BY <3>1, <1>1, <1>2, <1>3
  <2>2. CASE ~(j <= Len(c))
    <3>1. /\ j - Len(c) \in 1..Len(b) /\ j - Len(c) \in 1..SmallerOf(Len(b), 3)
          /\ j = Len(c) + (j - Len(c)) /\ Len(s) - Len(c) + j = Len(s) + (j - Len(c))
      BY <1>2, <1>4, <2>2 DEF SmallerOf
    <3>2. PICK k \in 1..Len(b) : /\ k \in 1..SmallerOf(Len(b), 3)
                                 /\ j = Len(c) + k /\ Len(s) - Len(c) + j = Len(s) + k
      BY <3>1, Zenon
    <3> QED BY <3>2, <1>2, <1>3
  <2> QED BY <2>1, <2>2
<1>7. ASSUME NEW e \in EndsIn(w)
      PROVE  e \in Nat /\ e <= Len(c) + 3 /\ Len(s) - Len(c) + e \in EndsIn(y)
  <2>1. /\ e \in Nat /\ 4 <= e /\ e <= Len(w)
        /\ w[e - 3] = CR /\ w[e - 2] = LF /\ w[e - 1] = CR /\ w[e] = LF
    BY EndsInBytes
  <2>2. Len(s) - Len(c) + e \in Nat
    BY <2>1, <1>4
  <2>3. PICK g \in Nat : g = Len(s) - Len(c) + e
    BY <2>2, Zenon
  <2>4. g - 3 = Len(s) - Len(c) + (e - 3) /\ g - 2 = Len(s) - Len(c) + (e - 2) /\ g - 1 = Len(s) - Len(c) + (e - 1)
    BY <2>1, <2>3, <1>4
  <2>5. e - 3 \in 1..Len(w) /\ e - 2 \in 1..Len(w) /\ e - 1 \in 1..Len(w) /\ e \in 1..Len(w)
    BY <2>1, <1>2, <1>4
  <2>6. y[g - 3] = CR /\ y[g - 2] = LF /\ y[g - 1] = CR /\ y[g] = LF
    BY <2>1, <2>3, <2>4, <2>5, <1>6
  <2>7. /\ e \in Nat /\ 4 <= e /\ e <= Len(w) /\ g \in Nat
        /\ Len(w) = Len(c) + SmallerOf(Len(b), 3) /\ Len(y) = Len(s) + Len(b)
        /\ Len(c) \in Nat /\ Len(s) \in Nat /\ Len(b) \in Nat /\ Len(c) <= Len(s)
    BY <2>1, <1>2, <1>3, <1>4
  <2>8. 4 <= g /\ g <= Len(y)
    BY <2>3, <2>7 DEF SmallerOf
  <2>9. e <= Len(c) + 3
    BY <2>7 DEF SmallerOf
  <2> QED BY <2>1, <2>3, <2>6, <2>8, <2>9, EndsInBytes
<1>8. ASSUME NEW e \in EndsIn(y), e <= Len(s) + 3
      PROVE  e - Len(s) + Len(c) \in EndsIn(w)
  <2>1. /\ e \in Nat /\ 4 <= e /\ e <= Len(y) /\ e > Len(s)
        /\ y[e - 3] = CR /\ y[e - 2] = LF /\ y[e - 1] = CR /\ y[e] = LF
    BY EndsInBytes, <1>5
  <2>2. /\ e <= Len(s) + Len(b)
        /\ Len(c) = Len(s) \/ Len(c) = 3
        /\ Len(w) = Len(c) + Len(b) \/ Len(w) = Len(c) + 3
    BY <2>1, <1>1, <1>2, <1>3, <1>4 DEF SmallerOf
  <2>3. e \in Int /\ e - Len(s) >= 1
    BY <2>1, <1>4
  <2>4. e <= Len(s) + 3 /\ Len(w) \in Nat
    BY <1>8, LenProperties
  <2>5. ASSUME Len(c) = Len(s)
        PROVE  e - Len(s) + Len(c) \in Nat /\ e - Len(s) + Len(c) >= 4 /\ e - Len(s) + Len(c) <= Len(w)
    <3>1. e - Len(s) + Len(c) = e
      BY <2>3, <2>5, <1>4
    <3>2. e <= Len(w)
      BY <2>2, <2>3, <2>4, <2>5, <1>4
    <3> QED BY <3>1, <3>2, <2>1
  <2>6. ASSUME Len(c) = 3
        PROVE  e - Len(s) + Len(c) \in Nat /\ e - Len(s) + Len(c) >= 4 /\ e - Len(s) + Len(c) <= Len(w)
    <3>1. e - Len(s) + Len(c) = e - Len(s) + 3
      BY <2>6
    <3>2. e - Len(s) + 3 \in Nat /\ e - Len(s) + 3 >= 4
      BY <2>3, <1>4
    <3>3. e - Len(s) + 3 <= Len(w)
      <4>1. CASE Len(w) = Len(c) + Len(b)
        <5>1. e - Len(s) <= Len(b)
          BY <2>2, <2>3, <1>4
        <5>2. Len(w) = 3 + Len(b)
          BY <4>1, <2>6
        <5> QED BY <5>1, <5>2, <2>3, <1>4
      <4>2. CASE Len(w) = Len(c) + 3
        <5>1. e - Len(s) <= 3 /\ Len(w) = 6
          BY <4>2, <2>3, <2>4, <2>6, <1>4
        <5> QED BY <5>1, <2>3, <1>4
      <4> QED BY <4>1, <4>2, <2>2
    <3> QED BY <3>1, <3>2, <3>3
  <2>7. e - Len(s) + Len(c) \in Nat /\ e - Len(s) + Len(c) >= 4 /\ e - Len(s) + Len(c) <= Len(w)
    BY <2>2, <2>5, <2>6
  <2>8. PICK g \in Nat : g = e - Len(s) + Len(c) /\ 4 <= g /\ g <= Len(w)
    BY <2>7
  <2>9. e - 3 = Len(s) - Len(c) + (g - 3) /\ e - 2 = Len(s) - Len(c) + (g - 2) /\ e - 1 = Len(s) - Len(c) + (g - 1) /\ e = Len(s) - Len(c) + g
    BY <2>1, <2>8, <1>4
  <2>10. g - 3 \in 1..Len(w) /\ g - 2 \in 1..Len(w) /\ g - 1 \in 1..Len(w) /\ g \in 1..Len(w)
    BY <2>8, <1>2, <1>4
  <2>11. w[g - 3] = CR /\ w[g - 2] = LF /\ w[g - 1] = CR /\ w[g] = LF
    BY <2>1, <2>9, <2>10, <1>6
  <2> QED BY <2>8, <2>11, EndsInBytes
<1>9. ASSUME NEW e \in EndsIn(y), e > Len(s) + 3
      PROVE  e - Len(s) \in EndsIn(b)
  <2>1. /\ e \in Nat /\ e <= Len(y)
        /\ y[e - 3] = CR /\ y[e - 2] = LF /\ y[e - 1] = CR /\ y[e] = LF
    BY EndsInBytes
  <2>2. e - Len(s) \in Nat /\ e - Len(s) >= 4 /\ e - Len(s) <= Len(b)
    BY <2>1, <1>3, <1>4, <1>9
  <2>3. PICK g \in Nat : g = e - Len(s) /\ 4 <= g /\ g <= Len(b)
    BY <2>2
  <2>4. e - 3 = Len(s) + (g - 3) /\ e - 2 = Len(s) + (g - 2) /\ e - 1 = Len(s) + (g - 1) /\ e = Len(s) + g
    BY <2>1, <2>3, <1>4
  <2>5. g - 3 \in 1..Len(b) /\ g - 2 \in 1..Len(b) /\ g - 1 \in 1..Len(b) /\ g \in 1..Len(b)
    BY <2>3, <1>4
  <2>6. b[g - 3] = CR /\ b[g - 2] = LF /\ b[g - 1] = CR /\ b[g] = LF
    BY <2>1, <2>4, <2>5, <1>3
  <2> QED BY <2>3, <2>6, EndsInBytes
<1>10. ASSUME NEW e \in EndsIn(b)
       PROVE  e \in Nat /\ 4 <= e /\ Len(s) + e \in EndsIn(y)
  <2>1. /\ e \in Nat /\ 4 <= e /\ e <= Len(b)
        /\ b[e - 3] = CR /\ b[e - 2] = LF /\ b[e - 1] = CR /\ b[e] = LF
    BY EndsInBytes
  <2>2. PICK g \in Nat : g = Len(s) + e
    BY <2>1, <1>4
  <2>3. g - 3 = Len(s) + (e - 3) /\ g - 2 = Len(s) + (e - 2) /\ g - 1 = Len(s) + (e - 1)
    BY <2>1, <2>2, <1>4
  <2>4. e - 3 \in 1..Len(b) /\ e - 2 \in 1..Len(b) /\ e - 1 \in 1..Len(b) /\ e \in 1..Len(b)
    BY <2>1, <1>4
  <2>5. y[g - 3] = CR /\ y[g - 2] = LF /\ y[g - 1] = CR /\ y[g] = LF
    BY <2>1, <2>2, <2>3, <2>4, <1>3
  <2>6. 4 <= g /\ g <= Len(y)
    BY <2>1, <2>2, <1>3, <1>4
  <2> QED BY <2>1, <2>2, <2>5, <2>6, EndsInBytes
\* Either the terminator reaches back into the carry ...
<1>11. CASE c # <<>> /\ EndsIn(w) # {}
  <2>1. FindHeadEnd(LastThree(s), b) = FirstEnd(w) - Len(c)
    BY <1>1, <1>2, <1>11 DEF FindHeadEnd
  <2>2. PICK e \in EndsIn(w) : e = FirstEnd(w) /\ \A f \in EndsIn(w) : e <= f
    BY <1>11, FirstEndIsLeast
  <2>3. e \in Nat /\ e <= Len(c) + 3 /\ Len(s) - Len(c) + e \in EndsIn(y)
    BY <1>7
  <2>4. ASSUME NEW f \in EndsIn(y) PROVE Len(s) - Len(c) + e <= f
    <3>1. f \in Nat /\ f > Len(s)
      BY <1>5
    <3>2. CASE f <= Len(s) + 3
      <4>1. e <= f - Len(s) + Len(c)
        BY <1>8, <2>2, <3>2
      <4> QED BY <4>1, <3>1, <2>3, <1>4
    <3>3. CASE f > Len(s) + 3
      BY <3>1, <3>3, <2>3, <1>4
    <3> QED BY <3>1, <3>2, <3>3, <1>4
  <2>5. FirstEnd(y) = Len(s) - Len(c) + e
    BY <2>3, <2>4, FirstEndUnique
  <2> QED BY <1>3, <1>4, <2>1, <2>2, <2>3, <2>5
\* ... or it lies within b.
<1>12. CASE c = <<>> \/ EndsIn(w) = {}
  <2>1. FindHeadEnd(LastThree(s), b) = FirstEnd(b)
    BY <1>1, <1>2, <1>12 DEF FindHeadEnd
  <2>2. ASSUME NEW e \in EndsIn(y) PROVE e \in Nat /\ e - Len(s) \in EndsIn(b)
    <3>1. e \in Nat /\ 4 <= e
      BY EndsInBytes
    <3>2. CASE EndsIn(w) = {}
      <4>1. ~(e <= Len(s) + 3)
        BY <1>8, <3>2
      <4> QED BY <4>1, <1>4, <1>9, <3>1
    <3>3. CASE c = <<>>
      <4>1. Len(c) = 0
        BY <3>3
      <4>2. Len(s) = 0
        BY <4>1, <1>1, <1>4 DEF SmallerOf
      <4> QED BY <4>2, <3>1, <1>9
    <3> QED BY <3>2, <3>3, <1>12
  <2>3. CASE EndsIn(y) = {}
    <3>1. EndsIn(b) = {}
      BY <2>3, <1>10
    <3> QED BY <3>1, <2>1, <2>3, <1>3 DEF FirstEnd
  <2>4. CASE EndsIn(y) # {}
    <3>1. PICK f \in EndsIn(y) : f = FirstEnd(y) /\ \A g \in EndsIn(y) : f <= g
      BY <2>4, FirstEndIsLeast
    <3>2. f \in Nat /\ f - Len(s) \in EndsIn(b)
      BY <2>2
    <3>3. ASSUME NEW g \in EndsIn(b) PROVE f - Len(s) <= g
      <4>1. g \in Nat /\ f <= Len(s) + g
        BY <1>10, <3>1
      <4> QED BY <4>1, <3>2, <1>4
    <3>4. FirstEnd(b) = f - Len(s)
      BY <3>2, <3>3, FirstEndUnique
    <3> QED BY <3>1, <3>4, <2>1, <2>4, <1>3
  <2> QED BY <2>3, <2>4
<1> QED
  BY <1>11, <1>12

-----------------------------------------------------------------------------
(* A response head that Hyper has ended with its only terminator.          *)

\* The first k elements of a sequence.
LEMMA FirstPart ==
  ASSUME NEW s \in Seq(ByteClass), NEW k \in Nat, k <= Len(s)
  PROVE  \E x \in Seq(ByteClass) : /\ x = SubSeq(s, 1, k) /\ Len(x) = k
                                   /\ \A i \in 1..k : x[i] = s[i]
<1>1. /\ SubSeq(s, 1, k) \in Seq(ByteClass) /\ Len(SubSeq(s, 1, k)) = k
      /\ \A i \in 1..k : SubSeq(s, 1, k)[i] = s[i]
  OBVIOUS
<1> QED
  BY <1>1, Zenon

\* Nothing is carried from nothing.
LEMMA NothingCarried ==
  ASSUME NEW s \in Seq(ByteClass)
  PROVE  LastThree(SubSeq(s, 1, 0)) = <<>>
<1>1. SubSeq(s, 1, 0) = <<>>
  OBVIOUS
<1>2. <<>> \in Seq(ByteClass) /\ Len(<<>>) = 0
  BY EmptySeq
<1>3. PICK c \in Seq(ByteClass) : c = LastThree(<<>>) /\ Len(c) = SmallerOf(Len(<<>>), 3)
  BY <1>2, LastThreeIsTail
<1>4. Len(c) = 0
  BY <1>2, <1>3 DEF SmallerOf
<1>5. c = <<>>
  BY <1>4, EmptySeq
<1> QED
  BY <1>1, <1>3, <1>5, Zenon

\* Two sequences that agree up to an end agree that it is one.
LEMMA SameEnd ==
  ASSUME NEW s \in Seq(ByteClass), NEW t \in Seq(ByteClass), NEW e \in EndsIn(s), e <= Len(t),
         \A i \in 1..e : t[i] = s[i]
  PROVE  e \in EndsIn(t)
<1>1. /\ e \in Nat /\ 4 <= e /\ e <= Len(s)
      /\ s[e - 3] = CR /\ s[e - 2] = LF /\ s[e - 1] = CR /\ s[e] = LF
  BY EndsInBytes
<1>2. e - 3 \in 1..e /\ e - 2 \in 1..e /\ e - 1 \in 1..e /\ e \in 1..e
  BY <1>1
<1> QED
  BY <1>1, <1>2, EndsInBytes

\* The carry after one more piece of the head.
LEMMA CarryAdvances ==
  ASSUME NEW head \in Seq(ByteClass), NEW k \in Nat, NEW b \in Seq(ByteClass),
         k + Len(b) <= Len(head), \A i \in 1..Len(b) : b[i] = head[k + i]
  PROVE  Trailing(LastThree(SubSeq(head, 1, k)), b) = LastThree(SubSeq(head, 1, k + Len(b)))
<1>1. Len(b) \in Nat /\ Len(head) \in Nat
  BY LenProperties
<1>2. PICK n \in Nat : n = Len(b)
  BY <1>1, Zenon
<1>3. k <= Len(head) /\ k + n \in Nat /\ k + n <= Len(head)
  BY <1>1, <1>2
<1>4. PICK s \in Seq(ByteClass) : /\ s = SubSeq(head, 1, k) /\ Len(s) = k
                                  /\ \A i \in 1..k : s[i] = head[i]
  BY <1>3, FirstPart
<1>5. PICK t \in Seq(ByteClass) : /\ t = SubSeq(head, 1, k + n) /\ Len(t) = k + n
                                  /\ \A i \in 1..(k + n) : t[i] = head[i]
  BY <1>3, FirstPart
<1>6. PICK y \in Seq(ByteClass) : /\ y = s \o b
                                  /\ Len(y) = Len(s) + Len(b)
                                  /\ \A i \in 1..Len(s) : y[i] = s[i]
                                  /\ \A i \in 1..Len(b) : y[Len(s) + i] = b[i]
  BY Concatenation
<1>7. ASSUME NEW i \in 1..(k + n) PROVE y[i] = t[i]
  <2>1. CASE i <= k
    <3>1. i \in 1..k
      BY <2>1, <1>3
    <3> QED
      BY <3>1, <1>4, <1>5, <1>6
  <2>2. CASE ~(i <= k)
    <3>1. i - k \in 1..n /\ i = k + (i - k)
      BY <2>2, <1>3
    <3>2. PICK j \in 1..n : i = k + j
      BY <3>1, Zenon
    <3>3. y[k + j] = b[j] /\ b[j] = head[k + j]
      BY <1>2, <1>4, <1>6
    <3> QED
      BY <3>2, <3>3, <1>5
  <2> QED
    BY <2>1, <2>2
<1>8. Len(y) = k + n /\ Len(t) = k + n
  BY <1>2, <1>4, <1>5, <1>6
<1>9. y = t
  BY <1>7, <1>8, SeqEqual
<1>10. Trailing(LastThree(s), b) = LastThree(y)
  BY <1>6, CarryComposes
<1> QED
  BY <1>2, <1>4, <1>5, <1>9, <1>10, Zenon

\* After k bytes of a head, the next piece b (the rest of the head, or what of it
\* fits, and then bytes of the body) shows the end of the head if it reaches it.
LEMMA HeadFound ==
  ASSUME NEW head \in Seq(ByteClass), EndsIn(head) = {Len(head)},
         NEW k \in Nat, k < Len(head), NEW b \in Seq(ByteClass),
         \A i \in 1..Len(b) : k + i <= Len(head) => b[i] = head[k + i]
  PROVE  FindHeadEnd(LastThree(SubSeq(head, 1, k)), b) =
           IF Len(head) <= k + Len(b) THEN Len(head) - k ELSE NotFound
<1>1. Len(b) \in Nat /\ Len(head) \in Nat
  BY LenProperties
<1>2. PICK n \in Nat, h \in Nat : n = Len(b) /\ h = Len(head)
  BY <1>1, Zenon
<1>3. PICK s \in Seq(ByteClass) : /\ s = SubSeq(head, 1, k) /\ Len(s) = k
                                  /\ \A i \in 1..k : s[i] = head[i]
  <2>1. k <= Len(head)
    BY <1>1
  <2> QED
    BY <2>1, FirstPart
<1>4. EndsIn(s) = {}
  <2> SUFFICES ASSUME NEW e \in EndsIn(s) PROVE FALSE
    OBVIOUS
  <2>1. e \in Nat /\ e <= k
    BY <1>3, EndsInBytes
  <2>2. e <= Len(head) /\ \A i \in 1..e : head[i] = s[i]
    BY <2>1, <1>1, <1>3
  <2>3. e \in EndsIn(head)
    BY <2>2, SameEnd
  <2> QED
    BY <2>1, <2>3, <1>1
<1>5. PICK y \in Seq(ByteClass) : /\ y = s \o b
                                  /\ Len(y) = Len(s) + Len(b)
                                  /\ \A i \in 1..Len(s) : y[i] = s[i]
                                  /\ \A i \in 1..Len(b) : y[Len(s) + i] = b[i]
  BY Concatenation
<1>6. Len(y) = k + n
  BY <1>2, <1>3, <1>5
<1>7. ASSUME NEW i \in 1..h, i <= k + n PROVE y[i] = head[i]
  <2>1. CASE i <= k
    <3>1. i \in 1..k
      BY <2>1
    <3> QED
      BY <3>1, <1>3, <1>5
  <2>2. CASE ~(i <= k)
    <3>1. i - k \in 1..n /\ i = k + (i - k)
      BY <2>2, <1>7
    <3>2. PICK j \in 1..n : i = k + j
      BY <3>1, Zenon
    <3>3. k + j <= Len(head)
      BY <3>2, <1>2
    <3>4. b[j] = head[k + j]
      BY <3>3, <1>2
    <3>5. y[k + j] = b[j]
      BY <1>2, <1>3, <1>5
    <3> QED
      BY <3>2, <3>4, <3>5
  <2> QED
    BY <2>1, <2>2
\* An end of the bytes handed over that lies in the head is the end of the head.
<1>8. ASSUME NEW e \in EndsIn(y) PROVE e \in Nat /\ e <= k + n /\ h <= e
  <2>1. e \in Nat /\ e <= k + n
    BY <1>6, EndsInBytes
  <2>2. ASSUME e < h PROVE FALSE
    <3>0. ASSUME NEW i \in 1..e PROVE i \in 1..h /\ i <= k + n
      BY <2>1, <2>2
    <3>1. e <= Len(head) /\ \A i \in 1..e : head[i] = y[i]
      BY <3>0, <2>1, <2>2, <1>2, <1>7
    <3>2. e \in EndsIn(head)
      BY <3>1, SameEnd
    <3> QED
      BY <3>2, <2>2, <1>2
  <2> QED
    BY <2>1, <2>2
<1>9. FindHeadEnd(LastThree(s), b) = IF EndsIn(y) = {} THEN NotFound ELSE FirstEnd(y) - Len(s)
  BY <1>4, <1>5, SplitScan
<1>10. CASE h <= k + n
  <2>1. h \in EndsIn(head) /\ h <= Len(y) /\ \A i \in 1..h : y[i] = head[i]
    BY <1>2, <1>6, <1>7, <1>10
  <2>2. h \in EndsIn(y)
    BY <2>1, SameEnd
  <2>3. FirstEnd(y) = h
    BY <2>2, <1>8, FirstEndUnique
  <2> QED
    BY <2>2, <2>3, <1>2, <1>3, <1>9, <1>10
<1>11. CASE ~(h <= k + n)
  <2>1. EndsIn(y) = {}
    <3> SUFFICES ASSUME NEW e \in EndsIn(y) PROVE FALSE
      OBVIOUS
    <3>1. e \in Nat /\ e <= k + n /\ h <= e
      BY <1>8
    <3> QED
      BY <3>1, <1>11
  <2> QED
    BY <2>1, <1>2, <1>3, <1>9, <1>11
<1> QED
  BY <1>10, <1>11
-----------------------------------------------------------------------------
(* HeadFeed. *)

\* NotFound is told apart from every end, so the first end says whether there
\* is one.
LEMMA NotFoundIsNone ==
  ASSUME NEW s \in Seq(ByteClass)
  PROVE  /\ FirstEnd(s) \in Nat
         /\ FirstEnd(s) = NotFound <=> EndsIn(s) = {}
         /\ EndsIn(s) # {} => FirstEnd(s) \in EndsIn(s)
<1>1. CASE EndsIn(s) = {}
  BY <1>1 DEF FirstEnd, NotFound
<1>2. CASE EndsIn(s) # {}
  <2>1. FirstEnd(s) \in EndsIn(s)
    BY <1>2, FirstEndIsLeast
  <2>2. FirstEnd(s) \in Nat /\ 4 <= FirstEnd(s)
    BY <2>1, EndsInBytes
  <2> QED BY <1>2, <2>1, <2>2 DEF NotFound
<1> QED BY <1>1, <1>2

\* The end of a longer sequence lies past a part without one.
LEMMA EndIsPast ==
  ASSUME NEW s \in Seq(ByteClass), NEW b \in Seq(ByteClass), EndsIn(s) = {},
         NEW e \in EndsIn(s \o b)
  PROVE  e \in Nat /\ e > Len(s)
<1>1. PICK y \in Seq(ByteClass) : /\ y = s \o b
                                  /\ Len(y) = Len(s) + Len(b)
                                  /\ \A i \in 1..Len(s) : y[i] = s[i]
                                  /\ \A i \in 1..Len(b) : y[Len(s) + i] = b[i]
  BY Concatenation
<1>2. /\ e \in Nat /\ 4 <= e
      /\ y[e - 3] = CR /\ y[e - 2] = LF /\ y[e - 1] = CR /\ y[e] = LF
  BY <1>1, EndsInBytes
<1>3. Len(s) \in Nat
  BY LenProperties
<1>4. ASSUME e <= Len(s) PROVE FALSE
  <2>1. e - 3 \in 1..Len(s) /\ e - 2 \in 1..Len(s) /\ e - 1 \in 1..Len(s) /\ e \in 1..Len(s)
    BY <1>2, <1>3, <1>4
  <2>2. s[e - 3] = CR /\ s[e - 2] = LF /\ s[e - 1] = CR /\ s[e] = LF
    BY <1>1, <1>2, <2>1
  <2>3. e \in EndsIn(s)
    BY <1>2, <1>4, <2>2, EndsInBytes
  <2> QED BY <2>3
<1> QED BY <1>2, <1>3, <1>4

FeedInv == FeedTypeOK /\ EndIsFirst /\ CarryIsTail

LEMMA InitFeedInv == FeedInit => FeedInv
<1> SUFFICES ASSUME FeedInit PROVE FeedInv
  OBVIOUS
<1>1. fed = <<>> /\ carried = <<>> /\ headEnd = NotFound /\ fed \in Seq(ByteClass) /\ carried \in Seq(ByteClass)
  BY DEF FeedInit
<1>2. EndsIn(fed) = {}
  <2>1. Len(fed) = 0
    BY <1>1
  <2>2. \A e \in EndsIn(fed) : e \in Nat /\ 4 <= e /\ e <= Len(fed)
    BY <1>1, EndsInBytes
  <2> QED BY <2>1, <2>2
<1>3. LastThree(fed) = <<>>
  <2>1. LastThree(fed) = SubSeq(<<>>, Len(<<>>) - SmallerOf(Len(<<>>), 3) + 1, Len(<<>>))
    BY <1>1, Zenon DEF LastThree
  <2>2. Len(<<>>) = 0 /\ SmallerOf(Len(<<>>), 3) = 0
    BY DEF SmallerOf
  <2>3. SubSeq(<<>>, 1, 0) = <<>>
    OBVIOUS
  <2> QED BY <2>1, <2>2, <2>3
<1>4. FirstEnd(fed) = NotFound
  BY <1>1, <1>2, NotFoundIsNone
<1> QED
  BY <1>1, <1>3, <1>4 DEF FeedInv, FeedTypeOK, EndIsFirst, CarryIsTail, NotFound

LEMMA NextFeedInv == FeedInv /\ [FeedNext]_feedVars => FeedInv'
<1> SUFFICES ASSUME FeedInv, [FeedNext]_feedVars PROVE FeedInv'
  OBVIOUS
<1>1. CASE UNCHANGED feedVars
  BY <1>1 DEF FeedInv, FeedTypeOK, EndIsFirst, CarryIsTail, feedVars
<1>2. ASSUME NEW buf \in Pieces, WriteHead(buf) PROVE FeedInv'
  <2>1. buf \in Seq(ByteClass) /\ fed \in Seq(ByteClass) /\ carried \in Seq(ByteClass)
    BY PiecesAssumption DEF FeedInv, FeedTypeOK
  <2>2. PICK y \in Seq(ByteClass) : y = fed \o buf
    BY <2>1, Concatenation
  <2>3. fed' = y /\ headEnd = NotFound /\ carried = LastThree(fed)
    BY <1>2, <2>2 DEF WriteHead, FeedInv, CarryIsTail
  <2>4. EndsIn(fed) = {}
    BY <2>1, <2>3, NotFoundIsNone DEF FeedInv, EndIsFirst
  <2>5. FindHeadEnd(carried, buf) = IF EndsIn(y) = {} THEN NotFound ELSE FirstEnd(y) - Len(fed)
    BY <2>1, <2>2, <2>3, <2>4, SplitScan
  <2>6. CASE EndsIn(y) = {}
    <3>1. FindHeadEnd(carried, buf) = NotFound
      BY <2>5, <2>6
    <3>2. carried' = Trailing(carried, buf) /\ headEnd' = NotFound
      BY <1>2, <2>3, <3>1 DEF WriteHead
    <3>3. carried' = LastThree(y)
      BY <3>2, <2>1, <2>2, <2>3, CarryComposes
    <3>4. carried' \in Seq(ByteClass)
      BY <3>3, LastThreeIsTail
    <3>5. FirstEnd(y) = NotFound
      BY <2>6, NotFoundIsNone
    <3> QED BY <2>3, <3>2, <3>3, <3>4, <3>5 DEF FeedInv, FeedTypeOK, EndIsFirst, CarryIsTail, NotFound
  <2>7. CASE EndsIn(y) # {}
    <3>1. FirstEnd(y) \in EndsIn(y)
      BY <2>7, NotFoundIsNone
    <3>2. FirstEnd(y) \in Nat /\ FirstEnd(y) > Len(fed) /\ Len(fed) \in Nat
      BY <3>1, <2>1, <2>2, <2>4, EndIsPast, LenProperties
    <3>3. FindHeadEnd(carried, buf) = FirstEnd(y) - Len(fed) /\ FindHeadEnd(carried, buf) # NotFound
      BY <2>5, <2>7, <3>2 DEF NotFound
    <3>4. carried' = carried /\ headEnd' = Len(fed) + FindHeadEnd(carried, buf)
      BY <1>2, <3>3 DEF WriteHead
    <3>5. headEnd' = FirstEnd(y)
      BY <3>2, <3>3, <3>4
    <3>6. headEnd' # NotFound
      BY <3>5, <3>2 DEF NotFound
    <3> QED BY <2>1, <2>3, <3>2, <3>4, <3>5, <3>6 DEF FeedInv, FeedTypeOK, EndIsFirst, CarryIsTail
  <2> QED BY <2>6, <2>7
<1> QED
  BY <1>1, <1>2 DEF FeedNext

THEOREM FeedInvariant == FeedSpec => []FeedInv
<1>1. FeedInit => FeedInv
  BY InitFeedInv
<1>2. FeedInv /\ [FeedNext]_feedVars => FeedInv'
  BY NextFeedInv
<1> QED
  BY <1>1, <1>2, PTL DEF FeedSpec

\* For every set of pieces: the end found is always the first CRLFCRLF of all
\* the bytes handed over (State::Head across calls of write_head).
THEOREM FeedFindsTheEnd == FeedSpec => []EndIsFirst
<1>1. FeedInv => EndIsFirst
  BY DEF FeedInv
<1> QED
  BY <1>1, FeedInvariant, PTL

\* For every set of pieces: the carry is always the last three bytes.
THEOREM FeedCarries == FeedSpec => []CarryIsTail
<1>1. FeedInv => CarryIsTail
  BY DEF FeedInv
<1> QED
  BY <1>1, FeedInvariant, PTL

-----------------------------------------------------------------------------
(* The invariant of a connection, by groups of variables. *)

USE DEF slotVars, streamVars, hyperVars, callVars, sockVars, taskVars, wireVars

Data == WireIsPrefix /\ Accounting /\ OwedIsNext /\ CurrentIsPromised
Control == Bounds /\ HeadIsScannable /\ RangeIsInFile /\ Mode /\ CallFacts /\ FailsOnlyForCause /\ Wakers

\* The invariant is its types, the bytes and the control state.
LEMMA InvParts == IInv <=> TypeOK /\ Data /\ Control
  BY Zenon DEF IInv, Data, Control

\* The type invariant, by groups of variables.
TypeSlot == armed \in BOOLEAN /\ slotPlan \in Plan \cup {NoPlan}
TypeStream == /\ state \in {"Idle", "Head", "Sending"}
              /\ carry \in Seq(ByteClass) /\ Len(carry) <= 3
              /\ owed \in Seq(Byte)
              /\ plan \in Plan \cup {NoPlan}
TypeHyper == /\ cur \in [head : Seq(ByteClass), upgraded : BOOLEAN, offset : Nat, length : Nat]
             /\ served \in Nat /\ accepted \in Nat /\ encoded \in Nat /\ flushed \in BOOLEAN
TypePc == pc \in {"hyper", "slices", "drain", "pass", "head", "body", "place", "wait",
                  "parked", "closed", "failed"}
TypeCall == /\ call \in {"none", "write", "flush", "shutdown"}
            /\ slice \in Nat /\ sent \in Nat /\ headLen \in Nat
            /\ found \in BOOLEAN /\ progress \in BOOLEAN
TypeSock == room \in 0..SockCap /\ ready \in BOOLEAN /\ gone \in BOOLEAN
TypeTask == waker \in BOOLEAN /\ woken \in BOOLEAN /\ size \in Nat
TypeWire == /\ wire \in Seq(Byte) /\ expected \in Seq(Byte)
            /\ failure \in {"none", "reset", "file ended", "no plan", "exceeds plan"}

\* The type invariant is the types of the groups, now ...
LEMMA TypeParts ==
  TypeOK <=> /\ TypeSlot /\ TypeStream /\ TypeHyper /\ TypePc
             /\ TypeCall /\ TypeSock /\ TypeTask /\ TypeWire
  BY Zenon DEF TypeOK, TypeSlot, TypeStream, TypeHyper, TypePc, TypeCall, TypeSock, TypeTask, TypeWire

\* ... and after the step.
LEMMA TypePartsNext ==
  TypeOK' <=> /\ TypeSlot' /\ TypeStream' /\ TypeHyper' /\ TypePc'
              /\ TypeCall' /\ TypeSock' /\ TypeTask' /\ TypeWire'
  BY Zenon DEF TypeOK, TypeSlot, TypeStream, TypeHyper, TypePc, TypeCall, TypeSock, TypeTask, TypeWire

\* Variables that a step leaves alone keep their types.
LEMMA TypeSame ==
  ASSUME TypeOK
  PROVE  /\ UNCHANGED slotVars => TypeSlot'
         /\ UNCHANGED streamVars => TypeStream'
         /\ UNCHANGED hyperVars => TypeHyper'
         /\ UNCHANGED pc => TypePc'
         /\ UNCHANGED callVars => TypeCall'
         /\ UNCHANGED sockVars => TypeSock'
         /\ UNCHANGED <<taskVars, size>> => TypeTask'
         /\ UNCHANGED wireVars => TypeWire'
<1>1. /\ TypeSlot /\ TypeStream /\ TypeHyper /\ TypePc
      /\ TypeCall /\ TypeSock /\ TypeTask /\ TypeWire
  BY TypeParts, Zenon
<1>2. UNCHANGED slotVars => TypeSlot'
  BY <1>1 DEF TypeSlot
<1>3. UNCHANGED streamVars => TypeStream'
  BY <1>1 DEF TypeStream
<1>4. UNCHANGED hyperVars => TypeHyper'
  BY <1>1 DEF TypeHyper
<1>5. UNCHANGED pc => TypePc'
  BY <1>1 DEF TypePc
<1>6. UNCHANGED callVars => TypeCall'
  BY <1>1 DEF TypeCall
<1>7. UNCHANGED sockVars => TypeSock'
  BY <1>1 DEF TypeSock
<1>8. UNCHANGED <<taskVars, size>> => TypeTask'
  BY <1>1 DEF TypeTask
<1>9. UNCHANGED wireVars => TypeWire'
  BY <1>1 DEF TypeWire
<1> QED
  BY <1>2, <1>3, <1>4, <1>5, <1>6, <1>7, <1>8, <1>9, Zenon

-----------------------------------------------------------------------------
(* Sequences.                                                              *)

\* The smaller of two numbers.
LEMMA SmallerOfTwo ==
  ASSUME NEW a \in Int, NEW b \in Int
  PROVE  SmallerOf(a, b) \in {a, b} /\ SmallerOf(a, b) <= a /\ SmallerOf(a, b) <= b
  BY DEF SmallerOf

\* A function on 1..n is a sequence of n elements.
LEMMA FiniteSeq ==
  ASSUME NEW S, NEW n \in Nat, NEW f \in [1..n -> S]
  PROVE  f \in Seq(S) /\ Len(f) = n
  OBVIOUS

\* Bytes appended to the wire, if they are what the promised stream has next,
\* leave it a prefix of the promised stream.
LEMMA AppendedToWire ==
  ASSUME wire \in Seq(Byte), expected \in Seq(Byte), NEW b \in Seq(Byte),
         Len(wire) + Len(b) <= Len(expected),
         \A i \in 1..Len(wire) : wire[i] = expected[i],
         \A i \in 1..Len(b) : b[i] = expected[Len(wire) + i]
  PROVE  /\ wire \o b \in Seq(Byte) /\ Len(wire \o b) = Len(wire) + Len(b)
         /\ \A i \in 1..Len(wire \o b) : (wire \o b)[i] = expected[i]
<1>1. wire \o b \in Seq(Byte) /\ Len(wire \o b) = Len(wire) + Len(b)
  OBVIOUS
<1>2. ASSUME NEW i \in 1..Len(wire \o b)
      PROVE  (wire \o b)[i] = expected[i]
  <2>1. CASE i <= Len(wire)
    <3>1. (wire \o b)[i] = wire[i]
      BY <2>1
    <3> QED
      BY <3>1, <2>1
  <2>2. CASE i > Len(wire)
    <3>1. (wire \o b)[i] = b[i - Len(wire)]
      BY <2>2
    <3>2. i - Len(wire) \in 1..Len(b) /\ Len(wire) + (i - Len(wire)) = i
      BY <1>1, <2>2
    <3> QED
      BY <3>1, <3>2
  <2> QED
    BY <2>1, <2>2
<1> QED
  BY <1>1, <1>2

\* Bytes handed over by Hyper.
LEMMA HandedRangeIs ==
  ASSUME TypeOK, NEW from \in Nat, NEW n \in Nat
  PROVE  /\ HandedRange(from, n) \in Seq(Byte) /\ Len(HandedRange(from, n)) = n
         /\ \A i \in 1..n : HandedRange(from, n)[i] = Handed(from + i)
<1>1. \A p \in Nat : Handed(p) \in Byte
  BY DEF TypeOK, Handed, HeadByte, BodyByte, ZeroByte, Byte
<1>2. \A i \in 1..n : Handed(from + i) \in Byte
  BY <1>1
<1> QED
  BY <1>2 DEF HandedRange

\* Bytes of the file.
LEMMA FileRangeIs ==
  ASSUME NEW at \in Nat, NEW n \in Nat
  PROVE  /\ FileRange(at, n) \in Seq(Byte) /\ Len(FileRange(at, n)) = n
         /\ \A i \in 1..n : FileRange(at, n)[i] = FileByte(at + i - 1)
<1>1. \A i \in 1..n : FileByte(at + i - 1) \in Byte
  BY DEF FileByte, Byte
<1> QED
  BY <1>1 DEF FileRange

-----------------------------------------------------------------------------
(* The bytes: what a step may do with them.                                *)

\* Lengths are natural numbers.
LEMMA Sizes ==
  ASSUME TypeOK
  PROVE  /\ Len(wire) \in Nat /\ Len(owed) \in Nat /\ Len(expected) \in Nat
         /\ HeadSize \in Nat /\ Total \in Nat /\ Out \in Nat
         /\ accepted \in Nat /\ sent \in Nat /\ slice \in Nat /\ encoded \in Nat
         /\ cur.length \in Nat /\ cur.offset \in Nat /\ cur.head \in Seq(ByteClass)
<1>1. /\ wire \in Seq(Byte) /\ owed \in Seq(Byte) /\ expected \in Seq(Byte)
      /\ cur.head \in Seq(ByteClass) /\ cur.length \in Nat /\ cur.offset \in Nat
      /\ accepted \in Nat /\ sent \in Nat /\ slice \in Nat /\ encoded \in Nat
  BY DEF TypeOK
<1>2. /\ Len(wire) \in Nat /\ Len(owed) \in Nat /\ Len(expected) \in Nat /\ Len(cur.head) \in Nat
  BY <1>1, LenProperties
<1> QED
  BY <1>1, <1>2 DEF HeadSize, Total, Out

\* Where the bytes that follow the Out bytes of cur stand in what was promised.
LEMMA Position ==
  ASSUME TypeOK, NEW n \in Nat,
         Len(wire) + Total - Out = Len(expected), Out + n <= Total
  PROVE  /\ Len(wire) + n <= Len(expected)
         /\ Len(wire) + n + Total - (Out + n) = Len(expected)
         /\ \A i \in 1..n : Out + i \in 1..Total /\ Len(expected) - Total + (Out + i) = Len(wire) + i
<1>1. Len(wire) \in Nat /\ Len(expected) \in Nat /\ Total \in Nat /\ Out \in Nat
  BY Sizes, Zenon
<1> QED
  BY <1>1

\* The balance of Accounting after m bytes went to the socket while k bytes of
\* the response were dealt with.
LEMMA Balance ==
  ASSUME TypeOK, Accounting, NEW k \in Int, NEW m \in Int, NEW l \in Int,
         Total' = Total, expected' = expected, Out' = Out + k,
         Len(wire') = Len(wire) + m, Len(owed') = l, m + l = Len(owed) + k
  PROVE  Accounting'
<1>1. /\ Len(wire) \in Nat /\ Len(owed) \in Nat /\ Len(expected) \in Nat /\ Total \in Nat /\ Out \in Nat
  BY Sizes, Zenon
<1>2. Len(wire) + Len(owed) + Total - Out = Len(expected)
  BY Zenon DEF Accounting
<1>3. (Len(wire) + m) + l + Total - (Out + k) = Len(expected)
  BY <1>1, <1>2
<1> QED
  BY <1>3, Zenon DEF Accounting

\* The step moves no byte.
LEMMA DataSame ==
  ASSUME Data, UNCHANGED <<wire, expected, owed, cur, served>>, Out' = Out
  PROVE  Data'
<1>1. Total' = Total /\ HeadSize' = HeadSize
  BY DEF Total, HeadSize
<1>2. WireIsPrefix'
  BY DEF Data, WireIsPrefix
<1>3. Accounting'
  BY <1>1 DEF Data, Accounting
<1>4. OwedIsNext'
  BY DEF Data, OwedIsNext
<1>5. CurrentIsPromised'
  BY <1>1 DEF Data, CurrentIsPromised, Promised, Handed, HeadByte, BodyByte, FileByte, ZeroByte
<1> QED
  BY <1>2, <1>3, <1>4, <1>5 DEF Data

\* The step writes the next bytes of the response to the socket.
LEMMA DataSend ==
  ASSUME TypeOK, Data, NEW bytes \in Seq(Byte),
         owed = <<>>, UNCHANGED <<expected, owed, cur, served>>,
         wire' = wire \o bytes,
         Out' = Out + Len(bytes), Out + Len(bytes) <= Total,
         \A i \in 1..Len(bytes) : bytes[i] = Promised(Out + i)
  PROVE  wire' \in Seq(Byte) /\ Data'
<1>0. /\ Len(wire) \in Nat /\ Len(owed) \in Nat /\ Len(expected) \in Nat
      /\ Total \in Nat /\ Out \in Nat
  BY Sizes, Zenon
<1>1. /\ Total' = Total /\ HeadSize' = HeadSize /\ Len(owed) = 0 /\ Len(bytes) \in Nat
  BY LenProperties DEF Total, HeadSize
<1>2. Len(wire) + Total - Out = Len(expected)
  BY <1>1, <1>0 DEF Data, Accounting
<1>2a. /\ Len(wire) + Len(bytes) <= Len(expected)
       /\ Len(wire) + Len(bytes) + Total - (Out + Len(bytes)) = Len(expected)
       /\ \A i \in 1..Len(bytes) : Out + i \in 1..Total /\ Len(expected) - Total + (Out + i) = Len(wire) + i
  BY <1>1, <1>2, Position, Zenon
<1>3. ASSUME NEW i \in 1..Len(bytes)
      PROVE  bytes[i] = expected[Len(wire) + i]
  <2>1. Out + i \in 1..Total /\ Len(expected) - Total + (Out + i) = Len(wire) + i
    BY <1>2a
  <2>2. expected[Len(expected) - Total + (Out + i)] = Promised(Out + i)
    BY <2>1, Zenon DEF Data, CurrentIsPromised
  <2> QED
    BY <2>1, <2>2
<1>4. Len(wire) + Len(bytes) <= Len(expected)
  BY <1>1, <1>2, <1>0
<1>5. /\ wire \o bytes \in Seq(Byte) /\ Len(wire \o bytes) = Len(wire) + Len(bytes)
      /\ \A i \in 1..Len(wire \o bytes) : (wire \o bytes)[i] = expected[i]
  <2>1. wire \in Seq(Byte) /\ expected \in Seq(Byte)
    BY DEF TypeOK
  <2>2. \A i \in 1..Len(wire) : wire[i] = expected[i]
    BY DEF Data, WireIsPrefix
  <2> QED
    BY <1>3, <1>4, <2>1, <2>2, AppendedToWire, Zenon
<1>6. WireIsPrefix'
  BY <1>4, <1>5 DEF WireIsPrefix
<1>7. Accounting'
  <2>1. Len(wire') = Len(wire) + Len(bytes) /\ Len(owed') = 0 /\ Len(bytes) + 0 = Len(owed) + Len(bytes)
    BY <1>1, <1>5
  <2>2. Accounting
    BY DEF Data
  <2> QED
    BY <1>1, <2>1, <2>2, Balance
<1>8. OwedIsNext'
  BY <1>1 DEF OwedIsNext
<1>9. CurrentIsPromised'
  BY <1>1 DEF Data, CurrentIsPromised, Promised, Handed, HeadByte, BodyByte, FileByte, ZeroByte
<1> QED
  BY <1>5, <1>6, <1>7, <1>8, <1>9 DEF Data

\* The step writes the first owed bytes.
LEMMA DataDrain ==
  ASSUME TypeOK, Data, NEW n \in 1..Len(owed),
         UNCHANGED <<expected, cur, served>>, Out' = Out, Out <= Total,
         wire' = wire \o SubSeq(owed, 1, n),
         owed' = SubSeq(owed, n + 1, Len(owed))
  PROVE  wire' \in Seq(Byte) /\ owed' \in Seq(Byte) /\ Data'
<1>0. /\ Len(wire) \in Nat /\ Len(owed) \in Nat /\ Len(expected) \in Nat
      /\ Total \in Nat /\ Out \in Nat
  BY Sizes, Zenon
<1>1. /\ Total' = Total /\ HeadSize' = HeadSize
  BY DEF Total, HeadSize
<1>2. wire \in Seq(Byte) /\ expected \in Seq(Byte) /\ owed \in Seq(Byte)
  BY DEF TypeOK
<1>3. /\ SubSeq(owed, 1, n) \in Seq(Byte) /\ Len(SubSeq(owed, 1, n)) = n
      /\ \A i \in 1..n : SubSeq(owed, 1, n)[i] = owed[i]
  BY <1>2
<1>4. /\ SubSeq(owed, n + 1, Len(owed)) \in Seq(Byte)
      /\ Len(SubSeq(owed, n + 1, Len(owed))) = Len(owed) - n
      /\ \A i \in 1..(Len(owed) - n) : SubSeq(owed, n + 1, Len(owed))[i] = owed[n + i]
  BY <1>2
<1>5. PICK bytes \in Seq(Byte) : /\ bytes = SubSeq(owed, 1, n) /\ Len(bytes) = n
                                 /\ \A i \in 1..n : bytes[i] = owed[i]
  BY <1>3, Zenon
<1>6. Len(wire) + Len(owed) + Total - Out = Len(expected) /\ Len(wire) + Len(owed) <= Len(expected)
  BY <1>0 DEF Data, Accounting
<1>7. \A i \in 1..Len(owed) : owed[i] = expected[Len(wire) + i]
  BY DEF Data, OwedIsNext
<1>8. /\ wire \o bytes \in Seq(Byte) /\ Len(wire \o bytes) = Len(wire) + Len(bytes)
      /\ \A i \in 1..Len(wire \o bytes) : (wire \o bytes)[i] = expected[i]
  <2>1. \A i \in 1..Len(wire) : wire[i] = expected[i]
    BY DEF Data, WireIsPrefix
  <2>2. Len(wire) + Len(bytes) <= Len(expected)
    BY <1>5, <1>6, <1>0
  <2>3. \A i \in 1..Len(bytes) : bytes[i] = expected[Len(wire) + i]
    BY <1>5, <1>7, <1>0
  <2> QED
    BY <1>2, <2>1, <2>2, <2>3, AppendedToWire, Zenon
<1>9. PICK rest \in Seq(Byte) : /\ rest = owed' /\ Len(rest) = Len(owed) - n
                                /\ \A i \in 1..(Len(owed) - n) : rest[i] = owed[n + i]
  BY <1>4, Zenon
<1>10. PICK w \in Seq(Byte) : /\ w = wire' /\ Len(w) = Len(wire) + n
                              /\ \A i \in 1..Len(w) : w[i] = expected[i]
  BY <1>5, <1>8
<1>11. WireIsPrefix'
  BY <1>6, <1>10, <1>0 DEF WireIsPrefix
<1>12. Accounting'
  <2>1. /\ Out' = Out + 0 /\ Len(wire') = Len(wire) + n /\ Len(owed') = Len(owed) - n
        /\ n + (Len(owed) - n) = Len(owed) + 0 /\ Len(owed) - n \in Int /\ n \in Int /\ 0 \in Int
    BY <1>0, <1>9, <1>10
  <2>2. Accounting /\ expected' = expected
    BY DEF Data
  <2> QED
    BY <1>1, <2>1, <2>2, Balance, Zenon
<1>13. OwedIsNext'
  <2>1. ASSUME NEW i \in 1..Len(rest) PROVE rest[i] = expected[Len(w) + i]
    <3>1. n + i \in 1..Len(owed) /\ i \in 1..(Len(owed) - n) /\ Len(wire) + (n + i) = Len(w) + i
      BY <1>9, <1>10, <1>0
    <3>2. rest[i] = owed[n + i]
      BY <3>1, <1>9
    <3>3. owed[n + i] = expected[Len(wire) + (n + i)]
      BY <3>1, <1>7, Zenon
    <3> QED
      BY <3>1, <3>2, <3>3
  <2> QED
    BY <2>1, <1>9, <1>10, Zenon DEF OwedIsNext
<1>14. CurrentIsPromised'
  BY <1>1 DEF Data, CurrentIsPromised, Promised, Handed, HeadByte, BodyByte, FileByte, ZeroByte
<1> QED
  BY <1>9, <1>10, <1>11, <1>12, <1>13, <1>14 DEF Data

\* The step keeps the next bytes of the response for later.
LEMMA DataOwe ==
  ASSUME TypeOK, Data, NEW bytes \in Seq(Byte),
         owed = <<>>, UNCHANGED <<wire, expected, cur, served>>,
         owed' = owed \o bytes,
         Out' = Out + Len(bytes), Out + Len(bytes) <= Total,
         \A i \in 1..Len(bytes) : bytes[i] = Promised(Out + i)
  PROVE  owed' = bytes /\ Data'
<1>0. /\ Len(wire) \in Nat /\ Len(owed) \in Nat /\ Len(expected) \in Nat
      /\ Total \in Nat /\ Out \in Nat
  BY Sizes, Zenon
<1>1. /\ Total' = Total /\ HeadSize' = HeadSize /\ Len(owed) = 0 /\ Len(bytes) \in Nat
  BY LenProperties DEF Total, HeadSize
<1>2. Len(wire) + Total - Out = Len(expected)
  BY <1>1, <1>0 DEF Data, Accounting
<1>2a. /\ Len(wire) + Len(bytes) <= Len(expected)
       /\ Len(wire) + Len(bytes) + Total - (Out + Len(bytes)) = Len(expected)
       /\ \A i \in 1..Len(bytes) : Out + i \in 1..Total /\ Len(expected) - Total + (Out + i) = Len(wire) + i
  BY <1>1, <1>2, Position, Zenon
<1>3. owed' = bytes
  BY EmptySeq, ConcatEmptySeq
<1>4. ASSUME NEW i \in 1..Len(bytes)
      PROVE  bytes[i] = expected[Len(wire) + i]
  <2>1. Out + i \in 1..Total /\ Len(expected) - Total + (Out + i) = Len(wire) + i
    BY <1>2a
  <2>2. expected[Len(expected) - Total + (Out + i)] = Promised(Out + i)
    BY <2>1, Zenon DEF Data, CurrentIsPromised
  <2> QED
    BY <2>1, <2>2
<1>5. WireIsPrefix'
  BY DEF Data, WireIsPrefix
<1>6. Accounting'
  BY <1>1, <1>2, <1>3, <1>0 DEF Accounting
<1>7. OwedIsNext'
  BY <1>3, <1>4 DEF OwedIsNext
<1>8. CurrentIsPromised'
  BY <1>1 DEF Data, CurrentIsPromised, Promised, Handed, HeadByte, BodyByte, FileByte, ZeroByte
<1> QED
  BY <1>3, <1>5, <1>6, <1>7, <1>8 DEF Data

-----------------------------------------------------------------------------
(* The stream's state: what most steps leave alone.                        *)

\* The response stays the same.
LEMMA CurSame ==
  ASSUME cur' = cur
  PROVE  /\ HeadSize' = HeadSize /\ Total' = Total
         /\ HeadIsScannable => HeadIsScannable'
BY DEF HeadSize, Total, HeadIsScannable

\* The step leaves the stream and its place in the response alone.
LEMMA ModeSame ==
  ASSUME Mode, UNCHANGED <<armed, slotPlan, state, carry, plan, cur, accepted>>, Out' = Out,
         pc' \in {"body", "place"} \/ pc \notin {"body", "place"} \/ Out < Total
  PROVE  Mode'
<1>1. HeadSize' = HeadSize /\ Total' = Total
  BY CurSame, Zenon
<1>2. Plain => Plain'
  BY <1>1 DEF Plain
<1>3. InHead => InHead'
  BY <1>1 DEF InHead
<1>4. InBody => InBody'
  BY <1>1 DEF InBody
<1> QED
  BY <1>2, <1>3, <1>4, Zenon DEF Mode

\* The surroundings of the connection's task: only the socket, the reactor's
\* flags and the file's length change.
LEMMA SurroundingStep ==
  ASSUME Data, Control,
         UNCHANGED <<slotVars, streamVars, hyperVars, pc, callVars, wireVars>>
  PROVE  Data' /\ Bounds' /\ HeadIsScannable' /\ Mode' /\ CallFacts'
<1>1. HeadSize' = HeadSize /\ Total' = Total /\ Out' = Out /\ HeadIsScannable'
  BY CurSame, Zenon DEF Control, Out
<1>2. Data'
  BY <1>1, DataSame, Zenon
<1>3. Bounds'
  BY <1>1 DEF Control, Bounds
<1>4. Mode'
  <2>1. Mode /\ (pc' \in {"body", "place"} \/ pc \notin {"body", "place"})
    BY DEF Control
  <2> QED
    BY <1>1, <2>1, ModeSame, Zenon
<1>5. CallFacts'
  BY <1>1 DEF Control, CallFacts
<1> QED
  BY <1>1, <1>2, <1>3, <1>4, <1>5, Zenon

\* The reactor sets the readiness flag and takes the waker with it.
LEMMA DriverStep ==
  ASSUME TypeOK, Data, Control, Driver
  PROVE  TypeOK' /\ Data' /\ Control'
<1>1. TypeOK'
  <2>1. TypeSock /\ TypeTask
    BY TypeParts, Zenon
  <2>2. TypeSock'
    BY <2>1 DEF TypeSock, Driver
  <2>3. TypeTask'
    BY <2>1 DEF TypeTask, Driver
  <2>4. TypeSlot' /\ TypeStream' /\ TypeHyper' /\ TypePc' /\ TypeCall' /\ TypeWire'
    BY TypeSame, Zenon DEF Driver
  <2> QED
    BY <2>2, <2>3, <2>4, TypePartsNext, Zenon
<1>2. Data' /\ Bounds' /\ HeadIsScannable' /\ Mode' /\ CallFacts'
  BY SurroundingStep, Zenon DEF Driver
<1>3. RangeIsInFile' /\ FailsOnlyForCause'
  BY DEF Control, RangeIsInFile, FailsOnlyForCause, Driver
<1>4. Wakers'
  BY DEF Control, Wakers, Driver, TypeOK
<1> QED
  BY <1>1, <1>2, <1>3, <1>4 DEF Control

\* The peer makes room.
LEMMA PeerReadStep ==
  ASSUME TypeOK, Data, Control, PeerRead
  PROVE  TypeOK' /\ Data' /\ Control'
<1>1. TypeOK'
  <2>1. TypeSock
    BY TypeParts, Zenon
  <2>2. TypeSock'
    BY <2>1, SizesAssumption DEF TypeSock, PeerRead
  <2>3. TypeSlot' /\ TypeStream' /\ TypeHyper' /\ TypePc' /\ TypeCall' /\ TypeTask' /\ TypeWire'
    BY TypeSame, Zenon DEF PeerRead
  <2> QED
    BY <2>2, <2>3, TypePartsNext, Zenon
<1>2. Data' /\ Bounds' /\ HeadIsScannable' /\ Mode' /\ CallFacts'
  BY SurroundingStep, Zenon DEF PeerRead
<1>3. RangeIsInFile' /\ FailsOnlyForCause' /\ Wakers'
  BY DEF Control, RangeIsInFile, FailsOnlyForCause, Wakers, PeerRead
<1> QED
  BY <1>1, <1>2, <1>3 DEF Control

\* The peer resets: from now on the failure "reset" has its cause.
LEMMA PeerResetStep ==
  ASSUME TypeOK, Data, Control, PeerReset
  PROVE  TypeOK' /\ Data' /\ Control'
<1>1. TypeOK'
  <2>1. TypeSock
    BY TypeParts, Zenon
  <2>2. TypeSock'
    BY <2>1 DEF TypeSock, PeerReset
  <2>3. TypeSlot' /\ TypeStream' /\ TypeHyper' /\ TypePc' /\ TypeCall' /\ TypeTask' /\ TypeWire'
    BY TypeSame, Zenon DEF PeerReset
  <2> QED
    BY <2>2, <2>3, TypePartsNext, Zenon
<1>2. Data' /\ Bounds' /\ HeadIsScannable' /\ Mode' /\ CallFacts'
  BY SurroundingStep, Zenon DEF PeerReset
<1>3. RangeIsInFile' /\ FailsOnlyForCause' /\ Wakers'
  BY DEF Control, RangeIsInFile, FailsOnlyForCause, Wakers, PeerReset
<1> QED
  BY <1>1, <1>2, <1>3 DEF Control

\* The file becomes shorter, and stays shorter than it was.
LEMMA TruncateStep ==
  ASSUME TypeOK, Data, Control, Truncate
  PROVE  TypeOK' /\ Data' /\ Control'
<1>1. TypeOK'
  <2>1. TypeTask
    BY TypeParts, Zenon
  <2>2. TypeTask'
    BY <2>1 DEF TypeTask, Truncate
  <2>3. TypeSlot' /\ TypeStream' /\ TypeHyper' /\ TypePc' /\ TypeCall' /\ TypeSock' /\ TypeWire'
    BY TypeSame, Zenon DEF Truncate
  <2> QED
    BY <2>2, <2>3, TypePartsNext, Zenon
<1>2. Data' /\ Bounds' /\ HeadIsScannable' /\ Mode' /\ CallFacts'
  BY SurroundingStep, Zenon DEF Truncate
<1>3. size' < size /\ size \in Nat /\ size' \in Nat /\ FileSize \in Nat
  <2>1. TypeTask
    BY TypeParts, Zenon
  <2> QED
    BY <2>1, SizesAssumption DEF TypeTask, Truncate
<1>4. RangeIsInFile' /\ FailsOnlyForCause' /\ Wakers'
  <2>1. size <= FileSize
    BY DEF Control, RangeIsInFile
  <2>2. size' <= FileSize /\ size' < FileSize
    BY <1>3, <2>1
  <2> QED
    BY <2>2 DEF Control, RangeIsInFile, FailsOnlyForCause, Wakers, Truncate
<1> QED
  BY <1>1, <1>2, <1>4 DEF Control

-----------------------------------------------------------------------------
(* Hyper's steps.                                                          *)

\* Between two responses nothing is left of the previous one.
LEMMA AtRest ==
  ASSUME TypeOK, Control, pc = "hyper", ReadyForRequest
  PROVE  Plain /\ owed = <<>> /\ sent = 0 /\ accepted = Total /\ Out = Total
<1>1. accepted = Total /\ owed = <<>> /\ sent = 0
  BY DEF Control, Bounds, CallFacts, ReadyForRequest
<1>2. accepted \in Nat /\ HeadSize \in Nat /\ cur.length \in Nat
  BY Sizes, Zenon
<1>3. Out = Total
  BY <1>1, <1>2 DEF Out
<1>4. ~InBody
  BY <1>2, <1>3 DEF InBody, Total
<1>5. ~InHead
  BY <1>1, <1>2 DEF InHead, Total
<1> QED
  BY <1>1, <1>3, <1>4, <1>5 DEF Control, Mode

\* The next frame never reaches past the announced length.
LEMMA BodyFrameStep ==
  ASSUME TypeOK, Data, Control, BodyFrame
  PROVE  TypeOK' /\ Data' /\ Control'
<1>0. /\ encoded' \in Nat /\ encoded <= encoded' /\ encoded' <= Total
  <2>1. encoded \in Nat /\ Total \in Nat /\ PhantomLen \in Nat /\ encoded < Total
    BY Sizes, SizesAssumption DEF BodyFrame
  <2>2. SmallerOf(PhantomLen, Total - encoded) \in {PhantomLen, Total - encoded}
        /\ SmallerOf(PhantomLen, Total - encoded) <= Total - encoded
    BY <2>1, SmallerOfTwo
  <2>3. encoded' = encoded + SmallerOf(PhantomLen, Total - encoded) \/ encoded' = Total
    BY DEF BodyFrame
  <2> QED
    BY <2>1, <2>2, <2>3
<1>1. TypeOK'
  <2>1. TypeHyper
    BY TypeParts, Zenon
  <2>2. TypeHyper'
    BY <2>1, <1>0 DEF TypeHyper, BodyFrame
  <2>3. TypeSlot' /\ TypeStream' /\ TypePc' /\ TypeCall' /\ TypeSock' /\ TypeTask' /\ TypeWire'
    BY TypeSame, Zenon DEF BodyFrame
  <2> QED
    BY <2>2, <2>3, TypePartsNext, Zenon
<1>2. HeadSize' = HeadSize /\ Total' = Total /\ Out' = Out /\ HeadIsScannable'
  BY CurSame, Zenon DEF Control, Out, BodyFrame
<1>3. Data'
  BY <1>2, DataSame, Zenon DEF BodyFrame
<1>4. Bounds'
  <2>1. accepted + slice <= encoded /\ sent <= slice /\ sent = 0
    BY DEF Control, Bounds, BodyFrame
  <2>2. accepted \in Nat /\ slice \in Nat /\ encoded \in Nat
    BY Sizes, Zenon
  <2> QED
    BY <1>0, <1>2, <2>1, <2>2 DEF Bounds, BodyFrame
<1>5. Mode'
  BY <1>2, ModeSame, Zenon DEF Control, BodyFrame
<1>6. CallFacts'
  BY <1>2 DEF CallFacts, BodyFrame
<1>7. RangeIsInFile' /\ FailsOnlyForCause' /\ Wakers'
  BY DEF Control, RangeIsInFile, FailsOnlyForCause, Wakers, BodyFrame
<1> QED
  BY <1>1, <1>2, <1>3, <1>4, <1>5, <1>6, <1>7 DEF Control

\* A slice is taken from what Hyper has buffered.
LEMMA BeginSliceStep ==
  ASSUME TypeOK, Data, Control, BeginSlice
  PROVE  TypeOK' /\ Data' /\ Control'
<1>0. slice' \in 1..(encoded - accepted) /\ sent = 0 /\ sent' = 0
  BY DEF BeginSlice, Control, Bounds
<1>1. TypeOK'
  <2>1. TypePc /\ TypeCall
    BY TypeParts, Zenon
  <2>2. TypePc'
    BY <2>1, <1>0 DEF TypePc, BeginSlice
  <2>3. TypeCall'
    BY <2>1, <1>0 DEF TypeCall, BeginSlice
  <2>4. TypeSlot' /\ TypeStream' /\ TypeHyper' /\ TypeSock' /\ TypeTask' /\ TypeWire'
    BY TypeSame, Zenon DEF BeginSlice
  <2> QED
    BY <2>2, <2>3, <2>4, TypePartsNext, Zenon
<1>2. HeadSize' = HeadSize /\ Total' = Total /\ Out' = Out /\ HeadIsScannable'
  BY <1>0, CurSame, Zenon DEF Control, Out, BeginSlice
<1>3. Data'
  BY <1>2, DataSame, Zenon DEF BeginSlice
<1>4. Bounds' /\ slice' > 0
  <2>1. encoded <= Total
    BY DEF Control, Bounds
  <2>2. accepted \in Nat /\ encoded \in Nat
    BY Sizes, Zenon
  <2> QED
    BY <1>0, <1>2, <2>1, <2>2 DEF Bounds, BeginSlice
<1>5. Mode'
  BY <1>2, ModeSame DEF Control, BeginSlice
<1>6. CallFacts'
  <2>1. flushed => owed = <<>> /\ accepted = encoded
    BY DEF Control, CallFacts
  <2> QED
    BY <1>2, <1>4, <2>1 DEF CallFacts, BeginSlice
<1>7. RangeIsInFile' /\ FailsOnlyForCause' /\ Wakers'
  BY DEF Control, RangeIsInFile, FailsOnlyForCause, Wakers, BeginSlice
<1> QED
  BY <1>1, <1>2, <1>3, <1>4, <1>5, <1>6, <1>7 DEF Control

\* The vectored write returns.
LEMMA EndSlicesStep ==
  ASSUME TypeOK, Data, Control, EndSlices
  PROVE  TypeOK' /\ Data' /\ Control'
<1>1. TypeOK'
  <2>1. TypePc
    BY TypeParts, Zenon
  <2>2. TypePc'
    BY <2>1 DEF TypePc, EndSlices
  <2>3. TypeSlot' /\ TypeStream' /\ TypeHyper' /\ TypeCall' /\ TypeSock' /\ TypeTask' /\ TypeWire'
    BY TypeSame, Zenon DEF EndSlices
  <2> QED
    BY <2>2, <2>3, TypePartsNext, Zenon
<1>2. HeadSize' = HeadSize /\ Total' = Total /\ Out' = Out /\ HeadIsScannable'
  BY CurSame, Zenon DEF Control, Out, EndSlices
<1>3. Data'
  BY <1>2, DataSame, Zenon DEF EndSlices
<1>4. Bounds'
  BY <1>2 DEF Control, Bounds, EndSlices
<1>5. Mode'
  BY <1>2, ModeSame DEF Control, EndSlices
<1>6. CallFacts'
  BY <1>2 DEF Control, CallFacts, EndSlices
<1>7. RangeIsInFile' /\ FailsOnlyForCause' /\ Wakers'
  BY DEF Control, RangeIsInFile, FailsOnlyForCause, Wakers, EndSlices
<1> QED
  BY <1>1, <1>2, <1>3, <1>4, <1>5, <1>6, <1>7 DEF Control

\* Hyper flushes only when everything buffered has been accepted.
LEMMA CallFlushStep ==
  ASSUME TypeOK, Data, Control, CallFlush
  PROVE  TypeOK' /\ Data' /\ Control'
<1>1. TypeOK'
  <2>1. TypePc /\ TypeCall
    BY TypeParts, Zenon
  <2>2. TypePc'
    BY <2>1 DEF TypePc, CallFlush
  <2>3. TypeCall'
    BY <2>1 DEF TypeCall, CallFlush
  <2>4. TypeSlot' /\ TypeStream' /\ TypeHyper' /\ TypeSock' /\ TypeTask' /\ TypeWire'
    BY TypeSame, Zenon DEF CallFlush
  <2> QED
    BY <2>2, <2>3, <2>4, TypePartsNext, Zenon
<1>2. HeadSize' = HeadSize /\ Total' = Total /\ Out' = Out /\ HeadIsScannable'
  BY CurSame, Zenon DEF Control, Out, CallFlush
<1>3. Data'
  BY <1>2, DataSame, Zenon DEF CallFlush
<1>4. Bounds'
  BY <1>2 DEF Control, Bounds, CallFlush
<1>5. Mode'
  BY <1>2, ModeSame DEF Control, CallFlush
<1>6. CallFacts'
  BY <1>2 DEF Control, CallFacts, CallFlush
<1>7. RangeIsInFile' /\ FailsOnlyForCause' /\ Wakers'
  BY DEF Control, RangeIsInFile, FailsOnlyForCause, Wakers, CallFlush
<1> QED
  BY <1>1, <1>2, <1>3, <1>4, <1>5, <1>6, <1>7 DEF Control

\* Hyper shuts down only when the response has been accepted.
LEMMA CallShutdownStep ==
  ASSUME TypeOK, Data, Control, CallShutdown
  PROVE  TypeOK' /\ Data' /\ Control'
<1>1. TypeOK'
  <2>1. TypePc /\ TypeCall
    BY TypeParts, Zenon
  <2>2. TypePc'
    BY <2>1 DEF TypePc, CallShutdown
  <2>3. TypeCall'
    BY <2>1 DEF TypeCall, CallShutdown
  <2>4. TypeSlot' /\ TypeStream' /\ TypeHyper' /\ TypeSock' /\ TypeTask' /\ TypeWire'
    BY TypeSame, Zenon DEF CallShutdown
  <2> QED
    BY <2>2, <2>3, <2>4, TypePartsNext, Zenon
<1>2. HeadSize' = HeadSize /\ Total' = Total /\ Out' = Out /\ HeadIsScannable'
  BY CurSame, Zenon DEF Control, Out, CallShutdown
<1>3. Data'
  BY <1>2, DataSame, Zenon DEF CallShutdown
<1>4. Bounds'
  BY <1>2 DEF Control, Bounds, CallShutdown
<1>5. Mode'
  BY <1>2, ModeSame DEF Control, CallShutdown
<1>6. CallFacts'
  BY <1>2 DEF Control, CallFacts, CallShutdown
<1>7. RangeIsInFile' /\ FailsOnlyForCause' /\ Wakers'
  BY DEF Control, RangeIsInFile, FailsOnlyForCause, Wakers, CallShutdown
<1> QED
  BY <1>1, <1>2, <1>3, <1>4, <1>5, <1>6, <1>7 DEF Control

\* A woken task is polled.
LEMMA ResumeStep ==
  ASSUME TypeOK, Data, Control, Resume
  PROVE  TypeOK' /\ Data' /\ Control'
<1>1. TypeOK'
  <2>1. TypePc /\ TypeTask
    BY TypeParts, Zenon
  <2>2. TypePc'
    BY <2>1 DEF TypePc, Resume
  <2>3. TypeTask'
    BY <2>1 DEF TypeTask, Resume
  <2>4. TypeSlot' /\ TypeStream' /\ TypeHyper' /\ TypeCall' /\ TypeSock' /\ TypeWire'
    BY TypeSame, Zenon DEF Resume
  <2> QED
    BY <2>2, <2>3, <2>4, TypePartsNext, Zenon
<1>2. HeadSize' = HeadSize /\ Total' = Total /\ Out' = Out /\ HeadIsScannable'
  BY CurSame, Zenon DEF Control, Out, Resume
<1>3. Data'
  BY <1>2, DataSame, Zenon DEF Resume
<1>4. Bounds'
  BY <1>2 DEF Control, Bounds, Resume
<1>5. Mode'
  BY <1>2, ModeSame DEF Control, Resume
<1>6. CallFacts'
  BY <1>2 DEF Control, CallFacts, Resume
<1>7. RangeIsInFile' /\ FailsOnlyForCause' /\ Wakers'
  BY DEF Control, RangeIsInFile, FailsOnlyForCause, Wakers, Resume
<1> QED
  BY <1>1, <1>2, <1>3, <1>4, <1>5, <1>6, <1>7 DEF Control

\* A task is polled without having been woken.
LEMMA SpuriousPollStep ==
  ASSUME TypeOK, Data, Control, SpuriousPoll
  PROVE  TypeOK' /\ Data' /\ Control'
<1>1. TypeOK'
  <2>1. TypePc
    BY TypeParts, Zenon
  <2>2. TypePc'
    BY <2>1 DEF TypePc, SpuriousPoll
  <2>3. TypeSlot' /\ TypeStream' /\ TypeHyper' /\ TypeCall' /\ TypeSock' /\ TypeTask' /\ TypeWire'
    BY TypeSame, Zenon DEF SpuriousPoll
  <2> QED
    BY <2>2, <2>3, TypePartsNext, Zenon
<1>2. HeadSize' = HeadSize /\ Total' = Total /\ Out' = Out /\ HeadIsScannable'
  BY CurSame, Zenon DEF Control, Out, SpuriousPoll
<1>3. Data'
  BY <1>2, DataSame, Zenon DEF SpuriousPoll
<1>4. Bounds'
  BY <1>2 DEF Control, Bounds, SpuriousPoll
<1>5. Mode'
  BY <1>2, ModeSame DEF Control, SpuriousPoll
<1>6. CallFacts'
  BY <1>2 DEF Control, CallFacts, SpuriousPoll
<1>7. RangeIsInFile' /\ FailsOnlyForCause' /\ Wakers'
  BY DEF Control, RangeIsInFile, FailsOnlyForCause, Wakers, SpuriousPoll
<1> QED
  BY <1>1, <1>2, <1>3, <1>4, <1>5, <1>6, <1>7 DEF Control

\* What HTTP promises for an answer is a sequence of bytes, and the response Hyper
\* is about to write is these bytes.
LEMMA PromisedToIs ==
  ASSUME TypeOK, NEW a \in Answers, slotPlan = NoPlan, served' = served + 1,
         cur' = [head |-> a.head, upgraded |-> Arms(a), offset |-> a.offset, length |-> BodyLen(a)]
  PROVE  /\ PromisedTo(a) \in Seq(Byte) /\ Len(PromisedTo(a)) = Total'
         /\ \A p \in 1..Total' : PromisedTo(a)[p] = Promised(p)'
<1> DEFINE head == [p \in 1..Len(a.head) |-> <<"head", served + 1, p>>]
           body == IF ~a.get THEN <<>>
                   ELSE IF a.file THEN FileRange(a.offset, a.length)
                   ELSE [i \in 1..a.length |-> <<"body", served + 1, Len(a.head) + i>>]
<1>1. /\ a.head \in Seq(ByteClass) /\ a.offset \in Nat /\ a.length \in Nat
      /\ a.get \in BOOLEAN /\ a.file \in BOOLEAN /\ served \in Nat
  BY AnswersAssumption DEF TypeOK
<1>2. Len(a.head) \in Nat
  BY <1>1, LenProperties
<1>3. PICK h \in Nat : h = Len(a.head)
  BY <1>2, Zenon
<1>4. head \in Seq(Byte) /\ Len(head) = h /\ \A p \in 1..h : head[p] = <<"head", served + 1, p>>
  <2>1. \A p \in 1..h : <<"head", served + 1, p>> \in Byte
    BY <1>1, <1>3 DEF Byte
  <2> QED
    BY <2>1, <1>3
<1> HIDE DEF head, body
<1>5. BodyLen(a) \in Nat /\ (BodyLen(a) = 0 \/ BodyLen(a) = a.length)
  BY <1>1 DEF BodyLen
<1>6. /\ HeadSize' = h /\ Total' = h + BodyLen(a)
      /\ cur'.upgraded = Arms(a) /\ cur'.offset = a.offset
  BY <1>3 DEF HeadSize, Total
<1>7. /\ body \in Seq(Byte) /\ Len(body) = BodyLen(a)
      /\ \A i \in 1..BodyLen(a) : body[i] = IF Arms(a) THEN FileByte(a.offset + i - 1)
                                            ELSE <<"body", served + 1, h + i>>
  <2>1. CASE ~a.get
    <3>1. body = <<>> /\ BodyLen(a) = 0
      BY <2>1 DEF BodyLen, body
    <3> QED
      BY <3>1, EmptySeq
  <2>2. CASE a.get /\ a.file /\ Arms(a)
    <3>1. body = FileRange(a.offset, a.length) /\ BodyLen(a) = a.length
      BY <2>2 DEF BodyLen, body
    <3>2. /\ FileRange(a.offset, a.length) \in Seq(Byte) /\ Len(FileRange(a.offset, a.length)) = a.length
          /\ \A i \in 1..a.length : FileRange(a.offset, a.length)[i] = FileByte(a.offset + i - 1)
      BY <1>1, FileRangeIs
    <3> QED
      BY <3>1, <3>2, <2>2, Zenon
  <2>3. CASE a.get /\ a.file /\ ~Arms(a)
    <3>1. a.length = 0 /\ BodyLen(a) = 0
      BY <2>3, <1>1 DEF BodyLen, Arms
    <3>2. body = FileRange(a.offset, 0)
      BY <2>3, <3>1 DEF body
    <3>3. body \in Seq(Byte) /\ Len(body) = 0
      BY <3>2, <1>1, FileRangeIs
    <3> QED
      BY <3>1, <3>3
  <2>4. CASE a.get /\ ~a.file
    <3>1. /\ body = [i \in 1..a.length |-> <<"body", served + 1, Len(a.head) + i>>]
          /\ BodyLen(a) = a.length /\ ~Arms(a)
      BY <2>4 DEF BodyLen, Arms, body
    <3>2. \A i \in 1..a.length : <<"body", served + 1, Len(a.head) + i>> \in Byte
      BY <1>1, <1>2 DEF Byte
    <3>3. PICK n \in Nat : n = a.length
      BY <1>1, Zenon
    <3>4. /\ [i \in 1..n |-> <<"body", served + 1, h + i>>] \in Seq(Byte)
          /\ Len([i \in 1..n |-> <<"body", served + 1, h + i>>]) = n
          /\ \A i \in 1..n : [j \in 1..n |-> <<"body", served + 1, h + j>>][i] = <<"body", served + 1, h + i>>
      <4>1. \A i \in 1..n : <<"body", served + 1, h + i>> \in Byte
        BY <3>2, <3>3, <1>3, Zenon
      <4>2. [i \in 1..n |-> <<"body", served + 1, h + i>>] \in [1..n -> Byte]
        BY <4>1, Zenon
      <4> QED
        BY <4>2, FiniteSeq
    <3> QED
      BY <3>1, <3>3, <3>4, <1>3, Zenon
  <2> QED
    BY <2>1, <2>2, <2>3, <2>4, <1>1
<1>8. PromisedTo(a) = head \o body
  BY DEF PromisedTo, head, body
<1>9. /\ PromisedTo(a) \in Seq(Byte) /\ Len(PromisedTo(a)) = h + BodyLen(a)
      /\ \A p \in 1..(h + BodyLen(a)) : PromisedTo(a)[p] = IF p <= h THEN head[p] ELSE body[p - h]
  <2>1. /\ head \o body \in Seq(Byte) /\ Len(head \o body) = Len(head) + Len(body)
        /\ \A p \in 1..(Len(head) + Len(body)) :
             (head \o body)[p] = IF p <= Len(head) THEN head[p] ELSE body[p - Len(head)]
    BY <1>4, <1>7, ConcatProperties, Zenon
  <2> QED
    BY <1>4, <1>7, <1>8, <2>1, Zenon
<1>10. ASSUME NEW p \in 1..(h + BodyLen(a))
       PROVE  PromisedTo(a)[p] = Promised(p)'
  <2>1. CASE p <= h
    <3>1. PromisedTo(a)[p] = <<"head", served + 1, p>>
      BY <1>4, <1>9, <2>1
    <3>2. Promised(p)' = <<"head", served', p>>
      BY <1>3, <1>6, <2>1 DEF Promised, Handed, HeadByte
    <3> QED
      BY <3>1, <3>2
  <2>2. CASE ~(p <= h)
    <3>1. p - h \in 1..BodyLen(a) /\ p \in Int /\ h + (p - h) = p
      BY <1>3, <1>5, <2>2
    <3>2. PromisedTo(a)[p] = body[p - h]
      BY <1>9, <2>2
    <3>3. CASE Arms(a)
      <4>1. PromisedTo(a)[p] = FileByte(a.offset + (p - h) - 1)
        BY <3>1, <3>2, <3>3, <1>7
      <4>2. Promised(p)' = FileByte(a.offset + p - h - 1)
        BY <1>6, <2>2, <3>1, <3>3 DEF Promised, FileByte
      <4>3. a.offset + (p - h) - 1 = a.offset + p - h - 1
        BY <1>1, <3>1
      <4> QED
        BY <4>1, <4>2, <4>3
    <3>4. CASE ~Arms(a)
      <4>1. PromisedTo(a)[p] = <<"body", served + 1, p>>
        BY <3>1, <3>2, <3>4, <1>7
      <4>2. Promised(p)' = <<"body", served', p>>
        BY <1>6, <2>2, <3>4 DEF Promised, Handed, BodyByte
      <4> QED
        BY <4>1, <4>2
    <3> QED
      BY <3>3, <3>4
  <2> QED
    BY <2>1, <2>2
<1> QED
  BY <1>6, <1>9, <1>10

\* The next response: the previous one has left nothing behind, so the slot
\* accepts the plan, and what HTTP promises grows by what Hyper will hand over.
LEMMA ServeStep ==
  ASSUME TypeOK, Data, Control, NEW a \in Answers, Serve(a)
  PROVE  TypeOK' /\ Data' /\ Control'
<1>0. /\ a.head \in Seq(ByteClass) /\ a.offset \in Nat /\ a.length \in Nat
      /\ a.get \in BOOLEAN /\ a.file \in BOOLEAN /\ EndsIn(a.head) = {Len(a.head)}
  BY AnswersAssumption
<1>1. Plain /\ owed = <<>> /\ sent = 0 /\ accepted = Total /\ Out = Total
  BY AtRest, Zenon DEF Serve
<1>2. /\ slotPlan = NoPlan /\ served' = served + 1
      /\ cur' = [head |-> a.head, upgraded |-> Arms(a), offset |-> a.offset, length |-> BodyLen(a)]
      /\ accepted' = 0 /\ encoded' = Len(a.head) /\ flushed' = FALSE
      /\ expected' = expected \o PromisedTo(a)
      /\ UNCHANGED <<streamVars, pc, callVars, sockVars, taskVars, size, wire, failure>>
  BY <1>1 DEF Plain, Serve
<1>3. PICK promised \in Seq(Byte) : /\ promised = PromisedTo(a) /\ Len(promised) = Total'
                                    /\ \A p \in 1..Total' : promised[p] = Promised(p)'
  BY <1>2, PromisedToIs, Zenon
<1>4. Len(a.head) \in Nat /\ Len(a.head) >= 4
  <2>1. Len(a.head) \in EndsIn(a.head)
    BY <1>0
  <2> QED
    BY <2>1, <1>0, EndsInBytes
<1>5. /\ BodyLen(a) \in Nat /\ (Arms(a) => BodyLen(a) = a.length /\ a.length > 0)
      /\ HeadSize' = Len(a.head) /\ Total' = Len(a.head) + BodyLen(a) /\ Arms(a) \in BOOLEAN
      /\ cur'.upgraded = Arms(a) /\ cur'.offset = a.offset /\ cur'.length = BodyLen(a) /\ cur'.head = a.head
  <2>1. BodyLen(a) \in Nat
    BY <1>0 DEF BodyLen
  <2>2. Arms(a) => BodyLen(a) = a.length /\ a.length > 0
    BY DEF BodyLen, Arms
  <2>3. Arms(a) \in BOOLEAN
    BY DEF Arms
  <2>4. cur'.upgraded = Arms(a) /\ cur'.offset = a.offset /\ cur'.length = BodyLen(a) /\ cur'.head = a.head
    BY <1>2
  <2> QED
    BY <2>1, <2>2, <2>3, <2>4 DEF HeadSize, Total
<1>6. /\ Len(expected) \in Nat /\ expected \in Seq(Byte) /\ Len(wire) = Len(expected)
      /\ Total' \in Nat /\ Out' = 0 /\ served \in Nat
  <2>1. Len(expected) \in Nat /\ Len(wire) \in Nat /\ Total \in Nat
    BY Sizes, Zenon
  <2>2. Len(wire) + 0 + Total - Total = Len(expected)
    BY <1>1, EmptySeq, Zenon DEF Data, Accounting
  <2>3. expected \in Seq(Byte) /\ served \in Nat
    BY DEF TypeOK
  <2>4. Out' = 0
    BY <1>1, <1>2 DEF Out
  <2> QED
    BY <2>1, <2>2, <2>3, <2>4, <1>4, <1>5
<1>7. PICK more \in Seq(Byte) : /\ more = expected' /\ Len(more) = Len(expected) + Total'
                                /\ \A i \in 1..Len(expected) : more[i] = expected[i]
                                /\ \A i \in 1..Total' : more[Len(expected) + i] = promised[i]
  <2>1. /\ expected \o promised \in Seq(Byte) /\ Len(expected \o promised) = Len(expected) + Len(promised)
    BY <1>6, ConcatProperties, Zenon
  <2>2. \A i \in 1..Len(expected) : (expected \o promised)[i] = expected[i]
    BY <1>6
  <2>3. \A i \in 1..Len(promised) : (expected \o promised)[Len(expected) + i] = promised[i]
    BY <1>6
  <2>4. expected' = expected \o promised
    BY <1>2, <1>3, Zenon
  <2> QED
    BY <2>1, <2>2, <2>3, <2>4, <1>3, Zenon
<1>8. TypeOK'
  <2>1. TypeSlot /\ TypeStream /\ TypeHyper /\ TypeWire
    BY TypeParts, Zenon
  <2>2. TypeSlot'
    <3>1. CASE Arms(a)
      <4>1. armed' = TRUE /\ slotPlan' = [offset |-> a.offset, remaining |-> a.length]
        BY <3>1 DEF Serve
      <4> QED
        BY <4>1, <1>0 DEF TypeSlot, Plan
    <3>2. CASE ~Arms(a)
      <4>1. armed' = armed /\ slotPlan' = slotPlan
        BY <3>2 DEF Serve
      <4> QED
        BY <4>1, <2>1 DEF TypeSlot
    <3> QED
      BY <3>1, <3>2
  <2>3. TypeHyper'
    <3>1. cur' \in [head : Seq(ByteClass), upgraded : BOOLEAN, offset : Nat, length : Nat]
      BY <1>0, <1>2, <1>5
    <3>2. served' \in Nat /\ accepted' \in Nat /\ encoded' \in Nat /\ flushed' \in BOOLEAN
      <4>1. served + 1 \in Nat /\ 0 \in Nat /\ Len(a.head) \in Nat /\ FALSE \in BOOLEAN
        BY <1>4, <1>6
      <4> QED
        BY <4>1, <1>2, Zenon
    <3> QED
      BY <3>1, <3>2, Zenon DEF TypeHyper
  <2>4. TypeWire'
    BY <1>2, <1>7, <2>1 DEF TypeWire
  <2>5. TypeStream' /\ TypePc' /\ TypeCall' /\ TypeSock' /\ TypeTask'
    BY <1>2, TypeSame, Zenon
  <2> QED
    BY <2>2, <2>3, <2>4, <2>5, TypePartsNext, Zenon
<1>9. Data'
  <2>1. WireIsPrefix'
    <3>1. \A i \in 1..Len(wire) : wire[i] = expected[i]
      BY DEF Data, WireIsPrefix
    <3>2. Len(wire) <= Len(more) /\ \A i \in 1..Len(wire) : wire[i] = more[i]
      <4>1. Len(wire) = Len(expected) /\ \A i \in 1..Len(expected) : more[i] = expected[i]
        BY <1>6, <1>7
      <4>2. Len(wire) <= Len(more)
        BY <1>6, <1>7
      <4> QED
        BY <3>1, <4>1, <4>2, Zenon
    <3> QED
      BY <3>2, <1>2, <1>7, Zenon DEF WireIsPrefix
  <2>2. Accounting'
    <3>1. Len(owed') = 0
      BY <1>1, <1>2
    <3>2. Len(wire) + 0 + Total' - 0 = Len(more)
      BY <1>6, <1>7
    <3> QED
      BY <3>1, <3>2, <1>2, <1>6, <1>7, Zenon DEF Accounting
  <2>3. OwedIsNext'
    BY <1>1, <1>2 DEF OwedIsNext
  <2>4. CurrentIsPromised'
    <3>1. ASSUME NEW p \in 1..Total'
          PROVE  more[Len(more) - Total' + p] = Promised(p)'
      <4>1. PICK l \in Nat, t \in Nat : l = Len(expected) /\ t = Total'
        BY <1>6, Zenon
      <4>2. (l + t) - t + p = l + p
        OBVIOUS
      <4>3. Len(more) - Total' + p = Len(expected) + p
        BY <4>1, <4>2, <1>7, Zenon
      <4> QED
        BY <4>3, <1>3, <1>7
    <3> QED
      BY <3>1, <1>7, Zenon DEF CurrentIsPromised
  <2> QED
    BY <2>1, <2>2, <2>3, <2>4 DEF Data
<1>10. Mode'
  <2>1. CASE Arms(a)
    <3>1. armed' = TRUE /\ slotPlan' = [offset |-> a.offset, remaining |-> a.length]
      BY <2>1 DEF Serve
    <3>2. plan' = NoPlan /\ state' = "Idle"
      BY <1>1, <1>2 DEF Plain
    <3> QED
      BY <2>1, <3>1, <3>2, <1>2, <1>4, <1>5 DEF Mode, InHead
  <2>2. CASE ~Arms(a)
    <3>1. armed' = armed /\ slotPlan' = slotPlan
      BY <2>2 DEF Serve
    <3> QED
      BY <2>2, <3>1, <1>1, <1>2, <1>5 DEF Mode, Plain
  <2> QED
    BY <2>1, <2>2
<1>11. Bounds' /\ slice = 0
  <2>1. sent = 0 /\ accepted + slice <= encoded /\ encoded = accepted /\ slice \in Nat /\ accepted \in Nat
    BY Sizes DEF Control, Bounds, Serve, ReadyForRequest
  <2>2. slice = 0
    BY <2>1
  <2> QED
    BY <2>1, <2>2, <1>2, <1>4, <1>5 DEF Bounds
<1>12. HeadIsScannable' /\ RangeIsInFile'
  <2>1. Arms(a) => a.offset + a.length <= size
    BY DEF Serve, Arms
  <2>2. size <= FileSize /\ size \in Nat /\ FileSize \in Nat
    BY SizesAssumption DEF Control, RangeIsInFile, TypeOK
  <2>3. HeadIsScannable'
    BY <1>0, <1>5 DEF HeadIsScannable
  <2>4. Arms(a) => a.offset + a.length <= FileSize
    BY <1>0, <2>1, <2>2
  <2>5. RangeIsInFile'
    BY <2>2, <2>4, <1>2, <1>5 DEF RangeIsInFile
  <2> QED
    BY <2>3, <2>5
<1>13. CallFacts'
  <2>1. pc' = "hyper"
    BY <1>2 DEF Serve
  <2> QED
    BY <2>1, <1>2 DEF CallFacts
<1>14. FailsOnlyForCause' /\ Wakers'
  BY <1>2 DEF Control, FailsOnlyForCause, Wakers
<1> QED
  BY <1>8, <1>9, <1>10, <1>11, <1>12, <1>13, <1>14 DEF Control

-----------------------------------------------------------------------------
(* How a step of the stream may end.                                       *)

\* What left the slice handling belongs to the response; while some of the slice
\* is left, so is some of the response, and Hyper has not flushed.
LEMMA OutBound ==
  ASSUME TypeOK, Control
  PROVE  /\ Out <= encoded /\ Out <= Total /\ (sent < slice => Out < Total)
         /\ (slice > 0 => accepted < encoded /\ accepted < Total /\ ~flushed)
<1>1. accepted \in Nat /\ sent \in Nat /\ slice \in Nat /\ encoded \in Nat /\ Total \in Nat
  BY Sizes, Zenon
<1>2. sent <= slice /\ accepted + slice <= encoded /\ encoded <= Total
  BY DEF Control, Bounds
<1>3. Out <= encoded /\ Out <= Total /\ (sent < slice => Out < Total)
  BY <1>1, <1>2 DEF Out
<1>4. slice > 0 => accepted < encoded /\ accepted < Total /\ accepted # encoded
  BY <1>1, <1>2
<1>5. flushed => accepted = encoded
  BY DEF Control, CallFacts
<1> QED
  BY <1>3, <1>4, <1>5, Zenon

\* Which of the three modes it is shows in the stream's state.
LEMMA WhichMode ==
  ASSUME Mode
  PROVE  /\ state = "Idle" /\ ~armed => Plain
         /\ state = "Head" \/ (state = "Idle" /\ armed) => InHead
         /\ state = "Sending" => InBody
BY DEF Mode, Plain, InHead, InBody

\* The call ends with nothing of the slice handed on.
LEMMA CallEnds ==
  ASSUME TypeOK, Data, Control, sent = 0, LocalsDie, pc' \in {"hyper", "slices", "parked"},
         pc \notin {"body", "place"},
         UNCHANGED <<armed, slotPlan, state, carry, owed, plan, cur, served, accepted, encoded, size, wire, expected>>,
         flushed' = flushed \/ (owed = <<>> /\ accepted = encoded)
  PROVE  /\ TypePc' /\ TypeCall' /\ Data' /\ Bounds' /\ HeadIsScannable' /\ RangeIsInFile'
         /\ Mode' /\ CallFacts'
<1>1. TypePc' /\ TypeCall'
  BY DEF TypePc, TypeCall, LocalsDie
<1>2. HeadSize' = HeadSize /\ Total' = Total /\ Out' = Out /\ HeadIsScannable'
  BY CurSame, Zenon DEF Control, Out, LocalsDie
<1>3. Data'
  BY <1>2, DataSame, Zenon
<1>4. Bounds'
  <2>1. Out <= encoded /\ encoded <= Total /\ accepted \in Nat
    BY OutBound, Sizes DEF Control, Bounds
  <2>2. accepted + 0 <= encoded
    BY <2>1 DEF Out
  <2> QED
    BY <1>2, <2>1, <2>2 DEF Bounds, LocalsDie
<1>5. Mode'
  BY <1>2, ModeSame, Zenon DEF Control
<1>6. CallFacts'
  <2>1. flushed => owed = <<>> /\ accepted = encoded
    BY DEF Control, CallFacts
  <2> QED
    BY <1>2, <2>1 DEF CallFacts
<1>7. RangeIsInFile'
  BY DEF Control, RangeIsInFile
<1> QED
  BY <1>1, <1>2, <1>3, <1>4, <1>5, <1>6, <1>7, Zenon

\* The stream returns an error to Hyper.
LEMMA Failing ==
  ASSUME TypeOK, Data, Control, pc' = "failed",
         pc \notin {"body", "place"} \/ Out < Total,
         UNCHANGED <<slotVars, streamVars, hyperVars, callVars, size, wire, expected>>
  PROVE  TypePc' /\ Data' /\ Bounds' /\ HeadIsScannable' /\ RangeIsInFile' /\ Mode' /\ CallFacts'
<1>1. TypePc'
  BY DEF TypePc
<1>2. HeadSize' = HeadSize /\ Total' = Total /\ Out' = Out /\ HeadIsScannable'
  BY CurSame, Zenon DEF Control, Out
<1>3. Data'
  BY <1>2, DataSame, Zenon
<1>4. Bounds'
  BY <1>2 DEF Control, Bounds
<1>5. Mode'
  BY <1>2, ModeSame, Zenon DEF Control
<1>6. CallFacts'
  BY <1>2 DEF Control, CallFacts
<1>7. RangeIsInFile'
  BY DEF Control, RangeIsInFile
<1> QED
  BY <1>1, <1>2, <1>3, <1>4, <1>5, <1>6, <1>7, Zenon

-----------------------------------------------------------------------------
(* The stream's steps.                                                     *)

\* Nothing is owed and the response is accepted: everything is out.
LEMMA ShutdownDoneStep ==
  ASSUME TypeOK, Data, Control, ShutdownDone
  PROVE  TypeOK' /\ Data' /\ Control'
<1>1. TypeOK'
  <2>1. TypePc
    BY TypeParts, Zenon
  <2>2. TypePc'
    BY <2>1 DEF TypePc, ShutdownDone
  <2>3. TypeSlot' /\ TypeStream' /\ TypeHyper' /\ TypeCall' /\ TypeSock' /\ TypeTask' /\ TypeWire'
    BY TypeSame, Zenon DEF ShutdownDone
  <2> QED
    BY <2>2, <2>3, TypePartsNext, Zenon
<1>2. HeadSize' = HeadSize /\ Total' = Total /\ Out' = Out /\ HeadIsScannable'
  BY CurSame, Zenon DEF Control, Out, ShutdownDone
<1>3. Data'
  BY <1>2, DataSame, Zenon DEF ShutdownDone
<1>4. Bounds'
  BY <1>2 DEF Control, Bounds, ShutdownDone
<1>5. Mode'
  BY <1>2, ModeSame DEF Control, ShutdownDone
<1>6. CallFacts'
  BY <1>2 DEF Control, CallFacts, ShutdownDone
<1>7. RangeIsInFile' /\ FailsOnlyForCause' /\ Wakers'
  BY DEF Control, RangeIsInFile, FailsOnlyForCause, Wakers, ShutdownDone
<1> QED
  BY <1>1, <1>2, <1>3, <1>4, <1>5, <1>6, <1>7 DEF Control

\* An unarmed stream passes the slice through.
LEMMA PollIdleStep ==
  ASSUME TypeOK, Data, Control, PollIdle
  PROVE  TypeOK' /\ Data' /\ Control'
<1>1. TypeOK'
  <2>1. TypePc
    BY TypeParts, Zenon
  <2>2. TypePc'
    BY <2>1 DEF TypePc, PollIdle
  <2>3. TypeSlot' /\ TypeStream' /\ TypeHyper' /\ TypeCall' /\ TypeSock' /\ TypeTask' /\ TypeWire'
    BY TypeSame, Zenon DEF PollIdle
  <2> QED
    BY <2>2, <2>3, TypePartsNext, Zenon
<1>2. HeadSize' = HeadSize /\ Total' = Total /\ Out' = Out /\ HeadIsScannable'
  BY CurSame, Zenon DEF Control, Out, PollIdle
<1>3. Data'
  BY <1>2, DataSame, Zenon DEF PollIdle
<1>4. Bounds'
  BY <1>2 DEF Control, Bounds, PollIdle
<1>5. Mode'
  BY <1>2, ModeSame DEF Control, PollIdle
<1>6. CallFacts'
  BY <1>2 DEF Control, CallFacts, PollIdle
<1>7. RangeIsInFile' /\ FailsOnlyForCause' /\ Wakers'
  BY DEF Control, RangeIsInFile, FailsOnlyForCause, Wakers, PollIdle
<1> QED
  BY <1>1, <1>2, <1>3, <1>4, <1>5, <1>6, <1>7 DEF Control

\* Nothing is owed and everything buffered is accepted: flushed.
LEMMA FlushDoneStep ==
  ASSUME TypeOK, Data, Control, FlushDone
  PROVE  TypeOK' /\ Data' /\ Control'
<1>1. accepted = encoded /\ sent = 0
  BY DEF Control, CallFacts, Bounds, FlushDone
<1>2. /\ TypePc' /\ TypeCall' /\ Data' /\ Bounds' /\ HeadIsScannable' /\ RangeIsInFile'
      /\ Mode' /\ CallFacts'
  <2>1. flushed' = flushed \/ (owed = <<>> /\ accepted = encoded)
    BY <1>1 DEF FlushDone
  <2> QED
    BY <1>1, <2>1, CallEnds DEF FlushDone
<1>3. TypeOK'
  <2>1. TypeHyper
    BY TypeParts, Zenon
  <2>2. TypeHyper'
    BY <2>1 DEF TypeHyper, FlushDone
  <2>3. TypeSlot' /\ TypeStream' /\ TypeSock' /\ TypeTask' /\ TypeWire'
    BY TypeSame, Zenon DEF FlushDone
  <2> QED
    BY <1>2, <2>2, <2>3, TypePartsNext, Zenon
<1>4. FailsOnlyForCause' /\ Wakers'
  BY DEF Control, FailsOnlyForCause, Wakers, FlushDone
<1> QED
  BY <1>2, <1>3, <1>4 DEF Control

\* A slice of placeholders never exceeds what is left of the plan.
LEMMA PollSendingStep ==
  ASSUME TypeOK, Data, Control, PollSending
  PROVE  TypeOK' /\ Data' /\ Control'
<1>1. InBody /\ sent = 0 /\ accepted + slice <= Total
  <2>1. InBody
    BY WhichMode DEF Control, PollSending
  <2>2. sent = 0 /\ accepted + slice <= encoded /\ encoded <= Total
    BY DEF Control, Bounds, PollSending
  <2>3. accepted \in Nat /\ slice \in Nat /\ encoded \in Nat /\ Total \in Nat
    BY Sizes, Zenon
  <2> QED
    BY <2>1, <2>2, <2>3
<1>2. TransferError(plan, slice) = "none"
  <2>1. plan.remaining = Total - Out /\ plan \in Plan
    <3>1. plan = [offset |-> cur.offset + (Out - HeadSize), remaining |-> Total - Out]
          /\ HeadSize <= Out /\ Out <= Total
      BY <1>1, OutBound DEF InBody
    <3>2. /\ cur.offset \in Nat /\ Out \in Nat /\ HeadSize \in Nat /\ Total \in Nat
          /\ HeadSize <= Out /\ Out <= Total
      BY <3>1, Sizes, Zenon
    <3>3. cur.offset + (Out - HeadSize) \in Nat /\ Total - Out \in Nat
      BY <3>2
    <3> QED
      BY <3>1, <3>3 DEF Plan
  <2>2. ~(slice > Total - Out)
    BY <1>1, Sizes DEF Out
  <2> QED
    BY <2>1, <2>2, NoPlanAssumption DEF TransferError
<1>3. pc' = "place" /\ failure' = failure
  BY <1>2 DEF PollSending
<1>4. TypeOK'
  <2>1. TypeWire
    BY TypeParts, Zenon
  <2>2. TypeWire'
    BY <2>1, <1>3 DEF TypeWire, PollSending
  <2>3. TypePc'
    BY <1>3 DEF TypePc
  <2>4. TypeSlot' /\ TypeStream' /\ TypeHyper' /\ TypeCall' /\ TypeSock' /\ TypeTask'
    BY TypeSame, Zenon DEF PollSending
  <2> QED
    BY <2>2, <2>3, <2>4, TypePartsNext, Zenon
<1>5. HeadSize' = HeadSize /\ Total' = Total /\ Out' = Out /\ HeadIsScannable'
  BY CurSame, Zenon DEF Control, Out, PollSending
<1>6. Data'
  BY <1>5, DataSame, Zenon DEF PollSending
<1>7. Bounds'
  BY <1>1, <1>3, <1>5 DEF Control, Bounds, PollSending
<1>8. Mode'
  BY <1>3, <1>5, ModeSame DEF Control, PollSending
<1>9. CallFacts'
  BY <1>3, <1>5 DEF Control, CallFacts, PollSending
<1>10. RangeIsInFile' /\ FailsOnlyForCause' /\ Wakers'
  BY <1>3 DEF Control, RangeIsInFile, FailsOnlyForCause, Wakers, PollSending
<1> QED
  BY <1>4, <1>5, <1>6, <1>7, <1>8, <1>9, <1>10 DEF Control

\* poll_writable goes on, or registers the waker before it parks.
LEMMA PollWritableStep ==
  ASSUME TypeOK, Data, Control, PollWritable
  PROVE  TypeOK' /\ Data' /\ Control'
<1>0. sent = 0
  BY DEF Control, Bounds, PollWritable
<1>1. CASE ready /\ pc' = "place" /\ UNCHANGED <<callVars, waker>>
  <2>1. TypeOK'
    <3>1. TypePc'
      BY <1>1 DEF TypePc
    <3>2. /\ TypeSlot' /\ TypeStream' /\ TypeHyper' /\ TypeCall' /\ TypeSock' /\ TypeTask' /\ TypeWire'
      BY <1>1, TypeSame, Zenon DEF PollWritable
    <3> QED
      BY <3>1, <3>2, TypePartsNext, Zenon
  <2>2. HeadSize' = HeadSize /\ Total' = Total /\ Out' = Out /\ HeadIsScannable'
    BY <1>1, CurSame, Zenon DEF Control, Out, PollWritable
  <2>3. Data'
    BY <2>2, DataSame, Zenon DEF PollWritable
  <2>4. Bounds'
    BY <1>1, <2>2 DEF Control, Bounds, PollWritable
  <2>5. Mode'
    BY <1>1, <2>2, ModeSame DEF Control, PollWritable
  <2>6. CallFacts'
    BY <1>1, <2>2 DEF Control, CallFacts, PollWritable
  <2>7. RangeIsInFile' /\ FailsOnlyForCause' /\ Wakers'
    BY <1>1 DEF Control, RangeIsInFile, FailsOnlyForCause, Wakers, PollWritable
  <2> QED
    BY <2>1, <2>2, <2>3, <2>4, <2>5, <2>6, <2>7 DEF Control
<1>2. CASE ~ready /\ waker' = TRUE /\ Park
  <2>1. /\ TypePc' /\ TypeCall' /\ Data' /\ Bounds' /\ HeadIsScannable' /\ RangeIsInFile'
        /\ Mode' /\ CallFacts'
    <3>1. pc' \in {"hyper", "slices", "parked"} /\ LocalsDie
      BY <1>2 DEF Park
    <3> QED
      BY <1>0, <3>1, CallEnds DEF PollWritable
  <2>2. TypeOK'
    <3>1. TypeTask
      BY TypeParts, Zenon
    <3>2. TypeTask'
      BY <1>2, <3>1 DEF TypeTask, PollWritable
    <3>3. TypeSlot' /\ TypeStream' /\ TypeHyper' /\ TypeSock' /\ TypeWire'
      BY TypeSame, Zenon DEF PollWritable
    <3> QED
      BY <2>1, <3>2, <3>3, TypePartsNext, Zenon
  <2>3. FailsOnlyForCause' /\ Wakers'
    BY <1>2 DEF Control, FailsOnlyForCause, Wakers, PollWritable
  <2> QED
    BY <2>1, <2>2, <2>3 DEF Control
<1> QED
  BY <1>1, <1>2 DEF PollWritable

\* The room in the socket's buffer is a natural number.
LEMMA RoomIsNat ==
  ASSUME TypeOK
  PROVE  room \in Nat
<1>1. TypeSock
  BY TypeParts, Zenon
<1> QED
  BY <1>1, SizesAssumption DEF TypeSock

\* A system call sends some bytes.
LEMMA Sends ==
  ASSUME TypeOK, CanSend, NEW n \in Nat, n <= room, room' = room - n, UNCHANGED <<ready, gone>>
  PROVE  TypeSock'
<1>1. TypeSock
  BY TypeParts, Zenon
<1> QED
  BY <1>1, SizesAssumption DEF TypeSock

\* Owed bytes go out first, in their order.
LEMMA DrainOwedStep ==
  ASSUME TypeOK, Data, Control, DrainOwed
  PROVE  TypeOK' /\ Data' /\ Control'
<1>0. sent = 0 /\ pc = "drain" /\ owed # <<>> /\ ~flushed
  BY DEF Control, Bounds, CallFacts, DrainOwed
<1>1. ASSUME CanSend, NEW n \in 1..SmallerOf(room, Len(owed)), Accept(SubSeq(owed, 1, n)),
             owed' = SubSeq(owed, n + 1, Len(owed)), UNCHANGED <<pc, callVars, taskVars>>
      PROVE  TypeOK' /\ Data' /\ Control'
  <2>1. n \in Nat /\ n <= room /\ n \in 1..Len(owed)
    <3>1. room \in Int /\ Len(owed) \in Int
      BY Sizes, RoomIsNat
    <3> QED
      BY <3>1, SmallerOfTwo
  <2>2. HeadSize' = HeadSize /\ Total' = Total /\ Out' = Out /\ HeadIsScannable' /\ Out <= Total
    BY <1>1, CurSame, OutBound, Zenon DEF Control, Out, DrainOwed
  <2>3. wire' \in Seq(Byte) /\ owed' \in Seq(Byte) /\ Data'
    BY <1>1, <2>1, <2>2, DataDrain DEF Accept, DrainOwed
  <2>4. Len(SubSeq(owed, 1, n)) = n
    <3>1. owed \in Seq(Byte)
      BY Zenon DEF TypeOK
    <3> QED
      BY <2>1, <3>1
  <2>5. TypeOK'
    <3>1. TypeStream /\ TypeWire
      BY TypeParts, Zenon
    <3>2. TypeStream'
      BY <2>3, <3>1 DEF TypeStream, DrainOwed
    <3>3. TypeWire'
      BY <1>1, <2>3, <3>1 DEF TypeWire, Accept
    <3>4. TypeSock'
      BY <1>1, <2>1, <2>4, Sends DEF Accept
    <3>5. TypeSlot' /\ TypeHyper' /\ TypePc' /\ TypeCall' /\ TypeTask'
      BY <1>1, TypeSame, Zenon DEF DrainOwed
    <3> QED
      BY <3>2, <3>3, <3>4, <3>5, TypePartsNext, Zenon
  <2>6. Bounds'
    BY <1>1, <2>2 DEF Control, Bounds, DrainOwed
  <2>7. Mode'
    BY <1>1, <2>2, ModeSame DEF Control, DrainOwed
  <2>8. CallFacts'
    BY <1>0, <1>1, <2>2 DEF Control, CallFacts, DrainOwed
  <2>9. RangeIsInFile' /\ FailsOnlyForCause' /\ Wakers'
    BY <1>0, <1>1 DEF Control, RangeIsInFile, FailsOnlyForCause, Wakers, Accept, DrainOwed
  <2> QED
    BY <2>2, <2>3, <2>5, <2>6, <2>7, <2>8, <2>9 DEF Control
<1>2. ASSUME Register, Park, UNCHANGED <<owed, wireVars>>
      PROVE  TypeOK' /\ Data' /\ Control'
  <2>1. /\ TypePc' /\ TypeCall' /\ Data' /\ Bounds' /\ HeadIsScannable' /\ RangeIsInFile'
        /\ Mode' /\ CallFacts'
    <3>1. pc' \in {"hyper", "slices", "parked"} /\ LocalsDie
      BY <1>2 DEF Park
    <3> QED
      BY <1>0, <1>2, <3>1, CallEnds DEF DrainOwed
  <2>2. TypeOK'
    <3>1. TypeTask /\ TypeSock /\ TypeStream /\ TypeWire
      BY TypeParts, Zenon
    <3>2. TypeTask' /\ TypeSock'
      BY <1>2, <3>1 DEF TypeTask, TypeSock, Register, DrainOwed
    <3>3. TypeStream' /\ TypeWire'
      BY <1>2, <3>1 DEF TypeStream, TypeWire, DrainOwed
    <3>4. TypeSlot' /\ TypeHyper'
      BY TypeSame, Zenon DEF DrainOwed
    <3> QED
      BY <2>1, <3>2, <3>3, <3>4, TypePartsNext, Zenon
  <2>3. FailsOnlyForCause' /\ Wakers'
    BY <1>2 DEF Control, FailsOnlyForCause, Wakers, Register, DrainOwed
  <2> QED
    BY <2>1, <2>2, <2>3 DEF Control
<1>3. ASSUME SockError, Fail("reset"), UNCHANGED <<owed, callVars, wire, expected, sockVars, taskVars>>
      PROVE  TypeOK' /\ Data' /\ Control'
  <2>1. TypePc' /\ Data' /\ Bounds' /\ HeadIsScannable' /\ RangeIsInFile' /\ Mode' /\ CallFacts'
    BY <1>0, <1>3, Failing DEF Fail, DrainOwed
  <2>2. TypeOK'
    <3>1. TypeStream /\ TypeWire
      BY TypeParts, Zenon
    <3>2. TypeStream' /\ TypeWire'
      BY <1>3, <3>1 DEF TypeStream, TypeWire, Fail, DrainOwed
    <3>3. TypeSlot' /\ TypeHyper' /\ TypeCall' /\ TypeSock' /\ TypeTask'
      BY <1>3, TypeSame, Zenon DEF DrainOwed
    <3> QED
      BY <2>1, <3>2, <3>3, TypePartsNext, Zenon
  <2>3. FailsOnlyForCause' /\ Wakers'
    BY <1>0, <1>3 DEF Control, FailsOnlyForCause, Wakers, SockError, Fail, DrainOwed
  <2> QED
    BY <2>1, <2>2, <2>3 DEF Control
<1> QED
  BY <1>1, <1>2, <1>3, Zenon DEF DrainOwed

\* A call returns count bytes of the slice, of which all but the first sent bytes
\* were handed on by the step itself.
LEMMA Returned ==
  ASSUME TypeOK, Control, NEW count \in Nat, count <= slice, Return(count)
  PROVE  /\ TypePc' /\ TypeCall' /\ accepted' \in Nat /\ Out' = accepted + count
         /\ accepted + count <= encoded /\ pc' \in {"hyper", "slices"}
<1>1. accepted \in Nat /\ sent \in Nat /\ slice \in Nat /\ encoded \in Nat
  BY Sizes, Zenon
<1>2. accepted + slice <= encoded
  BY DEF Control, Bounds
<1>3. accepted' = accepted + count /\ sent' = 0 /\ pc' \in {"hyper", "slices"}
  BY DEF Return, LocalsDie
<1>4. TypePc' /\ TypeCall'
  <2>1. LocalsDie
    BY DEF Return
  <2>2. TypeCall'
    BY <2>1 DEF TypeCall, LocalsDie
  <2> QED
    BY <1>3, <2>2 DEF TypePc
<1>5. accepted + count \in Nat /\ accepted + count <= encoded /\ (accepted + count) + 0 = accepted + count
  BY <1>1, <1>2
<1> QED
  BY <1>3, <1>4, <1>5, Zenon DEF Out

\* Ordinary bytes go out as they are.
LEMMA PassThroughStep ==
  ASSUME TypeOK, Data, Control, PassThrough
  PROVE  TypeOK' /\ Data' /\ Control'
<1>0. pc = "pass" /\ sent = 0 /\ owed = <<>> /\ slice > 0 /\ ~flushed /\ accepted < Total /\ state = "Idle" /\ ~armed
  BY OutBound DEF Control, Bounds, CallFacts, PassThrough
<1>1. Plain /\ ~cur.upgraded
  <2>1. Plain
    BY <1>0, WhichMode DEF Control
  <2>2. accepted # Total
    BY <1>0, Sizes
  <2> QED
    BY <2>1, <2>2 DEF Plain
<1>2. ASSUME CanSend, NEW n \in 1..SmallerOf(room, slice), Accept(HandedRange(accepted, n)), Return(n),
             UNCHANGED taskVars
      PROVE  TypeOK' /\ Data' /\ Control'
  <2>1. n \in Nat /\ n <= room /\ n <= slice
    <3>1. room \in Int /\ slice \in Int
      BY Sizes, RoomIsNat
    <3> QED
      BY <3>1, SmallerOfTwo
  <2>2. HeadSize' = HeadSize /\ Total' = Total /\ HeadIsScannable'
    BY CurSame, Zenon DEF Control, PassThrough
  <2>3. /\ TypePc' /\ TypeCall' /\ accepted' \in Nat /\ Out' = accepted + n
        /\ accepted + n <= encoded /\ pc' \in {"hyper", "slices"}
    BY <1>2, <2>1, Returned
  <2>4. PICK bytes \in Seq(Byte) : /\ bytes = HandedRange(accepted, n) /\ Len(bytes) = n
                                   /\ \A i \in 1..n : bytes[i] = Handed(accepted + i)
    BY <2>1, HandedRangeIs, Sizes
  <2>5. Out = accepted /\ accepted + n <= Total
    <3>1. accepted \in Nat /\ encoded \in Nat /\ Total \in Nat /\ encoded <= Total
      BY Sizes DEF Control, Bounds
    <3> QED
      BY <1>0, <2>1, <2>3, <3>1 DEF Out
  <2>6. wire' \in Seq(Byte) /\ Data'
    <3>1. \A i \in 1..Len(bytes) : bytes[i] = Promised(Out + i)
      BY <1>1, <2>4, <2>5 DEF Promised
    <3>2. /\ UNCHANGED <<expected, owed, cur, served>> /\ wire' = wire \o bytes
          /\ Out' = Out + Len(bytes) /\ Out + Len(bytes) <= Total
      BY <1>2, <2>3, <2>4, <2>5 DEF Accept, PassThrough
    <3> QED
      BY <1>0, <3>1, <3>2, DataSend
  <2>7. TypeOK'
    <3>1. TypeHyper /\ TypeWire
      BY TypeParts, Zenon
    <3>2. TypeHyper'
      BY <2>3, <3>1 DEF TypeHyper, PassThrough
    <3>3. TypeWire'
      BY <1>2, <2>6, <3>1 DEF TypeWire, Accept
    <3>4. TypeSock'
      BY <1>2, <2>1, <2>4, Sends DEF Accept
    <3>5. TypeSlot' /\ TypeStream' /\ TypeTask'
      BY <1>2, TypeSame, Zenon DEF PassThrough
    <3> QED
      BY <2>3, <3>2, <3>3, <3>4, <3>5, TypePartsNext, Zenon
  <2>8. Bounds'
    <3>1. encoded <= Total /\ encoded \in Nat /\ accepted' = accepted + n /\ slice' = 0 /\ sent' = 0 /\ encoded' = encoded
      BY <1>2, Sizes DEF Control, Bounds, Return, LocalsDie, PassThrough
    <3> QED
      BY <2>2, <2>3, <3>1 DEF Bounds
  <2>9. Mode'
    BY <1>1 DEF Mode, Plain, PassThrough
  <2>10. CallFacts'
    BY <1>0, <2>3 DEF CallFacts, PassThrough
  <2>11. RangeIsInFile' /\ FailsOnlyForCause' /\ Wakers'
    BY <1>2, <2>3 DEF Control, RangeIsInFile, FailsOnlyForCause, Wakers, Accept, PassThrough
  <2> QED
    BY <2>2, <2>6, <2>7, <2>8, <2>9, <2>10, <2>11 DEF Control
<1>3. ASSUME Register, Park, UNCHANGED <<accepted, wireVars>>
      PROVE  TypeOK' /\ Data' /\ Control'
  <2>1. /\ TypePc' /\ TypeCall' /\ Data' /\ Bounds' /\ HeadIsScannable' /\ RangeIsInFile'
        /\ Mode' /\ CallFacts'
    <3>1. pc' \in {"hyper", "slices", "parked"} /\ LocalsDie
      BY <1>3 DEF Park
    <3> QED
      BY <1>0, <1>3, <3>1, CallEnds DEF PassThrough
  <2>2. TypeOK'
    <3>1. TypeTask /\ TypeSock /\ TypeHyper /\ TypeWire
      BY TypeParts, Zenon
    <3>2. TypeTask' /\ TypeSock'
      BY <1>3, <3>1 DEF TypeTask, TypeSock, Register, PassThrough
    <3>3. TypeHyper' /\ TypeWire'
      BY <1>3, <3>1 DEF TypeHyper, TypeWire, PassThrough
    <3>4. TypeSlot' /\ TypeStream'
      BY TypeSame, Zenon DEF PassThrough
    <3> QED
      BY <2>1, <3>2, <3>3, <3>4, TypePartsNext, Zenon
  <2>3. FailsOnlyForCause' /\ Wakers'
    BY <1>3 DEF Control, FailsOnlyForCause, Wakers, Register, PassThrough
  <2> QED
    BY <2>1, <2>2, <2>3 DEF Control
<1>4. ASSUME SockError, Fail("reset"), UNCHANGED <<accepted, callVars, wire, expected, sockVars, taskVars>>
      PROVE  TypeOK' /\ Data' /\ Control'
  <2>1. TypePc' /\ Data' /\ Bounds' /\ HeadIsScannable' /\ RangeIsInFile' /\ Mode' /\ CallFacts'
    BY <1>0, <1>4, Failing DEF Fail, PassThrough
  <2>2. TypeOK'
    <3>1. TypeHyper /\ TypeWire
      BY TypeParts, Zenon
    <3>2. TypeHyper' /\ TypeWire'
      BY <1>4, <3>1 DEF TypeHyper, TypeWire, Fail, PassThrough
    <3>3. TypeSlot' /\ TypeStream' /\ TypeCall' /\ TypeSock' /\ TypeTask'
      BY <1>4, TypeSame, Zenon DEF PassThrough
    <3> QED
      BY <2>1, <3>2, <3>3, TypePartsNext, Zenon
  <2>3. FailsOnlyForCause' /\ Wakers'
    BY <1>0, <1>4 DEF Control, FailsOnlyForCause, Wakers, SockError, Fail, PassThrough
  <2> QED
    BY <2>1, <2>2, <2>3 DEF Control
<1> QED
  BY <1>2, <1>3, <1>4, Zenon DEF PassThrough

\* The head goes out as it is, up to its end or the end of the slice.
LEMMA HeadWriteStep ==
  ASSUME TypeOK, Data, Control, HeadWrite
  PROVE  TypeOK' /\ Data' /\ Control'
<1>0. pc = "head" /\ state = "Head" /\ owed = <<>> /\ sent < headLen /\ headLen <= slice /\ ~flushed
  BY OutBound DEF Control, CallFacts, HeadWrite
<1>1. InHead /\ accepted + headLen <= HeadSize /\ HeadSize <= Total /\ accepted + headLen <= encoded
  <2>1. InHead
    BY <1>0, WhichMode DEF Control
  <2>2. \/ accepted + headLen = HeadSize
        \/ headLen = slice /\ accepted + slice < HeadSize
    BY <1>0 DEF Control, CallFacts
  <2>3. accepted + slice <= encoded
    BY DEF Control, Bounds
  <2>4. /\ accepted \in Nat /\ slice \in Nat /\ headLen \in Nat /\ HeadSize \in Nat
        /\ cur.length \in Nat /\ encoded \in Nat
    BY Sizes DEF TypeOK
  <2> QED
    BY <1>0, <2>1, <2>2, <2>3, <2>4 DEF Total
<1>2. ASSUME CanSend, NEW n \in 1..SmallerOf(room, headLen - sent),
             Accept(HandedRange(accepted + sent, n)), sent' = sent + n, UNCHANGED pc
      PROVE  TypeOK' /\ Data' /\ Control'
  <2>1. /\ n \in Nat /\ n <= room /\ sent + n <= headLen /\ sent + n <= slice
        /\ accepted + sent \in Nat /\ sent + n \in Nat /\ accepted + sent + n <= HeadSize
        /\ accepted + sent + n <= Total /\ accepted + (sent + n) = accepted + sent + n
    <3>1. /\ room \in Int /\ headLen \in Nat /\ slice \in Nat /\ sent \in Nat /\ accepted \in Nat
          /\ HeadSize \in Nat /\ Total \in Nat
      <4>1. headLen \in Nat
        BY Zenon DEF TypeOK
      <4> QED
        BY <4>1, Sizes, RoomIsNat
    <3>2. n \in Nat /\ n <= room /\ n <= headLen - sent
      BY <3>1, SmallerOfTwo
    <3> QED
      BY <1>0, <1>1, <3>1, <3>2
  <2>2. HeadSize' = HeadSize /\ Total' = Total /\ HeadIsScannable'
    BY CurSame, Zenon DEF Control, HeadWrite
  <2>3. PICK bytes \in Seq(Byte) : /\ bytes = HandedRange(accepted + sent, n) /\ Len(bytes) = n
                                   /\ \A i \in 1..n : bytes[i] = Handed(accepted + sent + i)
    BY <2>1, HandedRangeIs
  <2>4. wire' \in Seq(Byte) /\ Data'
    <3>1. ASSUME NEW i \in 1..Len(bytes) PROVE bytes[i] = Promised(Out + i)
      <4>1. accepted + sent + i <= HeadSize /\ ~(accepted + sent + i > HeadSize)
        <5>1. HeadSize \in Nat /\ i \in 1..n
          BY <2>3, Sizes
        <5> QED
          BY <2>1, <5>1
      <4> QED
        BY <4>1, <2>3 DEF Promised, Out
    <3>2. /\ UNCHANGED <<expected, owed, cur, served>> /\ wire' = wire \o bytes
          /\ Out' = Out + Len(bytes) /\ Out + Len(bytes) <= Total
      BY <1>2, <2>1, <2>3 DEF Accept, Out, HeadWrite
    <3> QED
      BY <1>0, <3>1, <3>2, DataSend
  <2>5. TypeOK'
    <3>1. TypeCall /\ TypeWire
      BY TypeParts, Zenon
    <3>2. TypeCall'
      BY <1>2, <2>1, <3>1 DEF TypeCall, HeadWrite
    <3>3. TypeWire'
      BY <1>2, <2>4, <3>1 DEF TypeWire, Accept
    <3>4. TypeSock'
      BY <1>2, <2>1, <2>3, Sends DEF Accept
    <3>5. TypeSlot' /\ TypeStream' /\ TypeHyper' /\ TypePc' /\ TypeTask'
      BY <1>2, TypeSame, Zenon DEF HeadWrite
    <3> QED
      BY <3>2, <3>3, <3>4, <3>5, TypePartsNext, Zenon
  <2>6. Bounds'
    BY <1>0, <1>2, <2>1, <2>2 DEF Control, Bounds, HeadWrite
  <2>7. Mode'
    BY <1>1, <2>2 DEF Mode, InHead, HeadWrite
  <2>8. CallFacts'
    BY <1>0, <1>2, <2>1, <2>2 DEF Control, CallFacts, HeadWrite
  <2>9. RangeIsInFile' /\ FailsOnlyForCause' /\ Wakers'
    BY <1>0, <1>2 DEF Control, RangeIsInFile, FailsOnlyForCause, Wakers, Accept, HeadWrite
  <2> QED
    BY <2>2, <2>4, <2>5, <2>6, <2>7, <2>8, <2>9 DEF Control
<1>3. ASSUME SockError, Fail("reset"), UNCHANGED <<sent, wire, expected, sockVars>>
      PROVE  TypeOK' /\ Data' /\ Control'
  <2>1. TypePc' /\ Data' /\ Bounds' /\ HeadIsScannable' /\ RangeIsInFile' /\ Mode' /\ CallFacts'
    BY <1>0, <1>3, Failing DEF Fail, HeadWrite
  <2>2. TypeOK'
    <3>1. TypeCall /\ TypeWire
      BY TypeParts, Zenon
    <3>2. TypeCall' /\ TypeWire'
      BY <1>3, <3>1 DEF TypeCall, TypeWire, Fail, HeadWrite
    <3>3. TypeSlot' /\ TypeStream' /\ TypeHyper' /\ TypeSock' /\ TypeTask'
      BY <1>3, TypeSame, Zenon DEF HeadWrite
    <3> QED
      BY <2>1, <3>2, <3>3, TypePartsNext, Zenon
  <2>3. FailsOnlyForCause' /\ Wakers'
    BY <1>0, <1>3 DEF Control, FailsOnlyForCause, Wakers, SockError, Fail, HeadWrite
  <2> QED
    BY <2>1, <2>2, <2>3 DEF Control
<1> QED
  BY <1>2, <1>3, Zenon DEF HeadWrite

\* The slice, as the scanner sees it.
LEMMA BufIs ==
  ASSUME TypeOK
  PROVE  \E b \in Seq(ByteClass) : /\ b = Buf /\ Len(b) = slice
                                   /\ \A i \in 1..slice : accepted + i <= HeadSize => b[i] = cur.head[accepted + i]
<1>1. accepted \in Nat /\ slice \in Nat /\ cur.head \in Seq(ByteClass) /\ HeadSize \in Nat
  BY Sizes, Zenon
<1>2. ASSUME NEW i \in 1..slice
      PROVE  ClassAt(accepted + i) \in ByteClass
  <2>1. CASE accepted + i <= HeadSize
    <3>1. accepted + i \in 1..Len(cur.head)
      BY <1>1, <2>1 DEF HeadSize
    <3> QED
      BY <1>1, <2>1, <3>1, ElementOfSeq DEF ClassAt
  <2>2. CASE ~(accepted + i <= HeadSize)
    BY <2>2 DEF ClassAt, ByteClass
  <2> QED
    BY <2>1, <2>2
<1>3. Buf \in Seq(ByteClass) /\ Len(Buf) = slice /\ \A i \in 1..slice : Buf[i] = ClassAt(accepted + i)
  BY <1>1, <1>2 DEF Buf
<1>4. \A i \in 1..slice : accepted + i <= HeadSize => Buf[i] = cur.head[accepted + i]
  BY <1>3 DEF ClassAt
<1> QED
  BY <1>3, <1>4, Zenon

\* The scan finds the end of the head exactly when the slice reaches it, because
\* the carry is the last three bytes already handed over (SplitScan).
LEMMA PollHeadStep ==
  ASSUME TypeOK, Data, Control, PollHead
  PROVE  TypeOK' /\ Data' /\ Control'
<1>0. InHead /\ sent = 0 /\ owed = <<>> /\ slice > 0 /\ ~flushed /\ call = "write"
  BY WhichMode, OutBound DEF Control, Bounds, CallFacts, PollHead
<1>1. /\ accepted \in Nat /\ slice \in Nat /\ HeadSize \in Nat /\ cur.head \in Seq(ByteClass)
      /\ accepted < HeadSize /\ EndsIn(cur.head) = {Len(cur.head)} /\ HeadSize = Len(cur.head)
  BY <1>0, Sizes DEF InHead, Control, HeadIsScannable, HeadSize
<1>2. carry' = LastThree(SubSeq(cur.head, 1, accepted)) /\ carry' \in Seq(ByteClass) /\ Len(carry') <= 3
  <2>1. CASE state = "Idle"
    <3>1. accepted = 0 /\ carry' = <<>>
      BY <2>1, <1>0 DEF InHead, PollHead
    <3>2. LastThree(SubSeq(cur.head, 1, 0)) = <<>>
      BY <1>1, NothingCarried
    <3> QED
      BY <3>1, <3>2, EmptySeq
  <2>2. CASE state # "Idle"
    <3>1. carry' = carry /\ state = "Head"
      BY <2>2, <1>0 DEF InHead, PollHead
    <3>2. carry = LastThree(SubSeq(cur.head, 1, accepted))
      BY <3>1, <1>0 DEF InHead
    <3>3. carry \in Seq(ByteClass) /\ Len(carry) <= 3
      BY Zenon DEF TypeOK
    <3> QED
      BY <3>1, <3>2, <3>3
  <2> QED
    BY <2>1, <2>2
<1>3. PICK b \in Seq(ByteClass) : /\ b = Buf /\ Len(b) = slice
                                  /\ \A i \in 1..slice : accepted + i <= HeadSize => b[i] = cur.head[accepted + i]
  BY BufIs
<1>4. FindHeadEnd(carry', Buf) = IF HeadSize <= accepted + slice THEN HeadSize - accepted ELSE NotFound
  <2>1. \A i \in 1..Len(b) : accepted + i <= Len(cur.head) => b[i] = cur.head[accepted + i]
    BY <1>1, <1>3
  <2>2. FindHeadEnd(LastThree(SubSeq(cur.head, 1, accepted)), b) =
          IF Len(cur.head) <= accepted + Len(b) THEN Len(cur.head) - accepted ELSE NotFound
    BY <1>1, <2>1, HeadFound
  <2> QED
    BY <2>2, <1>1, <1>2, <1>3
<1>5. /\ found' \in BOOLEAN /\ headLen' \in Nat /\ headLen' <= slice
      /\ found' => accepted + headLen' = HeadSize
      /\ ~found' => headLen' = slice /\ accepted + slice < HeadSize
  <2>1. /\ found' = (FindHeadEnd(carry', Buf) # NotFound)
        /\ headLen' = IF FindHeadEnd(carry', Buf) # NotFound THEN FindHeadEnd(carry', Buf) ELSE slice
    BY DEF PollHead
  <2>2. CASE HeadSize <= accepted + slice
    <3>1. FindHeadEnd(carry', Buf) = HeadSize - accepted /\ HeadSize - accepted # NotFound
      BY <1>1, <1>4, <2>2 DEF NotFound
    <3>2. found' = TRUE /\ headLen' = HeadSize - accepted
      BY <2>1, <3>1
    <3> QED
      BY <3>2, <2>2, <1>1
  <2>3. CASE ~(HeadSize <= accepted + slice)
    <3>1. FindHeadEnd(carry', Buf) = NotFound
      BY <1>4, <2>3
    <3>2. found' = FALSE /\ headLen' = slice
      BY <2>1, <3>1
    <3>3. accepted + slice < HeadSize /\ slice <= slice
      BY <2>3, <1>1
    <3> QED
      BY <3>2, <3>3, <1>1, Zenon
  <2> QED
    BY <2>2, <2>3
<1>6. TypeOK'
  <2>1. TypeStream /\ TypeCall
    BY TypeParts, Zenon
  <2>2. TypeStream'
    BY <2>1, <1>2 DEF TypeStream, PollHead
  <2>3. TypeCall'
    BY <2>1, <1>5 DEF TypeCall, PollHead
  <2>4. TypePc'
    BY DEF TypePc, PollHead
  <2>5. TypeSlot' /\ TypeHyper' /\ TypeSock' /\ TypeTask' /\ TypeWire'
    BY TypeSame, Zenon DEF PollHead
  <2> QED
    BY <2>2, <2>3, <2>4, <2>5, TypePartsNext, Zenon
<1>7. HeadSize' = HeadSize /\ Total' = Total /\ Out' = Out /\ HeadIsScannable'
  BY CurSame, Zenon DEF Control, Out, PollHead
<1>8. Data'
  BY <1>7, DataSame, Zenon DEF PollHead
<1>9. Bounds'
  BY <1>0, <1>7 DEF Control, Bounds, PollHead
<1>10. Mode'
  <2>1. carry' = LastThree(SubSeq(cur'.head, 1, accepted')) /\ state' = "Head"
    BY <1>2 DEF PollHead
  <2>2. UNCHANGED <<cur, armed, plan, slotPlan, accepted>>
    BY DEF PollHead
  <2> QED
    BY <1>0, <1>7, <2>1, <2>2 DEF Mode, InHead
<1>11. CallFacts'
  <2>1. UNCHANGED <<sent, slice, accepted, owed, flushed>> /\ state' = "Head" /\ pc' = "head"
    BY DEF PollHead
  <2>2. sent' <= headLen'
    BY <1>0, <1>5, <2>1
  <2> QED
    BY <1>0, <1>5, <1>7, <2>1, <2>2 DEF CallFacts
<1>12. RangeIsInFile' /\ FailsOnlyForCause' /\ Wakers'
  BY DEF Control, RangeIsInFile, FailsOnlyForCause, Wakers, PollHead
<1> QED
  BY <1>6, <1>7, <1>8, <1>9, <1>10, <1>11, <1>12 DEF Control

\* While the head is scanned, what is handed over stays within it.
LEMMA WithinHead ==
  ASSUME TypeOK, Control, pc = "head"
  PROVE  /\ InHead /\ owed = <<>> /\ slice > 0 /\ ~flushed /\ state = "Head"
         /\ sent <= headLen /\ headLen <= slice /\ headLen \in Nat
         /\ accepted + headLen <= HeadSize /\ HeadSize <= Total
<1>1. /\ owed = <<>> /\ slice > 0 /\ state = "Head" /\ sent <= headLen /\ headLen <= slice
      /\ (accepted + headLen = HeadSize \/ (headLen = slice /\ accepted + slice < HeadSize))
  BY DEF Control, CallFacts
<1>2. InHead /\ ~flushed
  BY <1>1, WhichMode, OutBound DEF Control
<1>3. headLen \in Nat
  BY Zenon DEF TypeOK
<1>4. accepted \in Nat /\ slice \in Nat /\ HeadSize \in Nat /\ cur.length \in Nat
  BY Sizes, Zenon
<1>5. accepted + headLen <= HeadSize /\ HeadSize <= Total
  BY <1>1, <1>3, <1>4 DEF Total
<1> QED
  BY <1>1, <1>2, <1>3, <1>5, Zenon

\* write_head's loop ends: what is left of the head in this slice is owed.
LEMMA HeadIsOwed ==
  ASSUME TypeOK, Data, Control, HeadLoopOver, Out' = accepted + headLen, size' = size,
         UNCHANGED <<wire, expected, cur, served>>
  PROVE  /\ owed' \in Seq(Byte) /\ Data' /\ TypeSock' /\ TypeTask' /\ (sent = headLen => owed' = <<>>)
         /\ ((waker' => ~ready') /\ (woken => woken') /\ gone' = gone)
<1>0. pc = "head"
  BY DEF HeadLoopOver
<1>1. /\ owed = <<>> /\ sent <= headLen /\ headLen \in Nat
      /\ accepted + headLen <= HeadSize /\ HeadSize <= Total
  BY <1>0, WithinHead
<1>2. /\ accepted + sent \in Nat /\ headLen - sent \in Nat /\ Out = accepted + sent
      /\ accepted + headLen = Out + (headLen - sent) /\ Out + (headLen - sent) <= HeadSize
      /\ Out + (headLen - sent) <= Total
  <2>1. accepted \in Nat /\ sent \in Nat /\ HeadSize \in Nat /\ Total \in Nat
    BY Sizes, Zenon
  <2> QED
    BY <1>1, <2>1 DEF Out
<1>3. PICK bytes \in Seq(Byte) : /\ bytes = HandedRange(accepted + sent, headLen - sent)
                                 /\ Len(bytes) = headLen - sent
                                 /\ \A i \in 1..(headLen - sent) : bytes[i] = Handed(accepted + sent + i)
  BY <1>2, HandedRangeIs
<1>4. ASSUME NEW i \in 1..Len(bytes) PROVE bytes[i] = Promised(Out + i)
  <2>1. ~(accepted + sent + i > HeadSize)
    <3>1. HeadSize \in Nat /\ Out \in Nat /\ i \in 1..(headLen - sent)
      BY <1>3, Sizes
    <3>2. ~(Out + i > HeadSize)
      BY <1>2, <3>1
    <3> QED
      BY <3>2, <1>2
  <2>2. bytes[i] = Handed(accepted + sent + i)
    BY <1>3
  <2> QED
    BY <2>1, <2>2, <1>2 DEF Promised
<1>5. owed' = bytes /\ Data'
  <2>1. owed' = owed \o bytes
    BY <1>3 DEF HeadLoopOver
  <2>2. Out' = Out + Len(bytes) /\ Out + Len(bytes) <= Total
    BY <1>2, <1>3
  <2> QED
    BY <1>1, <1>4, <2>1, <2>2, DataOwe
<1>6. sent = headLen => owed' = <<>>
  <2>1. ASSUME sent = headLen PROVE Len(bytes) = 0
    BY <2>1, <1>1, <1>3
  <2> QED
    BY <2>1, <1>5, EmptySeq
<1>7. TypeSock' /\ TypeTask' /\ (waker' => ~ready') /\ (woken => woken') /\ gone' = gone
  <2>1. TypeSock /\ TypeTask
    BY TypeParts, Zenon
  <2>2. waker => ~ready
    BY DEF Control, Wakers
  <2>3. CASE UNCHANGED <<sockVars, taskVars>>
    BY <2>1, <2>2, <2>3 DEF TypeSock, TypeTask
  <2>4. CASE Register
    BY <2>1, <2>4 DEF TypeSock, TypeTask, Register
  <2> QED
    BY <2>3, <2>4 DEF HeadLoopOver
<1> QED
  BY <1>5, <1>6, <1>7, Zenon

\* Without an end in sight the whole slice is reported, and the carry is again
\* the last three bytes.
LEMMA HeadContinuesStep ==
  ASSUME TypeOK, Data, Control, HeadContinues
  PROVE  TypeOK' /\ Data' /\ Control'
<1>0. pc = "head" /\ ~found /\ Return(headLen)
  BY DEF HeadContinues, HeadLoopOver
<1>1. /\ InHead /\ state = "Head" /\ owed = <<>> /\ ~flushed /\ headLen = slice /\ headLen \in Nat
      /\ accepted + slice < HeadSize /\ accepted + slice <= encoded /\ encoded <= Total
  BY <1>0, WithinHead DEF Control, CallFacts, Bounds
<1>2. /\ TypePc' /\ TypeCall' /\ accepted' \in Nat /\ Out' = accepted + headLen /\ pc' \in {"hyper", "slices"}
      /\ accepted' = accepted + slice /\ slice' = 0 /\ sent' = 0
  <2>1. headLen <= slice
    BY <1>0, WithinHead
  <2>2. accepted' = accepted + headLen /\ slice' = 0 /\ sent' = 0
    BY <1>0 DEF Return, LocalsDie
  <2>3. TypePc' /\ TypeCall' /\ accepted' \in Nat /\ Out' = accepted + headLen /\ pc' \in {"hyper", "slices"}
    BY <1>0, <1>1, <2>1, Returned
  <2> QED
    BY <1>1, <2>2, <2>3, Zenon
<1>3. /\ owed' \in Seq(Byte) /\ Data' /\ TypeSock' /\ TypeTask'
      /\ ((waker' => ~ready') /\ (woken => woken') /\ gone' = gone)
  <2>1. HeadLoopOver /\ size' = size /\ UNCHANGED <<wire, expected, cur, served>>
    BY DEF HeadContinues
  <2> QED
    BY <1>2, <2>1, HeadIsOwed
<1>4. HeadSize' = HeadSize /\ Total' = Total /\ HeadIsScannable'
  BY CurSame, Zenon DEF Control, HeadContinues
<1>5. carry' = LastThree(SubSeq(cur.head, 1, accepted + slice)) /\ carry' \in Seq(ByteClass) /\ Len(carry') <= 3
  <2>1. PICK b \in Seq(ByteClass) : /\ b = Buf /\ Len(b) = slice
                                    /\ \A i \in 1..slice : accepted + i <= HeadSize => b[i] = cur.head[accepted + i]
    BY BufIs
  <2>2. accepted \in Nat /\ slice \in Nat /\ HeadSize \in Nat /\ cur.head \in Seq(ByteClass) /\ HeadSize = Len(cur.head)
    BY Sizes DEF HeadSize
  <2>3. carry' = Trailing(carry, SubSeq(Buf, 1, headLen))
    BY DEF HeadContinues
  <2>4. SubSeq(b, 1, Len(b)) = b
    OBVIOUS
  <2>5. carry = LastThree(SubSeq(cur.head, 1, accepted))
    BY <1>1 DEF InHead
  <2>6. carry' = Trailing(LastThree(SubSeq(cur.head, 1, accepted)), b)
    BY <1>1, <2>1, <2>3, <2>4, <2>5, Zenon
  <2>7. \A i \in 1..Len(b) : b[i] = cur.head[accepted + i]
    <3>1. \A i \in 1..slice : accepted + i <= HeadSize
      BY <1>1, <2>2
    <3> QED
      BY <2>1, <3>1
  <2>8. accepted + Len(b) <= Len(cur.head)
    BY <1>1, <2>1, <2>2
  <2>9. carry' = LastThree(SubSeq(cur.head, 1, accepted + Len(b)))
    BY <2>2, <2>6, <2>7, <2>8, CarryAdvances
  <2>10. PICK h \in Seq(ByteClass) : h = SubSeq(cur.head, 1, accepted + Len(b))
    <3>1. accepted + Len(b) \in Nat
      BY <2>1, <2>2
    <3> QED
      BY <2>2, <2>8, <3>1, FirstPart
  <2>11. PICK c \in Seq(ByteClass) : c = LastThree(h) /\ Len(c) = SmallerOf(Len(h), 3)
    BY LastThreeIsTail
  <2>12. Len(c) <= 3
    <3>1. Len(h) \in Int /\ 3 \in Int
      BY LenProperties
    <3> QED
      BY <2>11, <3>1, SmallerOfTwo
  <2> QED
    BY <2>1, <2>9, <2>10, <2>11, <2>12
<1>6. TypeOK'
  <2>1. TypeStream /\ TypeHyper
    BY TypeParts, Zenon
  <2>2. TypeStream'
    BY <1>3, <1>5, <2>1 DEF TypeStream, HeadContinues
  <2>3. TypeHyper'
    BY <1>2, <2>1 DEF TypeHyper, HeadContinues
  <2>4. TypeSlot' /\ TypeWire'
    BY TypeSame, Zenon DEF HeadContinues
  <2> QED
    BY <1>2, <1>3, <2>2, <2>3, <2>4, TypePartsNext, Zenon
<1>7. Bounds'
  <2>1. accepted + slice + 0 <= encoded /\ 0 <= 0
    BY <1>1, Sizes
  <2>2. encoded' = encoded
    BY DEF HeadContinues
  <2> QED
    BY <1>1, <1>2, <1>4, <2>1, <2>2, Zenon DEF Bounds
<1>8. Mode'
  <2>1. UNCHANGED <<cur, armed, plan, slotPlan, state>>
    BY DEF HeadContinues
  <2> QED
    BY <1>1, <1>2, <1>4, <1>5, <2>1 DEF Mode, InHead
<1>9. CallFacts'
  <2>1. flushed' = FALSE \/ ~flushed'
    BY <1>1 DEF HeadContinues
  <2> QED
    BY <1>2, <2>1 DEF CallFacts
<1>10. RangeIsInFile' /\ FailsOnlyForCause' /\ Wakers'
  BY <1>2, <1>3 DEF Control, RangeIsInFile, FailsOnlyForCause, Wakers, HeadContinues
<1> QED
  BY <1>3, <1>4, <1>6, <1>7, <1>8, <1>9, <1>10 DEF Control

\* At the end of the head the plan of the slot becomes the plan of the stream; it
\* is there, and covers what follows in the slice.
LEMMA HeadEndsStep ==
  ASSUME TypeOK, Data, Control, HeadEnds
  PROVE  TypeOK' /\ Data' /\ Control'
<1>0. pc = "head" /\ found
  BY DEF HeadEnds, HeadLoopOver
<1>1. /\ InHead /\ state = "Head" /\ owed = <<>> /\ ~flushed /\ slice > 0 /\ sent <= headLen /\ headLen \in Nat
      /\ accepted + headLen = HeadSize /\ headLen <= slice
      /\ accepted + slice <= encoded /\ encoded <= Total /\ sent <= slice
  BY <1>0, WithinHead DEF Control, CallFacts, Bounds
<1>2. /\ cur.upgraded /\ plan' = slotPlan /\ slotPlan = [offset |-> cur.offset, remaining |-> cur.length]
      /\ slotPlan \in Plan /\ slotPlan # NoPlan /\ cur.length > 0
      /\ cur.offset \in Nat /\ cur.length \in Nat
  <2>1. slotPlan = [offset |-> cur.offset, remaining |-> cur.length] /\ cur.upgraded
    BY <1>1 DEF InHead
  <2>2. cur.offset \in Nat /\ cur.length \in Nat
    BY Sizes, Zenon
  <2>3. slotPlan \in Plan
    BY <2>1, <2>2 DEF Plan
  <2>4. slotPlan # NoPlan
    BY <2>3, NoPlanAssumption
  <2>5. plan' = slotPlan
    BY <2>4 DEF HeadEnds
  <2>6. cur.length > 0
    BY <2>1 DEF Control, RangeIsInFile
  <2> QED
    BY <2>1, <2>2, <2>3, <2>4, <2>5, <2>6
<1>3. TransferError(slotPlan, slice - headLen) = "none"
  <2>1. ~(slice - headLen > cur.length)
    <3>1. accepted \in Nat /\ slice \in Nat /\ HeadSize \in Nat /\ encoded \in Nat /\ Total = HeadSize + cur.length
      BY Sizes DEF Total
    <3> QED
      BY <1>1, <1>2, <3>1
  <2>2. slotPlan.remaining = cur.length
    BY <1>2
  <2> QED
    BY <1>2, <2>1, <2>2 DEF TransferError
<1>4. state' = "Sending" /\ armed' = FALSE /\ slotPlan' = NoPlan /\ failure' = failure
  BY <1>2, <1>3 DEF HeadEnds
\* The step after: the call returns, or it goes on with the placeholders.
<1>5. /\ TypePc' /\ TypeCall' /\ accepted' \in Nat /\ Out' = accepted + headLen
      /\ \/ pc' \in {"hyper", "slices"} /\ accepted' = accepted + headLen /\ slice' = 0 /\ sent' = 0
         \/ pc' = "body" /\ sent = headLen /\ headLen < slice /\ UNCHANGED <<accepted, callVars>>
  <2>1. CASE sent < headLen \/ headLen = slice
    <3>1. Return(headLen)
      BY <1>2, <2>1 DEF HeadEnds
    <3>2. accepted' = accepted + headLen /\ slice' = 0 /\ sent' = 0
      BY <3>1 DEF Return, LocalsDie
    <3>3. /\ TypePc' /\ TypeCall' /\ accepted' \in Nat /\ Out' = accepted + headLen
          /\ pc' \in {"hyper", "slices"}
      BY <1>1, <3>1, Returned
    <3> QED
      BY <3>2, <3>3, Zenon
  <2>2. CASE ~(sent < headLen \/ headLen = slice)
    <3>1. pc' = "body" /\ UNCHANGED <<accepted, callVars>>
      BY <1>2, <1>3, <2>2 DEF HeadEnds
    <3>2. sent = headLen /\ headLen < slice /\ accepted \in Nat
      BY <1>1, <2>2, Sizes
    <3>3. TypePc'
      BY <3>1 DEF TypePc
    <3>4. TypeCall'
      <4>1. TypeCall
        BY TypeParts, Zenon
      <4> QED
        BY <4>1, <3>1 DEF TypeCall
    <3> QED
      BY <3>1, <3>2, <3>3, <3>4 DEF Out
  <2> QED
    BY <2>1, <2>2
<1>6. /\ owed' \in Seq(Byte) /\ Data' /\ TypeSock' /\ TypeTask' /\ (sent = headLen => owed' = <<>>)
      /\ ((waker' => ~ready') /\ (woken => woken') /\ gone' = gone)
  <2>1. HeadLoopOver /\ size' = size /\ UNCHANGED <<wire, expected, cur, served>>
    BY DEF HeadEnds
  <2> QED
    BY <1>5, <2>1, HeadIsOwed
<1>7. HeadSize' = HeadSize /\ Total' = Total /\ HeadIsScannable'
  BY CurSame, Zenon DEF Control, HeadEnds
<1>8. TypeOK'
  <2>1. TypeSlot /\ TypeStream /\ TypeHyper /\ TypeWire
    BY TypeParts, Zenon
  <2>2. TypeStream'
    BY <1>2, <1>4, <1>6, <2>1 DEF TypeStream, HeadEnds
  <2>3. TypeHyper'
    BY <1>5, <2>1 DEF TypeHyper, HeadEnds
  <2>4. TypeSlot'
    BY <1>4 DEF TypeSlot
  <2>5. TypeWire'
    BY <1>4, <2>1 DEF TypeWire, HeadEnds
  <2> QED
    BY <1>5, <1>6, <2>2, <2>3, <2>4, <2>5, TypePartsNext, Zenon
<1>9. Bounds'
  <2>1. encoded' = encoded
    BY DEF HeadEnds
  <2>2. CASE pc' \in {"hyper", "slices"} /\ accepted' = accepted + headLen /\ slice' = 0 /\ sent' = 0
    <3>1. accepted + headLen + 0 <= encoded /\ 0 <= 0
      BY <1>1, Sizes
    <3> QED
      BY <1>1, <1>7, <2>1, <2>2, <3>1, Zenon DEF Bounds
  <2>3. CASE pc' = "body" /\ UNCHANGED <<accepted, callVars>>
    BY <1>1, <1>7, <2>1, <2>3 DEF Bounds
  <2> QED
    BY <1>5, <2>2, <2>3
<1>10. Mode'
  <2>1. /\ Out' = HeadSize /\ cur' = cur
        /\ plan' = [offset |-> cur.offset + (Out' - HeadSize), remaining |-> Total - Out'] /\ Out' < Total
        /\ HeadSize <= Out'
    <3>1. Out' = HeadSize /\ cur' = cur /\ HeadSize \in Nat
      BY <1>1, <1>5, Sizes DEF HeadEnds
    <3>2. cur.offset + (Out' - HeadSize) = cur.offset /\ Total - Out' = cur.length /\ Out' < Total
      BY <1>2, <3>1 DEF Total
    <3>3. HeadSize <= Out'
      BY <3>1
    <3> QED
      BY <1>2, <3>1, <3>2, <3>3, Zenon
  <2>2. InBody'
    BY <1>2, <1>4, <1>7, <2>1 DEF InBody
  <2> QED
    BY <2>2 DEF Mode
<1>11. CallFacts'
  <2>1. ~flushed' /\ state' = "Sending"
    BY <1>1, <1>4 DEF HeadEnds
  <2>2. CASE pc' \in {"hyper", "slices"}
    BY <2>1, <2>2 DEF CallFacts
  <2>3. CASE pc' = "body" /\ sent = headLen /\ UNCHANGED <<accepted, callVars>>
    BY <1>1, <1>6, <2>1, <2>3 DEF CallFacts
  <2> QED
    BY <1>5, <2>2, <2>3
<1>12. RangeIsInFile' /\ FailsOnlyForCause' /\ Wakers'
  <2>1. size' = size /\ cur' = cur
    BY DEF HeadEnds
  <2> QED
    BY <1>4, <1>5, <1>6, <2>1 DEF Control, RangeIsInFile, FailsOnlyForCause, Wakers
<1> QED
  BY <1>6, <1>7, <1>8, <1>9, <1>10, <1>11, <1>12 DEF Control

\* While a transfer runs, the plan stands at the byte that goes out next.
LEMMA Transferring ==
  ASSUME TypeOK, Control, pc \in {"body", "place", "wait"}
  PROVE  /\ InBody /\ cur.upgraded /\ owed = <<>> /\ slice > 0 /\ ~flushed /\ state = "Sending"
         /\ plan = [offset |-> cur.offset + (Out - HeadSize), remaining |-> Total - Out]
         /\ plan.offset = cur.offset + (Out - HeadSize) /\ plan.remaining = Total - Out
         /\ plan \in Plan /\ HeadSize <= Out /\ Out <= Total
<1>1. owed = <<>> /\ slice > 0 /\ state = "Sending"
  BY DEF Control, CallFacts
<1>2. InBody /\ ~flushed /\ Out <= Total
  BY <1>1, WhichMode, OutBound DEF Control
<1>3. /\ cur.upgraded /\ HeadSize <= Out
      /\ plan = [offset |-> cur.offset + (Out - HeadSize), remaining |-> Total - Out]
  BY <1>2 DEF InBody
<1>4. cur.offset + (Out - HeadSize) \in Nat /\ Total - Out \in Nat
  <2>1. cur.offset \in Nat /\ Out \in Nat /\ HeadSize \in Nat /\ Total \in Nat
    BY Sizes, Zenon
  <2>2. HeadSize <= Out /\ Out <= Total
    BY <1>2, <1>3, Zenon
  <2> QED
    BY <2>1, <2>2
<1> QED
  BY <1>1, <1>2, <1>3, <1>4 DEF Plan

\* sendfile writes the promised bytes: the plan stands at the next one.
LEMMA TryWriteStep ==
  ASSUME TypeOK, Data, Control, TryWrite
  PROVE  TypeOK' /\ Data' /\ Control'
<1>0. pc \in {"body", "place"} /\ sent < slice /\ CanSend
  BY DEF TryWrite
<1>1. /\ InBody /\ cur.upgraded /\ owed = <<>> /\ slice > 0 /\ ~flushed /\ state = "Sending"
      /\ plan.offset = cur.offset + (Out - HeadSize) /\ plan.remaining = Total - Out
      /\ plan \in Plan /\ HeadSize <= Out /\ Out <= Total
  BY <1>0, Transferring
<1>2. PICK n \in 1..SmallerOf(SmallerOf(room, slice - sent), size - plan.offset) :
        /\ Accept(FileRange(plan.offset, n))
        /\ plan' = [offset |-> plan.offset + n, remaining |-> plan.remaining - n]
        /\ sent' = sent + n
  BY DEF TryWrite
<1>3. plan.offset \in Nat /\ plan.remaining \in Nat
  BY <1>1 DEF Plan
<1>4. n \in Nat /\ n >= 1 /\ n <= room /\ sent + n <= slice /\ sent + n \in Nat
  <2>1. room \in Int /\ slice \in Nat /\ sent \in Nat /\ size \in Int
    <3>1. size \in Nat
      BY Zenon DEF TypeOK
    <3> QED
      BY <3>1, Sizes, RoomIsNat
  <2>2. PICK m \in Int : m = SmallerOf(room, slice - sent) /\ m <= room /\ m <= slice - sent
    BY <2>1, SmallerOfTwo
  <2>3. size - plan.offset \in Int
    BY <2>1, <1>3
  <2>4. PICK k \in Int : k = SmallerOf(m, size - plan.offset) /\ k <= m
    BY <2>2, <2>3, SmallerOfTwo
  <2>5. n \in 1..k
    BY <2>2, <2>4
  <2> QED
    BY <2>1, <2>2, <2>4, <2>5
<1>5. HeadSize' = HeadSize /\ Total' = Total /\ HeadIsScannable'
  BY CurSame, Zenon DEF Control, TryWrite
<1>6. Out' = Out + n /\ Out + n <= Total /\ Out \in Nat /\ Total \in Nat /\ HeadSize \in Nat /\ cur.offset \in Nat
  <2>1. accepted \in Nat /\ sent \in Nat /\ slice \in Nat /\ encoded \in Nat /\ Total \in Nat
    BY Sizes, Zenon
  <2>2. accepted + slice <= encoded /\ encoded <= Total /\ accepted' = accepted /\ sent' = sent + n
    BY <1>2 DEF Control, Bounds, TryWrite
  <2>3. accepted + (sent + n) = (accepted + sent) + n /\ (accepted + sent) + n <= Total
    BY <1>4, <2>1, <2>2
  <2> QED
    BY <2>2, <2>3, Sizes DEF Out
<1>7. PICK bytes \in Seq(Byte) : /\ bytes = FileRange(plan.offset, n) /\ Len(bytes) = n
                                 /\ \A i \in 1..n : bytes[i] = FileByte(plan.offset + i - 1)
  BY <1>3, <1>4, FileRangeIs
<1>8. wire' \in Seq(Byte) /\ Data'
  <2>1. ASSUME NEW i \in 1..Len(bytes) PROVE bytes[i] = Promised(Out + i)
    <3>1. i \in 1..n /\ bytes[i] = FileByte(plan.offset + i - 1)
      BY <1>7
    <3>2. Out + i > HeadSize
      BY <3>1, <1>1, <1>6
    <3>3. Promised(Out + i) = FileByte(cur.offset + (Out + i) - HeadSize - 1)
      BY <3>2, <1>1 DEF Promised
    <3>4. plan.offset + i - 1 = cur.offset + (Out + i) - HeadSize - 1
      BY <3>1, <1>1, <1>6
    <3> QED
      BY <3>1, <3>3, <3>4
  <2>2. /\ UNCHANGED <<expected, owed, cur, served>> /\ wire' = wire \o bytes
        /\ Out' = Out + Len(bytes) /\ Out + Len(bytes) <= Total
    BY <1>2, <1>6, <1>7 DEF Accept, TryWrite
  <2> QED
    BY <1>1, <2>1, <2>2, DataSend
<1>9. /\ plan' = [offset |-> cur.offset + (Out' - HeadSize), remaining |-> Total - Out']
      /\ plan' \in Plan
  <2>1. /\ plan.offset + n = cur.offset + (Out' - HeadSize) /\ plan.remaining - n = Total - Out'
        /\ plan.offset + n \in Nat /\ plan.remaining - n \in Nat
    BY <1>1, <1>3, <1>4, <1>6
  <2> QED
    BY <2>1, <1>2 DEF Plan
<1>10. TypeOK'
  <2>1. TypeStream /\ TypeCall /\ TypeWire
    BY TypeParts, Zenon
  <2>2. TypeStream'
    BY <2>1, <1>9 DEF TypeStream, TryWrite
  <2>3. TypeCall'
    BY <2>1, <1>2, <1>4 DEF TypeCall, TryWrite
  <2>4. TypeWire'
    BY <2>1, <1>2, <1>8 DEF TypeWire, Accept
  <2>5. TypeSock'
    <3>1. room' = room - n /\ UNCHANGED <<ready, gone>>
      BY <1>2, <1>7 DEF Accept
    <3> QED
      BY <1>0, <1>4, <3>1, Sends
  <2>6. TypeSlot' /\ TypeHyper' /\ TypePc' /\ TypeTask'
    BY TypeSame, Zenon DEF TryWrite
  <2> QED
    BY <2>2, <2>3, <2>4, <2>5, <2>6, TypePartsNext, Zenon
<1>11. Bounds'
  BY <1>0, <1>2, <1>4, <1>5 DEF Control, Bounds, TryWrite
<1>12. Mode'
  <2>1. UNCHANGED <<cur, armed, slotPlan, state, pc>>
    BY DEF TryWrite
  <2>2. HeadSize <= Out'
    BY <1>1, <1>4, <1>6
  <2> QED
    BY <1>0, <1>1, <1>5, <1>9, <2>1, <2>2 DEF Mode, InBody
<1>13. CallFacts'
  BY <1>0, <1>1 DEF CallFacts, TryWrite
<1>14. RangeIsInFile' /\ FailsOnlyForCause' /\ Wakers'
  BY <1>0, <1>2 DEF Control, RangeIsInFile, FailsOnlyForCause, Wakers, Accept, TryWrite
<1> QED
  BY <1>5, <1>8, <1>10, <1>11, <1>12, <1>13, <1>14 DEF Control

\* sendfile fails only at the end of a file that became shorter, or on a reset.
LEMMA TryFailsStep ==
  ASSUME TypeOK, Data, Control, TryFails
  PROVE  TypeOK' /\ Data' /\ Control'
<1>0. pc \in {"body", "place"} /\ sent < slice /\ Out < Total
  BY OutBound DEF TryFails
<1>1. TypePc' /\ Data' /\ Bounds' /\ HeadIsScannable' /\ RangeIsInFile' /\ Mode' /\ CallFacts'
  <2>1. pc' = "failed"
    BY DEF TryFails, Fail
  <2> QED
    BY <1>0, <2>1, Failing DEF TryFails
<1>2. TypeOK'
  <2>1. TypeWire
    BY TypeParts, Zenon
  <2>2. TypeWire'
    BY <2>1 DEF TypeWire, Fail, TryFails
  <2>3. TypeSlot' /\ TypeStream' /\ TypeHyper' /\ TypeCall' /\ TypeSock' /\ TypeTask'
    BY TypeSame, Zenon DEF TryFails
  <2> QED
    BY <1>1, <2>2, <2>3, TypePartsNext, Zenon
<1>3. plan.offset >= size => size < FileSize
  <2>1. plan.offset = cur.offset + (Out - HeadSize) /\ HeadSize <= Out /\ cur.upgraded
    BY <1>0, Transferring
  <2>2. cur.offset + cur.length <= FileSize
    BY <2>1 DEF Control, RangeIsInFile
  <2>3. /\ size \in Nat /\ FileSize \in Nat /\ cur.offset \in Nat /\ cur.length \in Nat /\ Out \in Nat
        /\ HeadSize \in Nat /\ Total = HeadSize + cur.length
    BY Sizes, SizesAssumption DEF Total, TypeOK
  <2> QED
    BY <1>0, <2>1, <2>2, <2>3
<1>4. FailsOnlyForCause'
  <2>1. CASE plan.offset >= size /\ Fail("file ended")
    BY <1>3, <2>1 DEF FailsOnlyForCause, Fail, TryFails
  <2>2. CASE SockError /\ Fail("reset")
    BY <2>2 DEF FailsOnlyForCause, SockError, Fail, TryFails
  <2> QED
    BY <2>1, <2>2 DEF TryFails
<1>5. Wakers'
  BY DEF Control, Wakers, Fail, TryFails
<1> QED
  BY <1>1, <1>2, <1>4, <1>5 DEF Control

\* The transfer loop ends: a finished plan is retired, an unfinished one stays.
LEMMA TransferEnds ==
  ASSUME TypeOK, Data, Control, pc \in {"body", "place"}, TransferReturns,
         UNCHANGED <<slotVars, carry, owed, cur, served, encoded, flushed, size, wire, expected>>
  PROVE  /\ TypePc' /\ TypeCall' /\ TypeStream' /\ TypeHyper' /\ Data' /\ Bounds' /\ HeadIsScannable'
         /\ RangeIsInFile' /\ Mode' /\ CallFacts' /\ pc' \in {"hyper", "slices"}
<1>1. /\ InBody /\ cur.upgraded /\ owed = <<>> /\ ~flushed /\ state = "Sending"
      /\ plan = [offset |-> cur.offset + (Out - HeadSize), remaining |-> Total - Out]
      /\ plan.remaining = Total - Out /\ plan \in Plan /\ HeadSize <= Out /\ Out <= Total
  BY Transferring
<1>2. sent \in Nat /\ sent <= slice /\ Return(sent)
  BY Sizes DEF Control, Bounds, TransferReturns
<1>3. /\ TypePc' /\ TypeCall' /\ accepted' \in Nat /\ Out' = accepted + sent
      /\ accepted + sent <= encoded /\ pc' \in {"hyper", "slices"}
  BY <1>2, Returned
<1>4. accepted' = Out /\ Out' = Out /\ slice' = 0 /\ sent' = 0
  BY <1>2, <1>3 DEF Return, LocalsDie, Out
<1>5. HeadSize' = HeadSize /\ Total' = Total /\ HeadIsScannable'
  BY CurSame, Zenon DEF Control
<1>6. Data'
  BY <1>4, DataSame, Zenon
<1>7. TypeStream' /\ TypeHyper'
  <2>1. TypeStream /\ TypeHyper
    BY TypeParts, Zenon
  <2>2. plan' \in {plan, NoPlan} /\ state' \in {"Idle", state}
    BY DEF TransferReturns
  <2> QED
    BY <2>1, <2>2, <1>3 DEF TypeStream, TypeHyper
<1>8. Bounds'
  <2>1. encoded <= Total /\ Out <= encoded /\ Out + 0 = Out
    BY OutBound, Sizes DEF Control, Bounds
  <2> QED
    BY <1>4, <1>5, <2>1 DEF Bounds
<1>9. Mode'
  <2>1. ~armed' /\ slotPlan' = NoPlan
    BY <1>1 DEF InBody
  <2>2. CASE plan.remaining = 0
    <3>1. plan' = NoPlan /\ state' = "Idle"
      BY <2>2 DEF TransferReturns
    <3>2. Out = Total
      BY <1>1, <2>2, Sizes
    <3> QED
      BY <1>4, <1>5, <2>1, <3>1, <3>2 DEF Mode, Plain
  <2>3. CASE plan.remaining # 0
    <3>1. plan' = plan /\ state' = "Sending"
      BY <1>1, <2>3 DEF TransferReturns
    <3>2. Out < Total
      BY <1>1, <2>3, Sizes
    <3> QED
      BY <1>1, <1>4, <1>5, <2>1, <3>1, <3>2 DEF Mode, InBody
  <2> QED
    BY <2>2, <2>3
<1>10. CallFacts'
  BY <1>1, <1>3 DEF CallFacts
<1>11. RangeIsInFile'
  BY DEF Control, RangeIsInFile
<1> QED
  BY <1>3, <1>5, <1>6, <1>7, <1>8, <1>9, <1>10, <1>11, Zenon

\* The placeholders of the slice are all replaced.
LEMMA TransferDoneStep ==
  ASSUME TypeOK, Data, Control, TransferDone
  PROVE  TypeOK' /\ Data' /\ Control'
<1>1. /\ TypePc' /\ TypeCall' /\ TypeStream' /\ TypeHyper' /\ Data' /\ Bounds' /\ HeadIsScannable'
      /\ RangeIsInFile' /\ Mode' /\ CallFacts' /\ pc' \in {"hyper", "slices"}
  BY TransferEnds DEF TransferDone
<1>2. TypeSlot' /\ TypeSock' /\ TypeTask' /\ TypeWire'
  BY TypeSame, Zenon DEF TransferDone
<1>3. TypeOK'
  BY <1>1, <1>2, TypePartsNext, Zenon
<1>4. FailsOnlyForCause' /\ Wakers'
  BY <1>1 DEF Control, FailsOnlyForCause, Wakers, TransferDone
<1> QED
  BY <1>1, <1>3, <1>4 DEF Control

\* The socket is full: the bytes sent so far are reported, or the stream waits
\* for poll_writable.
LEMMA TryBlocksStep ==
  ASSUME TypeOK, Data, Control, TryBlocks
  PROVE  TypeOK' /\ Data' /\ Control'
<1>0. pc \in {"body", "place"} /\ sent < slice /\ Out < Total
  BY OutBound DEF TryBlocks
<1>1. TypeSock' /\ TypeTask' /\ TypeSlot' /\ TypeWire'
  <2>1. TypeSock
    BY TypeParts, Zenon
  <2>2. TypeSock'
    BY <2>1 DEF TypeSock, TryBlocks
  <2> QED
    BY <2>2, TypeSame, Zenon DEF TryBlocks
<1>2. CASE pc = "body" \/ sent > 0
  <2>1. /\ TypePc' /\ TypeCall' /\ TypeStream' /\ TypeHyper' /\ Data' /\ Bounds' /\ HeadIsScannable'
        /\ RangeIsInFile' /\ Mode' /\ CallFacts' /\ pc' \in {"hyper", "slices"}
    BY <1>0, <1>2, TransferEnds DEF TryBlocks
  <2>2. TypeOK'
    BY <1>1, <2>1, TypePartsNext, Zenon
  <2>3. FailsOnlyForCause' /\ Wakers'
    BY <2>1 DEF Control, FailsOnlyForCause, Wakers, TryBlocks
  <2> QED
    BY <2>1, <2>2, <2>3 DEF Control
<1>3. CASE ~(pc = "body" \/ sent > 0)
  <2>1. pc' = "wait" /\ UNCHANGED <<plan, state, accepted, callVars>>
    BY <1>3 DEF TryBlocks
  <2>2. sent = 0
    BY <1>3, Sizes
  <2>3. HeadSize' = HeadSize /\ Total' = Total /\ Out' = Out /\ HeadIsScannable'
    BY <2>1, CurSame, Zenon DEF Control, Out, TryBlocks
  <2>4. Data'
    BY <2>3, DataSame, Zenon DEF TryBlocks
  <2>5. Bounds'
    BY <2>1, <2>2, <2>3 DEF Control, Bounds, TryBlocks
  <2>6. Mode'
    BY <1>0, <2>1, <2>3, ModeSame DEF Control, TryBlocks
  <2>7. CallFacts'
    <3>1. owed = <<>> /\ slice > 0 /\ ~flushed /\ state = "Sending"
      BY <1>0, Transferring
    <3> QED
      BY <2>1, <3>1 DEF CallFacts, TryBlocks
  <2>8. RangeIsInFile' /\ FailsOnlyForCause' /\ Wakers'
    BY <2>1 DEF Control, RangeIsInFile, FailsOnlyForCause, Wakers, TryBlocks
  <2>9. TypeOK'
    <3>1. TypePc'
      BY <2>1 DEF TypePc
    <3>2. TypeStream /\ TypeHyper /\ TypeCall
      BY TypeParts, Zenon
    <3>3. TypeStream' /\ TypeHyper' /\ TypeCall'
      BY <2>1, <3>2 DEF TypeStream, TypeHyper, TypeCall, TryBlocks
    <3> QED
      BY <1>1, <3>1, <3>3, TypePartsNext, Zenon
  <2> QED
    BY <2>3, <2>4, <2>5, <2>6, <2>7, <2>8, <2>9 DEF Control
<1> QED
  BY <1>2, <1>3

-----------------------------------------------------------------------------
(* The invariant.                                                          *)

\* A new connection satisfies the invariant.
LEMMA InitIInv ==
  ASSUME Init
  PROVE  TypeOK /\ Data /\ Control
<1>1. /\ HeadSize = 0 /\ Total = 0 /\ Out = 0 /\ Len(wire) = 0 /\ Len(owed) = 0 /\ Len(expected) = 0
      /\ <<>> \in Seq(Byte) /\ <<>> \in Seq(ByteClass)
  <2>1. Len(<<>>) = 0 /\ <<>> \in Seq(Byte) /\ <<>> \in Seq(ByteClass)
    BY EmptySeq
  <2> QED
    BY <2>1 DEF Init, NoResponse, HeadSize, Total, Out
<1>2. TypeSlot /\ TypeStream /\ TypeHyper
  <2>1. TypeSlot
    BY DEF TypeSlot, Init
  <2>2. TypeStream
    BY <1>1 DEF TypeStream, Init
  <2>3. TypeHyper
    BY <1>1 DEF TypeHyper, Init, NoResponse
  <2> QED
    BY <2>1, <2>2, <2>3
<1>3. TypePc /\ TypeCall /\ TypeSock /\ TypeTask /\ TypeWire
  <2>1. TypePc /\ TypeCall
    BY DEF TypePc, TypeCall, Init
  <2>2. TypeSock /\ TypeTask
    <3>1. FileSize \in Nat /\ SockCap \in 0..SockCap
      BY SizesAssumption
    <3> QED
      BY <3>1, Zenon DEF TypeSock, TypeTask, Init
  <2>3. TypeWire
    BY <1>1 DEF TypeWire, Init
  <2> QED
    BY <2>1, <2>2, <2>3
<1>4. TypeOK
  BY <1>2, <1>3, TypeParts, Zenon
<1>5. Data
  BY <1>1 DEF Data, WireIsPrefix, Accounting, OwedIsNext, CurrentIsPromised
<1>6. Bounds /\ HeadIsScannable /\ RangeIsInFile
  BY <1>1, SizesAssumption DEF Bounds, HeadIsScannable, RangeIsInFile, Init, NoResponse
<1>7. Mode
  BY DEF Mode, Plain, Init, NoResponse
<1>8. CallFacts /\ FailsOnlyForCause /\ Wakers
  BY DEF CallFacts, FailsOnlyForCause, Wakers, Init
<1> QED
  BY <1>4, <1>5, <1>6, <1>7, <1>8 DEF Control

\* Nothing changes.
LEMMA StutterStep ==
  ASSUME TypeOK, Data, Control, UNCHANGED vars
  PROVE  TypeOK' /\ Data' /\ Control'
<1>1. Data' /\ Bounds' /\ HeadIsScannable' /\ Mode' /\ CallFacts'
  BY SurroundingStep, Zenon DEF vars
<1>2. RangeIsInFile' /\ FailsOnlyForCause' /\ Wakers'
  BY DEF Control, RangeIsInFile, FailsOnlyForCause, Wakers, vars
<1>3. TypeOK'
  BY TypeSame, TypePartsNext, Zenon DEF vars
<1> QED
  BY <1>1, <1>2, <1>3 DEF Control

\* Every step keeps the invariant.
LEMMA NextIInv ==
  ASSUME TypeOK, Data, Control, [Next]_vars
  PROVE  TypeOK' /\ Data' /\ Control'
<1>1. ASSUME NEW a \in Answers, Serve(a) PROVE TypeOK' /\ Data' /\ Control'
  BY <1>1, ServeStep, Zenon
<1>2. CASE BodyFrame \/ BeginSlice \/ EndSlices \/ CallFlush \/ CallShutdown \/ Resume \/ SpuriousPoll
  BY <1>2, BodyFrameStep, BeginSliceStep, EndSlicesStep, CallFlushStep, CallShutdownStep,
     ResumeStep, SpuriousPollStep, Zenon
<1>3. CASE StreamStep
  BY <1>3, DrainOwedStep, FlushDoneStep, ShutdownDoneStep, PollIdleStep, PollHeadStep,
     PollSendingStep, PassThroughStep, HeadWriteStep, HeadContinuesStep, HeadEndsStep,
     TryWriteStep, TryFailsStep, TryBlocksStep, TransferDoneStep, PollWritableStep, Zenon
  DEF StreamStep
<1>4. CASE Driver \/ PeerRead \/ PeerReset \/ Truncate
  BY <1>4, DriverStep, PeerReadStep, PeerResetStep, TruncateStep, Zenon
<1>5. CASE UNCHANGED vars
  BY <1>5, StutterStep, Zenon
<1> QED
  BY <1>1, <1>2, <1>3, <1>4, <1>5, Zenon DEF Next, TaskStep

\* The inductive invariant of a connection holds for every set of answers, file
\* size, frame length and socket capacity.
THEOREM ConnectionInvariant == Spec => []IInv
<1>1. Init => IInv
  BY InitIInv, InvParts, Zenon
<1>2. IInv /\ [Next]_vars => IInv'
  <2> SUFFICES ASSUME IInv, [Next]_vars PROVE IInv'
    OBVIOUS
  <2>1. TypeOK' /\ Data' /\ Control'
    BY InvParts, NextIInv, Zenon
  <2> QED
    BY <2>1, Zenon DEF IInv, Data, Control
<1> QED
  BY <1>1, <1>2, PTL DEF Spec

\* Every variable keeps its type; the carry never outgrows State::Head's array.
THEOREM ConnectionTypes == Spec => []TypeOK
<1>1. IInv => TypeOK
  BY Zenon DEF IInv
<1> QED
  BY <1>1, ConnectionInvariant, PTL

\* The peer's bytes are always a prefix of the promised ones: replacing the
\* placeholders by file content preserves byte counts and ordering exactly.
THEOREM BytesAreThePromised == Spec => []WireIsPrefix
<1>1. IInv => WireIsPrefix
  BY Zenon DEF IInv
<1> QED
  BY <1>1, ConnectionInvariant, PTL

\* A finished poll_flush has put out every byte reported as written, a finished
\* poll_shutdown every byte promised.
LEMMA InvFlushed ==
  ASSUME IInv
  PROVE  FlushedIsSent
<1>1. TypeOK /\ Data /\ Control
  BY InvParts, Zenon
<1>2. /\ Len(wire) \in Nat /\ Len(owed) \in Nat /\ Len(expected) \in Nat /\ Total \in Nat
      /\ accepted \in Nat /\ sent \in Nat /\ slice \in Nat
  BY <1>1, Sizes, Zenon
<1>3. Len(wire) + Len(owed) + Total - Out = Len(expected)
  BY <1>1, Zenon DEF Data, Accounting
<1>4. ASSUME flushed
      PROVE  Len(wire) + (Total - accepted) = Len(expected)
  <2>1. owed = <<>> /\ ~(slice > 0) /\ sent <= slice
    BY <1>1, <1>4, OutBound DEF Control, CallFacts, Bounds
  <2>2. Out = accepted /\ Len(owed) = 0
    BY <2>1, <1>2 DEF Out
  <2> QED
    BY <1>2, <1>3, <2>2
<1>5. ASSUME pc = "closed"
      PROVE  wire = expected
  <2>1. owed = <<>> /\ accepted = Total /\ sent = 0
    BY <1>1, <1>5 DEF Control, CallFacts, Bounds
  <2>2. Out = Total /\ Len(owed) = 0
    BY <2>1, <1>2 DEF Out
  <2>3. Len(wire) = Len(expected)
    BY <1>2, <1>3, <2>2
  <2>4. wire \in Seq(Byte) /\ expected \in Seq(Byte) /\ \A i \in 1..Len(wire) : wire[i] = expected[i]
    BY <1>1 DEF TypeOK, Data, WireIsPrefix
  <2> QED
    BY <2>3, <2>4, SeqEqual
<1> QED
  BY <1>4, <1>5 DEF FlushedIsSent

\* Flushing means sent, for every answer and every way the socket fills up.
THEOREM FlushMeansSent == Spec => []FlushedIsSent
<1>1. IInv => FlushedIsSent
  BY InvFlushed
<1> QED
  BY <1>1, ConnectionInvariant, PTL

\* Keep-alive: the next request finds no trace of the previous response.
THEOREM NothingIsLeftOver == Spec => []CleanBetweenResponses
<1>1. IInv => CleanBetweenResponses
  <2> SUFFICES ASSUME IInv, pc = "hyper", ReadyForRequest
               PROVE  ~armed /\ slotPlan = NoPlan /\ plan = NoPlan /\ state = "Idle" /\ owed = <<>>
    BY Zenon DEF CleanBetweenResponses
  <2>1. TypeOK /\ Control
    BY InvParts, Zenon
  <2>2. Plain /\ owed = <<>>
    BY <2>1, AtRest, Zenon
  <2> QED
    BY <2>2, Zenon DEF Plain
<1> QED
  BY <1>1, ConnectionInvariant, PTL

\* The stream's own errors never occur: a connection fails only because the peer
\* reset it or the file became shorter.
THEOREM OnlyOutsideFailures == Spec => []FailsOnlyForCause
<1>1. IInv => FailsOnlyForCause
  BY Zenon DEF IInv
<1> QED
  BY <1>1, ConnectionInvariant, PTL

\* A parked task has a wake-up ahead of it, although sendfile arranges none.
THEOREM NoLostWakeUp == Spec => []ParkedIsRegistered
<1>1. IInv => ParkedIsRegistered
  BY DEF IInv, Wakers, ParkedIsRegistered
<1> QED
  BY <1>1, ConnectionInvariant, PTL

-----------------------------------------------------------------------------
(* A connection implements HttpWire.                                       *)

\* What a step does to the wire: it leaves it alone, ...
Quiet == /\ UNCHANGED <<wire, expected>>
         /\ pc' \in {"closed", "failed"} <=> pc \in {"closed", "failed"}
         /\ pc \in {"closed", "failed"} => pc' = pc
\* ... it puts bytes on it ...
Writes == /\ pc \notin {"closed", "failed"} /\ pc' \notin {"closed", "failed"}
          /\ expected' = expected
          /\ \E bytes \in Seq(Byte) : wire' = wire \o bytes
\* ... or the connection fails.
GivesUp == /\ pc \notin {"closed", "failed"} /\ pc' = "failed"
         /\ UNCHANGED <<wire, expected>>

\* A step of a live connection that moves no bytes is quiet or a failure.
LEMMA QuietOrFails ==
  ASSUME UNCHANGED <<wire, expected>>, pc \notin {"closed", "failed"}, pc' # "closed"
  PROVE  Quiet \/ GivesUp
BY DEF Quiet, GivesUp

\* What each step of the stream does to the wire.
LEMMA StreamSteps ==
  ASSUME TypeOK, Control, StreamStep
  PROVE  Quiet \/ Writes \/ GivesUp \/ (ShutdownDone /\ UNCHANGED <<wire, expected>>)
<1>1. CASE DrainOwed
  <2>1. CASE UNCHANGED <<wire, expected>>
    BY <1>1, <2>1, QuietOrFails DEF DrainOwed, Fail, Park
  <2>2. ASSUME NEW n \in 1..SmallerOf(room, Len(owed)), Accept(SubSeq(owed, 1, n)), UNCHANGED pc
        PROVE  Writes
    <3>1. room \in Int /\ Len(owed) \in Int /\ owed \in Seq(Byte)
      <4>1. owed \in Seq(Byte)
        BY Zenon DEF TypeOK
      <4> QED
        BY <4>1, Sizes, RoomIsNat
    <3>2. n \in 1..Len(owed)
      BY <3>1, SmallerOfTwo
    <3>3. SubSeq(owed, 1, n) \in Seq(Byte)
      BY <3>1, <3>2
    <3> QED
      BY <1>1, <2>2, <3>3 DEF Writes, Accept, DrainOwed
  <2> QED
    BY <1>1, <2>1, <2>2 DEF DrainOwed, Accept
<1>2. CASE PassThrough
  <2>1. CASE UNCHANGED <<wire, expected>>
    BY <1>2, <2>1, QuietOrFails DEF PassThrough, Fail, Park, Return
  <2>2. ASSUME NEW n \in 1..SmallerOf(room, slice), Accept(HandedRange(accepted, n)), Return(n)
        PROVE  Writes
    <3>1. HandedRange(accepted, n) \in Seq(Byte)
      <4>1. accepted \in Nat /\ n \in Nat
        BY Sizes
      <4> QED
        BY <4>1, HandedRangeIs
    <3>2. pc' \in {"hyper", "slices"}
      BY <2>2 DEF Return
    <3> QED
      BY <1>2, <2>2, <3>1, <3>2 DEF Writes, Accept, PassThrough
  <2> QED
    BY <1>2, <2>1, <2>2 DEF PassThrough
<1>3. CASE HeadWrite
  <2>1. CASE UNCHANGED <<wire, expected>>
    BY <1>3, <2>1, QuietOrFails DEF HeadWrite, Fail
  <2>2. ASSUME NEW n \in 1..SmallerOf(room, headLen - sent), Accept(HandedRange(accepted + sent, n)), UNCHANGED pc
        PROVE  Writes
    <3>1. HandedRange(accepted + sent, n) \in Seq(Byte)
      <4>1. accepted + sent \in Nat /\ n \in Nat
        BY Sizes
      <4> QED
        BY <4>1, HandedRangeIs
    <3> QED
      BY <1>3, <2>2, <3>1 DEF Writes, Accept, HeadWrite
  <2> QED
    BY <1>3, <2>1, <2>2 DEF HeadWrite
<1>4. CASE TryWrite
  <2>1. PICK n \in 1..SmallerOf(SmallerOf(room, slice - sent), size - plan.offset) :
          Accept(FileRange(plan.offset, n))
    BY <1>4 DEF TryWrite
  <2>2. plan \in Plan
    BY <1>4, Transferring DEF TryWrite
  <2>3. plan.offset \in Nat /\ n \in Nat
    BY <2>2 DEF Plan
  <2>4. FileRange(plan.offset, n) \in Seq(Byte)
    BY <2>3, FileRangeIs
  <2> QED
    BY <1>4, <2>1, <2>4 DEF Writes, Accept, TryWrite
<1>5. CASE FlushDone \/ PollIdle \/ PollHead
  BY <1>5, QuietOrFails DEF FlushDone, PollIdle, PollHead
<1>6. CASE PollSending \/ TryFails
  BY <1>6, QuietOrFails DEF PollSending, TryFails, Fail
<1>7. CASE HeadContinues
  BY <1>7, QuietOrFails DEF HeadContinues, HeadLoopOver, Return
<1>8. CASE HeadEnds
  BY <1>8, QuietOrFails DEF HeadEnds, HeadLoopOver, Return, Fail
<1>9. CASE TryBlocks \/ TransferDone
  BY <1>9, QuietOrFails DEF TryBlocks, TransferDone, TransferReturns, Return
<1>10. CASE PollWritable
  BY <1>10, QuietOrFails DEF PollWritable, Park
<1>11. CASE ShutdownDone
  BY <1>11 DEF ShutdownDone
<1> QED
  BY <1>1, <1>2, <1>3, <1>4, <1>5, <1>6, <1>7, <1>8, <1>9, <1>10, <1>11, Zenon DEF StreamStep

\* What each step does to the wire.
LEMMA StepKinds ==
  ASSUME TypeOK, Control, [Next]_vars
  PROVE  \/ Quiet \/ Writes \/ GivesUp
         \/ ShutdownDone /\ UNCHANGED <<wire, expected>>
         \/ \E a \in Answers : Serve(a)
<1>1. CASE StreamStep
  BY <1>1, StreamSteps, Zenon
<1>2. CASE BodyFrame \/ BeginSlice \/ EndSlices
  BY <1>2 DEF BodyFrame, BeginSlice, EndSlices, Quiet
<1>3. CASE CallFlush \/ CallShutdown \/ Resume \/ SpuriousPoll
  BY <1>3 DEF CallFlush, CallShutdown, Resume, SpuriousPoll, Quiet
<1>4. CASE Driver \/ PeerRead \/ PeerReset \/ Truncate
  BY <1>4 DEF Driver, PeerRead, PeerReset, Truncate, Quiet
<1>5. CASE UNCHANGED vars
  BY <1>5 DEF vars, Quiet
<1> QED
  BY <1>1, <1>2, <1>3, <1>4, <1>5, Zenon DEF Next, TaskStep

\* A step of the connection is a step of HttpWire, or it leaves it alone.
LEMMA WireStep ==
  ASSUME IInv, IInv', [Next]_vars
  PROVE  [Connection!Next]_(Connection!vars)
<1>1. TypeOK /\ Data /\ Control /\ TypeOK' /\ Data'
  <2>1. TypeOK' /\ Data'
    BY Zenon DEF IInv, Data
  <2> QED
    BY <2>1, InvParts, Zenon
<1>2. /\ wire \in Seq(Byte) /\ expected \in Seq(Byte) /\ wire' \in Seq(Byte) /\ expected' \in Seq(Byte)
      /\ WireIsPrefix /\ WireIsPrefix'
  BY <1>1, Zenon DEF TypeOK, Data
<1>3. CASE Quiet
  BY <1>3 DEF Quiet, Connection!vars
<1>4. CASE Writes
  <2>1. PICK bytes \in Seq(Byte) : wire' = wire \o bytes
    BY <1>4 DEF Writes
  <2>2. Connection!IsPrefixOf(wire, wire')
    <3>1. /\ Len(wire) <= Len(wire \o bytes)
          /\ \A i \in 1..Len(wire) : wire[i] = (wire \o bytes)[i]
      BY <1>2
    <3> QED
      BY <2>1, <3>1 DEF Connection!IsPrefixOf
  <2>3. Connection!IsPrefixOf(wire', expected)
    BY <1>2, <1>4 DEF Writes, WireIsPrefix, Connection!IsPrefixOf
  <2>4. Connection!Transmit
    BY <1>4, <2>2, <2>3 DEF Writes, Connection!Transmit
  <2> QED
    BY <2>4 DEF Connection!Next
<1>5. CASE GivesUp
  <2>1. Connection!Abort
    BY <1>5 DEF GivesUp, Connection!Abort
  <2> QED
    BY <2>1 DEF Connection!Next
<1>6. CASE ShutdownDone /\ UNCHANGED <<wire, expected>>
  <2>1. pc = "drain" /\ pc' = "closed" /\ wire' = wire /\ expected' = expected
    BY <1>6 DEF ShutdownDone
  <2>2. wire' = expected'
    <3>1. FlushedIsSent'
      BY InvFlushed, PTL
    <3> QED
      BY <2>1, <3>1 DEF FlushedIsSent
  <2>3. Connection!Close
    BY <2>1, <2>2 DEF Connection!Close
  <2> QED
    BY <2>3 DEF Connection!Next
<1>7. ASSUME NEW a \in Answers, Serve(a)
      PROVE  Connection!Next
  <2>1. /\ pc = "hyper" /\ pc' = "hyper" /\ wire' = wire /\ ReadyForRequest
        /\ expected' = expected \o PromisedTo(a) /\ served' = served + 1
        /\ cur' = [head |-> a.head, upgraded |-> Arms(a), offset |-> a.offset, length |-> BodyLen(a)]
    BY <1>7 DEF Serve
  <2>2. Plain /\ owed = <<>> /\ sent = 0 /\ accepted = Total /\ Out = Total
    BY <1>1, <2>1, AtRest
  <2>3. PICK promised \in Seq(Byte) : promised = PromisedTo(a)
    <3>1. slotPlan = NoPlan
      BY <2>2 DEF Plain
    <3> QED
      BY <1>1, <2>1, <3>1, PromisedToIs, Zenon
  <2>4. wire = expected
    <3>1. Len(wire) + 0 + Total - Total = Len(expected)
      BY <1>1, <2>2, EmptySeq, Zenon DEF Data, Accounting
    <3>2. Len(wire) \in Nat /\ Total \in Nat /\ Len(expected) \in Nat
      BY <1>1, Sizes, Zenon
    <3>3. Len(wire) = Len(expected)
      BY <3>1, <3>2
    <3>4. \A i \in 1..Len(wire) : wire[i] = expected[i]
      BY <1>2 DEF WireIsPrefix
    <3> QED
      BY <1>2, <3>3, <3>4, SeqEqual
  <2>5. Connection!IsPrefixOf(expected, expected')
    <3>1. /\ Len(expected) <= Len(expected \o promised)
          /\ \A i \in 1..Len(expected) : expected[i] = (expected \o promised)[i]
      BY <1>2
    <3> QED
      BY <2>1, <2>3, <3>1 DEF Connection!IsPrefixOf
  <2>6. Connection!Answer
    BY <2>1, <2>4, <2>5 DEF Connection!Answer
  <2> QED
    BY <2>6 DEF Connection!Next
<1> QED
  BY <1>1, <1>3, <1>4, <1>5, <1>6, <1>7, StepKinds, Zenon

\* The connection keeps the promise of HttpWire: responses one after the other,
\* every byte as promised, closed in good order only when all of them are out.
THEOREM ConnectionKeepsItsPromise == Spec => ImplementsHttpWire
<1>1. Init => Connection!Init
  BY DEF Init, Connection!Init
<1>2. IInv /\ IInv' /\ [Next]_vars => [Connection!Next]_(Connection!vars)
  BY WireStep, Zenon
<1> QED
  BY <1>1, <1>2, ConnectionInvariant, PTL DEF Spec, ImplementsHttpWire, Connection!Spec
=============================================================================
