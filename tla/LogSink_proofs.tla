--------------------------- MODULE LogSink_proofs ---------------------------
(***************************************************************************)
(* Of LogSink, for any threads, shards, lengths and limits: no accepted    *)
(* line is lost, repeated or put before an earlier one, and the process    *)
(* does not exit before what was due is out.                               *)
(***************************************************************************)
EXTENDS LogSink, SequenceTheorems, WellFoundedInduction, TLAPS

\* Induction over a set of numbers.
LEMMA Induct ==
  ASSUME NEW T, T \subseteq Nat, 0 \in T, \A n \in T : n + 1 \in T
  PROVE  T = Nat
<1> SUFFICES ASSUME Nat \ T # {} PROVE FALSE
  OBVIOUS
<1> DEFINE R == {p \in Nat \X Nat : p[1] < p[2]}
<1>1. IsWellFoundedOn(R, Nat)
  BY NatLessThanWellFounded, Zenon DEF OpToRel
<1>2. \A x, y \in Nat : <<y, x>> \in R <=> y < x
  OBVIOUS
<1> HIDE DEF R
<1>3. PICK x \in Nat \ T : \A y \in Nat \ T : <<y, x>> \notin R
  BY <1>1, WFMin, Zenon
<1>4. \A y \in Nat \ T : ~(y < x)
  BY <1>2, <1>3, Zenon
<1>5. x # 0 /\ x - 1 \in Nat /\ x - 1 < x /\ (x - 1) + 1 = x
  BY <1>3
<1>6. x - 1 \in T
  BY <1>4, <1>5
<1> QED
  BY <1>3, <1>5, <1>6

-----------------------------------------------------------------------------
(* The recursive functions of LogSink. *)

LEMMA BytesDef ==
  ASSUME NEW S, NEW q \in Seq(S)
  PROVE  \E g : /\ Bytes(q) = g[Len(q)] /\ g[0] = 0
                /\ \A i \in 1..Len(q) : g[i] = g[i - 1] + q[i].len
<1> DEFINE Rec(g, n) == g = [i \in 0..n |-> IF i = 0 THEN 0 ELSE g[i - 1] + q[i].len]
           T == {n \in Nat : \E g : Rec(g, n)}
<1>1. 0 \in T
  <2>1. Rec([i \in 0..0 |-> 0], 0)
    OBVIOUS
  <2> QED
    BY <2>1
<1>2. \A n \in T : n + 1 \in T
  <2> TAKE n \in T
  <2>0. PICK g : n \in Nat /\ Rec(g, n)
    OBVIOUS
  <2> DEFINE k == [i \in 0..(n + 1) |-> IF i = n + 1 THEN g[n] + q[n + 1].len ELSE g[i]]
  <2>1. \A i \in 0..n : k[i] = g[i] /\ g[i] = IF i = 0 THEN 0 ELSE g[i - 1] + q[i].len
    BY <2>0
  <2>2. \A i \in 0..(n + 1) : k[i] = IF i = 0 THEN 0 ELSE k[i - 1] + q[i].len
    <3> TAKE i \in 0..(n + 1)
    <3>1. CASE i = n + 1
      BY <2>0, <3>1
    <3>2. CASE i \in 1..n
      <4>1. i - 1 \in 0..n /\ i \in 0..n /\ i # 0
        BY <2>0, <3>2
      <4>2. k[i] = g[i] /\ k[i - 1] = g[i - 1]
        BY <2>1, <4>1
      <4> QED
        BY <2>1, <4>1, <4>2
    <3>3. CASE i = 0
      <4>1. 0 \in 0..n
        BY <2>0
      <4> QED
        BY <2>1, <3>3, <4>1
    <3> QED
      BY <2>0, <3>1, <3>2, <3>3
  <2>3. k = [i \in 0..(n + 1) |-> k[i]]
    OBVIOUS
  <2> HIDE DEF k
  <2>4. Rec(k, n + 1)
    BY <2>2, <2>3
  <2> HIDE DEF Rec
  <2> QED
    BY <2>0, <2>4
<1> HIDE DEF Rec
<1>3. T = Nat
  BY <1>1, <1>2, Induct
<1>4. Len(q) \in Nat
  OBVIOUS
<1>5. \E g : Rec(g, Len(q))
  BY <1>3, <1>4
<1> DEFINE g == CHOOSE g : g = [i \in 0..Len(q) |-> IF i = 0 THEN 0 ELSE g[i - 1] + q[i].len]
<1>6. Rec(g, Len(q))
  BY <1>5 DEF Rec
<1>7. Bytes(q) = g[Len(q)]
  BY DEF Bytes
<1> HIDE DEF g
<1>8. g[0] = 0 /\ \A i \in 1..Len(q) : g[i] = g[i - 1] + q[i].len
  BY <1>4, <1>6 DEF Rec
<1> QED
  BY <1>7, <1>8

\* What Of says, of the shards that the threads were given.
Sel(h, s, q) == LET of[i \in 0..Len(q)] == IF i = 0 THEN <<>>
                                           ELSE IF h[q[i].by] = s THEN Append(of[i - 1], q[i])
                                           ELSE of[i - 1]
                IN  of[Len(q)]

Goes(g, n, h, s, q) ==
  /\ g[0] = <<>>
  /\ \A i \in 1..n : g[i] = IF h[q[i].by] = s THEN Append(g[i - 1], q[i]) ELSE g[i - 1]

LEMMA SelDef ==
  ASSUME NEW S, NEW q \in Seq(S), NEW h, NEW s
  PROVE  \E g : Sel(h, s, q) = g[Len(q)] /\ Goes(g, Len(q), h, s, q)
<1> DEFINE Then(x, i) == IF h[q[i].by] = s THEN Append(x, q[i]) ELSE x
           Rec(g, n) == g = [i \in 0..n |-> IF i = 0 THEN <<>> ELSE Then(g[i - 1], i)]
           T == {n \in Nat : \E g : Rec(g, n)}
<1>1. 0 \in T
  <2>1. Rec([i \in 0..0 |-> <<>>], 0)
    OBVIOUS
  <2> QED
    BY <2>1
<1>2. \A n \in T : n + 1 \in T
  <2> TAKE n \in T
  <2>0. PICK g : n \in Nat /\ Rec(g, n)
    OBVIOUS
  <2> DEFINE k == [i \in 0..(n + 1) |-> IF i = n + 1 THEN Then(g[n], n + 1) ELSE g[i]]
  <2> HIDE DEF Then
  <2>1. \A i \in 0..n : k[i] = g[i] /\ g[i] = IF i = 0 THEN <<>> ELSE Then(g[i - 1], i)
    BY <2>0
  <2>2. \A i \in 0..(n + 1) : k[i] = IF i = 0 THEN <<>> ELSE Then(k[i - 1], i)
    <3> TAKE i \in 0..(n + 1)
    <3>1. CASE i = n + 1
      BY <2>0, <3>1
    <3>2. CASE i \in 1..n
      <4>1. i - 1 \in 0..n /\ i \in 0..n /\ i # 0
        BY <2>0, <3>2
      <4>2. k[i] = g[i] /\ k[i - 1] = g[i - 1]
        BY <2>1, <4>1
      <4> QED
        BY <2>1, <4>1, <4>2
    <3>3. CASE i = 0
      <4>1. 0 \in 0..n
        BY <2>0
      <4> QED
        BY <2>1, <3>3, <4>1
    <3> QED
      BY <2>0, <3>1, <3>2, <3>3
  <2>3. k = [i \in 0..(n + 1) |-> k[i]]
    OBVIOUS
  <2> HIDE DEF k
  <2>4. Rec(k, n + 1)
    BY <2>2, <2>3
  <2> HIDE DEF Rec
  <2> QED
    BY <2>0, <2>4
<1> HIDE DEF Rec
<1>3. T = Nat
  BY <1>1, <1>2, Induct
<1>4. Len(q) \in Nat
  OBVIOUS
<1>5. \E g : Rec(g, Len(q))
  BY <1>3, <1>4
<1> DEFINE g == CHOOSE g : g = [i \in 0..Len(q) |-> IF i = 0 THEN <<>>
                                           ELSE IF h[q[i].by] = s THEN Append(g[i - 1], q[i])
                                           ELSE g[i - 1]]
<1>6. Rec(g, Len(q))
  BY <1>5 DEF Rec
<1>7. Sel(h, s, q) = g[Len(q)]
  BY DEF Sel
<1> HIDE DEF g
<1>8. \A i \in 0..Len(q) : g[i] = IF i = 0 THEN <<>> ELSE Then(g[i - 1], i)
  BY <1>6 DEF Rec
<1>9. g[0] = <<>>
  BY <1>4, <1>8
<1>10. \A i \in 1..Len(q) : g[i] = Then(g[i - 1], i)
  BY <1>4, <1>8
<1> QED
  BY <1>7, <1>9, <1>10 DEF Goes

\* Two sequences that begin alike are selected from alike, as far as they do, if their lines are
\* of the same shards.
LEMMA GoesAlike ==
  ASSUME NEW q, NEW r, NEW h, NEW k, NEW s, NEW n \in Nat,
         \A i \in 1..n : q[i] = r[i] /\ h[q[i].by] = k[r[i].by],
         NEW f, Goes(f, n, h, s, q), NEW g, Goes(g, n, k, s, r)
  PROVE  f[n] = g[n]
<1> DEFINE T == {i \in Nat : i <= n => f[i] = g[i]}
<1>1. 0 \in T
  BY DEF Goes
<1>2. \A i \in T : i + 1 \in T
  <2> SUFFICES ASSUME NEW i \in T, i + 1 <= n PROVE f[i + 1] = g[i + 1]
    OBVIOUS
  <2>1. f[i] = g[i] /\ i + 1 \in 1..n /\ (i + 1) - 1 = i
    OBVIOUS
  <2> QED
    BY <2>1 DEF Goes
<1>3. T = Nat
  BY <1>1, <1>2, Induct
<1> QED
  BY <1>3

\* The lines of a sequence that is one line longer.
LEMMA SelAppend ==
  ASSUME NEW S, NEW q \in Seq(S), NEW l \in S, NEW h, NEW s
  PROVE  Sel(h, s, Append(q, l)) = IF h[l.by] = s THEN Append(Sel(h, s, q), l) ELSE Sel(h, s, q)
<1> DEFINE r == Append(q, l)
<1>1. /\ r \in Seq(S) /\ Len(q) \in Nat /\ Len(r) = Len(q) + 1 /\ r[Len(q) + 1] = l
      /\ \A i \in 1..Len(q) : r[i] = q[i]
  OBVIOUS
<1> HIDE DEF r
<1>2. PICK f : Sel(h, s, q) = f[Len(q)] /\ Goes(f, Len(q), h, s, q)
  BY SelDef
<1>3. PICK g : Sel(h, s, r) = g[Len(r)] /\ Goes(g, Len(r), h, s, r)
  BY <1>1, SelDef
<1>4. Goes(g, Len(q), h, s, r)
  BY <1>1, <1>3 DEF Goes
<1>5. f[Len(q)] = g[Len(q)]
  BY <1>1, <1>2, <1>4, GoesAlike
<1>6. Len(q) + 1 \in 1..Len(r) /\ (Len(q) + 1) - 1 = Len(q)
  BY <1>1
<1>7. g[Len(q) + 1] = IF h[l.by] = s THEN Append(g[Len(q)], l) ELSE g[Len(q)]
  BY <1>1, <1>3, <1>6 DEF Goes
<1> QED
  BY <1>1, <1>2, <1>3, <1>5, <1>7 DEF r

LEMMA SelEmpty ==
  ASSUME NEW h, NEW s
  PROVE  Sel(h, s, <<>>) = <<>>
<1>1. <<>> \in Seq({}) /\ Len(<<>>) = 0
  OBVIOUS
<1>2. PICK g : Sel(h, s, <<>>) = g[Len(<<>>)] /\ Goes(g, Len(<<>>), h, s, <<>>)
  BY <1>1, SelDef
<1> QED
  BY <1>1, <1>2 DEF Goes

\* Only the shards of the threads that logged count.
LEMMA SelSame ==
  ASSUME NEW S, NEW q \in Seq(S), NEW h, NEW k, NEW s,
         \A i \in 1..Len(q) : h[q[i].by] = k[q[i].by]
  PROVE  Sel(h, s, q) = Sel(k, s, q)
<1>1. PICK f : Sel(h, s, q) = f[Len(q)] /\ Goes(f, Len(q), h, s, q)
  BY SelDef
<1>2. PICK g : Sel(k, s, q) = g[Len(q)] /\ Goes(g, Len(q), k, s, q)
  BY SelDef
<1>3. Len(q) \in Nat
  OBVIOUS
<1> QED
  BY <1>1, <1>2, <1>3, GoesAlike

LEMMA BytesAppend ==
  ASSUME NEW S, NEW q \in Seq(S), NEW l \in S
  PROVE  Bytes(Append(q, l)) = Bytes(q) + l.len
<1> DEFINE r == Append(q, l)
<1>1. /\ r \in Seq(S) /\ Len(q) \in Nat /\ Len(r) = Len(q) + 1 /\ r[Len(q) + 1] = l
      /\ \A i \in 1..Len(q) : r[i] = q[i]
  OBVIOUS
<1> HIDE DEF r
<1>2. PICK f : /\ Bytes(q) = f[Len(q)] /\ f[0] = 0
               /\ \A i \in 1..Len(q) : f[i] = f[i - 1] + q[i].len
  BY BytesDef
<1>3. PICK g : /\ Bytes(r) = g[Len(r)] /\ g[0] = 0
               /\ \A i \in 1..Len(r) : g[i] = g[i - 1] + r[i].len
  BY <1>1, BytesDef
<1> DEFINE T == {i \in Nat : i <= Len(q) => f[i] = g[i]}
<1>4. T = Nat
  <2>1. 0 \in T
    BY <1>2, <1>3
  <2>2. \A i \in T : i + 1 \in T
    <3> SUFFICES ASSUME NEW i \in T, i + 1 <= Len(q) PROVE f[i + 1] = g[i + 1]
      OBVIOUS
    <3>1. f[i] = g[i] /\ i + 1 \in 1..Len(q) /\ i + 1 \in 1..Len(r) /\ (i + 1) - 1 = i
      BY <1>1
    <3> QED
      BY <1>1, <1>2, <1>3, <3>1
  <2> QED
    BY <2>1, <2>2, Induct
<1>5. f[Len(q)] = g[Len(q)]
  BY <1>1, <1>4
<1>6. Len(q) + 1 \in 1..Len(r) /\ (Len(q) + 1) - 1 = Len(q)
  BY <1>1
<1>7. g[Len(q) + 1] = g[Len(q)] + l.len
  BY <1>1, <1>3, <1>6
<1> QED
  BY <1>1, <1>2, <1>3, <1>5, <1>7 DEF r

LEMMA SelType ==
  ASSUME NEW S, NEW q \in Seq(S), NEW h, NEW s
  PROVE  Sel(h, s, q) \in Seq(S)
<1>1. PICK g : Sel(h, s, q) = g[Len(q)] /\ Goes(g, Len(q), h, s, q)
  BY SelDef
<1> DEFINE T == {i \in Nat : i <= Len(q) => g[i] \in Seq(S)}
<1>2. 0 \in T
  <2>1. g[0] = <<>> /\ <<>> \in Seq(S)
    BY <1>1 DEF Goes
  <2> QED
    BY <2>1
<1>3. \A i \in T : i + 1 \in T
  <2> SUFFICES ASSUME NEW i \in T, i + 1 <= Len(q) PROVE g[i + 1] \in Seq(S)
    OBVIOUS
  <2>1. g[i] \in Seq(S) /\ i + 1 \in 1..Len(q) /\ (i + 1) - 1 = i /\ q[i + 1] \in S
    OBVIOUS
  <2>2. g[i + 1] = Append(g[i], q[i + 1]) \/ g[i + 1] = g[i]
    BY <1>1, <2>1 DEF Goes
  <2>3. \A x \in Seq(S), l \in S : Append(x, l) \in Seq(S)
    OBVIOUS
  <2> HIDE DEF T
  <2> QED
    BY <2>1, <2>2, <2>3
<1>4. T = Nat
  BY <1>2, <1>3, Induct
<1>5. Len(q) \in Nat
  OBVIOUS
<1> QED
  BY <1>1, <1>4, <1>5

-----------------------------------------------------------------------------
(* The invariant. *)

Line == [by : Threads, number : Nat, len : Lengths]

Types ==
  /\ shard \in [Threads -> Shards \cup {Unassigned}] /\ nextShard \in Nat
  /\ lines \in [Threads -> Nat]
  /\ pending \in [Shards -> Seq(Line)] /\ written \in Seq(Line)
  /\ accepted \in [Shards -> Seq(Line)] /\ due \in [Shards -> Seq(Line)]
  /\ batch \in [Flushers -> Seq(Line)] /\ at \in [Flushers -> 0..NumShards]
  /\ step = [f \in Flushers |-> step[f]]

\* Who walks over the shards holds the lock, and has lines in hand only between taking and writing
\* them.
Holding ==
  \A f \in Flushers :
    /\ step[f] \in {"take", "write"} => writing = f
    /\ step[f] \notin {"take", "write"} => at[f] = 0
    /\ step[f] = "write" => at[f] \in Shards
    /\ step[f] # "write" => batch[f] = <<>>

\* A line is with the shard its thread was given.
AllOf(q, s) == \A i \in 1..Len(q) : shard[q[i].by] = s
Sharded ==
  /\ \A s \in Shards : AllOf(pending[s], s)
  /\ \A f \in Flushers : AllOf(batch[f], at[f])
  /\ \A i \in 1..Len(written) : shard[written[i].by] \in Shards

\* A line that is nearer to the end is an earlier one of its thread.
Ordered(q) == \A i, j \in 1..Len(q) : i < j /\ q[i].by = q[j].by => q[i].number < q[j].number
Before(q, r) ==
  \A i \in 1..Len(q) : \A j \in 1..Len(r) : q[i].by = r[j].by => q[i].number < r[j].number
Numbered(q) == \A i \in 1..Len(q) : q[i].number <= lines[q[i].by]

Order ==
  /\ Ordered(written) /\ Numbered(written)
  /\ \A f \in Flushers :
       Ordered(batch[f]) /\ Numbered(batch[f]) /\ Before(written, batch[f])
  /\ \A s \in Shards :
       /\ Ordered(pending[s]) /\ Numbered(pending[s]) /\ Before(written, pending[s])
       /\ \A f \in Flushers : Before(batch[f], pending[s])

Kept ==
  ~Broken /\ ~Exited =>
    \A s \in Shards : Of(s, written) \o InHand(s) \o pending[s] = accepted[s]

Begins(p, q) == Len(p) <= Len(q) /\ \A i \in 1..Len(p) : p[i] = q[i]

\* What was due when main began to flush is out of the shards it has visited, and with what main
\* has in hand out of the one where it is.
DueOut ==
  /\ \A s \in Shards : Begins(due[s], accepted[s])
  /\ ~Broken =>
       \A s \in Shards :
         /\ step[Main] \in {"take", "write"} /\ s < at[Main] => Begins(due[s], Of(s, written))
         /\ step[Main] = "write" /\ s = at[Main] => Begins(due[s], Of(s, written) \o batch[Main])
         /\ step[Main] = "exited" => Begins(due[s], Of(s, written))

Inv == Types /\ Holding /\ Sharded /\ Order /\ PendingBound /\ Kept /\ DueOut

LEMMA OfIs ==
  ASSUME NEW s, NEW q
  PROVE  Of(s, q) = Sel(shard, s, q)
BY DEF Of, Sel

LEMMA OfIsThen ==
  ASSUME NEW s
  PROVE  Of(s, written)' = Sel(shard', s, written')
BY DEF Of, Sel

LEMMA AppendAfter ==
  \A y, z \in Seq(Line), l \in Line : y \o Append(z, l) = Append(y \o z, l)
OBVIOUS

AllWith(h, q, s) == \A i \in 1..Len(q) : h[q[i].by] = s

\* Lines that are all of one shard come after what was selected for it.
LEMMA SelJoin ==
  ASSUME NEW q \in Seq(Line), NEW b \in Seq(Line), NEW h, NEW s, NEW s1,
         AllWith(h, b, s1)
  PROVE  Sel(h, s, q \o b) = IF s = s1 THEN Sel(h, s, q) \o b ELSE Sel(h, s, q)
<1> DEFINE P(n) == SubSeq(b, 1, n)
           T == {n \in Nat : n <= Len(b) =>
                   Sel(h, s, q \o P(n)) = IF s = s1 THEN Sel(h, s, q) \o P(n) ELSE Sel(h, s, q)}
<1>1. 0 \in T
  <2>1. P(0) = <<>>
    OBVIOUS
  <2>2. q \o <<>> = q /\ Sel(h, s, q) \o <<>> = Sel(h, s, q)
    BY SelType, ConcatEmptySeq
  <2> QED
    BY <2>1, <2>2
<1>2. \A n \in T : n + 1 \in T
  <2> SUFFICES ASSUME NEW n \in T, n + 1 <= Len(b) PROVE n + 1 \in T
    OBVIOUS
  <2> DEFINE x == Sel(h, s, q)
  <2>0. PICK l \in Line : l = b[n + 1]
    OBVIOUS
  <2>1. /\ l \in Line /\ P(n) \in Seq(Line) /\ P(n + 1) = Append(P(n), l) /\ n \in Nat /\ n <= Len(b)
        /\ h[l.by] = s1
    <3>1. n \in Nat /\ n + 1 \in 1..Len(b)
      OBVIOUS
    <3>6. h[l.by] = s1
      BY <2>0, <3>1 DEF AllWith
    <3>2. P(n) \in Seq(Line) /\ Len(P(n)) = n /\ \A i \in 1..n : P(n)[i] = b[i]
      BY <3>1
    <3>3. P(n + 1) \in Seq(Line) /\ Len(P(n + 1)) = n + 1 /\ \A i \in 1..(n + 1) : P(n + 1)[i] = b[i]
      BY <3>1
    <3>4. /\ Append(P(n), l) \in Seq(Line) /\ Len(Append(P(n), l)) = n + 1
          /\ \A i \in 1..(n + 1) : Append(P(n), l)[i] = b[i]
      <4> HIDE DEF P
      <4> QED
        BY <2>0, <3>1, <3>2
    <3> HIDE DEF P
    <3>5. P(n + 1) = Append(P(n), l)
      BY <3>3, <3>4, SeqEqual
    <3> QED
      BY <2>0, <3>1, <3>2, <3>5, <3>6
  <2> HIDE DEF P
  <2>2. q \o P(n + 1) = Append(q \o P(n), l) /\ x \o P(n + 1) = Append(x \o P(n), l)
    <3>1. \A y \in Seq(Line), z \in Seq(Line) : y \o Append(z, l) = Append(y \o z, l)
      BY AppendAfter
    <3>2. x \in Seq(Line)
      BY SelType
    <3> HIDE DEF x
    <3> QED
      BY <2>1, <3>1, <3>2
  <2>3. q \o P(n) \in Seq(Line)
    BY <2>1
  <2>4. Sel(h, s, q \o P(n + 1)) = IF s1 = s THEN Append(Sel(h, s, q \o P(n)), l) ELSE Sel(h, s, q \o P(n))
    <3>1. Sel(h, s, Append(q \o P(n), l)) =
            IF h[l.by] = s THEN Append(Sel(h, s, q \o P(n)), l) ELSE Sel(h, s, q \o P(n))
      <4>1. \A y \in Seq(Line) : Sel(h, s, Append(y, l)) = IF h[l.by] = s THEN Append(Sel(h, s, y), l)
                                                                      ELSE Sel(h, s, y)
        BY SelAppend
      <4> QED
        BY <2>3, <4>1, Zenon
    <3> QED
      BY <2>1, <2>2, <3>1
  <2>5. Sel(h, s, q \o P(n)) = IF s = s1 THEN x \o P(n) ELSE x
    BY <2>1
  <2>6. Sel(h, s, q \o P(n + 1)) = IF s = s1 THEN x \o P(n + 1) ELSE x
    BY <2>2, <2>4, <2>5, Zenon
  <2>7. n + 1 \in Nat
    BY <2>1
  <2> HIDE DEF x
  <2> QED
    BY <2>6, <2>7 DEF x
<1> HIDE DEF T
<1>3. T = Nat
  <2>1. T \subseteq Nat
    BY DEF T
  <2> QED
    BY <1>1, <1>2, <2>1, Induct
<1>4. Len(b) \in Nat /\ P(Len(b)) = b
  OBVIOUS
<1>5. Len(b) \in T /\ Len(b) <= Len(b)
  BY <1>3, <1>4
<1> HIDE DEF P
<1> QED
  BY <1>4, <1>5 DEF T

\* At most one flush has lines in hand.
LEMMA Hand ==
  ASSUME Holding, NEW s
  PROVE  /\ \A f \in Flushers : step[f] = "write" /\ at[f] = s => InHand(s) = batch[f]
         /\ (\A f \in Flushers : step[f] = "write" => at[f] # s) => InHand(s) = <<>>
<1>1. ASSUME NEW f \in Flushers, step[f] = "write", at[f] = s PROVE InHand(s) = batch[f]
  <2> DEFINE c == CHOOSE g \in Flushers : step[g] = "write" /\ at[g] = s
  <2>1. c \in Flushers /\ step[c] = "write"
    BY <1>1
  <2>2. InHand(s) = batch[c]
    BY <1>1 DEF InHand
  <2> HIDE DEF c
  <2>3. c = f
    BY <1>1, <2>1 DEF Holding
  <2> QED
    BY <2>2, <2>3
<1> QED
  BY <1>1 DEF InHand

LEMMA HandThen ==
  ASSUME Holding', NEW s
  PROVE  /\ \A f \in Flushers : step'[f] = "write" /\ at'[f] = s => InHand(s)' = batch'[f]
         /\ (\A f \in Flushers : step'[f] = "write" => at'[f] # s) => InHand(s)' = <<>>
<1>1. ASSUME NEW f \in Flushers, step'[f] = "write", at'[f] = s PROVE InHand(s)' = batch'[f]
  <2> DEFINE c == CHOOSE g \in Flushers : step'[g] = "write" /\ at'[g] = s
  <2>1. c \in Flushers /\ step'[c] = "write"
    BY <1>1
  <2>2. InHand(s)' = batch'[c]
    BY <1>1 DEF InHand
  <2> HIDE DEF c
  <2>3. c = f
    BY <1>1, <2>1 DEF Holding
  <2> QED
    BY <2>2, <2>3
<1> QED
  BY <1>1 DEF InHand

-----------------------------------------------------------------------------
(* Order. *)

LEMMA JoinOrder ==
  ASSUME NEW q \in Seq(Line), NEW r \in Seq(Line)
  PROVE  /\ q \o r \in Seq(Line)
         /\ Ordered(q) /\ Ordered(r) /\ Before(q, r) => Ordered(q \o r)
         /\ \A p : Before(q, p) /\ Before(r, p) => Before(q \o r, p)
         /\ \A p : Before(p, q) /\ Before(p, r) => Before(p, q \o r)
<1>1. /\ q \o r \in Seq(Line) /\ Len(q) \in Nat /\ Len(r) \in Nat
      /\ Len(q \o r) = Len(q) + Len(r)
      /\ \A i \in 1..Len(q) + Len(r) : (q \o r)[i] = IF i <= Len(q) THEN q[i] ELSE r[i - Len(q)]
  BY ConcatProperties
<1> DEFINE x == q \o r
<1> HIDE DEF x
<1>2. \A i \in 1..Len(x) : \/ i \in 1..Len(q) /\ x[i] = q[i]
                           \/ i > Len(q) /\ i - Len(q) \in 1..Len(r) /\ x[i] = r[i - Len(q)]
  BY <1>1 DEF x
<1>3. ASSUME Ordered(q), Ordered(r), Before(q, r) PROVE Ordered(x)
  <2> SUFFICES ASSUME NEW i \in 1..Len(x), NEW j \in 1..Len(x), i < j, x[i].by = x[j].by
               PROVE  x[i].number < x[j].number
    BY DEF Ordered
  <2>1. CASE i > Len(q)
    <3>1. i - Len(q) \in 1..Len(r) /\ x[i] = r[i - Len(q)] /\ j > Len(q)
      BY <1>1, <1>2, <2>1 DEF x
    <3>2. j - Len(q) \in 1..Len(r) /\ x[j] = r[j - Len(q)] /\ i - Len(q) < j - Len(q)
      BY <1>1, <1>2, <3>1 DEF x
    <3> QED
      BY <1>3, <3>1, <3>2 DEF Ordered
  <2>2. CASE i \in 1..Len(q) /\ j \in 1..Len(q)
    BY <1>1, <1>2, <1>3, <2>2 DEF Ordered
  <2>3. CASE i \in 1..Len(q) /\ j > Len(q)
    <3>1. j - Len(q) \in 1..Len(r) /\ x[j] = r[j - Len(q)] /\ x[i] = q[i]
      BY <1>1, <1>2, <2>3 DEF x
    <3> QED
      BY <1>3, <2>3, <3>1 DEF Before
  <2> QED
    BY <1>1, <1>2, <2>1, <2>2, <2>3
<1>4. ASSUME NEW p, Before(q, p), Before(r, p) PROVE Before(x, p)
  BY <1>2, <1>4 DEF Before
<1>5. ASSUME NEW p, Before(p, q), Before(p, r) PROVE Before(p, x)
  BY <1>2, <1>5 DEF Before
<1> QED
  BY <1>1, <1>3, <1>4, <1>5 DEF x

\* The elements of a sequence that begins another.
LEMMA PrefixIs ==
  ASSUME NEW q \in Seq(Line), NEW n \in 0..Len(q)
  PROVE  /\ SubSeq(q, 1, n) \in Seq(Line) /\ Len(SubSeq(q, 1, n)) = n
         /\ \A i \in 1..n : i \in 1..Len(q) /\ SubSeq(q, 1, n)[i] = q[i]
OBVIOUS

LEMMA LongerIs ==
  ASSUME NEW q \in Seq(Line), NEW l \in Line
  PROVE  /\ Append(q, l) \in Seq(Line) /\ Len(Append(q, l)) = Len(q) + 1 /\ Len(q) \in Nat
         /\ Append(q, l)[Len(q) + 1] = l
         /\ \A i \in 1..Len(Append(q, l)) : \/ i \in 1..Len(q) /\ Append(q, l)[i] = q[i]
                                            \/ i = Len(q) + 1 /\ Append(q, l)[i] = l
         /\ Append(q, l) # <<>>
OBVIOUS

-----------------------------------------------------------------------------
(* The steps that move no line. *)

Still == UNCHANGED <<shard, lines, pending, written, accepted, batch, at>>

LEMMA StillKeeps ==
  ASSUME Inv, Still, Holding', ~Exited,
         \A f \in Flushers : step'[f] = "write" <=> step[f] = "write", Broken' <=> Broken
  PROVE  Sharded' /\ Order' /\ PendingBound' /\ Kept'
<1>1. Sharded' /\ Order' /\ PendingBound'
  BY DEF Inv, Still, Sharded, Order, PendingBound, AllOf, Numbered, Ordered, Before
<1>2. \A s \in Shards : InHand(s)' = InHand(s)
  <2> TAKE s \in Shards
  <2>1. CASE \E f \in Flushers : step[f] = "write" /\ at[f] = s
    BY <2>1, Hand, HandThen DEF Inv, Still
  <2>2. CASE \A f \in Flushers : step[f] = "write" => at[f] # s
    BY <2>2, Hand, HandThen DEF Inv, Still
  <2> QED
    BY <2>1, <2>2
<1>3. \A s \in Shards : Of(s, written)' = Of(s, written)
  BY OfIs, OfIsThen DEF Still
<1>4. Kept'
  BY <1>2, <1>3 DEF Inv, Kept, Still
<1> QED
  BY <1>1, <1>4

\* Steps that move neither main nor what is out.
LEMMA DueStays ==
  ASSUME DueOut, UNCHANGED <<due, batch, at>>, step'[Main] = step[Main], Broken' <=> Broken,
         \A s \in Shards : Of(s, written)' = Of(s, written),
         \A s \in Shards : Begins(due'[s], accepted'[s])
  PROVE  DueOut'
<1>1. \A s \in Shards : Begins(due[s], accepted[s])'
  BY DEF Begins
<1>2. \A s \in Shards :
        /\ Begins(due[s], Of(s, written))' <=> Begins(due[s], Of(s, written))
        /\ Begins(due[s], Of(s, written) \o batch[Main])' <=> Begins(due[s], Of(s, written) \o batch[Main])
  BY DEF Begins
<1> QED
  BY <1>1, <1>2 DEF DueOut

\* Steps that leave main and what is due alone.
LEMMA DueKept ==
  ASSUME Inv, Still, step'[Main] = step[Main], due' = due, Broken' <=> Broken
  PROVE  DueOut'
<1>1. \A s \in Shards : Of(s, written)' = Of(s, written)
  BY OfIs, OfIsThen DEF Still
<1>2. \A s \in Shards : Begins(due'[s], accepted'[s])
  BY DEF Inv, DueOut, Still
<1> QED
  BY <1>1, <1>2, DueStays DEF Inv, Still

\* A step of one flush: nothing but where it is and who holds the lock.
LEMMA StepTypes ==
  ASSUME Types, NEW f \in Flushers, NEW x, step' = [step EXCEPT ![f] = x]
  PROVE  /\ step'[f] = x /\ \A g \in Flushers : g # f => step'[g] = step[g]
         /\ step' = [g \in Flushers |-> step'[g]]
BY DEF Types

LEMMA NotifyStep == ASSUME Inv, ~Exited, NEW t \in Threads, Notify(t) PROVE Inv'
<1>1. Still /\ UNCHANGED <<nextShard, writing, due>>
  BY DEF Notify, Still, flushVars
<1>2. Writer \in Flushers /\ Main \in Flushers /\ Writer # Main
  BY DEF Flushers, Writer, Main
<1>3. \/ step' = step
      \/ step[Writer] = "wait" /\ step' = [step EXCEPT ![Writer] = "lock"]
  BY DEF Notify
<1>4. /\ step' = [f \in Flushers |-> step'[f]]
      /\ \A f \in Flushers : step'[f] = step[f] \/ (step[f] = "wait" /\ step'[f] = "lock")
      /\ step'[Main] = step[Main]
  BY <1>2, <1>3, StepTypes DEF Inv, Types
<1>5. Types'
  BY <1>1, <1>4 DEF Inv, Types, Still
<1>6. Holding'
  BY <1>1, <1>4 DEF Inv, Holding, Still
<1>7. Broken' <=> Broken
  BY <1>2, <1>4 DEF Broken
<1>8. \A f \in Flushers : step'[f] = "write" <=> step[f] = "write"
  BY <1>4
<1> QED
  BY <1>1, <1>4, <1>5, <1>6, <1>7, <1>8, StillKeeps, DueKept DEF Inv

LEMMA WaitTimeoutStep == ASSUME Inv, ~Exited, WaitTimeout PROVE Inv'
<1>1. Still /\ UNCHANGED <<nextShard, writing, due>>
  BY DEF WaitTimeout, Still, flushVars, threadVars
<1>2. Writer \in Flushers /\ Main \in Flushers /\ Writer # Main
  BY DEF Flushers, Writer, Main
<1>3. step[Writer] = "wait" /\ step' = [step EXCEPT ![Writer] = "lock"]
  BY DEF WaitTimeout
<1>4. /\ step' = [f \in Flushers |-> step'[f]]
      /\ \A f \in Flushers : step'[f] = step[f] \/ (step[f] = "wait" /\ step'[f] = "lock")
      /\ step'[Main] = step[Main]
  BY <1>2, <1>3, StepTypes DEF Inv
<1>5. Types'
  BY <1>1, <1>4 DEF Inv, Types, Still
<1>6. Holding'
  BY <1>1, <1>4 DEF Inv, Holding, Still
<1>7. Broken' <=> Broken
  BY <1>2, <1>4 DEF Broken
<1>8. \A f \in Flushers : step'[f] = "write" <=> step[f] = "write"
  BY <1>4
<1> QED
  BY <1>1, <1>4, <1>5, <1>6, <1>7, <1>8, StillKeeps, DueKept DEF Inv

\* The server starts, or main logs that it cannot and is about to flush what has been accepted.
LEMMA MainStep == ASSUME Inv, ~Exited, ServeStarts \/ RootMissing PROVE Inv'
<1>1. Still /\ UNCHANGED <<nextShard, writing>> /\ (due' = due \/ due' = accepted)
  BY DEF ServeStarts, RootMissing, Still, flushVars, threadVars
<1>2. Writer \in Flushers /\ Main \in Flushers /\ Writer # Main
  BY DEF Flushers, Writer, Main
<1>3. PICK x \in {"serving", "lock"} : step[Main] = "starting" /\ step' = [step EXCEPT ![Main] = x]
  BY DEF ServeStarts, RootMissing
<1>4. /\ step' = [f \in Flushers |-> step'[f]] /\ step'[Main] = x
      /\ \A f \in Flushers : f # Main => step'[f] = step[f]
  BY <1>2, <1>3, StepTypes DEF Inv
<1>5. Types'
  BY <1>1, <1>4 DEF Inv, Types, Still
<1>6. Holding'
  BY <1>1, <1>2, <1>3, <1>4 DEF Inv, Holding, Still
<1>7. Broken' <=> Broken
  BY <1>2, <1>4 DEF Broken
<1>8. \A f \in Flushers : step'[f] = "write" <=> step[f] = "write"
  BY <1>2, <1>3, <1>4
<1>9. DueOut'
  <2>1. \A s \in Shards : Begins(accepted[s], accepted[s])
    BY DEF Inv, Types, Begins
  <2>2. \A s \in Shards : Begins(due'[s], accepted'[s])
    BY <1>1, <2>1 DEF Inv, DueOut, Still
  <2> QED
    BY <1>4, <2>2 DEF DueOut, Begins
<1> QED
  BY <1>1, <1>5, <1>6, <1>7, <1>8, <1>9, StillKeeps DEF Inv

LEMMA LockStep == ASSUME Inv, ~Exited, NEW f \in Flushers, Lock(f) PROVE Inv'
<1>1. Still /\ UNCHANGED <<nextShard, due>> /\ writing = Nobody /\ writing' = f /\ step[f] = "lock"
  BY DEF Lock, Still, flushVars, threadVars
<1>2. Writer \in Flushers /\ Main \in Flushers /\ Nobody \notin Flushers
  BY DEF Flushers, Writer, Main, Nobody
<1>3. /\ step' = [g \in Flushers |-> step'[g]] /\ step'[f] = "take"
      /\ \A g \in Flushers : g # f => step'[g] = step[g]
  BY StepTypes DEF Inv, Lock
<1>4. Types'
  BY <1>1, <1>3 DEF Inv, Types, Still
<1>5. \A g \in Flushers : step[g] \notin {"take", "write"}
  BY <1>1, <1>2 DEF Inv, Holding
<1>6. Holding'
  BY <1>1, <1>3, <1>5 DEF Inv, Holding, Still
<1>7. Broken' <=> Broken
  BY <1>1, <1>2, <1>3 DEF Broken
<1>8. \A g \in Flushers : step'[g] = "write" <=> step[g] = "write"
  BY <1>1, <1>3
<1>9. DueOut'
  <2>1. CASE f # Main
    BY <1>1, <1>2, <1>3, <1>7, <2>1, DueKept
  <2>2. CASE f = Main
    <3>1. at'[Main] = 0 /\ \A s \in Shards : ~(s < 0)
      BY <1>1, <1>2, <2>2 DEF Inv, Holding, Still, Shards
    <3>2. \A s \in Shards : Begins(due'[s], accepted'[s])
      BY <1>1 DEF Inv, DueOut, Still
    <3> QED
      BY <1>3, <2>2, <3>1, <3>2 DEF DueOut, Begins
  <2> QED
    BY <2>1, <2>2
<1> QED
  BY <1>1, <1>4, <1>6, <1>7, <1>8, <1>9, StillKeeps DEF Inv

\* A thread is given a shard: none of its lines has been logged.
LEMMA AssignShardStep == ASSUME Inv, ~Exited, NEW t \in Threads, AssignShard(t) PROVE Inv'
<1>1. /\ shard[t] = Unassigned
      /\ UNCHANGED <<lines, pending, step, writing, at, batch, written, accepted, due>>
      /\ nextShard' = nextShard + 1 /\ shard' = [shard EXCEPT ![t] = nextShard % NumShards]
  BY DEF AssignShard, flushVars
<1>2. shard' \in [Threads -> Shards \cup {Unassigned}] /\ nextShard' \in Nat
      /\ \A u \in Threads : shard'[u] = shard[u] \/ u = t
  <2>1. nextShard \in Nat /\ NumShards \in Nat \ {0}
    BY SizesAssumption DEF Inv, Types
  <2>2. nextShard % NumShards \in 0..(NumShards - 1)
    BY <2>1
  <2>3. nextShard % NumShards \in Shards \cup {Unassigned} /\ nextShard + 1 \in Nat
    BY <2>1, <2>2 DEF Shards
  <2> QED
    BY <1>1, <2>3 DEF Inv, Types
<1>3. Types'
  BY <1>1, <1>2 DEF Inv, Types
<1>4. Unassigned \notin Shards /\ \A f \in Flushers : at[f] # Unassigned
  BY UnassignedAssumption DEF Inv, Types, Shards
<1>14. ASSUME NEW q \in Seq(Line), NEW s, s # Unassigned, AllOf(q, s)
       PROVE  AllOf(q, s)'
  <2> SUFFICES ASSUME NEW i \in 1..Len(q) PROVE shard'[q[i].by] = s
    BY DEF AllOf
  <2>0. q[i] \in Line
    OBVIOUS
  <2>1. q[i].by \in Threads /\ shard[q[i].by] = s
    BY <1>14, <2>0 DEF AllOf, Line
  <2> QED
    BY <1>1, <1>2, <1>14, <2>1
<1>5. \A s \in Shards : AllOf(pending[s], s)'
  <2> TAKE s \in Shards
  <2>1. pending[s] \in Seq(Line) /\ s # Unassigned /\ AllOf(pending[s], s)
    BY <1>4 DEF Inv, Types, Sharded
  <2> QED
    BY <1>1, <1>14, <2>1 DEF AllOf
<1>6. \A f \in Flushers : AllOf(batch[f], at[f])'
  <2> TAKE f \in Flushers
  <2>1. batch[f] \in Seq(Line) /\ at[f] # Unassigned /\ AllOf(batch[f], at[f])
    BY <1>4 DEF Inv, Types, Sharded
  <2> QED
    BY <1>1, <1>14, <2>1 DEF AllOf
<1>7. \A i \in 1..Len(written) : shard'[written[i].by] = shard[written[i].by]
  BY <1>1, <1>2, <1>4 DEF Inv, Types, Line, Sharded
<1>8. Sharded'
  BY <1>1, <1>5, <1>6, <1>7 DEF Inv, Sharded
<1>9. \A s \in Shards : Of(s, written)' = Of(s, written)
  <2> TAKE s \in Shards
  <2>1. Sel(shard, s, written) = Sel(shard', s, written)
    BY <1>7, SelSame DEF Inv, Types
  <2> QED
    BY <1>1, <2>1, OfIs, OfIsThen
<1>10. \A s \in Shards : InHand(s)' = InHand(s)
  BY <1>1 DEF InHand
<1>11. Holding' /\ Order' /\ PendingBound'
  BY <1>1 DEF Inv, Holding, Order, PendingBound, Numbered, Ordered, Before
<1>12. Kept'
  BY <1>1, <1>9, <1>10 DEF Inv, Kept, Broken, Exited
<1>13. DueOut'
  <2>1. Broken' <=> Broken
    BY <1>1 DEF Broken
  <2>2. \A s \in Shards : Begins(due'[s], accepted'[s])
    BY <1>1 DEF Inv, DueOut
  <2> QED
    BY <1>1, <1>9, <2>1, <2>2, DueStays DEF Inv
<1> QED
  BY <1>3, <1>8, <1>11, <1>12, <1>13 DEF Inv

LEMMA OfType ==
  ASSUME Types, NEW s
  PROVE  Of(s, written) \in Seq(Line)
BY OfIs, SelType DEF Types

LEMMA HandType ==
  ASSUME Types, Holding, NEW s
  PROVE  InHand(s) \in Seq(Line)
<1>1. CASE \E f \in Flushers : step[f] = "write" /\ at[f] = s
  BY <1>1, Hand DEF Types
<1>2. CASE \A f \in Flushers : step[f] = "write" => at[f] # s
  <2>1. InHand(s) = <<>>
    BY <1>2, Hand
  <2> QED
    BY <2>1
<1> QED
  BY <1>1, <1>2

\* The length of lines is a number.
LEMMA BytesType ==
  ASSUME NEW q \in Seq(Line)
  PROVE  Bytes(q) \in Int
<1>1. PICK g : /\ Bytes(q) = g[Len(q)] /\ g[0] = 0
               /\ \A i \in 1..Len(q) : g[i] = g[i - 1] + q[i].len
  BY BytesDef
<1> DEFINE T == {i \in Nat : i <= Len(q) => g[i] \in Int}
<1>2. 0 \in T
  BY <1>1
<1>3. \A i \in T : i + 1 \in T
  <2> SUFFICES ASSUME NEW i \in T, i + 1 <= Len(q) PROVE g[i + 1] \in Int
    OBVIOUS
  <2>1. g[i] \in Int /\ i + 1 \in 1..Len(q) /\ (i + 1) - 1 = i
    OBVIOUS
  <2>2. q[i + 1] \in Line
    BY <2>1
  <2>3. q[i + 1].len \in Int
    <3>1. q[i + 1].len \in Lengths
      BY <2>2 DEF Line
    <3>2. \A x \in Lengths : x \in Int
      BY SizesAssumption
    <3> QED
      BY <3>1, <3>2
  <2> QED
    BY <1>1, <2>1, <2>3
<1>4. T = Nat
  BY <1>2, <1>3, Induct
<1>5. Len(q) \in Nat
  OBVIOUS
<1> QED
  BY <1>1, <1>4, <1>5

\* A thread logs a line: it comes after all its lines, and is dropped or accepted.
LEMMA AppendLineStep ==
  ASSUME Inv, ~Exited, NEW t \in Threads, NEW len \in Lengths, AppendLine(t, len)
  PROVE  Inv'
<1>1. PICK s \in Shards : s = shard[t]
  BY DEF AppendLine, Inv, Types
<1>2. PICK l \in Line : l = [by |-> t, number |-> lines[t] + 1, len |-> len]
  <2>1. lines[t] + 1 \in Nat
    BY DEF Inv, Types
  <2>2. [by |-> t, number |-> lines[t] + 1, len |-> len] \in Line
    BY <2>1 DEF Line
  <2> QED
    BY <2>2
<1>3. PICK q \in Seq(Line) : q = pending[s]
  BY DEF Inv, Types
<1>4. /\ UNCHANGED <<shard, nextShard, step, writing, at, batch, written, due>>
      /\ lines' = [lines EXCEPT ![t] = @ + 1]
      /\ \/ UNCHANGED <<pending, accepted>>
         \/ /\ ~(Bytes(q) >= PendingMax)
            /\ pending' = [pending EXCEPT ![s] = Append(q, l)]
            /\ accepted' = [accepted EXCEPT ![s] = Append(@, l)]
  BY <1>1, <1>2, <1>3 DEF AppendLine, flushVars
<1>5. /\ lines \in [Threads -> Nat] /\ lines' \in [Threads -> Nat]
      /\ \A u \in Threads : lines'[u] >= lines[u]
      /\ l.number = lines[t] + 1 /\ l.number = lines'[t] /\ l.by = t
  BY <1>2, <1>4 DEF Inv, Types
<1>6. \A p \in Seq(Line) : Numbered(p) => Numbered(p)'
  <2> SUFFICES ASSUME NEW p \in Seq(Line), Numbered(p), NEW i \in 1..Len(p)
               PROVE  p[i].number <= lines'[p[i].by]
    BY DEF Numbered
  <2>1. p[i] \in Line /\ p[i].number <= lines[p[i].by]
    BY DEF Numbered
  <2>2. p[i].by \in Threads /\ p[i].number \in Nat
    BY <2>1 DEF Line
  <2>3. lines[p[i].by] \in Nat /\ lines'[p[i].by] \in Nat /\ lines'[p[i].by] >= lines[p[i].by]
    BY <1>5, <2>2
  <2> QED
    BY <2>1, <2>2, <2>3
<1>7. Holding'
  BY <1>4 DEF Inv, Holding
<1>8. \A u \in Shards : Of(u, written)' = Of(u, written) /\ InHand(u)' = InHand(u)
  BY <1>4, OfIs, OfIsThen DEF InHand
<1>9. CASE UNCHANGED <<pending, accepted>>
  <2>1. Types'
    BY <1>4, <1>5, <1>9 DEF Inv, Types
  <2>2. Sharded' /\ PendingBound'
    BY <1>4, <1>9 DEF Inv, Sharded, PendingBound, AllOf
  <2>3. Order'
    <3>1. Ordered(written)' /\ Numbered(written)'
      BY <1>4, <1>6 DEF Inv, Types, Order, Ordered
    <3>2. \A f \in Flushers : (Ordered(batch[f]) /\ Numbered(batch[f]) /\ Before(written, batch[f]))'
      BY <1>4, <1>6 DEF Inv, Types, Order, Ordered, Before
    <3>3. \A u \in Shards : (Ordered(pending[u]) /\ Before(written, pending[u]))'
      BY <1>4, <1>9 DEF Inv, Order, Ordered, Before
    <3>4. \A u \in Shards : Numbered(pending[u])'
      BY <1>6, <1>9 DEF Inv, Types, Order, Numbered
    <3>5. \A f \in Flushers, u \in Shards : Before(batch[f], pending[u])'
      BY <1>4, <1>9 DEF Inv, Order, Before
    <3> QED
      BY <3>1, <3>2, <3>3, <3>4, <3>5 DEF Order
  <2>4. Kept'
    BY <1>4, <1>8, <1>9 DEF Inv, Kept, Broken, Exited
  <2>5. DueOut'
    <3>1. UNCHANGED <<step, at, due, batch, accepted>> /\ (Broken' <=> Broken)
      BY <1>4, <1>9 DEF Broken
    <3>2. \A u \in Shards : Begins(due'[u], accepted'[u])
      BY <3>1 DEF Inv, DueOut
    <3> QED
      BY <1>8, <3>1, <3>2, DueStays DEF Inv
  <2> QED
    BY <1>7, <2>1, <2>2, <2>3, <2>4, <2>5 DEF Inv
<1>10. CASE /\ ~(Bytes(q) >= PendingMax)
            /\ pending' = [pending EXCEPT ![s] = Append(q, l)]
            /\ accepted' = [accepted EXCEPT ![s] = Append(@, l)]
  <2> DEFINE r == Append(q, l)
  <2>1. /\ r \in Seq(Line) /\ Len(r) = Len(q) + 1 /\ Len(q) \in Nat /\ r[Len(q) + 1] = l
        /\ \A i \in 1..Len(r) : \/ i \in 1..Len(q) /\ r[i] = q[i]
                                \/ i = Len(q) + 1 /\ r[i] = l
        /\ r # <<>>
    BY LongerIs
  <2>2. /\ pending'[s] = r /\ \A u \in Shards : u # s => pending'[u] = pending[u]
        /\ pending' \in [Shards -> Seq(Line)]
    BY <1>10, <2>1 DEF Inv, Types
  <2>3. Bytes(r) = Bytes(q) + l.len
    BY BytesAppend
  <2> HIDE DEF r
  <2>4. /\ accepted'[s] = Append(accepted[s], l) /\ accepted' \in [Shards -> Seq(Line)]
        /\ \A u \in Shards : u # s => accepted'[u] = accepted[u]
    BY <1>10, LongerIs DEF Inv, Types
  <2>5. Types'
    BY <1>4, <1>5, <2>2, <2>4 DEF Inv, Types
  <2>6. Sharded'
    <3>0. AllOf(q, s)
      BY <1>3 DEF Inv, Sharded
    <3>1. AllOf(r, s)
      BY <1>1, <1>5, <2>1, <3>0 DEF AllOf
    <3> QED
      BY <1>4, <2>2, <3>1 DEF Inv, Sharded, AllOf
  <2>7. ASSUME NEW p \in Seq(Line), Numbered(p), Before(p, q) PROVE Before(p, r)
    <3> SUFFICES ASSUME NEW i \in 1..Len(p), NEW j \in 1..Len(r), p[i].by = r[j].by
                 PROVE  p[i].number < r[j].number
      BY DEF Before
    <3>1. CASE j \in 1..Len(q) /\ r[j] = q[j]
      BY <2>7, <3>1 DEF Before
    <3>2. CASE r[j] = l
      <4>0. p[i] \in Line /\ p[i].by = t
        BY <1>5, <3>2
      <4>1. p[i] \in Line /\ p[i].by = t /\ p[i].number <= lines[t]
        BY <2>7, <4>0 DEF Numbered
      <4>2. p[i].number \in Nat /\ lines[t] \in Nat /\ r[j].number = lines[t] + 1
        BY <1>5, <3>2, <4>1 DEF Line
      <4> QED
        BY <4>1, <4>2
    <3> QED
      BY <2>1, <3>1, <3>2
  <2>8. Ordered(r)
    <3> SUFFICES ASSUME NEW i \in 1..Len(r), NEW j \in 1..Len(r), i < j, r[i].by = r[j].by
                 PROVE  r[i].number < r[j].number
      BY DEF Ordered
    <3>1. i \in 1..Len(q) /\ r[i] = q[i]
      BY <2>1
    <3>2. Ordered(q) /\ Numbered(q)
      BY <1>3 DEF Inv, Order
    <3>3. CASE j \in 1..Len(q) /\ r[j] = q[j]
      BY <3>1, <3>2, <3>3 DEF Ordered
    <3>4. CASE r[j] = l
      <4>1. q[i] \in Line /\ q[i].by = t /\ q[i].number <= lines[t]
        BY <1>5, <3>1, <3>2, <3>4 DEF Numbered
      <4>2. q[i].number \in Nat /\ lines[t] \in Nat /\ r[j].number = lines[t] + 1
        BY <1>5, <3>4, <4>1 DEF Line
      <4> QED
        BY <3>1, <4>1, <4>2
    <3> QED
      BY <2>1, <3>3, <3>4
  <2>9. Numbered(r)'
    <3> SUFFICES ASSUME NEW i \in 1..Len(r) PROVE r[i].number <= lines'[r[i].by]
      BY DEF Numbered
    <3>1. CASE i \in 1..Len(q) /\ r[i] = q[i]
      <4>1. Numbered(q)'
        BY <1>3, <1>6 DEF Inv, Order
      <4> QED
        BY <3>1, <4>1 DEF Numbered
    <3>2. CASE r[i] = l
      BY <1>5, <3>2
    <3> QED
      BY <2>1, <3>1, <3>2
  <2>10. Order'
    <3>1. Before(written, r) /\ \A f \in Flushers : Before(batch[f], r)
      BY <1>3, <2>7 DEF Inv, Types, Order
    <3>2. Ordered(written)' /\ Numbered(written)'
      BY <1>4, <1>6 DEF Inv, Types, Order, Ordered
    <3>3. \A f \in Flushers : (Ordered(batch[f]) /\ Numbered(batch[f]) /\ Before(written, batch[f]))'
      BY <1>4, <1>6 DEF Inv, Types, Order, Ordered, Before
    <3>4. ASSUME NEW u \in Shards
          PROVE  /\ Ordered(pending'[u]) /\ Numbered(pending[u])' /\ Before(written, pending'[u])
                 /\ \A f \in Flushers : Before(batch[f], pending'[u])
      <4>1. CASE u = s
        <5>1. Numbered(pending[u])'
          BY <2>2, <2>9, <4>1 DEF Numbered
        <5> QED
          BY <2>2, <2>8, <3>1, <4>1, <5>1
      <4>2. CASE u # s
        <5>1. pending'[u] = pending[u] /\ pending[u] \in Seq(Line)
          BY <2>2, <4>2 DEF Inv, Types
        <5>2. Numbered(pending[u])'
          <6>1. \A p \in Seq(Line) : Numbered(p) => \A i \in 1..Len(p) : p[i].number <= lines'[p[i].by]
            BY <1>6 DEF Numbered
          <6>2. Numbered(pending[u])
            BY DEF Inv, Order
          <6> QED
            BY <5>1, <6>1, <6>2 DEF Numbered
        <5> QED
          BY <5>1, <5>2 DEF Inv, Order
      <4> QED
        BY <4>1, <4>2
    <3>5. \A u \in Shards :
            /\ Ordered(pending[u])' /\ Numbered(pending[u])' /\ Before(written, pending[u])'
            /\ \A f \in Flushers : Before(batch[f], pending[u])'
      BY <1>4, <3>4 DEF Ordered, Before
    <3> QED
      BY <3>2, <3>3, <3>5 DEF Order
  <2>11. PendingBound'
    <3> SUFFICES ASSUME NEW u \in Shards, pending'[u] # <<>>
                 PROVE  Bytes(pending'[u]) < PendingMax + pending'[u][Len(pending'[u])].len
      BY DEF PendingBound
    <3>1. CASE u # s
      BY <2>2, <3>1 DEF Inv, PendingBound
    <3>2. CASE u = s
      <4>1. Bytes(q) \in Int
        BY BytesType
      <4>2. l.len \in Nat /\ PendingMax \in Nat
        BY <1>2, SizesAssumption
      <4>3. Bytes(r) < PendingMax + l.len
        BY <1>10, <2>3, <4>1, <4>2
      <4> QED
        BY <2>1, <2>2, <3>2, <4>3
    <3> QED
      BY <3>1, <3>2
  <2>12. Kept'
    <3> SUFFICES ASSUME ~Broken, NEW u \in Shards
                 PROVE  Of(u, written) \o InHand(u) \o pending'[u] = accepted'[u]
      BY <1>4, <1>8 DEF Kept, Broken, Exited
    <3>1. Of(u, written) \o InHand(u) \o pending[u] = accepted[u]
      BY DEF Inv, Kept
    <3>2. Of(u, written) \in Seq(Line) /\ InHand(u) \in Seq(Line)
      BY OfType, HandType DEF Inv
    <3>3. \A x \in Seq(Line) : x \o Append(q, l) = Append(x \o q, l)
      BY AppendAfter
    <3>4. CASE u = s
      <4>1. Of(s, written) \o InHand(s) \in Seq(Line)
        BY <3>2, <3>4
      <4>2. (Of(s, written) \o InHand(s)) \o Append(q, l) = Append((Of(s, written) \o InHand(s)) \o q, l)
        BY <3>3, <4>1
      <4> QED
        BY <1>3, <2>2, <2>4, <3>1, <3>4, <4>2 DEF r
    <3>5. CASE u # s
      BY <2>2, <2>4, <3>1, <3>5
    <3> QED
      BY <3>4, <3>5
  <2>13. DueOut'
    <3>1. ASSUME NEW u \in Shards PROVE Begins(due[u], accepted'[u])
      <4>1. Begins(due[u], accepted[u]) /\ due[u] \in Seq(Line) /\ accepted[u] \in Seq(Line)
        BY DEF Inv, DueOut, Types
      <4>2. /\ Len(accepted[u]) <= Len(accepted'[u])
            /\ \A i \in 1..Len(accepted[u]) : accepted'[u][i] = accepted[u][i]
        <5>1. CASE u = s
          <6>1. \A i \in 1..Len(accepted[u]) : Append(accepted[u], l)[i] = accepted[u][i]
            BY <4>1
          <6>2. Len(Append(accepted[u], l)) = Len(accepted[u]) + 1 /\ Len(accepted[u]) \in Nat
            BY <4>1
          <6>3. accepted'[u] = Append(accepted[u], l)
            BY <2>4, <5>1
          <6>4. \A i \in 1..Len(accepted[u]) : accepted'[u][i] = accepted[u][i]
            BY <6>1, <6>3
          <6>5. Len(accepted[u]) <= Len(accepted'[u])
            BY <6>2, <6>3
          <6> QED
            BY <6>4, <6>5
        <5>2. CASE u # s
          BY <2>4, <4>1, <5>2
        <5> QED
          BY <5>1, <5>2
      <4>3. Len(due[u]) \in Nat /\ Len(accepted[u]) \in Nat /\ Len(accepted'[u]) \in Nat
        BY <2>4, <4>1
      <4> QED
        BY <4>1, <4>2, <4>3 DEF Begins
    <3>2. \A u \in Shards : Begins(due'[u], accepted'[u])
      BY <1>4, <3>1
    <3>3. UNCHANGED <<step, at, due, batch>> /\ (Broken' <=> Broken)
      BY <1>4 DEF Broken
    <3> QED
      BY <1>8, <3>2, <3>3, DueStays DEF Inv
  <2> QED
    BY <1>7, <2>5, <2>6, <2>10, <2>11, <2>12, <2>13 DEF Inv
<1> QED
  BY <1>4, <1>9, <1>10

\* Of the flushes, only the one that holds the lock walks over the shards.
LEMMA Alone ==
  ASSUME Inv, NEW f \in Flushers, step[f] \in {"take", "write"}
  PROVE  /\ \A g \in Flushers : g # f => step[g] \notin {"take", "write"} /\ batch[g] = <<>> /\ at[g] = 0
         /\ \A s \in Shards : step[f] = "take" \/ at[f] # s => InHand(s) = <<>>
         /\ \A s \in Shards : step[f] = "write" /\ at[f] = s => InHand(s) = batch[f]
<1>1. \A g \in Flushers : g # f => step[g] \notin {"take", "write"} /\ batch[g] = <<>> /\ at[g] = 0
  BY DEF Inv, Holding
<1>2. \A s \in Shards : step[f] = "take" \/ at[f] # s => InHand(s) = <<>>
  BY <1>1, Hand DEF Inv
<1>3. \A s \in Shards : step[f] = "write" /\ at[f] = s => InHand(s) = batch[f]
  BY Hand DEF Inv
<1> QED
  BY <1>1, <1>2, <1>3

LEMMA TakeStep == ASSUME Inv, ~Exited, NEW f \in Flushers, Take(f) PROVE Inv'
<1>1. /\ step[f] = "take" /\ at[f] \in Shards
      /\ UNCHANGED <<shard, nextShard, lines, writing, written, accepted, due>>
      /\ batch' = [batch EXCEPT ![f] = pending[at[f]]]
      /\ pending' = [pending EXCEPT ![at[f]] = <<>>]
  BY DEF Take, threadVars
<1>2. PICK s \in Shards : s = at[f]
  BY <1>1
<1>3. /\ batch[f] = <<>> /\ batch'[f] = pending[s] /\ \A g \in Flushers : g # f => batch'[g] = batch[g]
      /\ pending'[s] = <<>> /\ \A u \in Shards : u # s => pending'[u] = pending[u]
      /\ batch' \in [Flushers -> Seq(Line)] /\ pending' \in [Shards -> Seq(Line)]
  BY <1>1, <1>2 DEF Inv, Types, Holding
<1>4. s \in Nat /\ s + 1 \in 0..NumShards /\ Main \in Flushers /\ Writer \in Flushers
  BY <1>2, SizesAssumption DEF Shards, Flushers, Writer, Main
<1>5. PendingBound'
  BY <1>3 DEF Inv, PendingBound
<1>6. /\ \A g \in Flushers : g # f => step[g] \notin {"take", "write"} /\ batch[g] = <<>> /\ at[g] = 0
      /\ \A u \in Shards : InHand(u) = <<>>
  BY <1>1, Alone
<1>7. \A u \in Shards : Of(u, written)' = Of(u, written) /\ Of(u, written) \in Seq(Line)
  BY <1>1, OfIs, OfIsThen, OfType DEF Inv
<1>8. ~Broken => \A u \in Shards : Of(u, written) \o pending[u] = accepted[u]
  <2> SUFFICES ASSUME ~Broken, NEW u \in Shards PROVE Of(u, written) \o pending[u] = accepted[u]
    OBVIOUS
  <2>1. Of(u, written) \o InHand(u) \o pending[u] = accepted[u]
    BY DEF Inv, Kept
  <2>2. Of(u, written) \o <<>> = Of(u, written)
    BY <1>7, ConcatEmptySeq
  <2> QED
    BY <1>6, <2>1, <2>2
<1>9. Order'
  <2>1. /\ \A g \in Flushers : Ordered(batch'[g]) /\ Numbered(batch'[g]) /\ Before(written, batch'[g])
        /\ \A u \in Shards : Ordered(pending'[u]) /\ Numbered(pending'[u]) /\ Before(written, pending'[u])
    <3>1. Ordered(<<>>) /\ Numbered(<<>>) /\ Before(written, <<>>)
      BY DEF Ordered, Numbered, Before
    <3> QED
      BY <1>3, <3>1 DEF Inv, Order
  <2>2. ASSUME NEW g \in Flushers, NEW u \in Shards PROVE Before(batch'[g], pending'[u])
    <3>1. CASE g # f
      <4>1. batch'[g] = <<>>
        BY <1>3, <1>6, <3>1
      <4> QED
        BY <4>1 DEF Before
    <3>2. CASE u = s
      BY <1>3, <3>2 DEF Before
    <3>3. CASE g = f /\ u # s
      <4>1. batch'[g] = pending[s] /\ pending'[u] = pending[u]
        BY <1>3, <3>3
      <4>2. AllOf(pending[s], s) /\ AllOf(pending[u], u)
        BY DEF Inv, Sharded
      <4> QED
        BY <3>3, <4>1, <4>2 DEF Before, AllOf
    <3> QED
      BY <3>1, <3>2, <3>3
  <2> QED
    BY <1>1, <2>1, <2>2 DEF Inv, Order, Ordered, Before, Numbered
<1>10. CASE pending[s] # <<>>
  <2>1. step' = [step EXCEPT ![f] = "write"] /\ at' = at
    BY <1>2, <1>10 DEF Take
  <2>2. /\ step'[f] = "write" /\ \A g \in Flushers : g # f => step'[g] = step[g]
        /\ step' = [g \in Flushers |-> step'[g]]
    BY <2>1, StepTypes DEF Inv
  <2>3. Types'
    BY <1>1, <1>3, <2>1, <2>2 DEF Inv, Types
  <2>4. Holding'
    BY <1>1, <1>3, <2>1, <2>2 DEF Inv, Holding
  <2>5. Sharded'
    <3>1. ASSUME NEW u \in Shards PROVE AllOf(pending'[u], u)
      <4>1. AllOf(<<>>, u) /\ AllOf(pending[u], u)
        BY DEF Inv, Sharded, AllOf
      <4> QED
        BY <1>3, <4>1
    <3>2. \A g \in Flushers : AllOf(batch'[g], at[g])
      BY <1>2, <1>3 DEF Inv, Sharded
    <3> QED
      BY <1>1, <2>1, <3>1, <3>2 DEF Inv, Sharded, AllOf
  <2>6. Broken' <=> Broken
    BY <1>1, <1>4, <2>2 DEF Broken
  <2>7. \A u \in Shards : InHand(u)' = IF u = s THEN pending[s] ELSE <<>>
    <3> TAKE u \in Shards
    <3>1. CASE u = s
      BY <1>2, <1>3, <2>1, <2>2, <2>4, <3>1, HandThen
    <3>2. CASE u # s
      <4>1. \A g \in Flushers : step'[g] = "write" => at'[g] # u
        BY <1>2, <1>6, <2>1, <2>2, <3>2
      <4> QED
        BY <2>4, <3>2, <4>1, HandThen
    <3> QED
      BY <3>1, <3>2
  <2>8. Kept'
    <3> SUFFICES ASSUME ~Broken, NEW u \in Shards
                 PROVE  Of(u, written) \o InHand(u)' \o pending'[u] = accepted[u]
      BY <1>1, <1>7, <2>6 DEF Kept
    <3>1. Of(u, written) \o pending[u] = accepted[u] /\ Of(u, written) \o pending[u] \in Seq(Line)
      BY <1>7, <1>8 DEF Inv, Types
    <3>2. Of(u, written) \o <<>> = Of(u, written) /\ (Of(u, written) \o pending[u]) \o <<>> = accepted[u]
      BY <1>7, <3>1, ConcatEmptySeq
    <3> QED
      BY <1>3, <2>7, <3>1, <3>2
  <2>9. DueOut'
    <3>1. \A u \in Shards : Begins(due[u], accepted[u])'
      BY <1>1 DEF Inv, DueOut, Begins
    <3>2. CASE f = Main
      <4> SUFFICES ASSUME ~Broken, NEW u \in Shards
                   PROVE  /\ u < at[Main] => Begins(due[u], Of(u, written))
                          /\ u = at[Main] => Begins(due[u], Of(u, written) \o batch'[Main])
        <5>1. step'[Main] = "write" /\ at' = at /\ (Broken' <=> Broken)
          BY <1>1, <2>1, <2>2, <2>6, <3>2
        <5>2. \A u \in Shards : Begins(due[u], Of(u, written))' <=> Begins(due[u], Of(u, written))
          BY <1>1, <1>7 DEF Begins
        <5>3. \A u \in Shards : (Of(u, written) \o batch[Main])' = Of(u, written) \o batch'[Main]
          BY <1>7
        <5>4. \A u \in Shards : Begins(due[u], Of(u, written) \o batch[Main])'
                                <=> Begins(due[u], Of(u, written) \o batch'[Main])
          BY <1>1, <5>3 DEF Begins
        <5> QED
          BY <3>1, <5>1, <5>2, <5>4 DEF DueOut
      <4>1. u < at[Main] => Begins(due[u], Of(u, written))
        BY <1>1, <3>2 DEF Inv, DueOut
      <4>2. u = at[Main] => Begins(due[u], Of(u, written) \o batch'[Main])
        BY <1>2, <1>3, <1>8, <3>2 DEF Inv, DueOut
      <4> QED
        BY <4>1, <4>2
    <3>3. CASE f # Main
      <4>1. step'[Main] = step[Main] /\ step[Main] \notin {"take", "write", "exited"}
        BY <1>4, <1>6, <2>2, <3>3 DEF Exited
      <4> QED
        BY <3>1, <4>1 DEF DueOut
    <3> QED
      BY <3>2, <3>3
  <2> QED
    BY <1>5, <1>9, <2>3, <2>4, <2>5, <2>8, <2>9 DEF Inv
<1>11. CASE pending[s] = <<>>
  <2>1. step' = step /\ at' = [at EXCEPT ![f] = @ + 1]
    BY <1>2, <1>11 DEF Take
  <2>2. at'[f] = s + 1 /\ (\A g \in Flushers : g # f => at'[g] = at[g]) /\ at' \in [Flushers -> 0..NumShards]
    BY <1>2, <1>4, <2>1 DEF Inv, Types
  <2>3. Types'
    BY <1>1, <1>3, <2>1, <2>2 DEF Inv, Types
  <2>4. Holding'
    BY <1>1, <1>3, <1>11, <2>1, <2>2 DEF Inv, Holding
  <2>5. Sharded'
    <3>1. ASSUME NEW u \in Shards PROVE AllOf(pending'[u], u)
      <4>1. AllOf(<<>>, u) /\ AllOf(pending[u], u)
        BY DEF Inv, Sharded, AllOf
      <4> QED
        BY <1>3, <4>1
    <3>2. \A g \in Flushers : AllOf(batch'[g], at'[g])
      <4>1. \A x : AllOf(<<>>, x)
        BY DEF AllOf
      <4>2. \A g \in Flushers : batch'[g] = <<>>
        BY <1>3, <1>6, <1>11
      <4> QED
        BY <4>1, <4>2
    <3> QED
      BY <1>1, <3>1, <3>2 DEF Inv, Sharded, AllOf
  <2>6. Broken' <=> Broken
    BY <2>1 DEF Broken
  <2>7. \A u \in Shards : InHand(u)' = <<>>
    BY <1>1, <1>6, <2>1, <2>4, HandThen
  <2>8. Kept'
    <3> SUFFICES ASSUME ~Broken, NEW u \in Shards
                 PROVE  Of(u, written) \o <<>> \o pending'[u] = accepted[u]
      BY <1>1, <1>7, <2>6, <2>7 DEF Kept
    <3>1. pending'[u] = pending[u]
      BY <1>3, <1>11
    <3> QED
      BY <1>7, <1>8, <3>1, ConcatEmptySeq
  <2>9. DueOut'
    <3>1. \A u \in Shards : Begins(due[u], accepted[u])'
      BY <1>1 DEF Inv, DueOut, Begins
    <3>2. CASE f = Main
      <4> SUFFICES ASSUME ~Broken, NEW u \in Shards, u < s + 1
                   PROVE  Begins(due[u], Of(u, written))
        BY <1>1, <1>7, <2>1, <2>2, <2>6, <3>1, <3>2 DEF DueOut, Begins
      <4>1. CASE u < s
        BY <1>1, <1>2, <3>2, <4>1 DEF Inv, DueOut
      <4>2. CASE u = s
        <5>1. Of(u, written) = accepted[u]
          BY <1>7, <1>8, <1>11, <4>2, ConcatEmptySeq
        <5> QED
          BY <5>1 DEF Inv, DueOut
      <4> QED
        BY <1>4, <4>1, <4>2 DEF Shards
    <3>3. CASE f # Main
      <4>1. step'[Main] = step[Main] /\ step[Main] \notin {"take", "write", "exited"}
        BY <1>4, <1>6, <2>1, <3>3 DEF Exited
      <4> QED
        BY <3>1, <4>1 DEF DueOut
    <3> QED
      BY <3>2, <3>3
  <2> QED
    BY <1>5, <1>9, <2>3, <2>4, <2>5, <2>8, <2>9 DEF Inv
<1> QED
  BY <1>10, <1>11

\* Lines of one shard that come after what was written.
LEMMA SelShard ==
  ASSUME written \in Seq(Line), NEW p \in Seq(Line), NEW k, AllOf(p, k), NEW s
  PROVE  Sel(shard, s, written \o p) = IF s = k THEN Sel(shard, s, written) \o p
                                               ELSE Sel(shard, s, written)
<1>1. PICK h : h = shard
  OBVIOUS
<1>2. AllWith(h, p, k)
  BY <1>1 DEF AllOf, AllWith
<1>3. PICK w \in Seq(Line) : w = written
  OBVIOUS
<1>4. PICK x : x = w \o p
  OBVIOUS
<1>5. Sel(h, s, x) = IF s = k THEN Sel(h, s, w) \o p ELSE Sel(h, s, w)
  BY <1>2, <1>4, SelJoin
<1> QED
  BY <1>1, <1>3, <1>4, <1>5

\* What is in hand, or the beginning of it, goes out: it comes after what is out and before what is
\* pending.
LEMMA PutOut ==
  ASSUME Inv, NEW f \in Flushers, step[f] = "write", NEW n \in 0..Len(batch[f]),
         NEW p, p = SubSeq(batch[f], 1, n)
  PROVE  /\ p \in Seq(Line) /\ written \o p \in Seq(Line)
         /\ AllOf(p, at[f]) /\ at[f] \in Shards
         /\ \A i \in 1..Len(written \o p) : shard[(written \o p)[i].by] \in Shards
         /\ Ordered(written \o p) /\ Numbered(written \o p)
         /\ \A s \in Shards : Before(written \o p, pending[s])
         /\ \A s \in Shards :
              Sel(shard, s, written \o p) = IF s = at[f] THEN Of(s, written) \o p ELSE Of(s, written)
<1>1. /\ batch[f] \in Seq(Line) /\ written \in Seq(Line) /\ at[f] \in Shards
      /\ AllOf(batch[f], at[f])
  BY DEF Inv, Types, Holding, Sharded
<1>2. p \in Seq(Line) /\ Len(p) = n /\ \A i \in 1..n : i \in 1..Len(batch[f]) /\ p[i] = batch[f][i]
  BY <1>1, PrefixIs
<1>3. Ordered(batch[f]) /\ Numbered(batch[f]) /\ Before(written, batch[f])
      /\ Ordered(written) /\ Numbered(written)
  BY DEF Inv, Order
<1>4. AllOf(p, at[f])
  BY <1>1, <1>2 DEF AllOf
<1>5. Ordered(p) /\ Numbered(p) /\ Before(written, p) /\ \A s \in Shards : Before(p, pending[s])
  <2>1. Numbered(p)
    BY <1>2, <1>3 DEF Numbered
  <2>2. Before(written, p)
    BY <1>2, <1>3 DEF Before
  <2>3. \A s \in Shards : Before(p, pending[s])
    BY <1>2 DEF Inv, Order, Before
  <2>4. Ordered(p)
    BY <1>2, <1>3 DEF Ordered
  <2> QED
    BY <2>1, <2>2, <2>3, <2>4
<1>6. /\ written \o p \in Seq(Line) /\ Len(written \o p) = Len(written) + Len(p)
      /\ \A i \in 1..Len(written) + Len(p) :
           (written \o p)[i] = IF i <= Len(written) THEN written[i] ELSE p[i - Len(written)]
  BY <1>1, <1>2, ConcatProperties
<1>7. \A i \in 1..Len(written \o p) :
        \/ \E j \in 1..Len(written) : (written \o p)[i] = written[j]
        \/ \E j \in 1..Len(p) : (written \o p)[i] = p[j]
  <2> TAKE i \in 1..Len(written \o p)
  <2>1. Len(written) \in Nat /\ Len(p) \in Nat
    BY <1>1, <1>2
  <2>2. CASE i <= Len(written)
    <3>1. i \in 1..Len(written) /\ (written \o p)[i] = written[i]
      BY <1>6, <2>1, <2>2
    <3> QED
      BY <3>1
  <2>3. CASE i > Len(written)
    <3>1. i - Len(written) \in 1..Len(p) /\ (written \o p)[i] = p[i - Len(written)]
      BY <1>6, <2>1, <2>3
    <3> QED
      BY <3>1
  <2> QED
    BY <1>6, <2>1, <2>2, <2>3
<1>8. \A i \in 1..Len(written \o p) : shard[(written \o p)[i].by] \in Shards
  BY <1>1, <1>4, <1>7 DEF Inv, Sharded, AllOf
<1>9. Numbered(written \o p)
  BY <1>3, <1>5, <1>7 DEF Numbered
<1>10. Ordered(written \o p) /\ \A s \in Shards : Before(written \o p, pending[s])
  BY <1>1, <1>2, <1>3, <1>5, JoinOrder DEF Inv, Order
<1>11. ASSUME NEW s \in Shards
       PROVE  Sel(shard, s, written \o p) = IF s = at[f] THEN Of(s, written) \o p ELSE Of(s, written)
  <2>1. Sel(shard, s, written) \in Seq(Line) /\ Sel(shard, s, written) = Of(s, written)
    BY <1>1, SelType, OfIs
  <2>2. \A i \in 1..Len(p) : shard[p[i].by] = at[f]
    BY <1>4 DEF AllOf
  <2>3. Sel(shard, s, written \o p) = IF s = at[f] THEN Sel(shard, s, written) \o p
                                                   ELSE Sel(shard, s, written)
    BY <1>1, <1>2, <1>4, SelShard
  <2> QED
    BY <2>1, <2>3
<1> QED
  BY <1>1, <1>2, <1>4, <1>6, <1>8, <1>9, <1>10, <1>11

LEMMA WriteStep == ASSUME Inv, ~Exited, NEW f \in Flushers, Write(f) PROVE Inv'
<1>1. /\ step[f] = "write" /\ written' = written \o batch[f]
      /\ UNCHANGED <<shard, nextShard, lines, pending, writing, accepted, due>>
      /\ batch' = [batch EXCEPT ![f] = <<>>] /\ at' = [at EXCEPT ![f] = @ + 1]
      /\ step' = [step EXCEPT ![f] = "take"]
  BY DEF Write, threadVars
<1>2. PICK p \in Seq(Line) : p = batch[f]
  BY DEF Inv, Types
<1>3. PICK n \in 0..Len(batch[f]) : p = SubSeq(batch[f], 1, n)
  <2>1. Len(p) \in 0..Len(p) /\ p = SubSeq(p, 1, Len(p))
    OBVIOUS
  <2> QED
    BY <1>2, <2>1
<1>4. PICK s \in Shards : s = at[f]
  BY <1>1 DEF Inv, Holding
<1>5. /\ written' = written \o p /\ written \o p \in Seq(Line)
      /\ \A i \in 1..Len(written \o p) : shard[(written \o p)[i].by] \in Shards
      /\ Ordered(written \o p) /\ Numbered(written \o p)
      /\ \A u \in Shards : Before(written \o p, pending[u])
      /\ \A u \in Shards :
           Sel(shard, u, written \o p) = IF u = at[f] THEN Of(u, written) \o p ELSE Of(u, written)
  <2>1. written' = written \o p
    BY <1>1, <1>2
  <2> QED
    BY <1>1, <1>3, <2>1, PutOut
<1>6. s \in Nat /\ s + 1 \in 0..NumShards /\ Main \in Flushers /\ Writer \in Flushers /\ Writer # Main
  BY SizesAssumption DEF Shards, Flushers, Writer, Main
<1>7. /\ step'[f] = "take" /\ \A g \in Flushers : g # f => step'[g] = step[g]
      /\ step' = [g \in Flushers |-> step'[g]]
  BY <1>1, StepTypes DEF Inv
<1>8. /\ batch'[f] = <<>> /\ at'[f] = s + 1
      /\ \A g \in Flushers : g # f => batch'[g] = batch[g] /\ at'[g] = at[g]
      /\ batch' \in [Flushers -> Seq(Line)] /\ at' \in [Flushers -> 0..NumShards]
  BY <1>1, <1>4, <1>6 DEF Inv, Types
<1>9. /\ \A g \in Flushers : g # f => step[g] \notin {"take", "write"} /\ batch[g] = <<>> /\ at[g] = 0
      /\ \A u \in Shards : InHand(u) = IF u = s THEN p ELSE <<>>
  BY <1>1, <1>2, <1>4, Alone
<1>10. Types'
  BY <1>1, <1>5, <1>7, <1>8 DEF Inv, Types
<1>11. Holding'
  BY <1>1, <1>7, <1>8 DEF Inv, Holding
<1>12. \A g \in Flushers : batch'[g] = <<>>
  BY <1>8, <1>9
<1>13. Sharded'
  <2>1. \A u \in Shards : AllOf(pending[u], u)'
    BY <1>1 DEF Inv, Sharded, AllOf
  <2>2. \A g \in Flushers : AllOf(batch[g], at[g])'
    BY <1>12 DEF AllOf
  <2> QED
    BY <1>1, <1>5, <2>1, <2>2 DEF Sharded
<1>14. Order'
  <2>1. Ordered(written)' /\ Numbered(written)'
    BY <1>1, <1>5 DEF Ordered, Numbered
  <2>2. \A g \in Flushers :
          /\ (Ordered(batch[g]) /\ Numbered(batch[g]) /\ Before(written, batch[g]))'
          /\ \A u \in Shards : Before(batch[g], pending[u])'
    BY <1>12 DEF Ordered, Numbered, Before
  <2>3. \A u \in Shards : (Ordered(pending[u]) /\ Numbered(pending[u]) /\ Before(written, pending[u]))'
    BY <1>1, <1>5 DEF Inv, Order, Ordered, Numbered, Before
  <2> QED
    BY <2>1, <2>2, <2>3 DEF Order
<1>15. PendingBound'
  BY <1>1 DEF Inv, PendingBound
<1>16. Broken' <=> Broken
  BY <1>1, <1>6, <1>7 DEF Broken
<1>17. \A u \in Shards : InHand(u)' = <<>>
  BY <1>7, <1>9, <1>11, HandThen
<1>18. \A u \in Shards : /\ Of(u, written)' = IF u = s THEN Of(u, written) \o p ELSE Of(u, written)
                         /\ Of(u, written) \in Seq(Line)
  BY <1>1, <1>4, <1>5, OfIsThen, OfType DEF Inv
<1>19. Kept'
  <2> SUFFICES ASSUME ~Broken, NEW u \in Shards
               PROVE  Of(u, written)' \o <<>> \o pending[u] = accepted[u]
    BY <1>1, <1>16, <1>17 DEF Kept
  <2>1. Of(u, written) \o InHand(u) \o pending[u] = accepted[u]
    BY DEF Inv, Kept
  <2>2. CASE u = s
    <3>1. Of(u, written) \o p \in Seq(Line)
      BY <1>18
    <3>2. (Of(u, written) \o p) \o <<>> = Of(u, written) \o p
      BY <3>1, ConcatEmptySeq
    <3> QED
      BY <1>9, <1>18, <2>1, <2>2, <3>2
  <2>3. CASE u # s
    BY <1>9, <1>18, <2>1, <2>3
  <2> QED
    BY <2>2, <2>3
<1>20. DueOut'
  <2>1. \A u \in Shards : Begins(due[u], accepted[u])'
    BY <1>1 DEF Inv, DueOut, Begins
  <2>2. CASE f = Main
    <3> SUFFICES ASSUME ~Broken, NEW u \in Shards, u < s + 1
                 PROVE  Begins(due[u], Of(u, written)')
      BY <1>1, <1>7, <1>8, <1>16, <2>1, <2>2 DEF DueOut, Begins
    <3>1. CASE u = s
      BY <1>1, <1>2, <1>4, <1>18, <2>2, <3>1 DEF Inv, DueOut
    <3>2. CASE u < s
      <4>1. u # s
        BY <1>6, <3>2 DEF Shards
      <4> QED
        BY <1>1, <1>4, <1>18, <2>2, <3>2, <4>1 DEF Inv, DueOut
    <3> QED
      BY <1>6, <3>1, <3>2 DEF Shards
  <2>3. CASE f # Main
    <3>1. step'[Main] = step[Main] /\ step[Main] \notin {"take", "write", "exited"}
      BY <1>6, <1>7, <1>9, <2>3 DEF Exited
    <3> QED
      BY <2>1, <3>1 DEF DueOut
  <2> QED
    BY <2>2, <2>3
<1> QED
  BY <1>10, <1>11, <1>13, <1>14, <1>15, <1>19, <1>20 DEF Inv


\* The flush of main is over: the process exits.  That of the writer thread: it goes on.
LEMMA FlushDoneStep == ASSUME Inv, ~Exited, NEW f \in Flushers, FlushDone(f) PROVE Inv'
<1>1. /\ step[f] = "take" /\ at[f] = NumShards /\ writing' = Nobody
      /\ UNCHANGED <<shard, nextShard, lines, pending, written, accepted, due>>
      /\ at' = [at EXCEPT ![f] = 0] /\ batch' = [batch EXCEPT ![f] = <<>>]
  BY DEF FlushDone, After, threadVars
<1>2. PICK x \in {"exited", "lock", "wait"} : step' = [step EXCEPT ![f] = x]
  <2>1. step' = [step EXCEPT ![f] = IF f = Main THEN "exited" ELSE IF wrote[f] THEN "lock" ELSE "wait"]
    BY DEF FlushDone, After
  <2> QED
    BY <2>1
<1>3. /\ step'[f] = x /\ \A g \in Flushers : g # f => step'[g] = step[g]
      /\ step' = [g \in Flushers |-> step'[g]]
  BY <1>2, StepTypes DEF Inv
<1>4. Main \in Flushers /\ Writer \in Flushers /\ Writer # Main
  BY DEF Flushers, Writer, Main
<1>5. /\ \A g \in Flushers : g # f => step[g] \notin {"take", "write"} /\ batch[g] = <<>> /\ at[g] = 0
      /\ \A u \in Shards : InHand(u) = <<>>
  BY <1>1, Alone
<1>6. batch[f] = <<>>
  BY <1>1 DEF Inv, Holding
<1>7. /\ batch' = batch
      /\ at'[f] = 0 /\ \A g \in Flushers : at'[g] = 0
      /\ at' \in [Flushers -> 0..NumShards]
  BY <1>1, <1>5, <1>6, SizesAssumption DEF Inv, Types
<1>8. \A g \in Flushers : batch[g] = <<>> /\ step'[g] \notin {"take", "write"}
  BY <1>2, <1>3, <1>5, <1>6
<1>9. Types'
  BY <1>1, <1>3, <1>7 DEF Inv, Types
<1>10. Holding'
  BY <1>7, <1>8 DEF Holding
<1>11. Sharded'
  <2>1. \A u \in Shards : AllOf(pending[u], u)'
    BY <1>1 DEF Inv, Sharded, AllOf
  <2>2. \A g \in Flushers : AllOf(batch[g], at[g])'
    BY <1>7, <1>8 DEF AllOf
  <2> QED
    BY <1>1, <2>1, <2>2 DEF Inv, Sharded
<1>12. Order' /\ PendingBound'
  <2>1. UNCHANGED <<lines, pending, written, batch>>
    BY <1>1, <1>7
  <2>2. Order'
    <3>1. Ordered(written)' /\ Numbered(written)'
      BY <2>1 DEF Inv, Order, Ordered, Numbered
    <3>2. \A g \in Flushers : (Ordered(batch[g]) /\ Numbered(batch[g]) /\ Before(written, batch[g]))'
      BY <2>1 DEF Inv, Order, Numbered, Ordered, Before
    <3>3. \A u \in Shards : (Ordered(pending[u]) /\ Numbered(pending[u]) /\ Before(written, pending[u]))'
      BY <2>1 DEF Inv, Order, Numbered, Ordered, Before
    <3>4. \A g \in Flushers, u \in Shards : Before(batch[g], pending[u])'
      BY <2>1 DEF Inv, Order, Before
    <3> QED
      BY <3>1, <3>2, <3>3, <3>4 DEF Order
  <2> QED
    BY <2>1, <2>2 DEF Inv, PendingBound
<1>13. Broken' <=> Broken
  BY <1>1, <1>2, <1>3, <1>4 DEF Broken
<1>14. \A u \in Shards : InHand(u)' = <<>> /\ Of(u, written)' = Of(u, written)
  BY <1>1, <1>8, <1>10, HandThen, OfIs, OfIsThen
<1>15. Kept'
  <2> SUFFICES ASSUME ~Broken, NEW u \in Shards
               PROVE  Of(u, written) \o <<>> \o pending[u] = accepted[u]
    BY <1>1, <1>13, <1>14 DEF Kept
  <2> QED
    BY <1>5 DEF Inv, Kept
<1>16. DueOut'
  <2>1. \A u \in Shards : Begins(due[u], accepted[u])'
    BY <1>1 DEF Inv, DueOut, Begins
  <2>2. CASE f = Main
    <3> SUFFICES ASSUME ~Broken, NEW u \in Shards PROVE Begins(due[u], Of(u, written))
      BY <1>1, <1>4, <1>8, <1>13, <1>14, <2>1 DEF DueOut, Begins
    <3>1. u < at[Main]
      BY <1>1, <2>2, SizesAssumption DEF Shards
    <3> QED
      BY <1>1, <2>2, <3>1 DEF Inv, DueOut
  <2>3. CASE f # Main
    <3>1. step'[Main] = step[Main] /\ step[Main] \notin {"take", "write", "exited"}
      BY <1>3, <1>4, <1>5, <2>3 DEF Exited
    <3> QED
      BY <2>1, <3>1 DEF DueOut
  <2> QED
    BY <2>2, <2>3
<1> QED
  BY <1>9, <1>10, <1>11, <1>12, <1>15, <1>16 DEF Inv

\* Part of what was in hand went out, the rest is gone: of stdout that is all that is claimed, and
\* whoever wrote is no more.
LEMMA WriteFailsStep == ASSUME Inv, ~Exited, NEW f \in Flushers, WriteFails(f) PROVE Inv'
<1>1. /\ step[f] = "write" /\ writing' = Nobody
      /\ UNCHANGED <<shard, nextShard, lines, pending, accepted, due>>
      /\ at' = [at EXCEPT ![f] = 0] /\ batch' = [batch EXCEPT ![f] = <<>>]
      /\ step' = [step EXCEPT ![f] = "stopped"]
  BY DEF WriteFails, After, threadVars
<1>2. PICK n \in 0..(Len(batch[f]) - 1) : written' = written \o SubSeq(batch[f], 1, n)
  BY DEF WriteFails
<1>3. batch[f] \in Seq(Line) /\ n \in 0..Len(batch[f])
  BY <1>2 DEF Inv, Types
<1>4. PICK p : p = SubSeq(batch[f], 1, n)
  OBVIOUS
<1>5. /\ written' = written \o p /\ written \o p \in Seq(Line)
      /\ \A i \in 1..Len(written \o p) : shard[(written \o p)[i].by] \in Shards
      /\ Ordered(written \o p) /\ Numbered(written \o p)
      /\ \A u \in Shards : Before(written \o p, pending[u])
  BY <1>1, <1>2, <1>3, <1>4, PutOut
<1>6. Main \in Flushers /\ Writer \in Flushers /\ Flushers = {Writer, Main}
  BY DEF Flushers, Writer, Main
<1>7. /\ step'[f] = "stopped" /\ \A g \in Flushers : g # f => step'[g] = step[g]
      /\ step' = [g \in Flushers |-> step'[g]]
  BY <1>1, StepTypes DEF Inv
<1>8. \A g \in Flushers : g # f => step[g] \notin {"take", "write"} /\ batch[g] = <<>> /\ at[g] = 0
  BY <1>1, Alone
<1>9. /\ batch'[f] = <<>> /\ at'[f] = 0
      /\ \A g \in Flushers : g # f => batch'[g] = batch[g] /\ at'[g] = at[g]
      /\ batch' \in [Flushers -> Seq(Line)] /\ at' \in [Flushers -> 0..NumShards]
  BY <1>1, SizesAssumption DEF Inv, Types
<1>10. \A g \in Flushers : batch'[g] = <<>> /\ at'[g] = 0 /\ step'[g] \notin {"take", "write"}
  BY <1>7, <1>8, <1>9
<1>11. Types'
  BY <1>1, <1>5, <1>7, <1>9 DEF Inv, Types
<1>12. Holding'
  BY <1>10 DEF Holding
<1>13. Sharded'
  <2>1. \A u \in Shards : AllOf(pending[u], u)'
    BY <1>1 DEF Inv, Sharded, AllOf
  <2>2. \A g \in Flushers : AllOf(batch[g], at[g])'
    BY <1>10 DEF AllOf
  <2> QED
    BY <1>1, <1>5, <2>1, <2>2 DEF Sharded
<1>14. Order'
  <2>1. Ordered(written)' /\ Numbered(written)'
    BY <1>1, <1>5 DEF Ordered, Numbered
  <2>2. \A g \in Flushers :
          /\ (Ordered(batch[g]) /\ Numbered(batch[g]) /\ Before(written, batch[g]))'
          /\ \A u \in Shards : Before(batch[g], pending[u])'
    BY <1>10 DEF Ordered, Numbered, Before
  <2>3. \A u \in Shards : (Ordered(pending[u]) /\ Numbered(pending[u]) /\ Before(written, pending[u]))'
    BY <1>1, <1>5 DEF Inv, Order, Ordered, Numbered, Before
  <2> QED
    BY <2>1, <2>2, <2>3 DEF Order
<1>15. PendingBound'
  BY <1>1 DEF Inv, PendingBound
<1>16. Broken' \/ Exited'
  BY <1>6, <1>7 DEF Broken, Exited
<1>17. Kept'
  BY <1>16 DEF Kept
<1>18. DueOut'
  <2>1. \A u \in Shards : Begins(due[u], accepted[u])'
    BY <1>1 DEF Inv, DueOut, Begins
  <2>2. Broken' \/ step'[Main] \notin {"take", "write", "exited"}
    BY <1>6, <1>7 DEF Broken
  <2> QED
    BY <2>1, <2>2 DEF DueOut
<1> QED
  BY <1>11, <1>12, <1>13, <1>14, <1>15, <1>17, <1>18 DEF Inv

-----------------------------------------------------------------------------
(* The theorems. *)

LEMMA Start == ASSUME Init PROVE Inv
<1>1. /\ written = <<>>
      /\ \A s \in Shards : pending[s] = <<>> /\ accepted[s] = <<>> /\ due[s] = <<>>
      /\ \A f \in Flushers : batch[f] = <<>> /\ at[f] = 0 /\ step[f] \in {"lock", "starting"}
  BY DEF Init
<1>2. Types
  <2>1. 0 \in 0..NumShards /\ <<>> \in Seq(Line)
    BY SizesAssumption
  <2> QED
    BY <2>1 DEF Init, Types
<1>3. Holding
  BY <1>1 DEF Holding
<1>4. Sharded /\ Order /\ PendingBound
  <2>1. \A x : AllOf(<<>>, x) /\ Ordered(<<>>) /\ Numbered(<<>>) /\ Before(<<>>, x)
    BY DEF AllOf, Ordered, Numbered, Before
  <2> QED
    BY <1>1, <2>1 DEF Sharded, Order, PendingBound
<1>5. \A s \in Shards : Of(s, written) = <<>> /\ InHand(s) = <<>>
  <2>1. \A f \in Flushers : step[f] # "write"
    BY <1>1
  <2> QED
    BY <1>1, <1>3, <2>1, OfIs, SelEmpty, Hand
<1>6. Kept
  <2>1. <<>> \o <<>> \o <<>> = <<>>
    OBVIOUS
  <2> QED
    BY <1>1, <1>5, <2>1 DEF Kept
<1>7. DueOut
  <2>1. Begins(<<>>, <<>>)
    BY DEF Begins
  <2>2. step[Main] = "starting"
    BY DEF Init, Flushers, Writer, Main
  <2> QED
    BY <1>1, <2>1, <2>2 DEF DueOut
<1> QED
  BY <1>2, <1>3, <1>4, <1>6, <1>7 DEF Inv

LEMMA Rest == ASSUME Inv, UNCHANGED vars PROVE Inv'
<1>1. UNCHANGED <<shard, nextShard, lines, pending, step, writing, at, batch, written, accepted, due>>
  BY DEF vars, threadVars, flushVars
<1>2. \A s : Of(s, written)' = Of(s, written)
  BY <1>1, OfIs, OfIsThen
<1>3. \A s : InHand(s)' = InHand(s)
  BY <1>1 DEF InHand
<1>4. Types' /\ Holding'
  BY <1>1 DEF Inv, Types, Holding
<1>5. Sharded' /\ Order' /\ PendingBound'
  BY <1>1 DEF Inv, Sharded, Order, PendingBound, AllOf, Numbered, Ordered, Before
<1>6. Kept'
  BY <1>1, <1>2, <1>3 DEF Inv, Kept, Broken, Exited
<1>7. DueOut'
  <2>1. Broken' <=> Broken
    BY <1>1 DEF Broken
  <2>2. \A s \in Shards : Begins(due'[s], accepted'[s])
    BY <1>1 DEF Inv, DueOut
  <2> QED
    BY <1>1, <1>2, <2>1, <2>2, DueStays DEF Inv
<1> QED
  BY <1>4, <1>5, <1>6, <1>7 DEF Inv

LEMMA Inductive == ASSUME Inv, [Next]_vars PROVE Inv'
<1>1. CASE ~Exited /\ \E t \in Threads : AssignShard(t) \/ Notify(t) \/ \E len \in Lengths : AppendLine(t, len)
  BY <1>1, AssignShardStep, NotifyStep, AppendLineStep
<1>2. CASE ~Exited /\ \E f \in Flushers : Flush(f) \/ WriteFails(f)
  BY <1>2, LockStep, TakeStep, WriteStep, FlushDoneStep, WriteFailsStep DEF Flush
<1>3. CASE ~Exited /\ (WaitTimeout \/ ServeStarts \/ RootMissing)
  BY <1>3, WaitTimeoutStep, MainStep
<1>4. CASE UNCHANGED vars
  BY <1>4, Rest
<1> QED
  BY <1>1, <1>2, <1>3, <1>4 DEF Next

LEMMA Always == Spec => []Inv
BY Start, Inductive, PTL DEF Spec

\* The lines of append reach stdout once and in the order of each thread, a shard never holds more
\* than its limit and one line, and of what append accepted nothing is missing in what is written,
\* in hand or pending, while stdout is not broken and the process runs.
THEOREM LogLosesNothing == Spec => []NothingLost
<1>1. ASSUME Inv PROVE NothingLost
  <2>1. ThreadOrder
    BY <1>1 DEF Inv, Order, Ordered, ThreadOrder
  <2> QED
    BY <1>1, <2>1 DEF Inv, Kept, NothingLost
<1> QED
  BY <1>1, Always, PTL

\* When the directory to serve cannot be opened, main's line about it, and all that was accepted
\* before main began to flush, is written when the process exits, whichever of the two threads
\* took it.
THEOREM ExitIsLogged == Spec => []ExitWritesAll
<1>1. ASSUME Inv PROVE ExitWritesAll
  <2> SUFFICES ASSUME step[Main] = "exited", ~Broken, NEW s \in Shards
               PROVE  /\ Len(due[s]) <= Len(Of(s, written))
                      /\ due[s] = SubSeq(Of(s, written), 1, Len(due[s]))
    BY DEF ExitWritesAll
  <2>1. PICK q \in Seq(Line) : q = Of(s, written)
    BY <1>1, OfType DEF Inv
  <2>2. PICK p \in Seq(Line) : p = due[s]
    BY <1>1 DEF Inv, Types
  <2>3. Begins(p, q)
    BY <1>1, <2>1, <2>2 DEF Inv, DueOut
  <2>4. Len(p) \in 0..Len(q)
    BY <2>3 DEF Begins
  <2>5. SubSeq(q, 1, Len(p)) \in Seq(Line) /\ Len(SubSeq(q, 1, Len(p))) = Len(p)
        /\ \A i \in 1..Len(p) : SubSeq(q, 1, Len(p))[i] = q[i]
    BY <2>4, PrefixIs
  <2>6. p = SubSeq(q, 1, Len(p))
    BY <2>3, <2>5, SeqEqual DEF Begins
  <2> QED
    BY <2>1, <2>2, <2>4, <2>6
<1> QED
  BY <1>1, Always, PTL
=============================================================================
