--------------------------- MODULE DataLemmas ---------------------------
(***************************************************************************)
(* Induction over data, for the proofs about recursive functions and       *)
(* sequences.  The induction theorems of the library take an operator; the *)
(* one here takes a set, and rests on the well-foundedness of < on Nat.    *)
(***************************************************************************)
EXTENDS Integers, Sequences, SequencesExt, SequenceTheorems, WellFoundedInduction, TLAPS

\* A set that has 0, and n + 1 with every n, has every number.
LEMMA SetInduction ==
  ASSUME NEW S, 0 \in S, \A n \in Nat : n \in S => n + 1 \in S
  PROVE  \A n \in Nat : n \in S
<1> SUFFICES ASSUME NEW k \in Nat, k \notin S PROVE FALSE
  OBVIOUS
<1> DEFINE T == Nat \ S
           R == OpToRel(<, Nat)
<1>1. T \subseteq Nat /\ T # {} /\ IsWellFoundedOn(R, Nat)
  BY NatLessThanWellFounded
<1>2. \A x, y \in Nat : <<y, x>> \in R <=> y < x
  BY DEF OpToRel
<1> HIDE DEF R
<1>3. PICK x \in T : \A y \in T : ~(<<y, x>> \in R)
  BY <1>1, WFMin
<1>4. x \in Nat /\ x # 0 /\ x - 1 \in Nat /\ x - 1 < x
  BY <1>3
<1>5. x - 1 \in S
  BY <1>2, <1>3, <1>4
<1>6. x - 1 + 1 \in S
  BY <1>4, <1>5
<1> QED BY <1>3, <1>4, <1>6

\* How a function of the numbers up to N is computed, one number after the other, from its value at 0.
Steps(S, N) == [S \X (1 .. N) -> S]
Unfolds(g, S, base, N, step) ==
  g \in [0 .. N -> S] /\ g[0] = base /\ \A n \in 1 .. N : g[n] = step[<<g[n - 1], n>>]

\* Such a function exists.
LEMMA RecursionExists ==
  ASSUME NEW S, NEW base \in S, NEW N \in Nat, NEW step \in Steps(S, N)
  PROVE  \E g : Unfolds(g, S, base, N, step)
<1> USE DEF Steps
<1> DEFINE Upto(m, g) == g[0] = base /\ \A n \in 1 .. m : g[n] = step[<<g[n - 1], n>>]
           P == {m \in Nat : m <= N => \E g \in [0 .. m -> S] : Upto(m, g)}
<1>1. 0 \in P
  <2>1. [n \in 0 .. 0 |-> base] \in [0 .. 0 -> S] /\ Upto(0, [n \in 0 .. 0 |-> base])
    OBVIOUS
  <2> QED BY <2>1
<1>2. ASSUME NEW m \in Nat, m \in P PROVE m + 1 \in P
  <2> SUFFICES ASSUME m + 1 <= N PROVE \E g \in [0 .. m + 1 -> S] : Upto(m + 1, g)
    OBVIOUS
  <2>1. PICK g \in [0 .. m -> S] : Upto(m, g)
    BY <1>2
  <2> DEFINE h == [n \in 0 .. m + 1 |-> IF n = m + 1 THEN step[<<g[m], m + 1>>] ELSE g[n]]
  <2>2. <<g[m], m + 1>> \in S \X (1 .. N)
    OBVIOUS
  <2>3. step[<<g[m], m + 1>>] \in S
    BY <2>2
  <2>4. h \in [0 .. m + 1 -> S] /\ h[m + 1] = step[<<g[m], m + 1>>] /\ \A n \in 0 .. m : h[n] = g[n]
    BY <2>3
  <2> HIDE DEF h
  <2>5. \A n \in 1 .. m + 1 : h[n] = step[<<h[n - 1], n>>]
    <3> SUFFICES ASSUME NEW n \in 1 .. m + 1 PROVE h[n] = step[<<h[n - 1], n>>]
      OBVIOUS
    <3>1. CASE n = m + 1
      <4>1. n - 1 = m /\ h[m] = g[m]
        BY <2>4, <3>1
      <4> QED BY <2>4, <3>1, <4>1
    <3>2. CASE n \in 1 .. m
      <4>1. n - 1 \in 0 .. m /\ n \in 0 .. m
        BY <3>2
      <4>2. h[n] = g[n] /\ h[n - 1] = g[n - 1]
        BY <2>4, <4>1
      <4>3. g[n] = step[<<g[n - 1], n>>]
        BY <2>1, <3>2
      <4> QED BY <4>2, <4>3
    <3> QED BY <3>1, <3>2
  <2> QED BY <2>1, <2>4, <2>5
<1> HIDE DEF P
<1>3. N \in P
  BY <1>1, <1>2, SetInduction
<1> QED BY <1>3 DEF P, Unfolds

-----------------------------------------------------------------------------
\* What follows the first i elements, up to the j-th.
Segment(s, i, j) == SubSeq(s, i + 1, j)

IsSegment(t, M, s, i, j) == t \in Seq(M) /\ Len(t) = j - i /\ \A k \in 1 .. j - i : t[k] = s[i + k]

\* A segment has the elements it is named for.
LEMMA SegmentIs ==
  ASSUME NEW M, NEW s \in Seq(M), NEW i \in Nat, NEW j \in Nat, i <= j, j <= Len(s)
  PROVE  IsSegment(Segment(s, i, j), M, s, i, j)
<1>1. Len(s) \in Nat /\ \A k \in 1 .. Len(s) : s[k] \in M
  OBVIOUS
<1>2. \A k \in i + 1 .. j : s[k] \in M
  BY <1>1
<1>3. /\ SubSeq(s, i + 1, j) \in Seq(M) /\ Len(SubSeq(s, i + 1, j)) = IF i + 1 <= j THEN j - (i + 1) + 1 ELSE 0
      /\ \A k \in 1 .. j - (i + 1) + 1 : SubSeq(s, i + 1, j)[k] = s[i + 1 + k - 1]
  BY <1>2, SubSeqProperties
<1>4. j - (i + 1) + 1 = j - i
  OBVIOUS
<1>5. \A k \in 1 .. j - i : i + 1 + k - 1 = i + k
  OBVIOUS
<1> QED BY <1>3, <1>4, <1>5 DEF Segment, IsSegment

\* Two adjacent segments make one.
LEMMA SegmentSplits ==
  ASSUME NEW M, NEW s \in Seq(M), NEW i \in Nat, NEW j \in Nat, NEW k \in Nat, i <= j, j <= k, k <= Len(s)
  PROVE  Segment(s, i, k) = Segment(s, i, j) \o Segment(s, j, k)
<1>1. Len(s) \in Nat
  OBVIOUS
<1>2. i + 1 \in 1 .. Len(s) + 1 /\ j \in (i + 1) - 1 .. Len(s) /\ k \in j .. Len(s)
  BY <1>1
<1> QED BY <1>2, ConcatAdjacentSubSeq DEF Segment

\* The first n elements of t are those of s after its i-th.
Follows(t, s, i, n) == \A k \in 1 .. n : t[k] = s[i + k]

\* The elements of a segment, by its length.
LEMMA SegmentElements ==
  ASSUME NEW M, NEW t, NEW s, NEW i \in Nat, NEW n \in Nat, IsSegment(t, M, s, i, i + n)
  PROVE  t \in Seq(M) /\ Len(t) = n /\ Follows(t, s, i, n)
<1>1. (i + n) - i = n
  OBVIOUS
<1> QED BY <1>1 DEF IsSegment, Follows

\* A segment of a segment is a segment.
LEMMA SegmentOfSegment ==
  ASSUME NEW M, NEW s \in Seq(M), NEW i \in Nat, NEW j \in Nat, i <= j, j <= Len(s),
         NEW m \in Nat, NEW n \in Nat, m <= n, n <= j - i
  PROVE  Segment(Segment(s, i, j), m, n) = Segment(s, i + m, i + n)
<1> DEFINE t == Segment(s, i, j)
           u == Segment(t, m, n)
           v == Segment(s, i + m, i + n)
<1>1. t \in Seq(M) /\ Len(t) = j - i /\ \A k \in 1 .. j - i : t[k] = s[i + k]
  BY SegmentIs DEF IsSegment
<1> HIDE DEF t
<1>2. u \in Seq(M) /\ Len(u) = n - m /\ \A k \in 1 .. n - m : u[k] = t[m + k]
  <2>1. n <= Len(t)
    BY <1>1
  <2>2. IsSegment(u, M, t, m, n)
    BY <1>1, <2>1, SegmentIs
  <2> HIDE DEF u
  <2> QED BY <1>1, <2>2 DEF IsSegment
<1>3. /\ Len(s) \in Nat /\ i + m \in Nat /\ i + n \in Nat /\ i + m <= i + n /\ i + n <= Len(s)
      /\ (i + n) - (i + m) = n - m
  OBVIOUS
<1>4. v \in Seq(M) /\ Len(v) = n - m /\ \A k \in 1 .. n - m : v[k] = s[i + m + k]
  <2>1. IsSegment(v, M, s, i + m, i + n)
    BY <1>3, SegmentIs
  <2> HIDE DEF v
  <2> QED BY <1>3, <2>1 DEF IsSegment
<1> HIDE DEF u, v
<1>5. ASSUME NEW k \in 1 .. n - m PROVE u[k] = v[k]
  <2>1. m + k \in 1 .. j - i /\ i + (m + k) = i + m + k
    OBVIOUS
  <2> QED BY <1>1, <1>2, <1>4, <2>1
<1>6. u = v
  BY <1>2, <1>4, <1>5, SeqEqual
<1> QED BY <1>6 DEF t, u, v

\* What is appended changes no segment of what was there, and is the end of the segment to the end.
LEMMA SegmentOfAppend ==
  ASSUME NEW M, NEW s \in Seq(M), NEW m \in M, NEW i \in Nat, i <= Len(s)
  PROVE  /\ \A j \in i .. Len(s) : Segment(Append(s, m), i, j) = Segment(s, i, j)
         /\ Segment(Append(s, m), i, Len(Append(s, m))) = Append(Segment(s, i, Len(s)), m)
<1> DEFINE t == Append(s, m)
           N == Len(s)
<1>1. N \in Nat /\ t \in Seq(M) /\ Len(t) = N + 1 /\ t[N + 1] = m /\ \A k \in 1 .. N : t[k] = s[k]
  BY AppendProperties
<1> HIDE DEF t
<1>2. ASSUME NEW j \in i .. N PROVE Segment(t, i, j) = Segment(s, i, j)
  <2> DEFINE u == Segment(t, i, j)
             v == Segment(s, i, j)
  <2>1. j \in Nat /\ i <= j /\ j <= Len(s) /\ j <= Len(t)
    BY <1>1
  <2>2. u \in Seq(M) /\ Len(u) = j - i /\ \A k \in 1 .. j - i : u[k] = t[i + k]
    <3>1. IsSegment(u, M, t, i, j)
      BY <1>1, <2>1, SegmentIs
    <3> HIDE DEF u
    <3> QED BY <3>1 DEF IsSegment
  <2>3. v \in Seq(M) /\ Len(v) = j - i /\ \A k \in 1 .. j - i : v[k] = s[i + k]
    <3>1. IsSegment(v, M, s, i, j)
      BY <2>1, SegmentIs
    <3> HIDE DEF v
    <3> QED BY <3>1 DEF IsSegment
  <2> HIDE DEF u, v
  <2>4. ASSUME NEW k \in 1 .. j - i PROVE u[k] = v[k]
    <3>1. i + k \in 1 .. N
      BY <2>1
    <3> QED BY <1>1, <2>2, <2>3, <3>1
  <2>5. u = v
    BY <2>2, <2>3, <2>4, SeqEqual
  <2> QED BY <2>5 DEF u, v
<1>3. Segment(t, i, N + 1) = Append(Segment(s, i, N), m)
  <2> DEFINE u == Segment(t, i, N + 1)
             w == Segment(s, i, N)
             v == Append(w, m)
  <2>1. N + 1 \in Nat /\ i <= N + 1 /\ N + 1 <= Len(t) /\ N + 1 - i = (N - i) + 1
    BY <1>1
  <2>2. u \in Seq(M) /\ Len(u) = N - i + 1 /\ \A k \in 1 .. N - i + 1 : u[k] = t[i + k]
    <3>1. IsSegment(u, M, t, i, N + 1)
      BY <1>1, <2>1, SegmentIs
    <3> HIDE DEF u
    <3> QED BY <1>1, <2>1, <3>1 DEF IsSegment
  <2>3. w \in Seq(M) /\ Len(w) = N - i /\ \A k \in 1 .. N - i : w[k] = s[i + k]
    <3>1. N <= Len(s)
      BY <1>1
    <3>2. IsSegment(w, M, s, i, N)
      BY <1>1, <3>1, SegmentIs
    <3> HIDE DEF w
    <3> QED BY <3>2 DEF IsSegment
  <2> HIDE DEF u, w
  <2>4. v \in Seq(M) /\ Len(v) = N - i + 1 /\ v[N - i + 1] = m /\ \A k \in 1 .. N - i : v[k] = w[k]
    BY <2>3, AppendProperties
  <2> HIDE DEF v
  <2>5. ASSUME NEW k \in 1 .. N - i + 1 PROVE u[k] = v[k]
    <3>1. CASE k = N - i + 1
      <4>1. i + k = N + 1
        BY <1>1, <3>1
      <4> QED BY <1>1, <2>2, <2>4, <3>1, <4>1
    <3>2. CASE k \in 1 .. N - i
      <4>1. i + k \in 1 .. N
        BY <1>1, <3>2
      <4> QED BY <1>1, <2>2, <2>3, <2>4, <3>2, <4>1
    <3> QED BY <1>1, <3>1, <3>2
  <2>6. u = v
    BY <2>2, <2>4, <2>5, SeqEqual
  <2> QED BY <2>6 DEF u, v, w
<1> QED BY <1>1, <1>2, <1>3 DEF t

\* A sequence that goes on with the elements of b after those of a.
LEMMA IsConcat ==
  ASSUME NEW M, NEW a \in Seq(M), NEW b \in Seq(M), NEW c \in Seq(M), Len(c) = Len(a) + Len(b),
         \A i \in 1 .. Len(a) : c[i] = a[i], \A i \in 1 .. Len(b) : c[Len(a) + i] = b[i]
  PROVE  c = a \o b
<1> DEFINE d == a \o b
<1>1. /\ d \in Seq(M) /\ Len(d) = Len(a) + Len(b) /\ Len(a) \in Nat /\ Len(b) \in Nat
      /\ \A i \in 1 .. Len(a) : d[i] = a[i]
      /\ \A i \in 1 .. Len(b) : d[Len(a) + i] = b[i]
  BY ConcatProperties
<1> HIDE DEF d
<1>2. ASSUME NEW i \in 1 .. Len(c) PROVE c[i] = d[i]
  <2>1. CASE i <= Len(a)
    BY <1>1, <2>1
  <2>2. CASE i > Len(a)
    <3>1. i - Len(a) \in 1 .. Len(b) /\ Len(a) + (i - Len(a)) = i
      BY <1>1, <2>2
    <3>2. c[Len(a) + (i - Len(a))] = b[i - Len(a)] /\ d[Len(a) + (i - Len(a))] = b[i - Len(a)]
      BY <1>1, <3>1
    <3> QED BY <3>1, <3>2
  <2> QED BY <1>1, <2>1, <2>2
<1>3. c = d
  BY <1>1, <1>2, SeqEqual
<1> QED BY <1>3 DEF d

\* The segments of a concatenation.
LEMMA SegmentOfConcat ==
  ASSUME NEW M, NEW s \in Seq(M), NEW t \in Seq(M), NEW i \in Nat, i <= Len(s)
  PROVE  /\ Segment(s \o t, 0, i) = Segment(s, 0, i)
         /\ Segment(s \o t, i, Len(s \o t)) = Segment(s, i, Len(s)) \o t
<1> DEFINE u == s \o t
           N == Len(s)
           K == Len(t)
<1>1. /\ N \in Nat /\ K \in Nat /\ u \in Seq(M) /\ Len(u) = N + K /\ i <= N + K
      /\ (\A k \in 1 .. N : u[k] = s[k]) /\ \A k \in 1 .. K : u[N + k] = t[k]
  OBVIOUS
<1> HIDE DEF u
<1>2. Segment(u, 0, i) = Segment(s, 0, i)
  <2> DEFINE a == Segment(u, 0, i)
             b == Segment(s, 0, i)
  <2>1. IsSegment(a, M, u, 0, i) /\ IsSegment(b, M, s, 0, i)
    BY <1>1, SegmentIs
  <2> HIDE DEF a, b
  <2>2. i - 0 = i /\ \A k \in 1 .. i : 0 + k = k /\ k \in 1 .. N
    BY <1>1
  <2>3. a \in Seq(M) /\ b \in Seq(M) /\ Len(a) = i /\ Len(b) = i /\ \A k \in 1 .. i : a[k] = b[k]
    BY <1>1, <2>1, <2>2 DEF IsSegment
  <2>4. a = b
    BY <2>3, SeqEqual
  <2> QED BY <2>4 DEF a, b
<1>3. Segment(u, i, N + K) = Segment(s, i, N) \o t
  <2> DEFINE a == Segment(u, i, N + K)
             b == Segment(s, i, N)
  <2>1. IsSegment(a, M, u, i, N + K) /\ IsSegment(b, M, s, i, N)
    BY <1>1, SegmentIs
  <2> HIDE DEF a, b
  <2>2. /\ a \in Seq(M) /\ b \in Seq(M) /\ Len(a) = (N + K) - i /\ Len(b) = N - i
        /\ (\A k \in 1 .. (N + K) - i : a[k] = u[i + k]) /\ \A k \in 1 .. N - i : b[k] = s[i + k]
    BY <2>1 DEF IsSegment
  <2>3. Len(a) = Len(b) + K
    BY <1>1, <2>2
  <2>4. ASSUME NEW k \in 1 .. Len(b) PROVE a[k] = b[k]
    <3>1. k \in 1 .. (N + K) - i /\ i + k \in 1 .. N /\ k \in 1 .. N - i
      BY <1>1, <2>2
    <3> QED BY <1>1, <2>2, <3>1
  <2>5. ASSUME NEW k \in 1 .. K PROVE a[Len(b) + k] = t[k]
    <3>1. (N - i) + k \in 1 .. (N + K) - i /\ i + ((N - i) + k) = N + k
      BY <1>1
    <3> QED BY <1>1, <2>2, <3>1
  <2>6. a = b \o t
    BY <2>2, <2>3, <2>4, <2>5, IsConcat
  <2> QED BY <2>6 DEF a, b
<1> QED BY <1>1, <1>2, <1>3 DEF u

-----------------------------------------------------------------------------
\* The sequences of a sequence, one after the other, up to each of them.
Followed(s, t) == s \o t
Flattens(g, P, seqs) ==
  /\ g \in [0 .. Len(seqs) -> Seq(P)] /\ g[0] = <<>>
  /\ \A n \in 1 .. Len(seqs) : g[n] = Followed(g[n - 1], seqs[n])

\* The recursive function of FlattenSeq is defined, and takes sequence after sequence.
LEMMA FlattenIs ==
  ASSUME NEW P, NEW seqs \in Seq(Seq(P))
  PROVE  \E g : Flattens(g, P, seqs) /\ FlattenSeq(seqs) = g[Len(seqs)]
<1> DEFINE N == Len(seqs)
           T == Seq(P)
           empty == <<>>
           step == [x \in T \X (1 .. N) |-> x[1] \o seqs[x[2]]]
           Fn(f) == [n \in 1 .. N |-> IF n = 1 THEN seqs[n] ELSE f[n - 1] \o seqs[n]]
           flat == CHOOSE f : f = Fn(f)
<1>1. N \in Nat /\ empty \in T /\ \A n \in 1 .. N : seqs[n] \in T
  BY EmptySeq
<1>2. \A s \in T, n \in 1 .. N : s \o seqs[n] \in T
  BY <1>1, ConcatProperties
<1>3. FlattenSeq(seqs) = IF N = 0 THEN seqs ELSE flat[N]
  BY DEF FlattenSeq
<1>4. N = 0 => seqs = empty
  BY <1>1
<1>5. \A s \in T : empty \o s = s
  BY ConcatEmptySeq
<1> HIDE DEF N, T, empty
<1>6. step \in Steps(T, N) /\ \A s \in T, n \in 1 .. N : step[<<s, n>>] = s \o seqs[n]
  BY <1>2 DEF Steps
<1> HIDE DEF step
<1>7. PICK g : Unfolds(g, T, empty, N, step)
  BY <1>1, <1>6, RecursionExists
<1>8. g \in [0 .. N -> T] /\ g[0] = empty /\ \A n \in 1 .. N : g[n] = g[n - 1] \o seqs[n]
  <2> SUFFICES ASSUME NEW n \in 1 .. N PROVE g[n] = g[n - 1] \o seqs[n]
    BY <1>7 DEF Unfolds
  <2>1. n - 1 \in 0 .. N /\ g \in [0 .. N -> T] /\ g[n] = step[<<g[n - 1], n>>]
    BY <1>1, <1>7 DEF Unfolds
  <2>2. g[n - 1] \in T
    BY <2>1
  <2> QED BY <1>6, <2>1, <2>2
<1>9. N # 0 => flat[N] = g[N]
  <2> SUFFICES ASSUME N # 0 PROVE flat[N] = g[N]
    OBVIOUS
  <2> DEFINE h == [n \in 1 .. N |-> g[n]]
             k == Fn(h)
  <2>1. ASSUME NEW n \in 1 .. N PROVE k[n] = h[n]
    <3>1. CASE n = 1
      <4>1. n - 1 = 0
        BY <3>1
      <4>3. g[n] = g[n - 1] \o seqs[n]
        BY <1>8, Zenon
      <4>2. g[n] = seqs[n]
        BY <1>1, <1>5, <1>8, <4>1, <4>3
      <4> QED BY <3>1, <4>2
    <3>2. CASE n # 1
      <4>1. n - 1 \in 1 .. N
        BY <1>1, <3>2
      <4> QED BY <1>8, <3>2, <4>1
    <3> QED BY <3>1, <3>2
  <2>2. k = [n \in 1 .. N |-> k[n]] /\ h = [n \in 1 .. N |-> h[n]]
    OBVIOUS
  <2> HIDE DEF h, k
  <2>3. k = h
    BY <2>1, <2>2
  <2>4. h = Fn(h)
    BY <2>3 DEF k
  <2>5. flat = Fn(flat)
    BY <2>4
  <2> HIDE DEF flat
  <2>6. \A n \in 1 .. N : flat[n] = IF n = 1 THEN seqs[n] ELSE flat[n - 1] \o seqs[n]
    BY <2>5
  <2>7. \A n \in 1 .. N : h[n] = IF n = 1 THEN seqs[n] ELSE h[n - 1] \o seqs[n]
    BY <2>4
  <2> DEFINE A == {n \in Nat : n + 1 <= N => flat[n + 1] = h[n + 1]}
  <2>8. 0 \in A
    <3>1. 1 \in 1 .. N /\ 0 + 1 = 1
      BY <1>1
    <3> QED BY <2>6, <2>7, <3>1
  <2>9. ASSUME NEW n \in Nat, n \in A PROVE n + 1 \in A
    <3> SUFFICES ASSUME n + 1 + 1 <= N PROVE flat[n + 1 + 1] = h[n + 1 + 1]
      OBVIOUS
    <3>1. flat[n + 1] = h[n + 1] /\ n + 1 + 1 \in 1 .. N /\ n + 1 + 1 # 1 /\ n + 1 + 1 - 1 = n + 1
      BY <1>1, <2>9
    <3> QED BY <2>6, <2>7, <3>1
  <2> HIDE DEF A
  <2>10. \A n \in Nat : n \in A
    BY <2>8, <2>9, SetInduction
  <2>11. N - 1 \in Nat /\ N - 1 + 1 = N /\ N \in 1 .. N
    BY <1>1
  <2>12. flat[N] = h[N]
    BY <2>10, <2>11 DEF A
  <2> QED BY <2>11, <2>12 DEF h
<1> QED BY <1>1, <1>3, <1>4, <1>8, <1>9 DEF N, T, empty, Flattens, Followed

LEMMA FlattenInSeq ==
  ASSUME NEW P, NEW seqs \in Seq(Seq(P))
  PROVE  FlattenSeq(seqs) \in Seq(P)
<1>1. PICK g : Flattens(g, P, seqs) /\ FlattenSeq(seqs) = g[Len(seqs)]
  BY FlattenIs
<1> QED BY <1>1 DEF Flattens

LEMMA FlattenEmpty == FlattenSeq(<<>>) = <<>>
<1>1. <<>> \in Seq(Seq({})) /\ Len(<<>>) = 0
  OBVIOUS
<1>2. PICK g : Flattens(g, {}, <<>>) /\ FlattenSeq(<<>>) = g[Len(<<>>)]
  BY <1>1, FlattenIs
<1> QED BY <1>1, <1>2 DEF Flattens

\* One sequence more comes after the others.
LEMMA FlattenAppend ==
  ASSUME NEW P, NEW seqs \in Seq(Seq(P)), NEW s \in Seq(P)
  PROVE  FlattenSeq(Append(seqs, s)) = FlattenSeq(seqs) \o s
<1> DEFINE N == Len(seqs)
           T == Seq(P)
           longer == Append(seqs, s)
<1>1. /\ N \in Nat /\ longer \in Seq(T) /\ Len(longer) = N + 1
      /\ longer[N + 1] = s /\ \A n \in 1 .. N : longer[n] = seqs[n]
  BY AppendProperties
<1> HIDE DEF longer
<1>2. PICK f : Flattens(f, P, seqs) /\ FlattenSeq(seqs) = f[N]
  BY FlattenIs
<1>3. PICK g : Flattens(g, P, longer) /\ FlattenSeq(longer) = g[N + 1]
  BY <1>1, FlattenIs
<1> DEFINE A == {n \in Nat : n <= N => f[n] = g[n]}
<1>4. 0 \in A
  BY <1>2, <1>3 DEF Flattens
<1>5. ASSUME NEW n \in Nat, n \in A PROVE n + 1 \in A
  <2> SUFFICES ASSUME n + 1 <= N PROVE f[n + 1] = g[n + 1]
    OBVIOUS
  <2>1. f[n] = g[n] /\ n + 1 \in 1 .. N /\ n + 1 \in 1 .. N + 1 /\ n + 1 - 1 = n
    BY <1>1, <1>5
  <2>2. longer[n + 1] = seqs[n + 1]
    BY <1>1, <2>1
  <2>3. f[n + 1] = Followed(f[n], seqs[n + 1])
    <3>1. \A k \in 1 .. N : f[k] = Followed(f[k - 1], seqs[k])
      BY <1>2 DEF Flattens
    <3> QED BY <2>1, <3>1
  <2>4. g[n + 1] = Followed(g[n], longer[n + 1])
    BY <1>1, <1>3, <2>1 DEF Flattens
  <2> QED BY <2>1, <2>2, <2>3, <2>4
<1> HIDE DEF A
<1>6. \A n \in Nat : n \in A
  BY <1>4, <1>5, SetInduction
<1>7. f[N] = g[N] /\ N + 1 \in 1 .. N + 1 /\ N + 1 - 1 = N
  BY <1>1, <1>6 DEF A
<1>8. g[N + 1] = Followed(g[N], longer[N + 1])
  <2>1. \A k \in 1 .. Len(longer) : g[k] = Followed(g[k - 1], longer[k])
    BY <1>3 DEF Flattens
  <2> QED BY <1>1, <1>7, <2>1
<1> QED BY <1>1, <1>2, <1>3, <1>7, <1>8, Zenon DEF longer, Followed

\* What two sequences of sequences hold is what the one holds, then what the other does.
LEMMA FlattenConcat ==
  ASSUME NEW P, NEW first \in Seq(Seq(P)), NEW second \in Seq(Seq(P))
  PROVE  FlattenSeq(first \o second) = FlattenSeq(first) \o FlattenSeq(second)
<1> DEFINE T == Seq(P)
           upto(n) == SubSeq(second, 1, n)
           Holds(n) == FlattenSeq(first \o upto(n)) = FlattenSeq(first) \o FlattenSeq(upto(n))
           A == {n \in Nat : n <= Len(second) => Holds(n)}
<1>1. 0 \in A
  <2>1. upto(0) = <<>> /\ first \o <<>> = first
    BY ConcatEmptySeq
  <2>2. FlattenSeq(first) \in Seq(P)
    BY FlattenInSeq
  <2>3. FlattenSeq(first) \o <<>> = FlattenSeq(first)
    BY <2>2, ConcatEmptySeq
  <2> QED BY <2>1, <2>3, FlattenEmpty
<1>2. ASSUME NEW n \in Nat, n \in A PROVE n + 1 \in A
  <2> SUFFICES ASSUME n + 1 <= Len(second) PROVE Holds(n + 1)
    OBVIOUS
  <2> DEFINE m == second[n + 1]
             some == upto(n)
             a == FlattenSeq(first)
             b == FlattenSeq(some)
  <2>1. m \in T /\ some \in Seq(T)
    OBVIOUS
  <2>2. upto(n + 1) = Append(some, m)
    OBVIOUS
  <2>3. a \in Seq(P) /\ b \in Seq(P)
    BY <2>1, FlattenInSeq
  <2>4. FlattenSeq(first \o some) = a \o b
    BY <1>2
  <2> HIDE DEF A, upto, m, some
  <2>5. first \o some \in Seq(T) /\ first \o Append(some, m) = Append(first \o some, m)
    BY <2>1
  <2>6. FlattenSeq(Append(first \o some, m)) = FlattenSeq(first \o some) \o m
    BY <2>1, <2>5, FlattenAppend
  <2>7. FlattenSeq(Append(some, m)) = b \o m
    BY <2>1, FlattenAppend
  <2> HIDE DEF a, b
  <2>8. (a \o b) \o m = a \o (b \o m)
    <3>1. m \in Seq(P)
      BY <2>1
    <3> QED BY <2>3, <3>1, ConcatAssociative
  <2> QED BY <2>2, <2>4, <2>5, <2>6, <2>7, <2>8 DEF a, b
<1> HIDE DEF A
<1>3. Len(second) \in A
  <2>1. \A n \in Nat : n \in A
    BY <1>1, <1>2, SetInduction
  <2> QED BY <2>1, LenProperties
<1>4. upto(Len(second)) = second
  BY SubSeqFull
<1> HIDE DEF upto
<1>5. Holds(Len(second))
  BY <1>3 DEF A
<1> QED BY <1>4, <1>5

\* What a flattened sequence of sequences holds is what they hold.
Within(flat, seqs) ==
  /\ \A k \in 1 .. Len(flat) : \E i \in 1 .. Len(seqs) : \E j \in 1 .. Len(seqs[i]) : flat[k] = seqs[i][j]
  /\ \A i \in 1 .. Len(seqs) : \A j \in 1 .. Len(seqs[i]) : \E k \in 1 .. Len(flat) : flat[k] = seqs[i][j]

LEMMA WithinAppend ==
  ASSUME NEW P, NEW seqs \in Seq(Seq(P)), NEW s \in Seq(P), NEW flat \in Seq(P), Within(flat, seqs)
  PROVE  Within(flat \o s, Append(seqs, s))
<1> DEFINE all == Append(seqs, s)
           whole == flat \o s
           N == Len(seqs)
           F == Len(flat)
<1>1. /\ N \in Nat /\ F \in Nat /\ Len(s) \in Nat /\ Len(all) = N + 1 /\ all[N + 1] = s
      /\ \A i \in 1 .. N : all[i] = seqs[i]
  BY AppendProperties
<1>2. Len(whole) = F + Len(s) /\ (\A k \in 1 .. F : whole[k] = flat[k]) /\ \A k \in 1 .. Len(s) : whole[F + k] = s[k]
  BY ConcatProperties
<1>7. (\A i \in 1 .. N : Len(seqs[i]) \in Nat) /\ 1 .. N \subseteq 1 .. N + 1 /\ N + 1 \in 1 .. N + 1
  BY <1>1
<1>8. \A k \in 1 .. F : \E i \in 1 .. N : \E j \in 1 .. Len(seqs[i]) : flat[k] = seqs[i][j]
  BY Zenon DEF Within
<1> HIDE DEF all, whole, N, F
<1>3. ASSUME NEW k \in 1 .. Len(whole)
      PROVE  \E i \in 1 .. Len(all) : \E j \in 1 .. Len(all[i]) : whole[k] = all[i][j]
  <2>1. CASE k <= F
    <3>1. k \in 1 .. F
      BY <1>1, <1>2, <2>1
    <3>2. PICK i \in 1 .. N : \E j \in 1 .. Len(seqs[i]) : flat[k] = seqs[i][j]
      BY <1>8, <3>1
    <3>3. PICK j \in 1 .. Len(seqs[i]) : flat[k] = seqs[i][j]
      BY <3>2
    <3> QED BY <1>1, <1>2, <1>7, <3>1, <3>2, <3>3
  <2>2. CASE k > F
    <3>1. k - F \in 1 .. Len(s) /\ F + (k - F) = k
      BY <1>1, <1>2, <2>2
    <3>2. whole[k] = s[k - F]
      BY <1>2, <3>1
    <3> QED BY <1>1, <1>7, <3>1, <3>2
  <2> QED BY <1>1, <1>2, <2>1, <2>2
<1>4. ASSUME NEW i \in 1 .. Len(all), NEW j \in 1 .. Len(all[i])
      PROVE  \E k \in 1 .. Len(whole) : whole[k] = all[i][j]
  <2>1. CASE i \in 1 .. N
    <3>1. j \in 1 .. Len(seqs[i]) /\ all[i][j] = seqs[i][j]
      BY <1>1, <2>1
    <3>2. PICK k \in 1 .. F : flat[k] = seqs[i][j]
      BY <2>1, <3>1 DEF Within, N, F
    <3>3. k \in 1 .. Len(whole)
      BY <1>1, <1>2, <3>2
    <3> QED BY <1>2, <3>1, <3>2, <3>3
  <2>2. CASE i = N + 1
    <3>1. j \in 1 .. Len(s) /\ all[i][j] = s[j] /\ F + j \in 1 .. Len(whole)
      BY <1>1, <1>2, <2>2
    <3> QED BY <1>2, <3>1
  <2> QED BY <1>1, <2>1, <2>2
<1> QED BY <1>3, <1>4 DEF Within, all, whole

LEMMA FlattenWithin ==
  ASSUME NEW P, NEW seqs \in Seq(Seq(P))
  PROVE  Within(FlattenSeq(seqs), seqs)
<1> DEFINE T == Seq(P)
           upto(n) == SubSeq(seqs, 1, n)
           Holds(n) == Within(FlattenSeq(upto(n)), upto(n))
           A == {n \in Nat : n <= Len(seqs) => Holds(n)}
<1>1. 0 \in A
  <2>1. upto(0) = <<>> /\ Len(<<>>) = 0 /\ FlattenSeq(<<>>) = <<>>
    BY FlattenEmpty
  <2> HIDE DEF upto
  <2> QED BY <2>1 DEF Within
<1>2. ASSUME NEW n \in Nat, n \in A PROVE n + 1 \in A
  <2> SUFFICES ASSUME n + 1 <= Len(seqs) PROVE Holds(n + 1)
    OBVIOUS
  <2> DEFINE m == seqs[n + 1]
             some == upto(n)
             flat == FlattenSeq(some)
  <2>1. m \in T /\ some \in Seq(T) /\ upto(n + 1) = Append(some, m)
    OBVIOUS
  <2>2. Within(flat, some)
    BY <1>2
  <2> HIDE DEF A, upto, m, some
  <2>3. flat \in Seq(P) /\ FlattenSeq(Append(some, m)) = flat \o m
    BY <2>1, FlattenInSeq, FlattenAppend
  <2> HIDE DEF flat
  <2>4. Within(flat \o m, Append(some, m))
    BY <2>1, <2>2, <2>3, WithinAppend
  <2> QED BY <2>1, <2>3, <2>4
<1> HIDE DEF A
<1>3. Len(seqs) \in A
  <2>1. \A n \in Nat : n \in A
    BY <1>1, <1>2, SetInduction
  <2> QED BY <2>1, LenProperties
<1>4. upto(Len(seqs)) = seqs
  BY SubSeqFull
<1> HIDE DEF upto
<1>5. Holds(Len(seqs))
  BY <1>3 DEF A
<1> QED BY <1>4, <1>5

\* Where each of some sequences is, in all of them one after the other.
Laid(start, flat, seqs) ==
  /\ start \in [0 .. Len(seqs) -> Nat] /\ start[0] = 0 /\ start[Len(seqs)] = Len(flat)
  /\ \A n \in 1 .. Len(seqs) : start[n] = start[n - 1] + Len(seqs[n]) /\ start[n] <= Len(flat)
  /\ \A n \in 1 .. Len(seqs) : \A j \in 1 .. Len(seqs[n]) : flat[start[n - 1] + j] = seqs[n][j]

LEMMA FlattenPlaces ==
  ASSUME NEW P, NEW seqs \in Seq(Seq(P))
  PROVE  \E start : Laid(start, FlattenSeq(seqs), seqs)
<1> DEFINE N == Len(seqs)
<1>1. PICK g : Flattens(g, P, seqs) /\ FlattenSeq(seqs) = g[N]
  BY FlattenIs
<1>2. N \in Nat /\ (\A n \in 1 .. N : seqs[n] \in Seq(P) /\ Len(seqs[n]) \in Nat) /\ \A n \in 0 .. N : g[n] \in Seq(P) /\ Len(g[n]) \in Nat
  <2>1. N \in Nat /\ \A n \in 1 .. N : seqs[n] \in Seq(P) /\ Len(seqs[n]) \in Nat
    OBVIOUS
  <2>2. g \in [0 .. N -> Seq(P)]
    BY <1>1 DEF Flattens
  <2> QED BY <2>1, <2>2
<1>3. ASSUME NEW n \in 1 .. N
      PROVE  /\ Len(g[n]) = Len(g[n - 1]) + Len(seqs[n])
             /\ \A i \in 1 .. Len(g[n - 1]) : g[n][i] = g[n - 1][i]
             /\ \A j \in 1 .. Len(seqs[n]) : g[n][Len(g[n - 1]) + j] = seqs[n][j]
  <2> DEFINE a == g[n - 1]
             b == seqs[n]
             c == g[n]
  <2>1. n - 1 \in 0 .. N
    BY <1>2
  <2>2. a \in Seq(P) /\ b \in Seq(P) /\ c = a \o b
    BY <1>1, <1>2, <2>1 DEF Flattens, Followed
  <2> HIDE DEF a, b, c
  <2>3. Len(c) = Len(a) + Len(b) /\ (\A i \in 1 .. Len(a) : c[i] = a[i]) /\ \A j \in 1 .. Len(b) : c[Len(a) + j] = b[j]
    BY <2>2, ConcatProperties
  <2> QED BY <2>3 DEF a, b, c
<1> DEFINE Starts(m, n) == Len(g[n]) <= Len(g[m]) /\ \A i \in 1 .. Len(g[n]) : g[m][i] = g[n][i]
           T == {m \in Nat : m <= N => \A n \in 0 .. m : Starts(m, n)}
<1>4. 0 \in T
  BY <1>2
<1>5. ASSUME NEW m \in Nat, m \in T PROVE m + 1 \in T
  <2> SUFFICES ASSUME m + 1 <= N, NEW n \in 0 .. m + 1 PROVE Starts(m + 1, n)
    OBVIOUS
  <2> DEFINE k == m + 1
  <2>1. k \in 1 .. N /\ m = k - 1 /\ m \in 0 .. N /\ k \in 0 .. N
    BY <1>2
  <2>2. Len(g[m]) <= Len(g[k]) /\ \A i \in 1 .. Len(g[m]) : g[k][i] = g[m][i]
    <3> HIDE DEF k
    <3>1. /\ Len(g[k]) = Len(g[m]) + Len(seqs[k])
          /\ \A i \in 1 .. Len(g[m]) : g[k][i] = g[m][i]
      BY <1>3, <2>1, Zenon
    <3>2. Len(g[m]) \in Nat /\ Len(seqs[k]) \in Nat
      BY <1>2, <2>1
    <3> DEFINE a == Len(g[m])
               b == Len(g[k])
               c == Len(seqs[k])
    <3> HIDE DEF a, b, c
    <3>3. a <= b
      <4>1. a \in Nat /\ c \in Nat /\ b = a + c
        BY <3>1, <3>2 DEF a, b, c
      <4> QED BY <4>1
    <3> QED BY <3>1, <3>3 DEF a, b
  <2>3. CASE n = k
    BY <1>2, <2>1, <2>3
  <2>4. CASE n \in 0 .. m
    <3>1. Starts(m, n)
      BY <1>2, <1>5, <2>1, <2>4
    <3>2. n \in 0 .. N
      BY <2>1, <2>4
    <3> HIDE DEF k
    <3> QED BY <1>2, <2>1, <2>2, <3>1, <3>2
  <2> QED BY <2>1, <2>3, <2>4
<1> HIDE DEF T
<1>6. \A n \in 0 .. N : Starts(N, n)
  <2>1. \A m \in Nat : m \in T
    BY <1>4, <1>5, SetInduction
  <2>2. N \in T /\ N <= N
    BY <1>2, <2>1
  <2> HIDE DEF Starts
  <2> QED BY <2>2, Zenon DEF T
<1> DEFINE start == [n \in 0 .. N |-> Len(g[n])]
           flat == g[N]
<1>7. start \in [0 .. N -> Nat] /\ start[0] = 0 /\ start[N] = Len(flat)
  <2>1. Len(g[0]) = 0
    BY <1>1 DEF Flattens
  <2> QED BY <1>2, <2>1
<1>8. ASSUME NEW n \in 1 .. N PROVE start[n] = start[n - 1] + Len(seqs[n]) /\ start[n] <= Len(flat)
  <2>1. n \in 0 .. N /\ n - 1 \in 0 .. N
    BY <1>2
  <2> QED BY <1>3, <1>6, <2>1
<1>9. ASSUME NEW n \in 1 .. N, NEW j \in 1 .. Len(seqs[n]) PROVE flat[start[n - 1] + j] = seqs[n][j]
  <2>1. n \in 0 .. N /\ n - 1 \in 0 .. N /\ start[n - 1] = Len(g[n - 1]) /\ Len(g[n - 1]) \in Nat /\ Len(seqs[n]) \in Nat
    BY <1>2
  <2>2. Len(g[n - 1]) + j \in 1 .. Len(g[n])
    <3>1. Len(g[n]) = Len(g[n - 1]) + Len(seqs[n])
      BY <1>3
    <3> DEFINE a == Len(g[n - 1])
               b == Len(g[n])
               c == Len(seqs[n])
    <3>2. a \in Nat /\ c \in Nat /\ b = a + c /\ j \in 1 .. c
      BY <2>1, <3>1
    <3> HIDE DEF a, b, c
    <3>3. a + j \in 1 .. b
      BY <3>2
    <3> QED BY <3>3 DEF a, b
  <2>3. g[n][Len(g[n - 1]) + j] = seqs[n][j]
    BY <1>3
  <2>4. flat[Len(g[n - 1]) + j] = g[n][Len(g[n - 1]) + j]
    BY <1>6, <2>1, <2>2
  <2> QED BY <2>1, <2>3, <2>4
<1> HIDE DEF start
<1>10. Laid(start, flat, seqs)
  BY <1>7, <1>8, <1>9 DEF Laid
<1> QED BY <1>1, <1>10

-----------------------------------------------------------------------------
(* Powers, and quotients of numbers *)

\* How a function of all numbers is computed from its value at 0; it exists.
UnfoldsAll(f, S, base, step) == f \in [Nat -> S] /\ f[0] = base /\ \A n \in Nat : f[n + 1] = step[<<f[n], n + 1>>]
StaysIn(S, step) == \A x \in S, n \in Nat : step[<<x, n>>] \in S

LEMMA NatRecursionExists ==
  ASSUME NEW S, NEW base \in S, NEW step, StaysIn(S, step)
  PROVE  \E f : UnfoldsAll(f, S, base, step)
<1> USE DEF StaysIn, UnfoldsAll
<1> DEFINE part(N) == [p \in S \X (1 .. N) |-> step[p]]
           G(N) == CHOOSE g : Unfolds(g, S, base, N, part(N))
           f == [n \in Nat |-> G(n)[n]]
<1>1. \A N \in Nat : Unfolds(G(N), S, base, N, part(N))
  <2> SUFFICES ASSUME NEW N \in Nat PROVE \E g : Unfolds(g, S, base, N, part(N))
    OBVIOUS
  <2>1. \A p \in S \X (1 .. N) : step[p] \in S
    OBVIOUS
  <2>2. part(N) \in Steps(S, N)
    BY <2>1 DEF Steps
  <2> QED BY <2>2, RecursionExists
<1> HIDE DEF G
<1>0. \A N \in Nat : G(N) \in [0 .. N -> S] /\ G(N)[0] = base
  BY <1>1 DEF Unfolds
<1>2. \A N \in Nat : \A n \in 1 .. N : G(N)[n] = step[<<G(N)[n - 1], n>>]
  <2> SUFFICES ASSUME NEW N \in Nat, NEW n \in 1 .. N PROVE G(N)[n] = step[<<G(N)[n - 1], n>>]
    BY <1>1 DEF Unfolds
  <2>1. G(N) \in [0 .. N -> S] /\ G(N)[n] = part(N)[<<G(N)[n - 1], n>>]
    BY <1>1 DEF Unfolds
  <2>2. n - 1 \in 0 .. N
    OBVIOUS
  <2>3. <<G(N)[n - 1], n>> \in S \X (1 .. N)
    BY <2>1, <2>2
  <2> QED BY <2>1, <2>3
<1>3. ASSUME NEW N \in Nat, NEW M \in Nat, N <= M PROVE \A n \in 0 .. N : G(N)[n] = G(M)[n]
  <2> DEFINE T == {n \in Nat : n <= N => G(N)[n] = G(M)[n]}
  <2>1. 0 \in T
    BY <1>0
  <2>2. ASSUME NEW n \in Nat, n \in T PROVE n + 1 \in T
    <3> SUFFICES ASSUME n + 1 <= N PROVE G(N)[n + 1] = G(M)[n + 1]
      OBVIOUS
    <3>1. n + 1 \in 1 .. N /\ n + 1 \in 1 .. M /\ n + 1 - 1 = n
      BY <1>3
    <3>2. G(N)[n] = G(M)[n]
      BY <2>2
    <3> HIDE DEF StaysIn, UnfoldsAll
    <3>3. G(N)[n + 1] = step[<<G(N)[n + 1 - 1], n + 1>>]
      BY <1>2, <3>1
    <3>4. G(M)[n + 1] = step[<<G(M)[n + 1 - 1], n + 1>>]
      BY <1>2, <3>1
    <3> QED BY <3>1, <3>2, <3>3, <3>4
  <2> HIDE DEF T
  <2>3. \A n \in Nat : n \in T
    BY <2>1, <2>2, SetInduction
  <2> QED BY <2>3 DEF T
<1>4. f \in [Nat -> S] /\ f[0] = base
  BY <1>0
<1>5. ASSUME NEW n \in Nat PROVE f[n + 1] = step[<<f[n], n + 1>>]
  <2>1. G(n)[n] = G(n + 1)[n]
    BY <1>3
  <2>2. n + 1 \in 1 .. n + 1 /\ n + 1 \in Nat /\ n + 1 - 1 = n
    OBVIOUS
  <2>3. G(n + 1)[n + 1] = step[<<G(n + 1)[n], n + 1>>]
    BY <1>2, <2>2
  <2> QED BY <2>1, <2>3
<1> QED BY <1>4, <1>5

\* The powers of a number, as a recursive function computes them.
ArePowers(f, b) == f = [n \in Nat |-> IF n = 0 THEN 1 ELSE b * f[n - 1]]

LEMMA PowersExist ==
  ASSUME NEW b \in Nat
  PROVE  \E f : ArePowers(f, b)
<1> DEFINE step == [p \in Nat \X Nat |-> b * p[1]]
<1>2. \A m, n \in Nat : step[<<m, n>>] = b * m
  OBVIOUS
<1> HIDE DEF step
<1>1. ASSUME NEW m \in Nat, NEW n \in Nat PROVE step[<<m, n>>] \in Nat
  <2>1. step[<<m, n>>] = b * m
    BY <1>2
  <2>2. b * m \in Nat
    OBVIOUS
  <2> QED BY <2>1, <2>2
<1> DEFINE S == Nat
           one == 1
<1>0. one \in S /\ StaysIn(S, step)
  BY <1>1 DEF StaysIn
<1> HIDE DEF S, one
<1>3. PICK f : UnfoldsAll(f, S, one, step)
  BY <1>0, NatRecursionExists
<1> USE DEF S, one, UnfoldsAll
<1>4. ASSUME NEW n \in Nat, n # 0 PROVE f[n] = b * f[n - 1]
  <2>1. n - 1 \in Nat /\ n - 1 + 1 = n /\ f[n - 1] \in Nat
    BY <1>3, <1>4
  <2> QED BY <1>2, <1>3, <2>1
<1>5. \A n \in Nat : f[n] = IF n = 0 THEN 1 ELSE b * f[n - 1]
  BY <1>3, <1>4
<1>6. f = [n \in Nat |-> IF n = 0 THEN 1 ELSE b * f[n - 1]]
  BY <1>3, <1>5
<1> QED BY <1>6 DEF ArePowers

LEMMA PowersAre ==
  ASSUME NEW b \in Nat \ {0}, NEW f, ArePowers(f, b)
  PROVE  f[0] = 1 /\ \A n \in Nat : f[n] \in Nat \ {0} /\ f[n + 1] = b * f[n]
<1>1. f[0] = 1 /\ \A n \in Nat : f[n + 1] = b * f[n]
  BY DEF ArePowers
<1> DEFINE T == {n \in Nat : f[n] \in Nat \ {0}}
<1>2. 0 \in T /\ \A n \in Nat : n \in T => n + 1 \in T
  BY <1>1
<1> HIDE DEF T
<1>3. \A n \in Nat : n \in T
  BY <1>2, SetInduction
<1> QED BY <1>1, <1>3 DEF T

LEMMA PowersOfSums ==
  ASSUME NEW b \in Nat \ {0}, NEW f, ArePowers(f, b), NEW m \in Nat, NEW n \in Nat
  PROVE  f[m + n] = f[m] * f[n]
<1> DEFINE T == {k \in Nat : f[m + k] = f[m] * f[k]}
<1>1. f[0] = 1 /\ f[m] \in Nat
  BY PowersAre
<1>2. 0 \in T
  BY <1>1
<1>3. ASSUME NEW k \in Nat, k \in T PROVE k + 1 \in T
  <2>1. f[m + k + 1] = b * f[m + k] /\ f[k + 1] = b * f[k] /\ f[k] \in Nat /\ m + k \in Nat
    BY PowersAre
  <2>2. b * (f[m] * f[k]) = f[m] * (b * f[k])
    BY <1>1, <2>1
  <2> QED BY <1>3, <2>1, <2>2
<1> HIDE DEF T
<1>4. \A k \in Nat : k \in T
  BY <1>2, <1>3, SetInduction
<1> QED BY <1>4 DEF T

LEMMA LargerPowers ==
  ASSUME NEW b \in Nat \ {0, 1}, NEW f, ArePowers(f, b), NEW m \in Nat, NEW n \in Nat, m < n
  PROVE  f[m] < f[n]
<1>1. b \in Nat \ {0}
  OBVIOUS
<1> DEFINE T == {k \in Nat : f[m] < f[m + 1 + k]}
<1>2. ASSUME NEW k \in Nat PROVE f[k] \in Nat \ {0} /\ f[k + 1] = b * f[k] /\ f[k] < f[k + 1]
  <2>1. f[k] \in Nat \ {0} /\ f[k + 1] = b * f[k]
    BY <1>1, PowersAre
  <2>2. \A p \in Nat \ {0} : p < b * p
    OBVIOUS
  <2> QED BY <2>1, <2>2
<1>3. 0 \in T
  BY <1>2
<1>4. ASSUME NEW k \in Nat, k \in T PROVE k + 1 \in T
  <2>1. m + 1 + k \in Nat /\ m + 1 + k + 1 = m + 1 + (k + 1)
    OBVIOUS
  <2> QED BY <1>2, <1>4, <2>1
<1> HIDE DEF T
<1>5. \A k \in Nat : k \in T
  BY <1>3, <1>4, SetInduction
<1>6. n - m - 1 \in Nat /\ m + 1 + (n - m - 1) = n
  OBVIOUS
<1> QED BY <1>5, <1>6 DEF T

LEMMA Division == ASSUME NEW a \in Int, NEW d \in Nat \ {0} PROVE (a \div d) \in Int /\ (a % d) \in 0 .. d - 1 /\ a = d * (a \div d) + (a % d)
  OBVIOUS
LEMMA CancelFactor == ASSUME NEW a \in Int, NEW b \in Int, NEW k \in Nat \ {0}, k * a < k * b PROVE a < b
  OBVIOUS
LEMMA QuotientIs == ASSUME NEW a \in Int, NEW d \in Nat \ {0}, NEW q \in Int, q * d <= a, a < q * d + d PROVE a \div d = q
<1> DEFINE p == a \div d
           r == a % d
<1>1. p \in Int /\ r \in 0 .. d - 1 /\ a = d * p + r
  BY Division
<1> HIDE DEF p, r
<1>2. d * p < d * (q + 1) /\ d * q < d * (p + 1)
  <2>1. d * p = p * d /\ d * (q + 1) = q * d + d /\ d * (p + 1) = d * p + d /\ d * q = q * d
    BY <1>1
  <2> HIDE <1>1
  <2>2. d * p <= a /\ a < d * p + d
    BY <1>1
  <2>3. d * p \in Int /\ q * d \in Int /\ d \in Int
    BY <1>1
  <2> QED BY <2>1, <2>2, <2>3
<1>3. p < q + 1 /\ q < p + 1
  BY <1>1, <1>2, CancelFactor
<1>4. p = q
  BY <1>1, <1>3
<1> QED BY <1>4 DEF p
LEMMA QuotientAndRest == ASSUME NEW a \in Int, NEW d \in Nat \ {0}, NEW q \in Int, NEW r \in 0 .. d - 1, a = q * d + r PROVE a \div d = q /\ a % d = r
  BY QuotientIs
LEMMA CancelsDivision == ASSUME NEW a \in Nat, NEW d \in Nat \ {0}, NEW k \in Nat \ {0} PROVE (a * k) \div (d * k) = a \div d
<1> DEFINE p == a \div d
<1>1. p \in Int /\ p * d <= a /\ a < p * d + d
  BY Division
<1> HIDE DEF p
<1>2. p * (d * k) <= a * k /\ a * k < p * (d * k) + d * k /\ d * k \in Nat \ {0} /\ a * k \in Nat
  BY <1>1
<1> QED BY <1>2, <1>1, QuotientIs DEF p

LEMMA WholeQuotient ==
  ASSUME NEW a \in Nat, NEW d \in Nat \ {0}, a % d = 0
  PROVE  a \div d \in Nat /\ a = (a \div d) * d
<1> DEFINE q == a \div d
           r == a % d
<1>1. q \in Int /\ r = 0 /\ a = d * q + r
  BY Division
<1> HIDE DEF q, r
<1>2. a = q * d
  BY <1>1
<1>3. \A n \in Int : n * d \in Nat => n \in Nat
  OBVIOUS
<1> QED BY <1>1, <1>2, <1>3 DEF q

LEMMA Multiple ==
  ASSUME NEW q \in Int, NEW d \in Nat \ {0}
  PROVE  (q * d) \div d = q /\ (q * d) % d = 0
<1> DEFINE a == q * d
           r == 0
<1>1. a \in Int /\ r \in 0 .. d - 1 /\ a = q * d + r
  OBVIOUS
<1> HIDE DEF a, r
<1>2. a \div d = q /\ a % d = r
  BY <1>1, QuotientAndRest
<1> QED BY <1>2 DEF a, r

-----------------------------------------------------------------------------
(* The bits of a number, given the powers of two *)

IsBit(two, n, b) == (n \div two[b]) % 2 = 1

LEMMA DivideTwice ==
  ASSUME NEW a \in Int, NEW d \in Nat \ {0}, NEW e \in Nat \ {0}
  PROVE  a \div (d * e) = (a \div d) \div e
<1> DEFINE q == a \div d
           p == q \div e
<1>1. q \in Int /\ q * d <= a /\ a < q * d + d
  BY Division
<1> HIDE DEF q
<1>2. p \in Int /\ p * e <= q /\ q + 1 <= p * e + e
  BY <1>1, Division
<1> HIDE DEF p
<1>3. d * e \in Nat \ {0}
  OBVIOUS
<1>4. (p * e) * d <= q * d /\ (q + 1) * d <= (p * e + e) * d
  <2>1. \A x, y \in Int : x <= y => x * d <= y * d
    OBVIOUS
  <2> QED BY <1>1, <1>2, <2>1
<1>5. p * (d * e) = (p * e) * d /\ (p * e + e) * d = p * (d * e) + d * e /\ (q + 1) * d = q * d + d
  BY <1>1, <1>2
<1>6. p * (d * e) <= a /\ a < p * (d * e) + d * e
  BY <1>1, <1>2, <1>4, <1>5
<1>7. a \div (d * e) = p
  BY <1>2, <1>3, <1>6, QuotientIs
<1> QED BY <1>7 DEF p, q

LEMMA TwosAre ==
  ASSUME NEW two, ArePowers(two, 2)
  PROVE  /\ two[0] = 1 /\ \A n \in Nat : two[n] \in Nat \ {0} /\ two[n + 1] = 2 * two[n]
         /\ \A m, n \in Nat : two[m + n] = two[m] * two[n]
         /\ \A m, n \in Nat : m < n => two[m] < two[n]
         /\ \A m, n \in Nat : m <= n => two[m] <= two[n]
<1> DEFINE base == 2
<1>1. base \in Nat \ {0} /\ base \in Nat \ {0, 1} /\ ArePowers(two, base)
  OBVIOUS
<1> HIDE DEF base
<1>2. two[0] = 1 /\ \A n \in Nat : two[n] \in Nat \ {0} /\ two[n + 1] = base * two[n]
  BY <1>1, PowersAre
<1>3. \A m, n \in Nat : two[m + n] = two[m] * two[n]
  BY <1>1, PowersOfSums
<1>4. \A m, n \in Nat : m < n => two[m] < two[n]
  BY <1>1, LargerPowers
<1>5. \A m, n \in Nat : m <= n => two[m] <= two[n]
  <2> SUFFICES ASSUME NEW m \in Nat, NEW n \in Nat, m <= n PROVE two[m] <= two[n]
    OBVIOUS
  <2>1. two[m] \in Nat
    BY <1>2
  <2>2. CASE m = n
    BY <2>1, <2>2
  <2>3. CASE m < n
    <3>1. two[m] < two[n] /\ two[n] \in Nat
      BY <1>2, <1>4, <2>3
    <3> QED BY <2>1, <3>1
  <2> QED BY <2>2, <2>3
<1> QED BY <1>2, <1>3, <1>4, <1>5 DEF base

\* The bits of two numbers put side by side.
LEMMA JoinedBits ==
  ASSUME NEW two, ArePowers(two, 2), NEW x \in Int, NEW k \in Nat, NEW y \in 0 .. two[k] - 1, NEW b \in Nat
  PROVE  IsBit(two, x * two[k] + y, b) <=> IF b < k THEN IsBit(two, y, b) ELSE IsBit(two, x, b - k)
<1> DEFINE n == x * two[k] + y
<1>1. two[k] \in Nat \ {0} /\ two[b] \in Nat \ {0} /\ y \in Int /\ n \in Int
  <2>1. two[k] \in Nat \ {0} /\ two[b] \in Nat \ {0}
    BY TwosAre
  <2>2. \A t \in Nat : x * t \in Int
    OBVIOUS
  <2>3. x * two[k] \in Int
    BY <2>1, <2>2
  <2> QED BY <2>1, <2>3
<1>2. ASSUME b >= k PROVE IsBit(two, n, b) <=> IsBit(two, x, b - k)
  <2>1. n \div two[k] = x
    BY <1>1, QuotientIs
  <2>2. two[b] = two[k] * two[b - k] /\ two[b - k] \in Nat \ {0}
    <3>1. b - k \in Nat /\ b = k + (b - k)
      BY <1>2
    <3>2. two[k + (b - k)] = two[k] * two[b - k] /\ two[b - k] \in Nat \ {0}
      BY <3>1, TwosAre
    <3> QED BY <3>1, <3>2
  <2>3. n \div two[b] = x \div two[b - k]
    BY <1>1, <2>1, <2>2, DivideTwice
  <2> QED BY <2>3 DEF IsBit
<1>3. ASSUME b < k PROVE IsBit(two, n, b) <=> IsBit(two, y, b)
  <2> DEFINE m == two[k - b - 1]
             z == y \div two[b]
  <2>1. m \in Nat \ {0} /\ two[k] = two[b] * (2 * m)
    <3>1. k - b - 1 \in Nat /\ k - b \in Nat /\ k - b = (k - b - 1) + 1 /\ k = b + (k - b)
      BY <1>3
    <3>2. two[k - b] = 2 * m /\ m \in Nat \ {0}
      BY <3>1, TwosAre
    <3>3. two[b + (k - b)] = two[b] * two[k - b]
      BY <3>1, TwosAre
    <3> QED BY <3>1, <3>2, <3>3
  <2> HIDE DEF m
  <2>2. z \in Int /\ z * two[b] <= y /\ y < z * two[b] + two[b]
    <3> DEFINE t == two[b]
               r == y % t
    <3>1. t \in Nat \ {0} /\ y \in Int
      BY <1>1
    <3> HIDE DEF t
    <3>2. (y \div t) \in Int /\ r \in 0 .. t - 1 /\ y = t * (y \div t) + r
      BY <3>1, Division
    <3> DEFINE q == y \div t
    <3> HIDE DEF q, r
    <3>3. q * t <= y /\ y < q * t + t
      <4>1. t * q = q * t /\ q * t \in Int /\ r \in Int
        BY <3>1, <3>2 DEF q
      <4> QED BY <3>1, <3>2, <4>1 DEF q
    <3> QED BY <3>2, <3>3 DEF q, t
  <2> HIDE DEF z
  <2> DEFINE t == two[b]
             h == x * m
  <2>3. h \in Int /\ 2 * h + z \in Int
    BY <2>1, <2>2
  <2>4. (2 * h + z) * t <= n /\ n < (2 * h + z) * t + t
    <3>1. x * (t * (2 * m)) = (2 * h) * t
      BY <1>1, <2>1
    <3>2. (2 * h + z) * t = (2 * h) * t + z * t
      BY <1>1, <2>2, <2>3
    <3>3. n = x * (t * (2 * m)) + y
      BY <2>1
    <3> HIDE DEF h, t
    <3>4. (2 * h) * t \in Int /\ z * t \in Int
      BY <1>1, <2>2, <2>3 DEF t
    <3> QED BY <1>1, <2>2, <3>1, <3>2, <3>3, <3>4 DEF t
  <2> HIDE DEF h, n
  <2>5. n \div t = 2 * h + z
    BY <1>1, <2>3, <2>4, QuotientIs
  <2>6. (2 * h + z) % 2 = z % 2
    BY <2>2, <2>3
  <2> QED BY <2>5, <2>6 DEF IsBit, z
<1> QED BY <1>1, <1>2, <1>3

LEMMA RestHasLowBits ==
  ASSUME NEW two, ArePowers(two, 2), NEW n \in Int, NEW k \in Nat, NEW b \in 0 .. k - 1
  PROVE  /\ n % two[k] \in 0 .. two[k] - 1
         /\ IsBit(two, n % two[k], b) <=> IsBit(two, n, b)
<1> DEFINE q == n \div two[k]
           r == n % two[k]
<1>1. q \in Int /\ r \in 0 .. two[k] - 1 /\ n = q * two[k] + r
  <2> DEFINE t == two[k]
  <2>1. t \in Nat \ {0}
    BY TwosAre
  <2> HIDE DEF t
  <2>2. (n \div t) \in Int /\ (n % t) \in 0 .. t - 1 /\ n = t * (n \div t) + (n % t)
    BY <2>1, Division
  <2>3. t * (n \div t) = (n \div t) * t
    BY <2>1, <2>2
  <2> QED BY <2>2, <2>3 DEF t
<1> HIDE DEF q, r
<1>2. b \in Nat /\ b < k
  OBVIOUS
<1>3. IsBit(two, q * two[k] + r, b) <=> IsBit(two, r, b)
  BY <1>1, <1>2, JoinedBits
<1> QED BY <1>1, <1>3 DEF r

LEMMA NoBitsAbove ==
  ASSUME NEW two, ArePowers(two, 2), NEW k \in Nat, NEW n \in -two[k] .. two[k] - 1, NEW b \in Nat, b >= k
  PROVE  IsBit(two, n, b) <=> n < 0
<1>1. two[k] \in Nat /\ two[b] \in Nat \ {0} /\ two[k] <= two[b]
  BY TwosAre
<1>2. n \div two[b] = IF n < 0 THEN -1 ELSE 0
  <2> DEFINE q == IF n < 0 THEN -1 ELSE 0
             t == two[b]
  <2>1. q \in Int /\ q * t <= n /\ n < q * t + t /\ t \in Nat \ {0} /\ n \in Int
    BY <1>1
  <2> HIDE DEF q, t
  <2>2. n \div t = q
    BY <2>1, QuotientIs
  <2> QED BY <2>2 DEF q, t
<1> DEFINE q == n \div two[b]
<1>3. q \in Int /\ (n < 0 => q = 2 * (0 - 1) + 1) /\ (~(n < 0) => q = 2 * 0)
  BY <1>2
<1> HIDE DEF q
<1>4. (n < 0 => q % 2 = 1) /\ (~(n < 0) => q % 2 = 0)
  BY <1>3
<1> QED BY <1>4 DEF IsBit, q
=============================================================================
