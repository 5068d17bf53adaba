---------------------------- MODULE Numeric_proofs ----------------------------
(***************************************************************************)
(* Proofs about the numeric code.  Whatever the sizes of their buffers,    *)
(* the kernels read inside them, also when they throw halfway, but in two  *)
(* calls; the products visit every element where its file keeps it, in     *)
(* order, exactly for tensors of whole blocks per row; every half, and     *)
(* every list of values to quantize, keeps its numbers; and the sampler    *)
(* draws as nucleus sampling does.                                         *)
(***************************************************************************)
EXTENDS Numeric, SequenceTheorems, FiniteSetTheorems, WellFoundedInduction, TLAPS

Parts == {"whole", "low", "high"}

\* The reads that stay inside buffers of these sizes.
Inner(size) ==
  {read \in (DOMAIN size) \X Nat \X Nat \X Parts :
     read[2] + read[3] <= size[read[1]]}

\* The outputs that read nothing else.
InnerOutputs(size) == Seq(Seq(Seq(Inner(size))))

\* Buffers have a length.
IsSizes(size, buffers) == DOMAIN size = buffers /\ \A b \in buffers : size[b] \in Nat

-----------------------------------------------------------------------------
(* Arithmetic of rows. *)

LEMMA RowFits ==
  ASSUME NEW m \in Nat, NEW n \in Nat, NEW i \in 0 .. m - 1
  PROVE  i * n \in Nat /\ i * n + n <= m * n
<1>1. \A a, c \in Nat : a * c \in Nat
  OBVIOUS
<1>2. i \in Nat /\ m - 1 - i \in Nat
  OBVIOUS
<1>3. i * n \in Nat /\ (m - 1 - i) * n \in Nat
  BY <1>1, <1>2
<1>4. m * n = i * n + n + (m - 1 - i) * n
  BY <1>2
<1> QED  BY <1>1, <1>3, <1>4

LEMMA IndexFits ==
  ASSUME NEW m \in Nat, NEW n \in Nat, NEW i \in 0 .. m - 1, NEW j \in 0 .. n - 1
  PROVE  i * n + j \in Nat /\ i * n + j < m * n
<1>1. i * n \in Nat /\ i * n + n <= m * n
  BY RowFits
<1>2. m * n \in Nat
  OBVIOUS
<1> QED  BY <1>1, <1>2

LEMMA BlocksCover ==
  ASSUME NEW n \in Nat, NEW c \in 0 .. n - 1
  PROVE  /\ Blocks(n) \in Nat
         /\ c \div 32 \in 0 .. Blocks(n) - 1
         /\ c % 32 \in 0 .. 31
  BY DEF Blocks

LEMMA TimesOrdered ==
  ASSUME NEW d \in Nat \ {0}, NEW q \in Int, NEW k \in Int, q >= k
  PROVE  q * d \in Int /\ q * d >= k * d
<1>1. q - k \in Nat
  OBVIOUS
<1>2. (q - k) * d \in Nat
  BY <1>1
<1>3. q * d = (q - k) * d + k * d
  OBVIOUS
<1>4. k * d \in Int
  OBVIOUS
<1> QED  BY <1>2, <1>3, <1>4

\* x is q times d, and a rest r.
Splits(x, d, q, r) == x \in Nat /\ q \in Nat /\ r \in 0 .. d - 1 /\ x = q * d + r

LEMMA Digits ==
  ASSUME NEW x \in Nat, NEW d \in Nat \ {0}
  PROVE  Splits(x, d, x \div d, x % d)
<1>1. x \div d \in Nat
  BY SMT
<1>2. x % d \in 0 .. d - 1
  BY SMT
<1>3. x - d * (x \div d) = x % d
  BY SMT
<1>4. d * (x \div d) = (x \div d) * d /\ d * (x \div d) \in Int
  BY <1>1
<1> DEFINE q == x \div d
           r == x % d
<1> HIDE DEF q, r
<1>5. x = q * d + r
  BY <1>2, <1>3, <1>4 DEF q, r
<1> QED  BY <1>1, <1>2, <1>5 DEF Splits, q, r

LEMMA DigitsUnique ==
  ASSUME NEW x, NEW d \in Nat \ {0}, NEW q, NEW r, Splits(x, d, q, r)
  PROVE  x \div d = q /\ x % d = r
<1>0. x \in Nat /\ q \in Nat /\ r \in 0 .. d - 1 /\ x = q * d + r
  BY DEF Splits
<1> DEFINE z == x \div d
           w == x % d
<1>1. z \in Nat /\ w \in 0 .. d - 1 /\ x = z * d + w
  BY <1>0, Digits DEF Splits
<1> HIDE DEF z, w
<1>2. ASSUME z >= q + 1
      PROVE  FALSE
  <2>1. z * d >= (q + 1) * d /\ z * d \in Int
    BY <1>0, <1>1, <1>2, TimesOrdered
  <2>2. (q + 1) * d = q * d + d /\ q * d \in Int
    BY <1>0
  <2> QED  BY <1>0, <1>1, <2>1, <2>2
<1>3. ASSUME q >= z + 1
      PROVE  FALSE
  <2>1. q * d >= (z + 1) * d /\ q * d \in Int
    BY <1>0, <1>1, <1>3, TimesOrdered
  <2>2. (z + 1) * d = z * d + d /\ z * d \in Int
    BY <1>1
  <2> QED  BY <1>0, <1>1, <2>1, <2>2
<1>4. z = q
  BY <1>0, <1>1, <1>2, <1>3
<1>5. w = r
  <2>1. z * d = q * d /\ q * d \in Int
    BY <1>0, <1>4
  <2> QED  BY <1>0, <1>1, <2>1
<1> QED  BY <1>4, <1>5 DEF z, w

\* An output of a product of m rows and n columns is in one of them.
LEMMA CellInside ==
  ASSUME NEW m \in Nat \ {0}, NEW n \in Nat \ {0}, NEW y \in 1 .. m * n
  PROVE  /\ Splits(y - 1, n, (y - 1) \div n, (y - 1) % n)
         /\ (y - 1) \div n \in 0 .. m - 1 /\ (y - 1) % n \in 0 .. n - 1
<1> DEFINE i == (y - 1) \div n
           j == (y - 1) % n
<1>1. m * n \in Nat
  OBVIOUS
<1>2. y - 1 \in Nat /\ y - 1 < m * n
  BY <1>1
<1>3. Splits(y - 1, n, i, j)
  BY <1>2, Digits
<1> HIDE DEF i, j
<1>4. i \in Nat /\ j \in 0 .. n - 1 /\ y - 1 = i * n + j
  BY <1>3 DEF Splits
<1>5. ASSUME i >= m
      PROVE  FALSE
  <2>1. i * n >= m * n /\ i * n \in Int
    BY <1>4, <1>5, TimesOrdered
  <2> QED  BY <1>1, <1>2, <1>4, <2>1
<1> QED  BY <1>3, <1>4, <1>5 DEF i, j

-----------------------------------------------------------------------------
(* Induction, by the least number that would be missing from a set. *)

LEMMA NatSetHasLeast ==
  ASSUME NEW S, S \subseteq Nat, S # {}
  PROVE  \E x \in S : \A y \in S : x <= y
<1>1. IsWellFoundedOn(OpToRel(<, Nat), Nat)
  BY NatLessThanWellFounded
<1>2. PICK x \in S : \A y \in S : ~(<<y, x>> \in OpToRel(<, Nat))
  BY <1>1, WFMin
<1>3. \A y \in S : ~(y < x)
  BY <1>2 DEF OpToRel
<1> QED  BY <1>3

LEMMA SetInduction ==
  ASSUME NEW S, 0 \in S, \A n \in Nat : n \in S => n + 1 \in S
  PROVE  \A n \in Nat : n \in S
<1> DEFINE T == {n \in Nat : n \notin S}
<1>1. ASSUME T # {}
      PROVE  FALSE
  <2>1. T \subseteq Nat
    OBVIOUS
  <2> HIDE DEF T
  <2>2. PICK x \in T : \A y \in T : x <= y
    BY <1>1, <2>1, NatSetHasLeast
  <2>3. x \in Nat /\ x \notin S /\ x # 0
    BY DEF T
  <2>4. x - 1 \in Nat /\ x - 1 \notin T
    BY <2>2, <2>3, <2>1
  <2>5. x - 1 \in S
    BY <2>4 DEF T
  <2>6. (x - 1) + 1 \in S /\ (x - 1) + 1 = x
    BY <2>3, <2>4, <2>5
  <2> QED  BY <2>3, <2>6
<1> QED  BY <1>1

-----------------------------------------------------------------------------
(* Sums of steps. *)

\* The recursive step of Sums, when g gives the sums of the first steps.
SumFrom(steps, y, g, n) ==
  IF n = 0 THEN <<>>
  ELSE IF y \in steps[n].to THEN Append(g[n - 1], steps[n].term) ELSE g[n - 1]

IsSum(steps, y, g) == g = [n \in 0 .. Len(steps) |-> SumFrom(steps, y, g, n)]

LEMMA SumExists ==
  ASSUME NEW steps, Len(steps) \in Nat, NEW y
  PROVE  \E g : IsSum(steps, y, g)
<1> DEFINE N == Len(steps)
           Solves(g, k) == /\ g = [n \in 0 .. N |-> g[n]]
                           /\ \A n \in 0 .. N : n <= k => g[n] = SumFrom(steps, y, g, n)
           S == {k \in Nat : \E g : Solves(g, k)}
<1>1. N \in Nat
  OBVIOUS
<1> HIDE DEF N
<1>2. 0 \in S
  <2> DEFINE g == [n \in 0 .. N |-> <<>>]
  <2>1. Solves(g, 0)
    BY DEF SumFrom
  <2> QED  BY <2>1
<1>3. ASSUME NEW k \in Nat, k \in S
      PROVE  k + 1 \in S
  <2>1. PICK g : Solves(g, k)
    BY <1>3
  <2> DEFINE h == [n \in 0 .. N |-> IF n = k + 1 THEN SumFrom(steps, y, g, n) ELSE g[n]]
  <2>2. ASSUME NEW n \in 0 .. N, n <= k + 1
        PROVE  h[n] = SumFrom(steps, y, h, n)
    <3>1. h[n] = SumFrom(steps, y, g, n)
      BY <2>1, <2>2
    <3>2. n # 0 => h[n - 1] = g[n - 1]
      BY <1>1, <2>2
    <3> HIDE DEF h
    <3> QED  BY <3>1, <3>2 DEF SumFrom
  <2>3. Solves(h, k + 1)
    BY <2>2
  <2> HIDE DEF h, Solves
  <2> QED  BY <2>3
<1>4. \A k \in Nat : k \in S => k + 1 \in S
  BY <1>3
<1> HIDE DEF S
<1>5. N \in S
  BY <1>1, <1>2, <1>4, SetInduction
<1>6. PICK g : Solves(g, N)
  BY <1>5 DEF S
<1>7. \A n \in 0 .. N : g[n] = SumFrom(steps, y, g, n)
  BY <1>1, <1>6
<1> QED  BY <1>6, <1>7 DEF IsSum, N

\* g gives the sums of the first n steps.
SumsUpTo(steps, y, g) ==
  /\ g[0] = <<>>
  /\ \A n \in 1 .. Len(steps) :
       g[n] = IF y \in steps[n].to THEN Append(g[n - 1], steps[n].term) ELSE g[n - 1]

LEMMA SumsDef ==
  ASSUME NEW steps, Len(steps) \in Nat, NEW y
  PROVE  \E g : Sums(steps, y) = g[Len(steps)] /\ SumsUpTo(steps, y, g)
<1> DEFINE f == CHOOSE g : g = [n \in 0 .. Len(steps) |-> SumFrom(steps, y, g, n)]
<1>1. f = [n \in 0 .. Len(steps) |-> SumFrom(steps, y, f, n)]
  BY SumExists DEF IsSum
<1>2. Sums(steps, y) = f[Len(steps)]
  BY DEF Sums, SumFrom
<1> HIDE DEF f
<1> DEFINE e(n) == SumFrom(steps, y, f, n)
<1>3. f = [n \in 0 .. Len(steps) |-> e(n)]
  BY <1>1
<1> HIDE DEF e
<1>4. \A n \in 0 .. Len(steps) : f[n] = e(n)
  BY <1>3
<1>5. f[0] = <<>>
  BY <1>4 DEF e, SumFrom
<1>6. ASSUME NEW n \in 1 .. Len(steps)
      PROVE  f[n] = IF y \in steps[n].to THEN Append(f[n - 1], steps[n].term) ELSE f[n - 1]
  <2>1. n # 0 /\ n \in 0 .. Len(steps)
    OBVIOUS
  <2> QED  BY <1>4, <2>1 DEF e, SumFrom
<1> QED  BY <1>2, <1>5, <1>6 DEF SumsUpTo

\* The first c elements of e.
Taken(e, c) == [k \in 1 .. c |-> e[k]]

LEMMA TakenNext ==
  ASSUME NEW e, NEW c \in Nat
  PROVE  Append(Taken(e, c), e[c + 1]) = Taken(e, c + 1)
<1> DEFINE s == Taken(e, c)
<1>1. s = [k \in 1 .. c |-> e[k]]
  BY DEF Taken
<1>2. Append(s, e[c + 1]) = [k \in 1 .. c + 1 |-> e[k]]
  <2> HIDE DEF s
  <2>1. Len(s) = c /\ DOMAIN s = 1 .. c
    BY <1>1
  <2> QED  BY <1>1, <2>1
<1> QED  BY <1>2 DEF Taken

\* The steps that add to y are those at these positions, in this order.
Positions(steps, y, pos, K) ==
  /\ \A k \in 1 .. K : pos[k] \in 1 .. Len(steps) /\ y \in steps[pos[k]].to
  /\ \A k, l \in 1 .. K : k < l => pos[k] < pos[l]
  /\ \A p \in 1 .. Len(steps) : y \in steps[p].to => \E k \in 1 .. K : pos[k] = p

\* What they add is their terms, in order.
TermsAt(steps, pos, K) == [k \in 1 .. K |-> steps[pos[k]].term]

LEMMA SumsAtPositions ==
  ASSUME NEW steps, Len(steps) \in Nat, NEW y, NEW pos, NEW K \in Nat,
         Positions(steps, y, pos, K)
  PROVE  Sums(steps, y) = TermsAt(steps, pos, K)
<1> DEFINE N == Len(steps)
           e == [k \in 1 .. K |-> steps[pos[k]].term]
           Passed(n, c) == \A k \in 1 .. K : (k <= c => pos[k] <= n) /\ (k > c => pos[k] > n)
<1>1. PICK g : Sums(steps, y) = g[N] /\ SumsUpTo(steps, y, g)
  BY SumsDef
<1> DEFINE Has(n) == \E c \in 0 .. K : Passed(n, c) /\ g[n] = Taken(e, c)
           S == {n \in Nat : n <= N => Has(n)}
<1>0. N \in Nat
  OBVIOUS
<1>2. 0 \in S
  <2>1. Taken(e, 0) = <<>>
    BY DEF Taken
  <2>2. Passed(0, 0)
    BY DEF Positions
  <2>3. g[0] = <<>>
    BY <1>1 DEF SumsUpTo
  <2> HIDE DEF e, Passed
  <2> QED  BY <2>1, <2>2, <2>3
<1>3. ASSUME NEW n \in Nat, n \in S, n + 1 <= N
      PROVE  Has(n + 1)
  <2>0. Has(n)
    <3> HIDE DEF Has, N
    <3> QED  BY <1>0, <1>3
  <2>1. PICK c \in 0 .. K : Passed(n, c) /\ g[n] = Taken(e, c)
    BY <2>0
  <2>2. n + 1 \in 1 .. N
    BY <1>3
  <2>3. g[n + 1] = IF y \in steps[n + 1].to THEN Append(g[n], steps[n + 1].term) ELSE g[n]
    <3>1. (n + 1) - 1 = n
      OBVIOUS
    <3> QED  BY <1>1, <2>2, <3>1 DEF SumsUpTo
  <2>4. CASE y \in steps[n + 1].to
    <3>1. PICK k \in 1 .. K : pos[k] = n + 1
      BY <2>2, <2>4 DEF Positions
    <3>2. k = c + 1
      <4>1. k > c
        BY <2>1, <3>1
      <4>2. ASSUME k > c + 1
            PROVE  FALSE
        <5>1. c + 1 \in 1 .. K /\ c + 1 < k
          BY <4>2
        <5>2. pos[c + 1] < n + 1 /\ pos[c + 1] \in Int
          BY <3>1, <5>1 DEF Positions
        <5>3. pos[c + 1] > n
          BY <2>1, <5>1
        <5> QED  BY <5>2, <5>3
      <4> QED  BY <4>1, <4>2
    <3>3. Passed(n + 1, c + 1)
      <4> SUFFICES ASSUME NEW l \in 1 .. K
                   PROVE  (l <= c + 1 => pos[l] <= n + 1) /\ (l > c + 1 => pos[l] > n + 1)
        OBVIOUS
      <4>1. pos[l] \in Int
        BY DEF Positions
      <4>2. CASE l <= c
        BY <2>1, <4>1, <4>2
      <4>3. CASE l = c + 1
        BY <3>1, <3>2, <4>3
      <4>4. CASE l > c + 1
        BY <3>1, <3>2, <4>4 DEF Positions
      <4> QED  BY <4>2, <4>3, <4>4
    <3>4. e[c + 1] = steps[n + 1].term
      BY <3>1, <3>2
    <3> HIDE DEF e, Passed
    <3>5. g[n + 1] = Taken(e, c + 1)
      <4>1. g[n + 1] = Append(Taken(e, c), e[c + 1])
        BY <2>1, <2>3, <2>4, <3>4
      <4> QED  BY <4>1, TakenNext
    <3>6. c + 1 \in 0 .. K
      BY <3>2
    <3> QED  BY <3>3, <3>5, <3>6
  <2>5. CASE ~(y \in steps[n + 1].to)
    <3>1. Passed(n + 1, c)
      <4> SUFFICES ASSUME NEW l \in 1 .. K
                   PROVE  (l <= c => pos[l] <= n + 1) /\ (l > c => pos[l] > n + 1)
        OBVIOUS
      <4>1. pos[l] \in Int /\ pos[l] # n + 1
        BY <2>5 DEF Positions
      <4> QED  BY <2>1, <4>1
    <3> HIDE DEF e, Passed
    <3>2. g[n + 1] = Taken(e, c)
      BY <2>1, <2>3, <2>5
    <3> QED  BY <3>1, <3>2
  <2> QED  BY <2>4, <2>5
<1>4. \A n \in Nat : n \in S => n + 1 \in S
  <2> HIDE DEF Has, N
  <2> QED  BY <1>3
<1>5. N \in Nat
  OBVIOUS
<1> HIDE DEF S
<1>6. N \in S
  BY <1>2, <1>4, <1>5, SetInduction
<1>7. PICK c \in 0 .. K : Passed(N, c) /\ g[N] = Taken(e, c)
  BY <1>5, <1>6 DEF S
<1>8. c = K
  <2>1. ASSUME c # K
        PROVE  FALSE
    <3>1. c + 1 \in 1 .. K
      BY <2>1
    <3>2. pos[c + 1] > N
      BY <1>7, <3>1
    <3>3. pos[c + 1] \in 1 .. N
      BY <3>1 DEF Positions
    <3> HIDE DEF N
    <3> QED  BY <1>5, <3>2, <3>3
  <2> QED  BY <2>1
<1>9. Taken(e, K) = e
  BY DEF Taken
<1> QED  BY <1>1, <1>7, <1>8, <1>9 DEF TermsAt

\* Steps whose terms are in T.
StepsOf(T) == [to : SUBSET Int, term : T]

LEMMA SumsTyped ==
  ASSUME NEW T, NEW s \in Seq(StepsOf(T)), NEW y, NEW g, SumsUpTo(s, y, g), NEW n \in 0 .. Len(s)
  PROVE  g[n] \in Seq(T)
<1> DEFINE N == Len(s)
           S == {k \in Nat : k <= N => g[k] \in Seq(T)}
<1>1. N \in Nat
  OBVIOUS
<1>2. 0 \in S
  BY EmptySeq DEF SumsUpTo
<1>3. ASSUME NEW k \in Nat, k \in S, k + 1 <= N
      PROVE  g[k + 1] \in Seq(T)
  <2>1. k + 1 \in 1 .. N /\ (k + 1) - 1 = k /\ k <= N
    BY <1>1, <1>3
  <2>2. g[k] \in Seq(T)
    BY <1>3, <2>1
  <2>3. s[k + 1] \in StepsOf(T)
    BY <2>1
  <2>4. s[k + 1].term \in T
    BY <2>3 DEF StepsOf
  <2>5. g[k + 1] = IF y \in s[k + 1].to THEN Append(g[k], s[k + 1].term) ELSE g[k]
    BY <2>1 DEF SumsUpTo
  <2> QED  BY <2>2, <2>4, <2>5
<1>4. \A k \in Nat : k \in S => k + 1 \in S
  <2> HIDE DEF N
  <2> QED  BY <1>3
<1> HIDE DEF S
<1>5. n \in S /\ n <= N
  BY <1>1, <1>2, <1>4, SetInduction
<1> QED  BY <1>5 DEF S

\* To append after joining is to join after appending.
After(s, t, x) == Append(s \o t, x) = s \o Append(t, x)

LEMMA AppendAfter ==
  ASSUME NEW T, NEW s \in Seq(T), NEW t \in Seq(T), NEW x \in T
  PROVE  After(s, t, x)
<1> DEFINE u == Append(s \o t, x)
           v == s \o Append(t, x)
<1>1. s \o t \in Seq(T) /\ Len(s \o t) = Len(s) + Len(t)
  OBVIOUS
<1>2. Append(t, x) \in Seq(T) /\ Len(Append(t, x)) = Len(t) + 1
  OBVIOUS
<1>3. u \in Seq(T) /\ v \in Seq(T) /\ Len(u) = Len(s) + Len(t) + 1 /\ Len(v) = Len(s) + Len(t) + 1
  BY <1>1, <1>2, ConcatProperties
<1>4. ASSUME NEW i \in 1 .. Len(u)
      PROVE  u[i] = v[i]
  OBVIOUS
<1>5. u = v
  BY <1>3, <1>4, SeqEqual
<1> QED  BY <1>5 DEF After

\* The sum of two loops is the sums of both, one after the other.
InTurn(s, t, y) == Sums(s \o t, y) = Sums(s, y) \o Sums(t, y)

LEMMA SumsConcat ==
  ASSUME NEW T, NEW s \in Seq(StepsOf(T)), NEW t \in Seq(StepsOf(T)), NEW y
  PROVE  InTurn(s, t, y)
<1> DEFINE r == s \o t
           M == Len(s)
           N == Len(t)
<1>1. /\ M \in Nat /\ N \in Nat /\ Len(r) = M + N
      /\ \A n \in 1 .. M : r[n] = s[n]
      /\ \A n \in 1 .. N : r[M + n] = t[n]
  <2>1. \A n \in 1 .. M + N : r[n] = IF n <= M THEN s[n] ELSE t[n - M]
    BY ConcatProperties
  <2>2. M \in Nat /\ N \in Nat /\ Len(r) = M + N
    OBVIOUS
  <2> HIDE DEF r, M, N
  <2>3. ASSUME NEW n \in 1 .. M
        PROVE  r[n] = s[n]
    BY <2>1, <2>2
  <2>4. ASSUME NEW n \in 1 .. N
        PROVE  r[M + n] = t[n]
    <3>1. M + n \in 1 .. M + N /\ ~(M + n <= M) /\ (M + n) - M = n
      BY <2>2
    <3> QED  BY <2>1, <3>1
  <2> QED  BY <2>2, <2>3, <2>4
<1> HIDE DEF r
<1>2. PICK g : Sums(r, y) = g[M + N] /\ SumsUpTo(r, y, g)
  <2>1. Len(r) \in Nat
    BY <1>1
  <2> QED  BY <1>1, <2>1, SumsDef
<1>3. PICK f : Sums(s, y) = f[M] /\ SumsUpTo(s, y, f)
  BY SumsDef
<1>4. PICK h : Sums(t, y) = h[N] /\ SumsUpTo(t, y, h)
  BY SumsDef
<1>5. \A n \in 0 .. M : f[n] \in Seq(T)
  BY <1>3, SumsTyped
<1>6. \A n \in 0 .. N : h[n] \in Seq(T)
  BY <1>4, SumsTyped
<1> DEFINE S == {n \in Nat : n <= M => g[n] = f[n]}
<1>7. M \in S
  <2>1. 0 \in S
    BY <1>2, <1>3 DEF SumsUpTo
  <2>2. ASSUME NEW n \in Nat, n \in S, n + 1 <= M
        PROVE  g[n + 1] = f[n + 1]
    <3>1. n + 1 \in 1 .. M /\ n + 1 \in 1 .. M + N /\ (n + 1) - 1 = n /\ n <= M
      BY <1>1, <2>2
    <3>2. g[n + 1] = IF y \in r[n + 1].to THEN Append(g[n], r[n + 1].term) ELSE g[n]
      BY <1>1, <1>2, <3>1 DEF SumsUpTo
    <3>3. f[n + 1] = IF y \in s[n + 1].to THEN Append(f[n], s[n + 1].term) ELSE f[n]
      BY <1>3, <3>1 DEF SumsUpTo
    <3>4. g[n] = f[n] /\ r[n + 1] = s[n + 1]
      BY <1>1, <2>2, <3>1
    <3> QED  BY <3>2, <3>3, <3>4
  <2>3. \A n \in Nat : n \in S => n + 1 \in S
    <3> HIDE DEF M
    <3> QED  BY <1>1, <2>2
  <2> HIDE DEF S
  <2> QED  BY <1>1, <2>1, <2>3, SetInduction
<1>8. g[M] = f[M]
  BY <1>1, <1>7
<1> HIDE DEF S
<1> DEFINE Joined(n) == g[M + n] = f[M] \o h[n]
           U == {n \in Nat : n <= N => Joined(n)}
<1>9. N \in U
  <2>1. 0 \in U
    <3>1. h[0] = <<>> /\ M + 0 = M /\ f[M] \in Seq(T)
      BY <1>1, <1>4, <1>5 DEF SumsUpTo
    <3>2. f[M] \o <<>> = f[M]
      BY <3>1, ConcatEmptySeq
    <3> QED  BY <1>8, <3>1, <3>2
  <2>2. ASSUME NEW n \in Nat, n \in U, n + 1 <= N
        PROVE  Joined(n + 1)
    <3>1. /\ n + 1 \in 1 .. N /\ M + (n + 1) \in 1 .. M + N /\ (M + (n + 1)) - 1 = M + n
          /\ (n + 1) - 1 = n /\ n <= N /\ n \in 0 .. N /\ M \in 0 .. M
      BY <1>1, <2>2
    <3> DEFINE x == t[n + 1].term
    <3>2. g[M + (n + 1)]
            = IF y \in r[M + (n + 1)].to THEN Append(g[M + n], r[M + (n + 1)].term) ELSE g[M + n]
      BY <1>1, <1>2, <3>1 DEF SumsUpTo
    <3>3. h[n + 1] = IF y \in t[n + 1].to THEN Append(h[n], x) ELSE h[n]
      BY <1>4, <3>1 DEF SumsUpTo
    <3>4. g[M + n] = f[M] \o h[n] /\ r[M + (n + 1)] = t[n + 1]
      BY <1>1, <2>2, <3>1
    <3>5. x \in T
      <4>1. t[n + 1] \in StepsOf(T)
        BY <3>1
      <4> QED  BY <4>1 DEF StepsOf
    <3>6. f[M] \in Seq(T) /\ h[n] \in Seq(T)
      BY <1>5, <1>6, <3>1
    <3> HIDE DEF x
    <3>7. Append(f[M] \o h[n], x) = f[M] \o Append(h[n], x)
      <4>1. After(f[M], h[n], x)
        BY <3>5, <3>6, AppendAfter
      <4> QED  BY <4>1 DEF After
    <3> QED  BY <3>2, <3>3, <3>4, <3>7 DEF x
  <2>3. \A n \in Nat : n \in U => n + 1 \in U
    <3> HIDE DEF M, N, Joined
    <3> QED  BY <1>1, <2>2
  <2> HIDE DEF U, Joined
  <2> QED  BY <1>1, <2>1, <2>3, SetInduction
<1> HIDE DEF M, N, Joined
<1>10. Joined(N)
  BY <1>1, <1>9
<1> QED  BY <1>2, <1>3, <1>4, <1>10 DEF r, Joined, InTurn

LEMMA SumTyped ==
  ASSUME NEW T, NEW s \in Seq(StepsOf(T)), NEW y
  PROVE  Sums(s, y) \in Seq(T)
<1>1. PICK g : Sums(s, y) = g[Len(s)] /\ SumsUpTo(s, y, g)
  BY SumsDef
<1>2. Len(s) \in 0 .. Len(s)
  OBVIOUS
<1> QED  BY <1>1, <1>2, SumsTyped

-----------------------------------------------------------------------------
(* The sum of a sequence of loops, of which one adds to an output. *)

\* The recursive step of FlattenSeq.
FlatFrom(g, s, i) == IF i = 1 THEN s[i] ELSE g[i - 1] \o s[i]

IsFlat(g, s) == g = [i \in 1 .. Len(s) |-> FlatFrom(g, s, i)]

LEMMA FlatExists ==
  ASSUME NEW s, Len(s) \in Nat
  PROVE  \E g : IsFlat(g, s)
<1> DEFINE N == Len(s)
           Solves(g, k) == /\ g = [i \in 1 .. N |-> g[i]]
                           /\ \A i \in 1 .. N : i <= k => g[i] = FlatFrom(g, s, i)
           S == {k \in Nat : \E g : Solves(g, k)}
<1>1. N \in Nat
  OBVIOUS
<1> HIDE DEF N
<1>2. 0 \in S
  <2> DEFINE g == [i \in 1 .. N |-> <<>>]
  <2>1. Solves(g, 0)
    OBVIOUS
  <2> QED  BY <2>1
<1>3. ASSUME NEW k \in Nat, k \in S
      PROVE  k + 1 \in S
  <2>1. PICK g : Solves(g, k)
    BY <1>3
  <2> DEFINE h == [i \in 1 .. N |-> IF i = k + 1 THEN FlatFrom(g, s, i) ELSE g[i]]
  <2>2. ASSUME NEW i \in 1 .. N, i <= k + 1
        PROVE  h[i] = FlatFrom(h, s, i)
    <3>1. h[i] = FlatFrom(g, s, i)
      BY <2>1, <2>2
    <3>2. i # 1 => h[i - 1] = g[i - 1]
      BY <1>1, <2>2
    <3> HIDE DEF h
    <3> QED  BY <3>1, <3>2 DEF FlatFrom
  <2>3. Solves(h, k + 1)
    BY <2>2
  <2> HIDE DEF h, Solves
  <2> QED  BY <2>3
<1>4. \A k \in Nat : k \in S => k + 1 \in S
  BY <1>3
<1> HIDE DEF S
<1>5. N \in S
  BY <1>1, <1>2, <1>4, SetInduction
<1>6. PICK g : Solves(g, N)
  BY <1>5 DEF S
<1>7. \A i \in 1 .. N : g[i] = FlatFrom(g, s, i)
  BY <1>1, <1>6
<1> QED  BY <1>6, <1>7 DEF IsFlat, N

\* g gives what the first i sequences join to.
FlatUpTo(s, g) ==
  /\ g[1] = s[1]
  /\ \A i \in 2 .. Len(s) : g[i] = g[i - 1] \o s[i]

LEMMA FlattenDef ==
  ASSUME NEW s, Len(s) \in Nat \ {0}
  PROVE  \E g : FlattenSeq(s) = g[Len(s)] /\ FlatUpTo(s, g)
<1> DEFINE f == CHOOSE g : g = [i \in 1 .. Len(s) |-> FlatFrom(g, s, i)]
<1>1. f = [i \in 1 .. Len(s) |-> FlatFrom(f, s, i)]
  BY FlatExists DEF IsFlat
<1>2. FlattenSeq(s) = f[Len(s)]
  BY DEF FlattenSeq, FlatFrom
<1> HIDE DEF f
<1> DEFINE e(i) == FlatFrom(f, s, i)
<1>3. f = [i \in 1 .. Len(s) |-> e(i)]
  BY <1>1
<1> HIDE DEF e
<1>4. \A i \in 1 .. Len(s) : f[i] = e(i)
  BY <1>3
<1>5. f[1] = s[1]
  BY <1>4 DEF e, FlatFrom
<1>6. ASSUME NEW i \in 2 .. Len(s)
      PROVE  f[i] = f[i - 1] \o s[i]
  <2>1. i # 1 /\ i \in 1 .. Len(s)
    OBVIOUS
  <2> QED  BY <1>4, <2>1 DEF e, FlatFrom
<1> QED  BY <1>2, <1>5, <1>6 DEF FlatUpTo

\* Only loop i of these adds to y.
OnlyLoop(loops, y, i) == \A j \in 1 .. Len(loops) : j # i => Sums(loops[j], y) = <<>>

LEMMA FlattenSums ==
  ASSUME NEW T, NEW loops \in Seq(Seq(StepsOf(T))), NEW y, NEW i \in 1 .. Len(loops),
         OnlyLoop(loops, y, i)
  PROVE  Sums(FlattenSeq(loops), y) = Sums(loops[i], y)
<1> DEFINE N == Len(loops)
           sum == Sums(loops[i], y)
<1>1. N \in Nat \ {0} /\ i \in 1 .. N
  OBVIOUS
<1>2. PICK g : FlattenSeq(loops) = g[N] /\ FlatUpTo(loops, g)
  BY <1>1, FlattenDef
<1>3. ASSUME NEW j \in 1 .. N
      PROVE  /\ loops[j] \in Seq(StepsOf(T))
             /\ Sums(loops[j], y) = IF j = i THEN sum ELSE <<>>
  BY DEF OnlyLoop
<1>4. sum \in Seq(T)
  BY <1>1, <1>3, SumTyped
<1> DEFINE Done(j) == /\ g[j] \in Seq(StepsOf(T))
                      /\ Sums(g[j], y) = IF j < i THEN <<>> ELSE sum
           S == {k \in Nat : k + 1 <= N => Done(k + 1)}
<1> HIDE DEF N, sum
<1>5. 0 \in S
  <2>1. g[1] = loops[1] /\ 1 \in 1 .. N
    BY <1>1, <1>2 DEF FlatUpTo
  <2>2. 1 < i <=> 1 # i
    BY <1>1
  <2>3. Done(1)
    BY <1>3, <2>1, <2>2
  <2> HIDE DEF Done
  <2> QED  BY <2>3
<1>6. ASSUME NEW k \in Nat, Done(k + 1), (k + 1) + 1 <= N
      PROVE  Done((k + 1) + 1)
  <2> DEFINE j == (k + 1) + 1
  <2>1. j \in 2 .. N /\ j - 1 = k + 1 /\ j \in 1 .. N
    BY <1>1, <1>6
  <2>2. g[j] = g[k + 1] \o loops[j]
    BY <1>2, <2>1 DEF FlatUpTo, N
  <2>3. /\ g[k + 1] \in Seq(StepsOf(T))
        /\ Sums(g[k + 1], y) = IF k + 1 < i THEN <<>> ELSE sum
    BY <1>6
  <2>4. loops[j] \in Seq(StepsOf(T)) /\ Sums(loops[j], y) = IF j = i THEN sum ELSE <<>>
    BY <1>3, <2>1
  <2> HIDE DEF j
  <2>5. g[j] \in Seq(StepsOf(T))
    BY <2>2, <2>3, <2>4, ConcatProperties
  <2>6. Sums(g[j], y) = Sums(g[k + 1], y) \o Sums(loops[j], y)
    <3>1. InTurn(g[k + 1], loops[j], y)
      BY <2>3, <2>4, SumsConcat
    <3> QED  BY <2>2, <3>1 DEF InTurn
  <2>7. <<>> \o sum = sum /\ sum \o <<>> = sum /\ <<>> \o <<>> = <<>>
    BY <1>4, ConcatEmptySeq
  <2>8. Sums(g[j], y) = IF j < i THEN <<>> ELSE sum
    <3>1. CASE j < i
      <4>1. k + 1 < i /\ j # i
        BY <1>1, <2>1, <3>1
      <4> QED  BY <2>3, <2>4, <2>6, <2>7, <3>1, <4>1
    <3>2. CASE j = i
      <4>1. k + 1 < i /\ ~(j < i)
        BY <1>1, <2>1, <3>2
      <4> QED  BY <2>3, <2>4, <2>6, <2>7, <3>2, <4>1
    <3>3. CASE j > i
      <4>1. ~(k + 1 < i) /\ j # i /\ ~(j < i)
        BY <1>1, <2>1, <3>3
      <4> QED  BY <2>3, <2>4, <2>6, <2>7, <4>1
    <3> QED  BY <1>1, <2>1, <3>1, <3>2, <3>3
  <2> QED  BY <2>5, <2>8 DEF j
<1>7. \A k \in Nat : k \in S => k + 1 \in S
  <2> HIDE DEF Done
  <2> SUFFICES ASSUME NEW k \in Nat, k \in S, (k + 1) + 1 <= N
               PROVE  Done((k + 1) + 1)
    OBVIOUS
  <2>1. k + 1 <= N
    BY <1>1
  <2> QED  BY <1>6, <2>1
<1> HIDE DEF S
<1>8. N - 1 \in Nat /\ (N - 1) + 1 = N
  BY <1>1
<1>9. N - 1 \in S
  BY <1>5, <1>7, <1>8, SetInduction
<1>10. Done(N)
  <2> HIDE DEF Done
  <2>1. (N - 1) + 1 <= N
    BY <1>8
  <2> QED  BY <1>8, <1>9, <2>1 DEF S
<1>11. ~(N < i)
  BY <1>1
<1> QED  BY <1>2, <1>10, <1>11 DEF sum

-----------------------------------------------------------------------------
(* The tiled product. *)

\* Row, column and round of step p of a tile of h rows and w columns.
RowIn(p, h, w)   == ((p - 1) \div w) % h
ColumnIn(p, w)   == (p - 1) % w
RoundIn(p, h, w) == (p - 1) \div (h * w)

\* Step p is round q at row a and column b.
IsPlace(p, h, w, K, q, a, b) ==
  /\ q \in 0 .. K - 1 /\ a \in 0 .. h - 1 /\ b \in 0 .. w - 1
  /\ p = q * (h * w) + (a * w + b) + 1

LEMMA PlaceInside ==
  ASSUME NEW h \in Nat \ {0}, NEW w \in Nat \ {0}, NEW K \in Nat \ {0},
         NEW q, NEW a, NEW b, NEW p, IsPlace(p, h, w, K, q, a, b)
  PROVE  /\ p \in 1 .. K * (h * w)
         /\ RowIn(p, h, w) = a /\ ColumnIn(p, w) = b /\ RoundIn(p, h, w) = q
<1> DEFINE D == h * w
           r == a * w + b
<1>1. q \in 0 .. K - 1 /\ a \in 0 .. h - 1 /\ b \in 0 .. w - 1 /\ p = q * D + r + 1
  BY DEF IsPlace
<1>2. D \in Nat \ {0}
  BY SMT
<1>3. r \in 0 .. D - 1
  BY <1>1, IndexFits
<1> HIDE DEF D
<1>4. q * D + r \in Nat /\ q * D + r < K * D /\ K * D \in Nat
  <2> HIDE DEF r
  <2> QED  BY <1>1, <1>2, <1>3, IndexFits
<1>5. p \in 1 .. K * D /\ p - 1 = q * D + r
  BY <1>1, <1>2, <1>3, <1>4
<1>6. (p - 1) \div D = q
  <2>1. Splits(p - 1, D, q, r)
    BY <1>1, <1>2, <1>3, <1>4, <1>5 DEF Splits
  <2> QED  BY <1>2, <2>1, DigitsUnique
<1>7. p - 1 = (q * h + a) * w + b
  <2>1. q * D + (a * w + b) = (q * h + a) * w + b
    BY <1>1 DEF D
  <2> QED  BY <1>5, <2>1
<1> DEFINE x == q * h + a
<1>8. x \in Nat
  BY <1>1
<1> HIDE DEF x
<1>9. (p - 1) \div w = x /\ (p - 1) % w = b
  <2>1. Splits(p - 1, w, x, b)
    BY <1>1, <1>4, <1>5, <1>7, <1>8 DEF Splits, x
  <2> QED  BY <2>1, DigitsUnique
<1>10. x % h = a
  <2>1. Splits(x, h, q, a)
    BY <1>1, <1>8 DEF Splits, x
  <2> QED  BY <2>1, DigitsUnique
<1> QED  BY <1>5, <1>6, <1>9, <1>10 DEF RowIn, ColumnIn, RoundIn, D

LEMMA PlaceExists ==
  ASSUME NEW h \in Nat \ {0}, NEW w \in Nat \ {0}, NEW K \in Nat \ {0}, NEW p \in 1 .. K * (h * w)
  PROVE  IsPlace(p, h, w, K, RoundIn(p, h, w), RowIn(p, h, w), ColumnIn(p, w))
<1> DEFINE x == (p - 1) \div w
           b == (p - 1) % w
           q == x \div h
           a == x % h
           D == h * w
<1>1. K * D \in Nat /\ D \in Nat \ {0}
  BY SMT
<1>2. p - 1 \in Nat /\ p - 1 < K * D /\ p \in Int
  <2> HIDE DEF D
  <2> QED  BY <1>1 DEF D
<1>3. x \in Nat /\ b \in 0 .. w - 1 /\ p - 1 = x * w + b
  BY <1>2, Digits DEF Splits
<1> HIDE DEF x, b
<1>4. q \in Nat /\ a \in 0 .. h - 1 /\ x = q * h + a
  BY <1>3, Digits DEF Splits
<1> HIDE DEF q, a
<1>5. p - 1 = q * D + (a * w + b)
  <2>1. (q * h + a) * w + b = q * D + (a * w + b)
    BY <1>3, <1>4
  <2> QED  BY <1>3, <1>4, <2>1
<1>6. a * w + b \in 0 .. D - 1
  BY <1>3, <1>4, IndexFits
<1>7. ~(q >= K)
  <2>1. ASSUME q >= K
        PROVE  FALSE
    <3> HIDE DEF D
    <3>1. q * D >= K * D /\ q * D \in Int
      BY <1>1, <1>4, <2>1, TimesOrdered
    <3> DEFINE r == a * w + b
    <3>2. r \in 0 .. D - 1 /\ p - 1 = q * D + r
      BY <1>5, <1>6
    <3> HIDE DEF r
    <3> QED  BY <1>1, <1>2, <3>1, <3>2
  <2> QED  BY <2>1
<1>8. (p - 1) \div D = q
  <2> DEFINE r == a * w + b
  <2> HIDE DEF D
  <2>1. r \in 0 .. D - 1 /\ p - 1 = q * D + r
    BY <1>5, <1>6
  <2> HIDE DEF r
  <2>2. Splits(p - 1, D, q, r)
    BY <1>2, <1>4, <2>1 DEF Splits
  <2> QED  BY <1>1, <2>2, DigitsUnique
<1>9. p = q * D + (a * w + b) + 1
  BY <1>2, <1>5
<1>10. IsPlace(p, h, w, K, q, a, b)
  BY <1>3, <1>4, <1>7, <1>9 DEF IsPlace
<1>11. RoundIn(p, h, w) = q /\ RowIn(p, h, w) = a /\ ColumnIn(p, w) = b
  BY <1>8 DEF RoundIn, RowIn, ColumnIn, q, a, x, b, D
<1> QED  BY <1>10, <1>11

IsPlan(plan) ==
  plan.m \in Nat \ {0} /\ plan.n \in Nat \ {0} /\ plan.k \in Nat \ {0}

\* Output y of a product with n columns is of row i and column j.
IsCell(n, y, i, j) == y \in Nat /\ Splits(y - 1, n, i, j)

LEMMA CellUnique ==
  ASSUME NEW n \in Nat \ {0}, NEW y, NEW i, NEW j, NEW r, NEW c, IsCell(n, y, i, j),
         r \in Nat, c \in 0 .. n - 1
  PROVE  y \in {r * n + c + 1} <=> r = i /\ c = j
<1>1. y \in Nat /\ i \in Nat /\ j \in 0 .. n - 1 /\ y - 1 = i * n + j
  BY DEF IsCell, Splits
<1>2. i * n \in Int /\ r * n \in Int /\ r * n + c \in Nat
  BY <1>1
<1>3. ASSUME y = r * n + c + 1
      PROVE  r = i /\ c = j
  <2>1. Splits(y - 1, n, r, c)
    BY <1>1, <1>2, <1>3 DEF Splits
  <2>2. (y - 1) \div n = r /\ (y - 1) % n = c
    BY <2>1, DigitsUnique
  <2>3. (y - 1) \div n = i /\ (y - 1) % n = j
    BY DigitsUnique DEF IsCell
  <2> QED  BY <2>2, <2>3
<1>4. ASSUME r = i, c = j
      PROVE  y = r * n + c + 1
  BY <1>1, <1>2, <1>4
<1> QED  BY <1>3, <1>4

\* A tile at ii, jj of this size has row i and column j.
Covers(ii, jj, h, w, i, j) == i - ii \in 0 .. h - 1 /\ j - jj \in 0 .. w - 1

\* The products of row i and column j, in the order of k.
Dot(plan, i, j) == [k \in 1 .. plan.k |-> Product(plan, i, j, k - 1)]

\* The steps of a tile of h rows and w columns at ii, jj.
TileOf(plan, ii, jj, h, w) ==
  [p \in 1 .. plan.k * (h * w) |->
     Step(plan, ii + RowIn(p, h, w), jj + ColumnIn(p, w), RoundIn(p, h, w))]

LEMMA TileTyped ==
  ASSUME NEW plan, IsPlan(plan), NEW h \in Nat \ {0}, NEW w \in Nat \ {0}, NEW ii, NEW jj
  PROVE  /\ plan.k * (h * w) \in Nat
         /\ Len(TileOf(plan, ii, jj, h, w)) = plan.k * (h * w)
<1> DEFINE K == plan.k
<1>1. K \in Nat
  BY DEF IsPlan
<1> HIDE DEF K
<1>2. h * w \in Nat
  BY SMT
<1> DEFINE D == h * w
<1> HIDE DEF D
<1>3. K * D \in Nat
  BY <1>1, <1>2 DEF D
<1> QED  BY <1>3 DEF TileOf, K, D

\* The steps of a tile of which it is a part add up a cell in the order of k.
LEMMA TileSums ==
  ASSUME NEW plan, IsPlan(plan), NEW h \in Nat \ {0}, NEW w \in Nat \ {0},
         NEW ii \in Nat, NEW jj \in Nat, jj + w <= plan.n,
         NEW y, NEW i, NEW j, IsCell(plan.n, y, i, j),
         Covers(ii, jj, h, w, i, j)
  PROVE  Sums(TileOf(plan, ii, jj, h, w), y) = Dot(plan, i, j)
<1> DEFINE K == plan.k
           D == h * w
           n == plan.n
           a == i - ii
           b == j - jj
           r == a * w + b
           tile == TileOf(plan, ii, jj, h, w)
           pos == [k \in 1 .. K |-> (k - 1) * D + r + 1]
<1>0. a \in 0 .. h - 1 /\ b \in 0 .. w - 1
  BY DEF Covers
<1>1. K \in Nat \ {0} /\ n \in Nat \ {0} /\ i \in Nat /\ j \in 0 .. n - 1
  BY DEF IsPlan, IsCell, Splits
<1>2. D \in Nat \ {0}
  BY SMT
<1>3. Len(tile) = K * D /\ K * D \in Nat
  BY TileTyped
<1>4. ASSUME NEW p \in 1 .. K * D
      PROVE  tile[p] = Step(plan, ii + RowIn(p, h, w), jj + ColumnIn(p, w), RoundIn(p, h, w))
  BY DEF TileOf
<1> HIDE DEF tile, K, D, n
<1>5. ASSUME NEW k \in 1 .. K
      PROVE  /\ pos[k] \in 1 .. K * D /\ RowIn(pos[k], h, w) = a
             /\ ColumnIn(pos[k], w) = b /\ RoundIn(pos[k], h, w) = k - 1
  <2> DEFINE p == pos[k]
  <2>1. p = (k - 1) * D + (a * w + b) + 1
    OBVIOUS
  <2>2. k - 1 \in 0 .. K - 1
    BY <1>1
  <2> HIDE DEF p
  <2>3. IsPlace(p, h, w, K, k - 1, a, b)
    BY <1>0, <2>1, <2>2 DEF IsPlace, D
  <2>4. p \in 1 .. K * (h * w) /\ RowIn(p, h, w) = a /\ ColumnIn(p, w) = b /\ RoundIn(p, h, w) = k - 1
    BY <1>1, <2>3, PlaceInside
  <2> QED  BY <2>4 DEF p, D
<1> HIDE DEF pos
<1>6. ASSUME NEW k \in 1 .. K
      PROVE  y \in tile[pos[k]].to /\ tile[pos[k]].term = Product(plan, i, j, k - 1)
  <2>1. tile[pos[k]] = Step(plan, i, j, k - 1)
    <3>1. ii + a = i /\ jj + b = j
      BY <1>1
    <3> HIDE DEF a, b
    <3> QED  BY <1>4, <1>5, <3>1
  <2>2. y \in {i * n + j + 1}
    BY <1>1, CellUnique DEF n
  <2> QED  BY <2>1, <2>2 DEF Step, n
<1>7. ASSUME NEW p \in 1 .. K * D, y \in tile[p].to
      PROVE  \E k \in 1 .. K : pos[k] = p
  <2> DEFINE q == RoundIn(p, h, w)
             x == RowIn(p, h, w)
             z == ColumnIn(p, w)
  <2>1. IsPlace(p, h, w, K, q, x, z)
    BY <1>1, PlaceExists DEF D
  <2>2. q \in 0 .. K - 1 /\ x \in 0 .. h - 1 /\ z \in 0 .. w - 1 /\ p = q * D + (x * w + z) + 1
    BY <2>1 DEF IsPlace, D
  <2>3. tile[p] = Step(plan, ii + x, jj + z, q)
    BY <1>4
  <2> HIDE DEF q, x, z
  <2>4. y \in {(ii + x) * n + (jj + z) + 1}
    BY <1>7, <2>3 DEF Step, n
  <2>5. ii + x \in Nat /\ jj + z \in 0 .. n - 1
    BY <1>1, <2>2 DEF n
  <2>6. ii + x = i /\ jj + z = j
    BY <1>1, <2>4, <2>5, CellUnique DEF n
  <2>7. x = a /\ z = b
    BY <1>1, <2>2, <2>6
  <2>8. q + 1 \in 1 .. K /\ (q + 1) - 1 = q
    BY <1>1, <2>2
  <2>9. pos[q + 1] = p
    BY <2>2, <2>7, <2>8 DEF pos
  <2> QED  BY <2>8, <2>9
<1>8. ASSUME NEW k \in 1 .. K, NEW l \in 1 .. K, k < l
      PROVE  pos[k] < pos[l]
  <2>1. (l - 1) * D >= k * D /\ (l - 1) * D \in Int
    BY <1>2, <1>8, TimesOrdered
  <2>2. k * D = (k - 1) * D + D /\ (k - 1) * D \in Int
    BY <1>2
  <2>3. pos[k] = (k - 1) * D + r + 1 /\ pos[l] = (l - 1) * D + r + 1
    BY DEF pos
  <2>4. r \in Int
    BY <1>1
  <2> HIDE DEF r
  <2> QED  BY <1>2, <2>1, <2>2, <2>3, <2>4
<1>9. Positions(tile, y, pos, K)
  BY <1>3, <1>5, <1>6, <1>7, <1>8 DEF Positions
<1>10. Sums(tile, y) = TermsAt(tile, pos, K)
  BY <1>1, <1>3, <1>9, SumsAtPositions
<1>11. Sums(tile, y) = [k \in 1 .. K |-> Product(plan, i, j, k - 1)]
  BY <1>6, <1>10 DEF TermsAt
<1> QED  BY <1>11 DEF Dot, tile, K

\* The steps of any other tile do not add to it.
LEMMA TileMisses ==
  ASSUME NEW plan, IsPlan(plan), NEW h \in Nat \ {0}, NEW w \in Nat \ {0},
         NEW ii \in Nat, NEW jj \in Nat, jj + w <= plan.n,
         NEW y, NEW i, NEW j, IsCell(plan.n, y, i, j),
         ~Covers(ii, jj, h, w, i, j)
  PROVE  Sums(TileOf(plan, ii, jj, h, w), y) = <<>>
<1> DEFINE K == plan.k
           D == h * w
           n == plan.n
           tile == TileOf(plan, ii, jj, h, w)
<1>1. K \in Nat \ {0} /\ n \in Nat \ {0} /\ i \in Nat /\ j \in 0 .. n - 1
  BY DEF IsPlan, IsCell, Splits
<1>2. Len(tile) = K * D /\ K * D \in Nat
  BY TileTyped
<1>3. ASSUME NEW p \in 1 .. K * D
      PROVE  tile[p] = Step(plan, ii + RowIn(p, h, w), jj + ColumnIn(p, w), RoundIn(p, h, w))
  BY DEF TileOf
<1> HIDE DEF tile, K, D, n
<1>4. ASSUME NEW p \in 1 .. K * D, y \in tile[p].to
      PROVE  FALSE
  <2> DEFINE q == RoundIn(p, h, w)
             x == RowIn(p, h, w)
             z == ColumnIn(p, w)
  <2>1. IsPlace(p, h, w, K, q, x, z)
    BY <1>1, PlaceExists DEF D
  <2>2. x \in 0 .. h - 1 /\ z \in 0 .. w - 1
    BY <2>1 DEF IsPlace
  <2>3. tile[p] = Step(plan, ii + x, jj + z, q)
    BY <1>3
  <2> HIDE DEF q, x, z
  <2>4. y \in {(ii + x) * n + (jj + z) + 1}
    BY <1>4, <2>3 DEF Step, n
  <2>5. ii + x \in Nat /\ jj + z \in 0 .. n - 1
    BY <1>1, <2>2 DEF n
  <2>6. ii + x = i /\ jj + z = j
    BY <1>1, <2>4, <2>5, CellUnique DEF n
  <2>7. i - ii = x /\ j - jj = z
    BY <1>1, <2>2, <2>6
  <2> QED  BY <2>2, <2>7 DEF Covers
<1> DEFINE pos == <<>>
<1>5. Positions(tile, y, pos, 0)
  BY <1>2, <1>4 DEF Positions
<1> HIDE DEF pos
<1>6. Sums(tile, y) = TermsAt(tile, pos, 0)
  BY <1>2, <1>5, SumsAtPositions
<1> QED  BY <1>6 DEF tile, TermsAt

\* A band is a column of tiles, or a row of them: where the next one begins,
\* and how wide it is.
BandWidth(s, d, n) == Least(s * d + d, n) - s * d

\* Band s of width d covers these places of a row of n.
IsBand(s, d, n) ==
  /\ s * d \in Nat /\ BandWidth(s, d, n) \in Nat \ {0} /\ s * d + BandWidth(s, d, n) <= n
  /\ \A x \in 0 .. n - 1 : x - s * d \in 0 .. BandWidth(s, d, n) - 1 <=> s = x \div d

LEMMA Bands ==
  ASSUME NEW d \in {4, 8}, NEW n \in Nat \ {0}
  PROVE  /\ Steps(n, d) \in Nat \ {0}
         /\ \A s \in 0 .. Steps(n, d) - 1 : IsBand(s, d, n)
         /\ \A x \in 0 .. n - 1 : x \div d \in 0 .. Steps(n, d) - 1
<1>1. CASE d = 4
  BY <1>1 DEF Steps, IsBand, BandWidth, Least
<1>2. CASE d = 8
  BY <1>2 DEF Steps, IsBand, BandWidth, Least
<1> QED  BY <1>1, <1>2

\* Everything a product of these sizes multiplies.
Products(plan) == {Product(plan, i, j, k) : i \in Int, j \in Int, k \in Int}

LEMMA TileSteps ==
  ASSUME NEW plan, IsPlan(plan), NEW h \in Nat \ {0}, NEW w \in Nat \ {0},
         NEW ii \in Nat, NEW jj \in Nat
  PROVE  TileOf(plan, ii, jj, h, w) \in Seq(StepsOf(Products(plan)))
<1> DEFINE K == plan.k
           D == h * w
           n == plan.n
           T == StepsOf(Products(plan))
           step(p) == Step(plan, ii + RowIn(p, h, w), jj + ColumnIn(p, w), RoundIn(p, h, w))
<1>1. K \in Nat \ {0} /\ n \in Nat \ {0}
  BY DEF IsPlan
<1>2. K * D \in Nat
  BY TileTyped
<1>3. ASSUME NEW p \in 1 .. K * D
      PROVE  step(p) \in T
  <2> DEFINE q == RoundIn(p, h, w)
             x == ii + RowIn(p, h, w)
             z == jj + ColumnIn(p, w)
  <2>1. IsPlace(p, h, w, K, RoundIn(p, h, w), RowIn(p, h, w), ColumnIn(p, w))
    BY <1>1, PlaceExists
  <2>2. q \in Int /\ RowIn(p, h, w) \in Int /\ ColumnIn(p, w) \in Int
    BY <2>1 DEF IsPlace
  <2>3. x \in Int /\ z \in Int
    BY <2>2
  <2> HIDE DEF q, x, z
  <2>4. x * n + z + 1 \in Int
    BY <1>1, <2>3
  <2>5. {x * n + z + 1} \in SUBSET Int
    BY <2>4
  <2>6. Product(plan, x, z, q) \in Products(plan)
    BY <2>2, <2>3 DEF Products
  <2>7. Step(plan, x, z, q) \in T
    BY <2>5, <2>6 DEF Step, StepsOf
  <2> QED  BY <2>7 DEF q, x, z
<1> HIDE DEF K, D, T, step
<1>4. [p \in 1 .. K * D |-> step(p)] \in Seq(T)
  BY <1>2, <1>3
<1> QED  BY <1>4 DEF TileOf, K, D, T, step

\* The tiled loops add up each cell in the order of k.
LEMMA VisitsSums ==
  ASSUME NEW plan, IsPlan(plan), NEW y \in 1 .. plan.m * plan.n
  PROVE  Sums(Visits(plan), y) = Dot(plan, (y - 1) \div plan.n, (y - 1) % plan.n)
<1> DEFINE m == plan.m
           n == plan.n
           A == Steps(n, 8)
           R == Steps(m, 4)
           i == (y - 1) \div n
           j == (y - 1) % n
           T == StepsOf(Products(plan))
           tile(t) == Tile(plan, ((t - 1) \div A) * 4, ((t - 1) % A) * 8)
           loops == [t \in 1 .. R * A |-> tile(t)]
           row(t) == (t - 1) \div A
           col(t) == (t - 1) % A
           at == (i \div 4) * A + (j \div 8) + 1
<1>1. m \in Nat \ {0} /\ n \in Nat \ {0} /\ y \in Nat /\ y - 1 \in Nat /\ y - 1 < m * n /\ m * n \in Nat
  <2>1. m \in Nat \ {0} /\ n \in Nat \ {0}
    BY DEF IsPlan
  <2>2. m * n \in Nat
    BY <2>1
  <2> QED  BY <2>1, <2>2
<1>2. Splits(y - 1, n, i, j)
  BY <1>1, CellInside
<1>3. i \in 0 .. m - 1 /\ j \in 0 .. n - 1
  BY <1>1, CellInside
<1>4. IsCell(n, y, i, j)
  BY <1>1, <1>2 DEF IsCell
<1> HIDE DEF m, n, i, j
<1>5. /\ A \in Nat \ {0} /\ R \in Nat \ {0}
      /\ \A s \in 0 .. A - 1 : IsBand(s, 8, n)
      /\ \A s \in 0 .. R - 1 : IsBand(s, 4, m)
      /\ i \div 4 \in 0 .. R - 1 /\ j \div 8 \in 0 .. A - 1
  BY <1>1, <1>3, Bands
<1> HIDE DEF A, R
<1>6. R * A \in Nat
  BY <1>5
<1>7. ASSUME NEW t \in 1 .. R * A
      PROVE  row(t) \in 0 .. R - 1 /\ col(t) \in 0 .. A - 1 /\ t - 1 = row(t) * A + col(t)
  <2> DEFINE a == row(t)
             b == col(t)
  <2>1. Splits(t - 1, A, a, b)
    <3>1. t - 1 \in Nat
      BY <1>6
    <3> QED  BY <1>5, <3>1, Digits
  <2> HIDE DEF a, b
  <2>2. a \in Nat /\ b \in 0 .. A - 1 /\ t - 1 = a * A + b
    BY <2>1 DEF Splits
  <2>3. ASSUME a >= R
        PROVE  FALSE
    <3>1. a * A >= R * A /\ a * A \in Int
      BY <1>5, <2>2, <2>3, TimesOrdered
    <3> QED  BY <1>5, <1>6, <2>2, <3>1
  <2>4. a \in 0 .. R - 1
    BY <1>5, <2>2, <2>3
  <2> QED  BY <2>2, <2>4 DEF a, b
<1>8. ASSUME NEW t \in 1 .. R * A
      PROVE  LET ii == row(t) * 4
                 jj == col(t) * 8
                 h  == BandWidth(row(t), 4, m)
                 w  == BandWidth(col(t), 8, n)
             IN  /\ tile(t) = TileOf(plan, ii, jj, h, w)
                 /\ ii \in Nat /\ jj \in Nat /\ h \in Nat \ {0} /\ w \in Nat \ {0}
                 /\ jj + w <= n
                 /\ i - ii \in 0 .. h - 1 <=> row(t) = i \div 4
                 /\ j - jj \in 0 .. w - 1 <=> col(t) = j \div 8
  <2> DEFINE a == row(t)
             b == col(t)
  <2>1. IsBand(a, 4, m) /\ IsBand(b, 8, n)
    BY <1>5, <1>7
  <2>2. tile(t) = Tile(plan, a * 4, b * 8)
    OBVIOUS
  <2> HIDE DEF a, b, tile
  <2>3. Tile(plan, a * 4, b * 8) = TileOf(plan, a * 4, b * 8, BandWidth(a, 4, m), BandWidth(b, 8, n))
    BY DEF Tile, TileOf, BandWidth, BlockM, BlockN, RowIn, ColumnIn, RoundIn, m, n
  <2>4. /\ a * 4 \in Nat /\ b * 8 \in Nat
        /\ BandWidth(a, 4, m) \in Nat \ {0} /\ BandWidth(b, 8, n) \in Nat \ {0}
        /\ b * 8 + BandWidth(b, 8, n) <= n
        /\ i - a * 4 \in 0 .. BandWidth(a, 4, m) - 1 <=> a = i \div 4
        /\ j - b * 8 \in 0 .. BandWidth(b, 8, n) - 1 <=> b = j \div 8
    BY <1>3, <2>1 DEF IsBand
  <2> QED  BY <2>2, <2>3, <2>4 DEF a, b
<1>9. at \in 1 .. R * A /\ row(at) = i \div 4 /\ col(at) = j \div 8
  <2> DEFINE a == i \div 4
             b == j \div 8
  <2>1. a \in 0 .. R - 1 /\ b \in 0 .. A - 1
    BY <1>5
  <2> HIDE DEF a, b
  <2>2. a * A + b \in Nat /\ a * A + b < R * A
    BY <1>5, <2>1, IndexFits
  <2> DEFINE x == a * A + b
  <2>3. x \in Nat /\ x < R * A /\ Splits(x, A, a, b)
    BY <1>5, <2>1, <2>2 DEF Splits
  <2>4. at = x + 1
    BY DEF a, b
  <2> HIDE DEF x, at
  <2>5. at \in 1 .. R * A /\ at - 1 = x
    BY <1>6, <2>3, <2>4
  <2>6. row(at) = a /\ col(at) = b
    BY <1>5, <2>3, <2>5, DigitsUnique
  <2> QED  BY <2>5, <2>6 DEF a, b
<1>10. ASSUME NEW t \in 1 .. R * A
       PROVE  tile(t) \in Seq(T)
  <2> DEFINE ii == row(t) * 4
             jj == col(t) * 8
             h  == BandWidth(row(t), 4, m)
             w  == BandWidth(col(t), 8, n)
  <2>1. /\ tile(t) = TileOf(plan, ii, jj, h, w)
        /\ ii \in Nat /\ jj \in Nat /\ h \in Nat \ {0} /\ w \in Nat \ {0}
    <3> HIDE DEF row, col, at, tile
    <3> QED  BY <1>8
  <2> HIDE DEF ii, jj, h, w, tile
  <2> QED  BY <2>1, TileSteps
<1>11. Len(loops) = R * A /\ loops \in Seq(Seq(T)) /\ \A t \in 1 .. R * A : loops[t] = tile(t)
  <2> HIDE DEF tile, T
  <2> QED  BY <1>6, <1>10
<1>12. Sums(tile(at), y) = Dot(plan, i, j)
  <2> DEFINE ii == row(at) * 4
             jj == col(at) * 8
             h  == BandWidth(row(at), 4, m)
             w  == BandWidth(col(at), 8, n)
  <2>1. /\ tile(at) = TileOf(plan, ii, jj, h, w)
        /\ ii \in Nat /\ jj \in Nat /\ h \in Nat \ {0} /\ w \in Nat \ {0}
        /\ jj + w <= n
        /\ Covers(ii, jj, h, w, i, j)
    <3> HIDE DEF row, col, at, tile
    <3> QED  BY <1>8, <1>9 DEF Covers
  <2> HIDE DEF ii, jj, h, w, tile
  <2> QED  BY <1>4, <2>1, TileSums DEF n
<1>13. ASSUME NEW t \in 1 .. R * A, t # at
       PROVE  Sums(tile(t), y) = <<>>
  <2> DEFINE ii == row(t) * 4
             jj == col(t) * 8
             h  == BandWidth(row(t), 4, m)
             w  == BandWidth(col(t), 8, n)
  <2>1. ~(row(t) = i \div 4 /\ col(t) = j \div 8)
    <3>1. t - 1 = row(t) * A + col(t)
      BY <1>7
    <3>2. ASSUME row(t) = i \div 4, col(t) = j \div 8
          PROVE  FALSE
      <4>1. t - 1 = (i \div 4) * A + (j \div 8)
        BY <3>1, <3>2
      <4> DEFINE x == (i \div 4) * A + (j \div 8)
      <4>2. t - 1 = x /\ at = x + 1
        BY <4>1
      <4> HIDE DEF x, at
      <4> QED  BY <1>6, <1>13, <4>2
    <3> QED  BY <3>2
  <2>2. /\ tile(t) = TileOf(plan, ii, jj, h, w)
        /\ ii \in Nat /\ jj \in Nat /\ h \in Nat \ {0} /\ w \in Nat \ {0}
        /\ jj + w <= n
        /\ ~Covers(ii, jj, h, w, i, j)
    <3> HIDE DEF row, col, at, tile
    <3> QED  BY <1>8, <2>1 DEF Covers
  <2> HIDE DEF ii, jj, h, w, tile
  <2> QED  BY <1>4, <2>2, TileMisses DEF n
<1>14. Visits(plan) = FlattenSeq(loops)
  BY DEF Visits, A, R, m, n, BlockM, BlockN
<1> HIDE DEF loops, tile, at, T
<1>15. OnlyLoop(loops, y, at)
  BY <1>9, <1>11, <1>13 DEF OnlyLoop
<1>16. Sums(FlattenSeq(loops), y) = Sums(loops[at], y)
  BY <1>9, <1>11, <1>15, FlattenSums DEF T
<1> QED  BY <1>9, <1>11, <1>12, <1>14, <1>16 DEF i, j, n

LEMMA MatmulDots ==
  ASSUME NEW plan, IsPlan(plan)
  PROVE  MatmulOutputs(plan)
           = [y \in 1 .. plan.m * plan.n |-> Dot(plan, (y - 1) \div plan.n, (y - 1) % plan.n)]
<1>1. \A y \in 1 .. plan.m * plan.n :
        Sums(Visits(plan), y) = Dot(plan, (y - 1) \div plan.n, (y - 1) % plan.n)
  BY VisitsSums
<1> QED  BY <1>1 DEF MatmulOutputs

\* The pair of elements that element y is turned with.
Pair(y) == << <<At("v", ((y - 1) \div 2) * 2), At("v", ((y - 1) \div 2) * 2 + 1)>> >>

\* Pairs that follow each other in every head follow each other in the vector.
LEMMA PairsFollow ==
  ASSUME NEW size, NEW headDim \in Nat, size["v"] \in Nat, RopeAccepts(size, headDim)
  PROVE  LET pairs == headDim \div 2
             P     == (size["v"] \div headDim) * pairs
         IN  /\ P \in Nat /\ size["v"] = 2 * P
             /\ \A p \in 1 .. P :
                  ((p - 1) \div pairs) * headDim + 2 * ((p - 1) % pairs) = 2 * (p - 1)
<1> DEFINE v == size["v"]
           pairs == headDim \div 2
           heads == v \div headDim
           P == heads * pairs
<1>1. v \in Nat /\ headDim \in Nat \ {0} /\ v % headDim = 0
  BY DEF RopeAccepts
<1>2. pairs \in Nat \ {0} /\ headDim = 2 * pairs
  BY DEF RopeAccepts
<1>3. heads \in Nat /\ v = heads * headDim
  <2>1. Splits(v, headDim, v \div headDim, v % headDim)
    BY <1>1, Digits
  <2>2. heads * headDim \in Int
    BY <2>1 DEF Splits
  <2> QED  BY <1>1, <2>1, <2>2 DEF Splits
<1> HIDE DEF v, pairs, heads
<1>4. P \in Nat /\ v = 2 * P
  <2>1. heads * (2 * pairs) = 2 * (heads * pairs)
    BY <1>2, <1>3
  <2> QED  BY <1>2, <1>3, <2>1
<1>5. ASSUME NEW p \in 1 .. P
      PROVE  ((p - 1) \div pairs) * headDim + 2 * ((p - 1) % pairs) = 2 * (p - 1)
  <2> DEFINE a == (p - 1) \div pairs
             b == (p - 1) % pairs
  <2>1. Splits(p - 1, pairs, a, b)
    <3>1. p - 1 \in Nat
      BY <1>4
    <3> QED  BY <1>2, <3>1, Digits
  <2> HIDE DEF a, b
  <2>2. a \in Nat /\ b \in Nat /\ p - 1 = a * pairs + b
    BY <1>2, <2>1 DEF Splits
  <2>3. a * headDim = 2 * (a * pairs) /\ a * pairs \in Int
    BY <1>2, <2>2
  <2>4. a * headDim + 2 * b = 2 * (p - 1)
    BY <2>2, <2>3
  <2> QED  BY <2>4 DEF a, b
<1> QED  BY <1>4, <1>5 DEF v, pairs, heads

\* Every element is turned once, with its neighbour.
LEMMA RopePairs ==
  ASSUME NEW size, NEW headDim \in Nat, size["v"] \in Nat, RopeAccepts(size, headDim)
  PROVE  RopeOutputs(size, headDim) = [y \in 1 .. size["v"] |-> Pair(y)]
<1> DEFINE turns == Rotations(size, headDim)
           v == size["v"]
           P == (v \div headDim) * (headDim \div 2)
<1>1. P \in Nat /\ v = 2 * P /\ v \in Nat
  BY PairsFollow
<1>2. Len(turns) = P /\ \A p \in 1 .. P :
        /\ turns[p].to = {2 * (p - 1) + 1, 2 * (p - 1) + 2}
        /\ turns[p].term = <<At("v", 2 * (p - 1)), At("v", 2 * (p - 1) + 1)>>
  <2>1. turns = [p \in 1 .. P |->
                   [to   |-> {2 * (p - 1) + 1, 2 * (p - 1) + 2},
                    term |-> <<At("v", 2 * (p - 1)), At("v", 2 * (p - 1) + 1)>>]]
    BY PairsFollow DEF Rotations
  <2> HIDE DEF turns, P
  <2> QED  BY <1>1, <2>1
<1> HIDE DEF turns, P, v
<1>3. ASSUME NEW y \in 1 .. v
      PROVE  Sums(turns, y) = Pair(y)
  <2> DEFINE at == (y - 1) \div 2 + 1
             pos == [k \in 1 .. 1 |-> at]
  <2>1. /\ at \in 1 .. P
        /\ y = 2 * (at - 1) + 1 \/ y = 2 * (at - 1) + 2
        /\ 2 * (at - 1) = ((y - 1) \div 2) * 2
    BY <1>1
  <2>2. \A p \in 1 .. P : y = 2 * (p - 1) + 1 \/ y = 2 * (p - 1) + 2 => p = at
    BY <1>1
  <2> HIDE DEF at
  <2>3. \A p \in 1 .. P : y \in turns[p].to <=> p = at
    <3>1. \A p \in 1 .. P : y \in turns[p].to <=> (y = 2 * (p - 1) + 1 \/ y = 2 * (p - 1) + 2)
      BY <1>2
    <3> QED  BY <2>1, <2>2, <3>1
  <2>4. Positions(turns, y, pos, 1)
    BY <1>2, <2>1, <2>3 DEF Positions
  <2>5. pos[1] = at
    OBVIOUS
  <2> HIDE DEF pos
  <2>6. Sums(turns, y) = TermsAt(turns, pos, 1)
    BY <1>1, <1>2, <2>4, SumsAtPositions
  <2>7. turns[at].term = <<At("v", ((y - 1) \div 2) * 2), At("v", ((y - 1) \div 2) * 2 + 1)>>
    BY <1>2, <2>1
  <2> DEFINE t == turns[at].term
  <2>8. TermsAt(turns, pos, 1) = <<t>>
    <3>1. \A k \in 1 .. 1 : turns[pos[k]].term = t
      BY <2>5
    <3> HIDE DEF t
    <3> QED  BY <3>1 DEF TermsAt
  <2> HIDE DEF t
  <2> QED  BY <2>6, <2>7, <2>8 DEF Pair, t
<1>4. RopeOutputs(size, headDim) = [y \in 1 .. v |-> Sums(turns, y)]
  BY DEF RopeOutputs, turns, v
<1> QED  BY <1>3, <1>4 DEF v

-----------------------------------------------------------------------------
(* Reads and sequences of reads. *)

\* A read of a buffer is inner when it ends inside.
LEMMA ReadInside ==
  ASSUME NEW size, NEW b \in DOMAIN size, NEW i \in Nat, NEW n \in Nat, NEW part \in Parts,
         i + n <= size[b]
  PROVE  <<b, i, n, part>> \in Inner(size)
<1> DEFINE read == <<b, i, n, part>>
<1>1. read \in (DOMAIN size) \X Nat \X Nat \X Parts
  OBVIOUS
<1>2. read[1] = b /\ read[2] = i /\ read[3] = n
  OBVIOUS
<1> HIDE DEF read
<1>3. read[2] + read[3] <= size[read[1]]
  BY <1>2
<1>4. read \in Inner(size)
  BY <1>1, <1>3 DEF Inner
<1> QED  BY <1>4 DEF read

LEMMA AtInside ==
  ASSUME NEW size, NEW b \in DOMAIN size, NEW i \in Nat, size[b] \in Nat, i < size[b]
  PROVE  At(b, i) \in Inner(size)
<1>1. i + 1 <= size[b] /\ 1 \in Nat /\ "whole" \in Parts
  BY DEF Parts
<1> QED  BY <1>1, ReadInside DEF At

LEMMA KernelInside ==
  ASSUME NEW op, NEW args, NEW size, NEW accepted, NEW outputs \in InnerOutputs(size),
         Kernel(op, args, size, accepted, outputs),
         op \notin {"matvec", "short_conv"} \/ ~Unchecked'
  PROVE  ReadsInside'
<1>1. call'.outputs = outputs /\ call'.size = size /\ call'.op = op
  BY DEF Kernel
<1>2. \A y \in DOMAIN outputs : \A p \in DOMAIN outputs[y] :
        \A r \in DOMAIN outputs[y][p] : outputs[y][p][r] \in Inner(size)
  <2> SUFFICES ASSUME NEW y \in DOMAIN outputs, NEW p \in DOMAIN outputs[y],
                      NEW r \in DOMAIN outputs[y][p]
               PROVE  outputs[y][p][r] \in Inner(size)
    OBVIOUS
  <2>1. outputs[y] \in Seq(Seq(Inner(size)))
    BY DEF InnerOutputs
  <2>2. outputs[y][p] \in Seq(Inner(size))
    BY <2>1
  <2> QED  BY <2>2
<1>3. \A read \in AllReads' : read \in Inner(size)
  <2> SUFFICES ASSUME NEW read \in AllReads'
               PROVE  read \in Inner(size)
    OBVIOUS
  <2>1. AllReads' = UNION {UNION {{outputs[y][p][r] : r \in DOMAIN outputs[y][p]} :
                            p \in DOMAIN outputs[y]} : y \in DOMAIN outputs}
    BY <1>1 DEF AllReads
  <2>2. PICK y \in DOMAIN outputs :
          read \in UNION {{outputs[y][p][r] : r \in DOMAIN outputs[y][p]} :
                          p \in DOMAIN outputs[y]}
    BY <2>1, Zenon
  <2>3. PICK p \in DOMAIN outputs[y] :
          read \in {outputs[y][p][r] : r \in DOMAIN outputs[y][p]}
    BY <2>2, Zenon
  <2>4. PICK r \in DOMAIN outputs[y][p] : read = outputs[y][p][r]
    BY <2>3, Zenon
  <2> QED  BY <1>2, <2>4
<1>4. \A read \in Inner(size) : read[2] >= 0 /\ read[2] + read[3] <= size[read[1]]
  <2>1. \A read \in Inner(size) :
          read \in (DOMAIN size) \X Nat \X Nat \X Parts /\ read[2] + read[3] <= size[read[1]]
    BY Zenon DEF Inner
  <2>2. \A read \in (DOMAIN size) \X Nat \X Nat \X Parts : read[2] \in Nat
    OBVIOUS
  <2>3. \A n \in Nat : n >= 0
    OBVIOUS
  <2> QED  BY <2>1, <2>2, <2>3, Zenon
<1>5. \A read \in AllReads' : read[2] >= 0 /\ read[2] + read[3] <= call'.size[read[1]]
  BY <1>1, <1>3, <1>4
<1>6. ~Unchecked'
  BY <1>1 DEF Unchecked
<1> QED  BY <1>5, <1>6 DEF ReadsInside, InItsBuffer

LEMMA EmptyInside ==
  ASSUME NEW size
  PROVE  <<>> \in InnerOutputs(size)
  BY EmptySeq DEF InnerOutputs

LEMMA CheckedInside ==
  ASSUME NEW op, NEW args, NEW size, NEW accepted \in BOOLEAN, NEW outputs,
         Checked(op, args, size, accepted, outputs),
         accepted => outputs \in InnerOutputs(size),
         op \notin {"matvec", "short_conv"} \/ ~Unchecked'
  PROVE  ReadsInside'
<1>1. CASE accepted
  BY <1>1, KernelInside DEF Checked
<1>2. CASE ~accepted
  BY <1>2, KernelInside, EmptyInside DEF Checked
<1> QED  BY <1>1, <1>2

\* Short sequences, joined.
LEMMA Joined ==
  ASSUME NEW v, NEW w, NEW x
  PROVE  <<v>> \o <<x>> = <<v, x>> /\ <<v, w>> \o <<x>> = <<v, w, x>>
<1> DEFINE S == {v, w, x}
           one == <<v>> \o <<x>>
           two == <<v, w>> \o <<x>>
<1>1. <<v>> \in Seq(S) /\ <<v, w>> \in Seq(S) /\ <<x>> \in Seq(S)
  OBVIOUS
<1>2. <<v, x>> \in Seq(S) /\ <<v, w, x>> \in Seq(S)
  OBVIOUS
<1>3. one \in Seq(S) /\ Len(one) = 2 /\ one[1] = v /\ one[2] = x
  BY <1>1, ConcatProperties
<1>4. two \in Seq(S) /\ Len(two) = 3 /\ two[1] = v /\ two[2] = w /\ two[3] = x
  BY <1>1, ConcatProperties
<1> HIDE DEF S, one, two
<1>5. one = <<v, x>>
  BY <1>2, <1>3, SeqEqual
<1>6. two = <<v, w, x>>
  BY <1>2, <1>4, SeqEqual
<1> QED  BY <1>5, <1>6 DEF one, two

\* A read of an output that ends outside its buffer.
LEMMA ReadOutside ==
  ASSUME NEW op, NEW args, NEW size, NEW outputs, Checked(op, args, size, TRUE, outputs),
         NEW y \in DOMAIN outputs, NEW p \in DOMAIN outputs[y], NEW k \in DOMAIN outputs[y][p],
         NEW b, NEW i \in Nat, outputs[y][p][k] = At(b, i), size[b] \in Nat, size[b] <= i
  PROVE  ~(\A read \in AllReads : InItsBuffer(read))'
<1>1. call'.outputs = outputs /\ call'.size = size
  BY DEF Checked, Kernel
<1> DEFINE read == outputs[y][p][k]
<1>2. AllReads' = UNION {UNION {{outputs[z][q][n] : n \in DOMAIN outputs[z][q]} :
                          q \in DOMAIN outputs[z]} : z \in DOMAIN outputs}
  BY <1>1 DEF AllReads
<1>3. read \in AllReads'
  <2> DEFINE inTerm(z, q) == {outputs[z][q][n] : n \in DOMAIN outputs[z][q]}
             inOutput(z)  == UNION {inTerm(z, q) : q \in DOMAIN outputs[z]}
  <2>1. read \in inTerm(y, p)
    OBVIOUS
  <2>2. AllReads' = UNION {inOutput(z) : z \in DOMAIN outputs}
    BY <1>2
  <2> HIDE DEF inTerm, read
  <2>3. read \in inOutput(y)
    BY <2>1
  <2> HIDE DEF inOutput
  <2> QED  BY <2>2, <2>3
<1>4. read[1] = b /\ read[2] = i /\ read[3] = 1
  BY DEF At
<1> HIDE DEF read
<1>5. ~(read[2] + read[3] <= call'.size[read[1]])
  BY <1>1, <1>4
<1> QED  BY <1>3, <1>5 DEF InItsBuffer


-----------------------------------------------------------------------------
(* The kernels. *)

LEMMA RowMajorInside ==
  ASSUME NEW size, NEW w, NEW x, NEW y, NEW rows \in Nat, NEW cols \in Nat,
         w \in DOMAIN size, x \in DOMAIN size,
         RowMajorAccepts(size, w, x, y, rows, cols)
  PROVE  RowMajorOutputs(w, x, rows, cols) \in InnerOutputs(size)
<1>1. size[w] = rows * cols /\ size[x] = cols
  BY DEF RowMajorAccepts
<1>2. ASSUME NEW i \in 1 .. rows, NEW p \in 1 .. cols
      PROVE  <<At(w, (i - 1) * cols + p - 1), At(x, p - 1)>> \in Seq(Inner(size))
  <2> DEFINE k == (i - 1) * cols + (p - 1)
  <2>1. i - 1 \in 0 .. rows - 1 /\ p - 1 \in 0 .. cols - 1
    OBVIOUS
  <2>2. k \in Nat /\ k < rows * cols
    BY <2>1, IndexFits
  <2>3. (i - 1) * cols \in Int /\ rows * cols \in Nat
    OBVIOUS
  <2>4. (i - 1) * cols + p - 1 = k
    BY <2>3
  <2> HIDE DEF k
  <2>5. At(w, k) \in Inner(size)
    BY <1>1, <2>2, <2>3, AtInside
  <2>6. At(x, p - 1) \in Inner(size)
    BY <1>1, AtInside
  <2> QED  BY <2>4, <2>5, <2>6
<1> DEFINE term(i, p) == <<At(w, (i - 1) * cols + p - 1), At(x, p - 1)>>
<1> HIDE DEF term
<1>3. \A i \in 1 .. rows : \A p \in 1 .. cols : term(i, p) \in Seq(Inner(size))
  BY <1>2 DEF term
<1>4. \A i \in 1 .. rows : [p \in 1 .. cols |-> term(i, p)] \in Seq(Seq(Inner(size)))
  BY <1>3
<1>5. [i \in 1 .. rows |-> [p \in 1 .. cols |-> term(i, p)]] \in InnerOutputs(size)
  BY <1>4 DEF InnerOutputs
<1> QED  BY <1>5 DEF RowMajorOutputs, term

LEMMA MatvecQ4Inside ==
  ASSUME NEW size, NEW cols \in Nat, IsSizes(size, {"blocks", "x", "y"}),
         MatvecQ4Accepts(size, cols)
  PROVE  MatvecQ4Outputs(size, cols) \in InnerOutputs(size)
<1> DEFINE rows == size["y"]
           n    == Blocks(cols)
<1>1. /\ rows \in Nat /\ size["x"] = cols /\ size["blocks"] \in Nat
      /\ size["blocks"] >= rows * n
      /\ "blocks" \in DOMAIN size /\ "x" \in DOMAIN size
  BY DEF MatvecQ4Accepts, IsSizes
<1>2. n \in Nat
  BY DEF Blocks
<1>3. ASSUME NEW y \in 1 .. rows, NEW p \in 1 .. cols
      PROVE  <<At("blocks", (y - 1) * n + (p - 1) \div 32), At("x", p - 1)>> \in Seq(Inner(size))
  <2>1. p - 1 \in 0 .. cols - 1 /\ y - 1 \in 0 .. rows - 1
    BY <1>1
  <2>2. (p - 1) \div 32 \in 0 .. n - 1
    BY <2>1, BlocksCover
  <2> HIDE DEF n, rows
  <2> DEFINE k == (y - 1) * n + (p - 1) \div 32
  <2>3. k \in Nat /\ k < rows * n
    BY <1>1, <1>2, <2>1, <2>2, IndexFits
  <2>4. rows * n \in Nat
    BY <1>1, <1>2
  <2> HIDE DEF k
  <2>5. k + 1 <= size["blocks"]
    BY <1>1, <2>3, <2>4
  <2>6. At("blocks", k) \in Inner(size)
    BY <1>1, <2>3, <2>5, AtInside
  <2>7. At("x", p - 1) \in Inner(size)
    BY <1>1, AtInside
  <2> QED  BY <2>6, <2>7 DEF k
<1> DEFINE term(y, p) == <<At("blocks", (y - 1) * n + (p - 1) \div 32), At("x", p - 1)>>
<1> HIDE DEF term, n, rows
<1>4. \A y \in 1 .. rows : \A p \in 1 .. cols : term(y, p) \in Seq(Inner(size))
  BY <1>3 DEF term
<1>5. \A y \in 1 .. rows : [p \in 1 .. cols |-> term(y, p)] \in Seq(Seq(Inner(size)))
  BY <1>4
<1>6. [y \in 1 .. rows |-> [p \in 1 .. cols |-> term(y, p)]] \in InnerOutputs(size)
  BY <1>1, <1>5 DEF InnerOutputs
<1> QED  BY <1>6 DEF MatvecQ4Outputs, term, n, rows

LEMMA RmsNormInside ==
  ASSUME NEW size, IsSizes(size, {"x", "weight", "y"}), RmsNormAccepts(size)
  PROVE  RmsNormOutputs(size) \in InnerOutputs(size)
<1> DEFINE n == size["x"]
<1>1. n \in Nat /\ size["weight"] = n /\ "x" \in DOMAIN size /\ "weight" \in DOMAIN size
  BY DEF IsSizes, RmsNormAccepts
<1>2. ASSUME NEW p \in 1 .. n
      PROVE  At("x", p - 1) \in Inner(size) /\ At("weight", p - 1) \in Inner(size)
  BY <1>1, AtInside
<1>3. << [p \in 1 .. n |-> <<At("x", p - 1), At("x", p - 1)>>] >> \in InnerOutputs(size)
  <2> HIDE DEF n
  <2>1. [p \in 1 .. n |-> <<At("x", p - 1), At("x", p - 1)>>] \in Seq(Seq(Inner(size)))
    BY <1>1, <1>2
  <2> QED  BY <2>1 DEF InnerOutputs
<1>4. [y \in 1 .. n |-> << <<At("x", y - 1), At("weight", y - 1)>> >>] \in InnerOutputs(size)
  <2> HIDE DEF n
  <2>1. ASSUME NEW y \in 1 .. n
        PROVE  << <<At("x", y - 1), At("weight", y - 1)>> >> \in Seq(Seq(Inner(size)))
    <3>1. <<At("x", y - 1), At("weight", y - 1)>> \in Seq(Inner(size))
      BY <1>2
    <3> QED  BY <3>1
  <2> QED  BY <1>1, <2>1 DEF InnerOutputs
<1> QED  BY <1>3, <1>4, ConcatProperties DEF RmsNormOutputs, InnerOutputs


LEMMA AttentionInside ==
  ASSUME NEW size, NEW past \in Nat, NEW headDim \in Nat,
         IsSizes(size, {"q", "keys", "values", "out", "scores"}),
         size["scores"] = past, AttentionAccepts(size, past, headDim)
  PROVE  AttentionOutputs(past, headDim) \in InnerOutputs(size)
<1>1. /\ size["q"] = headDim /\ size["keys"] \in Nat /\ size["values"] \in Nat
      /\ size["keys"] >= past * headDim /\ size["values"] >= past * headDim
      /\ "q" \in DOMAIN size /\ "keys" \in DOMAIN size
      /\ "values" \in DOMAIN size /\ "scores" \in DOMAIN size
  BY DEF IsSizes, AttentionAccepts
<1>2. ASSUME NEW t \in 1 .. past, NEW p \in 1 .. headDim
      PROVE  /\ At("keys", (t - 1) * headDim + p - 1) \in Inner(size)
             /\ At("values", (t - 1) * headDim + p - 1) \in Inner(size)
             /\ At("q", p - 1) \in Inner(size)
             /\ At("scores", t - 1) \in Inner(size)
  <2> DEFINE k == (t - 1) * headDim + (p - 1)
  <2>1. t - 1 \in 0 .. past - 1 /\ p - 1 \in 0 .. headDim - 1
    OBVIOUS
  <2>2. k \in Nat /\ k < past * headDim
    BY <2>1, IndexFits
  <2>3. (t - 1) * headDim \in Int /\ past * headDim \in Nat
    OBVIOUS
  <2>4. (t - 1) * headDim + p - 1 = k
    BY <2>3
  <2> HIDE DEF k
  <2>5. At("keys", k) \in Inner(size) /\ At("values", k) \in Inner(size)
    BY <1>1, <2>2, <2>3, AtInside
  <2>6. At("q", p - 1) \in Inner(size) /\ At("scores", t - 1) \in Inner(size)
    BY <1>1, AtInside
  <2> QED  BY <2>4, <2>5, <2>6
<1> DEFINE score(t, p) == <<At("q", p - 1), At("keys", (t - 1) * headDim + p - 1)>>
           value(y, t) == <<At("scores", t - 1), At("values", (t - 1) * headDim + y - 1)>>
<1>3. \A t \in 1 .. past, p \in 1 .. headDim :
        score(t, p) \in Seq(Inner(size)) /\ value(p, t) \in Seq(Inner(size))
  BY <1>2
<1> HIDE DEF score, value
<1>4. /\ \A t \in 1 .. past : [p \in 1 .. headDim |-> score(t, p)] \in Seq(Seq(Inner(size)))
      /\ \A y \in 1 .. headDim : [t \in 1 .. past |-> value(y, t)] \in Seq(Seq(Inner(size)))
  BY <1>3
<1>5. [t \in 1 .. past |-> [p \in 1 .. headDim |-> score(t, p)]] \in InnerOutputs(size)
  BY <1>4 DEF InnerOutputs
<1>6. [y \in 1 .. headDim |-> [t \in 1 .. past |-> value(y, t)]] \in InnerOutputs(size)
  BY <1>4 DEF InnerOutputs
<1>7. [t \in 1 .. past |-> [p \in 1 .. headDim |-> score(t, p)]]
        \o [y \in 1 .. headDim |-> [t \in 1 .. past |-> value(y, t)]] \in InnerOutputs(size)
  BY <1>5, <1>6, ConcatProperties DEF InnerOutputs
<1> QED  BY <1>7 DEF AttentionOutputs, score, value

LEMMA ShortConvInside ==
  ASSUME NEW size, NEW channels \in Nat, NEW width \in Nat \ {0},
         IsSizes(size, {"current", "out", "kernel", "history"}),
         ShortConvAccepts(size, channels, width)
  PROVE  ShortConvOutputs(channels, width) \in InnerOutputs(size)
<1>1. /\ size["current"] = channels /\ size["kernel"] = channels * width
      /\ size["history"] \in Nat /\ size["history"] >= channels * (width - 1)
      /\ "current" \in DOMAIN size /\ "kernel" \in DOMAIN size /\ "history" \in DOMAIN size
  BY DEF IsSizes, ShortConvAccepts
<1>2. channels * width \in Nat /\ channels * (width - 1) \in Nat
  <2>1. \A a, b \in Nat : a * b \in Nat
    OBVIOUS
  <2> QED  BY <2>1
<1>3. ASSUME NEW y \in 1 .. channels
      PROVE  At("current", y - 1) \in Inner(size) /\ At("kernel", (y - 1) * width) \in Inner(size)
  <2>1. y - 1 \in 0 .. channels - 1
    OBVIOUS
  <2>2. (y - 1) * width \in Nat /\ (y - 1) * width + width <= channels * width
    BY <2>1, RowFits
  <2>3. (y - 1) * width < channels * width
    BY <1>2, <2>2
  <2>4. At("current", y - 1) \in Inner(size)
    BY <1>1, AtInside
  <2> QED  BY <1>1, <1>2, <2>2, <2>3, <2>4, AtInside
<1>4. ASSUME NEW y \in 1 .. channels, NEW k \in 1 .. width - 1
      PROVE  /\ At("history", (k - 1) * channels + y - 1) \in Inner(size)
             /\ At("kernel", (y - 1) * width + k) \in Inner(size)
  <2> DEFINE h == (k - 1) * channels + (y - 1)
             w == (y - 1) * width + k
  <2>1. /\ y - 1 \in 0 .. channels - 1 /\ k \in 0 .. width - 1
        /\ k - 1 \in 0 .. (width - 1) - 1 /\ width - 1 \in Nat
    OBVIOUS
  <2>2. w \in Nat /\ w < channels * width
    BY <2>1, IndexFits
  <2>3. h \in Nat /\ h < (width - 1) * channels
    BY <2>1, IndexFits
  <2>4. (width - 1) * channels = channels * (width - 1)
    OBVIOUS
  <2>5. (k - 1) * channels \in Int
    OBVIOUS
  <2>6. (k - 1) * channels + y - 1 = h
    BY <2>5
  <2> HIDE DEF h, w
  <2>7. h < size["history"]
    BY <1>1, <1>2, <2>3, <2>4
  <2>8. At("history", h) \in Inner(size)
    BY <1>1, <2>3, <2>7, AtInside
  <2>9. At("kernel", w) \in Inner(size)
    BY <1>1, <1>2, <2>2, AtInside
  <2> QED  BY <2>6, <2>8, <2>9 DEF w
<1> DEFINE tap(y)     == <<At("current", y - 1), At("kernel", (y - 1) * width)>>
           taps(y, k) == <<At("history", (k - 1) * channels + y - 1),
                           At("kernel", (y - 1) * width + k)>>
<1>5. \A y \in 1 .. channels : tap(y) \in Seq(Inner(size))
  BY <1>3
<1>6. \A y \in 1 .. channels : \A k \in 1 .. width - 1 : taps(y, k) \in Seq(Inner(size))
  BY <1>4
<1> HIDE DEF tap, taps
<1>7. ASSUME NEW y \in 1 .. channels
      PROVE  <<tap(y)>> \o [k \in 1 .. width - 1 |-> taps(y, k)] \in Seq(Seq(Inner(size)))
  <2>1. <<tap(y)>> \in Seq(Seq(Inner(size)))
    BY <1>5
  <2>2. [k \in 1 .. width - 1 |-> taps(y, k)] \in Seq(Seq(Inner(size)))
    BY <1>6
  <2> QED  BY <2>1, <2>2, ConcatProperties
<1> DEFINE line(y) == <<tap(y)>> \o [k \in 1 .. width - 1 |-> taps(y, k)]
<1>8. \A y \in 1 .. channels : line(y) \in Seq(Seq(Inner(size)))
  BY <1>7
<1> HIDE DEF line
<1>9. [y \in 1 .. channels |-> line(y)] \in InnerOutputs(size)
  BY <1>8 DEF InnerOutputs
<1> QED  BY <1>9 DEF ShortConvOutputs, line, tap, taps

LEMMA SwigluInside ==
  ASSUME NEW size, NEW dim \in Nat, NEW hidden \in Nat,
         IsSizes(size, {"x", "gate_w", "up_w", "down_w", "hidden", "out", "gate", "up"}),
         size["gate"] = hidden, size["up"] = hidden
  PROVE  SwigluOutputs(size, dim, hidden) \in InnerOutputs(size)
<1> DEFINE accepts == SwigluAccepts(size, dim, hidden)
           stages  == SwigluStages(dim, hidden)
           reached(s) == IF \A t \in 1 .. s : accepts[t] THEN stages[s] ELSE <<>>
<1>1. /\ "x" \in DOMAIN size /\ "gate_w" \in DOMAIN size /\ "up_w" \in DOMAIN size
      /\ "down_w" \in DOMAIN size /\ "hidden" \in DOMAIN size
      /\ "gate" \in DOMAIN size /\ "up" \in DOMAIN size
  BY DEF IsSizes
<1>2. accepts[2] => stages[2] \in InnerOutputs(size)
  <2> SUFFICES ASSUME accepts[2]
               PROVE  stages[2] \in InnerOutputs(size)
    OBVIOUS
  <2>1. RowMajorAccepts(size, "gate_w", "x", "gate", hidden, dim)
    BY DEF SwigluAccepts
  <2> QED  BY <1>1, <2>1, RowMajorInside DEF SwigluStages
<1>3. accepts[3] => stages[3] \in InnerOutputs(size)
  <2> SUFFICES ASSUME accepts[3]
               PROVE  stages[3] \in InnerOutputs(size)
    OBVIOUS
  <2>1. RowMajorAccepts(size, "up_w", "x", "up", hidden, dim)
    BY DEF SwigluAccepts
  <2>2. RowMajorOutputs("up_w", "x", hidden, dim) \in InnerOutputs(size)
    BY <1>1, <2>1, RowMajorInside
  <2> DEFINE term(y) == <<At("gate", y - 1), At("up", y - 1)>>
  <2>3. \A y \in 1 .. hidden : term(y) \in Seq(Inner(size))
    <3> SUFFICES ASSUME NEW y \in 1 .. hidden
                 PROVE  term(y) \in Seq(Inner(size))
      OBVIOUS
    <3>1. At("gate", y - 1) \in Inner(size) /\ At("up", y - 1) \in Inner(size)
      BY <1>1, AtInside
    <3> QED  BY <3>1
  <2> HIDE DEF term
  <2>4. \A y \in 1 .. hidden : <<term(y)>> \in Seq(Seq(Inner(size)))
    BY <2>3
  <2>5. [y \in 1 .. hidden |-> <<term(y)>>] \in InnerOutputs(size)
    BY <2>4 DEF InnerOutputs
  <2>6. RowMajorOutputs("up_w", "x", hidden, dim) \o [y \in 1 .. hidden |-> <<term(y)>>]
          \in InnerOutputs(size)
    BY <2>2, <2>5, ConcatProperties DEF InnerOutputs
  <2> QED  BY <2>6 DEF SwigluStages, term
<1>4. accepts[4] => stages[4] \in InnerOutputs(size)
  <2> SUFFICES ASSUME accepts[4]
               PROVE  stages[4] \in InnerOutputs(size)
    OBVIOUS
  <2>1. RowMajorAccepts(size, "down_w", "hidden", "out", dim, hidden)
    BY DEF SwigluAccepts
  <2> QED  BY <1>1, <2>1, RowMajorInside DEF SwigluStages
<1> HIDE DEF accepts, stages
<1>5. /\ reached(2) \in InnerOutputs(size) /\ reached(3) \in InnerOutputs(size)
      /\ reached(4) \in InnerOutputs(size)
  BY <1>2, <1>3, <1>4, EmptyInside
<1> HIDE DEF reached
<1>6. reached(2) \o reached(3) \o reached(4) \in InnerOutputs(size)
  BY <1>5, ConcatProperties DEF InnerOutputs
<1> QED  BY <1>6 DEF SwigluOutputs, reached, accepts, stages


LEMMA MatmulInside ==
  ASSUME NEW plan \in [m : Nat, n : Nat, k : Nat, transpose : BOOLEAN], MatmulAccepts(plan)
  PROVE  MatmulOutputs(plan) \in InnerOutputs([a |-> plan.m * plan.k, b |-> plan.k * plan.n])
<1> DEFINE m == plan.m
           n == plan.n
           K == plan.k
           size == [a |-> m * K, b |-> K * n]
<1>1. m \in Nat \ {0} /\ n \in Nat \ {0} /\ K \in Nat \ {0} /\ IsPlan(plan)
  BY DEF MatmulAccepts, IsPlan
<1> HIDE DEF m, n, K
<1>2. /\ m * K \in Nat /\ K * n \in Nat /\ n * K = K * n /\ m * n \in Nat
      /\ "a" \in DOMAIN size /\ "b" \in DOMAIN size /\ size["a"] = m * K /\ size["b"] = K * n
  BY <1>1
<1> HIDE DEF size
<1>3. ASSUME NEW i \in 0 .. m - 1, NEW j \in 0 .. n - 1, NEW k \in 0 .. K - 1
      PROVE  Product(plan, i, j, k) \in Seq(Inner(size))
  <2> DEFINE e == i * K + k
             f == IF plan.transpose THEN j * K + k ELSE k * n + j
  <2>1. e \in Nat /\ e < m * K
    BY <1>1, IndexFits
  <2>2. j * K + k \in Nat /\ j * K + k < n * K
    BY <1>1, IndexFits
  <2>3. k * n + j \in Nat /\ k * n + j < K * n
    BY <1>1, IndexFits
  <2>4. f \in Nat /\ f < K * n
    BY <1>2, <2>2, <2>3
  <2> HIDE DEF e, f
  <2>5. At("a", e) \in Inner(size) /\ At("b", f) \in Inner(size)
    BY <1>2, <2>1, <2>4, AtInside
  <2>6. <<At("a", e), At("b", f)>> \in Seq(Inner(size))
    BY <2>5
  <2> QED  BY <2>6 DEF Product, e, f, K, n
<1>4. ASSUME NEW i \in 0 .. m - 1, NEW j \in 0 .. n - 1
      PROVE  Dot(plan, i, j) \in Seq(Seq(Inner(size)))
  <2> DEFINE term(k) == Product(plan, i, j, k - 1)
  <2>1. \A k \in 1 .. K : term(k) \in Seq(Inner(size))
    <3> SUFFICES ASSUME NEW k \in 1 .. K
                 PROVE  term(k) \in Seq(Inner(size))
      OBVIOUS
    <3>1. k - 1 \in 0 .. K - 1
      BY <1>1
    <3> QED  BY <1>3, <3>1
  <2> HIDE DEF term
  <2>2. [k \in 1 .. K |-> term(k)] \in Seq(Seq(Inner(size)))
    BY <1>1, <2>1
  <2> QED  BY <2>2 DEF Dot, term, K
<1> DEFINE dot(y) == Dot(plan, (y - 1) \div n, (y - 1) % n)
<1>5. ASSUME NEW y \in 1 .. m * n
      PROVE  dot(y) \in Seq(Seq(Inner(size)))
  <2>1. (y - 1) \div n \in 0 .. m - 1 /\ (y - 1) % n \in 0 .. n - 1
    BY <1>1, CellInside
  <2> QED  BY <1>4, <2>1
<1> HIDE DEF dot
<1>6. [y \in 1 .. m * n |-> dot(y)] \in InnerOutputs(size)
  BY <1>2, <1>5 DEF InnerOutputs
<1>7. MatmulOutputs(plan) = [y \in 1 .. m * n |-> dot(y)]
  BY <1>1, MatmulDots DEF dot, m, n
<1> QED  BY <1>6, <1>7 DEF size, m, n, K

LEMMA RopeInside ==
  ASSUME NEW size, NEW headDim \in Nat, IsSizes(size, {"v"}), RopeAccepts(size, headDim)
  PROVE  RopeOutputs(size, headDim) \in InnerOutputs(size)
<1> DEFINE v == size["v"]
<1>1. v \in Nat /\ "v" \in DOMAIN size
  BY DEF IsSizes
<1>2. v % 2 = 0
  BY <1>1, PairsFollow
<1>3. ASSUME NEW y \in 1 .. v
      PROVE  Pair(y) \in Seq(Seq(Inner(size)))
  <2> DEFINE e == ((y - 1) \div 2) * 2
  <2>1. e \in Nat /\ e + 1 < v
    BY <1>1, <1>2
  <2> HIDE DEF e
  <2>2. At("v", e) \in Inner(size) /\ At("v", e + 1) \in Inner(size)
    BY <1>1, <2>1, AtInside
  <2>3. <<At("v", e), At("v", e + 1)>> \in Seq(Inner(size))
    BY <2>2
  <2>4. << <<At("v", e), At("v", e + 1)>> >> \in Seq(Seq(Inner(size)))
    BY <2>3
  <2> QED  BY <2>4 DEF Pair, e
<1>4. RopeOutputs(size, headDim) = [y \in 1 .. v |-> Pair(y)]
  BY <1>1, RopePairs
<1> HIDE DEF v
<1>5. [y \in 1 .. v |-> Pair(y)] \in InnerOutputs(size)
  BY <1>1, <1>3 DEF InnerOutputs
<1> QED  BY <1>4, <1>5

-----------------------------------------------------------------------------
(* The product with a mapped tensor. *)

LEMMA BlockInside ==
  ASSUME NEW size, NEW dtype \in Quantized, NEW start \in Nat, NEW i \in 0 .. 31,
         "rows" \in DOMAIN size, size["rows"] \in Nat,
         start + BlockBytes[dtype] <= size["rows"]
  PROVE  << <<"rows", start, Header[dtype], "whole">>, WeightRead(dtype, start, i) >>
           \in Seq(Inner(size))
<1>1. /\ Header[dtype] \in Nat
      /\ Header[dtype] + (IF dtype = "q8_0" THEN 32 ELSE 16) = BlockBytes[dtype]
      /\ \A part \in {"whole", "low", "high"} : part \in Parts
  BY DEF Quantized, Header, BlockBytes, Parts
<1>2. start + Header[dtype] <= size["rows"]
  BY <1>1
<1>3. <<"rows", start, Header[dtype], "whole">> \in Inner(size)
  BY <1>1, <1>2, ReadInside
<1>4. WeightRead(dtype, start, i) \in Inner(size)
  <2> DEFINE weights == start + Header[dtype]
  <2>1. weights \in Nat
    BY <1>1
  <2>2. CASE dtype = "q8_0"
    <3>1. weights + i \in Nat /\ weights + i + 1 <= size["rows"] /\ 1 \in Nat
      BY <1>1, <2>1, <2>2
    <3>2. <<"rows", weights + i, 1, "whole">> \in Inner(size)
      BY <1>1, <3>1, ReadInside
    <3> QED  BY <2>2, <3>2 DEF WeightRead
  <2>3. CASE dtype # "q8_0"
    <3>1. i \div 2 \in 0 .. 15
      OBVIOUS
    <3>2. /\ weights + i \div 2 \in Nat /\ weights + i \div 2 + 1 <= size["rows"]
          /\ 1 \in Nat
      BY <1>1, <2>1, <2>3, <3>1
    <3>3. /\ <<"rows", weights + i \div 2, 1, "low">> \in Inner(size)
          /\ <<"rows", weights + i \div 2, 1, "high">> \in Inner(size)
      BY <1>1, <3>2, ReadInside
    <3> QED  BY <2>3, <3>3 DEF WeightRead
  <2> QED  BY <2>2, <2>3
<1> QED  BY <1>3, <1>4

LEMMA WeightReadsInside ==
  ASSUME NEW size, NEW dtype \in Dispatched, NEW rows \in Nat, NEW cols \in Nat,
         "rows" \in DOMAIN size, size["rows"] \in Nat,
         size["rows"] >= rows * RowBytes(dtype, cols),
         NEW r \in 0 .. rows - 1, NEW c \in 0 .. cols - 1
  PROVE  WeightReads(dtype, cols, r, c) \in Seq(Inner(size))
<1>1. "whole" \in Parts /\ 2 \in Nat /\ 4 \in Nat
  BY DEF Parts
<1>2. CASE dtype = "f32"
  <2> DEFINE e == r * cols + c
  <2>1. e \in Nat /\ e < rows * cols
    BY IndexFits
  <2>2. size["rows"] >= rows * (cols * 4)
    BY <1>2 DEF RowBytes
  <2>3. rows * cols \in Nat /\ rows * (cols * 4) = (rows * cols) * 4
    OBVIOUS
  <2> HIDE DEF e
  <2>4. e * 4 \in Nat /\ e * 4 + 4 <= size["rows"]
    BY <2>1, <2>2, <2>3
  <2>5. <<"rows", e * 4, 4, "whole">> \in Inner(size)
    BY <1>1, <2>4, ReadInside
  <2>6. << <<"rows", e * 4, 4, "whole">> >> \in Seq(Inner(size))
    BY <2>5
  <2> QED  BY <1>2, <2>6 DEF WeightReads, e
<1>3. CASE dtype = "f16"
  <2> DEFINE w   == cols * 2
             row == r * w
  <2>1. w \in Nat /\ RowBytes(dtype, cols) = w
    BY <1>3 DEF RowBytes
  <2>2. c * 2 + 2 <= w /\ c * 2 \in Nat
    OBVIOUS
  <2> HIDE DEF w
  <2>3. row \in Nat /\ row + w <= rows * w
    BY <2>1, RowFits
  <2>4. rows * w \in Nat
    BY <2>1
  <2> HIDE DEF row
  <2>5. row + c * 2 \in Nat /\ row + c * 2 + 2 <= size["rows"]
    BY <2>1, <2>2, <2>3, <2>4
  <2>6. <<"rows", row + c * 2, 2, "whole">> \in Inner(size)
    BY <1>1, <2>5, ReadInside
  <2>7. << <<"rows", row + c * 2, 2, "whole">> >> \in Seq(Inner(size))
    BY <2>6
  <2>8. row = r * RowBytes(dtype, cols)
    BY <2>1 DEF row
  <2> QED  BY <1>3, <2>7, <2>8 DEF WeightReads
<1>4. CASE dtype \in Quantized
  <2> DEFINE B   == BlockBytes[dtype]
             n   == Blocks(cols)
             w   == n * B
             row == r * w
             b   == c \div 32
             start == row + b * B
  <2>1. dtype # "f32" /\ dtype # "f16" /\ B \in Nat
    BY <1>4 DEF Quantized, BlockBytes
  <2>2. RowBytes(dtype, cols) = w
    BY <2>1 DEF RowBytes
  <2>3. n \in Nat /\ b \in 0 .. n - 1 /\ c % 32 \in 0 .. 31
    BY BlocksCover
  <2> HIDE DEF B, n, b
  <2>4. b * B \in Nat /\ b * B + B <= w
    BY <2>1, <2>3, RowFits
  <2>5. w \in Nat
    BY <2>1, <2>3
  <2>6. size["rows"] >= rows * w
    BY <2>2
  <2> HIDE DEF w
  <2>7. row \in Nat /\ row + w <= rows * w
    BY <2>5, RowFits
  <2>8. rows * w \in Nat
    BY <2>5
  <2>9. row = r * RowBytes(dtype, cols)
    BY <2>2
  <2> HIDE DEF row
  <2>10. start \in Nat /\ start + B <= size["rows"]
    <3> DEFINE q == b * B
    <3>1. q \in Nat /\ q + B <= w
      BY <2>4
    <3> HIDE DEF q
    <3>2. row + q \in Nat /\ row + q + B <= size["rows"]
      BY <2>1, <2>5, <2>6, <2>7, <2>8, <3>1
    <3> QED  BY <3>2 DEF q
  <2>11. start = r * RowBytes(dtype, cols) + (c \div 32) * BlockBytes[dtype]
    BY <2>9 DEF b, B
  <2> HIDE DEF start
  <2>12. << <<"rows", start, Header[dtype], "whole">>, WeightRead(dtype, start, c % 32) >>
           \in Seq(Inner(size))
    BY <1>4, <2>3, <2>10, BlockInside DEF B
  <2> QED  BY <2>1, <2>11, <2>12 DEF WeightReads
<1> QED  BY <1>2, <1>3, <1>4 DEF Dispatched

LEMMA MatvecInside ==
  ASSUME NEW size, NEW dtype \in Dispatched, NEW cols \in Nat,
         IsSizes(size, {"rows", "x", "y"}), MatvecAccepts(dtype, size, cols),
         ~(dtype = "f32" /\ size["x"] < cols)
  PROVE  MatvecOutputs(dtype, size, cols) \in InnerOutputs(size)
<1> DEFINE rows == size["y"]
           weights(y, p) == WeightReads(dtype, cols, y - 1, p - 1)
           term(y, p) == weights(y, p) \o <<At("x", p - 1)>>
<1>1. /\ rows \in Nat /\ size["x"] \in Nat /\ size["rows"] \in Nat
      /\ "rows" \in DOMAIN size /\ "x" \in DOMAIN size
      /\ size["rows"] >= rows * RowBytes(dtype, cols)
  BY DEF IsSizes, MatvecAccepts
<1>2. cols <= size["x"]
  BY <1>1 DEF MatvecAccepts
<1>3. ASSUME NEW y \in 1 .. rows, NEW p \in 1 .. cols
      PROVE  term(y, p) \in Seq(Inner(size))
  <2>1. y - 1 \in 0 .. rows - 1 /\ p - 1 \in 0 .. cols - 1
    BY <1>1
  <2>2. weights(y, p) \in Seq(Inner(size))
    BY <1>1, <2>1, WeightReadsInside
  <2>3. p - 1 \in Nat /\ p - 1 < size["x"]
    BY <1>1, <1>2
  <2>4. At("x", p - 1) \in Inner(size)
    BY <1>1, <2>3, AtInside
  <2> HIDE DEF weights
  <2> QED  BY <2>2, <2>4
<1> HIDE DEF term, rows
<1>4. \A y \in 1 .. rows : [p \in 1 .. cols |-> term(y, p)] \in Seq(Seq(Inner(size)))
  BY <1>3
<1>5. [y \in 1 .. rows |-> [p \in 1 .. cols |-> term(y, p)]] \in InnerOutputs(size)
  BY <1>1, <1>4 DEF InnerOutputs
<1> QED  BY <1>5 DEF MatvecOutputs, term, rows

-----------------------------------------------------------------------------
(* The calls. *)

LEMMA SizesTyped ==
  ASSUME NEW needed, \A b \in DOMAIN needed : needed[b] \in Int, NEW size \in Sizes(needed)
  PROVE  IsSizes(size, DOMAIN needed)
<1>1. PICK slack \in [DOMAIN needed -> Slack] :
        size = [b \in DOMAIN needed |-> needed[b] + slack[b]]
  BY DEF Sizes
<1>2. \A b \in DOMAIN needed : slack[b] \in Int
  BY SizesAssumption
<1>3. \A b \in DOMAIN needed : size[b] \in Int /\ size[b] >= 0
  BY <1>1, <1>2 DEF Sizes
<1> QED  BY <1>1, <1>3 DEF IsSizes

LEMMA ProductTyped ==
  ASSUME NEW m \in Nat, NEW n \in Nat
  PROVE  m * n \in Nat
  OBVIOUS

LEMMA MatvecGgufReads ==
  ASSUME MatvecGguf
  PROVE  ReadsInside'
<1>1. PICK dtype \in Dispatched, cols \in Cols, rows \in Rows :
        \E size \in Sizes([rows |-> TensorBytes(dtype, rows * cols), x |-> cols, y |-> rows]) :
          Checked("matvec", [dtype |-> dtype, cols |-> cols, rows |-> rows], size,
                  MatvecAccepts(dtype, size, cols), MatvecOutputs(dtype, size, cols))
  BY DEF MatvecGguf
<1> DEFINE needed == [rows |-> TensorBytes(dtype, rows * cols), x |-> cols, y |-> rows]
           args   == [dtype |-> dtype, cols |-> cols, rows |-> rows]
<1>2. PICK size \in Sizes(needed) :
        Checked("matvec", args, size,
                MatvecAccepts(dtype, size, cols), MatvecOutputs(dtype, size, cols))
  BY <1>1
<1>3. cols \in Nat /\ rows \in Nat
  BY SizesAssumption
<1>4. \A b \in {"rows", "x", "y"} : needed[b] \in Int
  <2>1. rows * cols \in Nat
    BY <1>3, ProductTyped
  <2>2. TensorBytes(dtype, rows * cols) \in Int
    <3> DEFINE n == rows * cols
    <3>1. n \in Nat
      BY <2>1
    <3> HIDE DEF n
    <3>2. TensorBlock[dtype].elements \in {1, 32} /\ TensorBlock[dtype].bytes \in Nat
      BY DEF TensorBlock, Dispatched, Quantized, Single, By32
    <3>3. TensorBytes(dtype, n) \in Int
      BY <3>1, <3>2 DEF TensorBytes
    <3> QED  BY <3>3 DEF n
  <2> QED  BY <1>3, <2>2
<1>5. DOMAIN needed = {"rows", "x", "y"}
  OBVIOUS
<1> HIDE DEF needed
<1>6. IsSizes(size, {"rows", "x", "y"})
  BY <1>4, <1>5, SizesTyped
<1>7. call'.op = "matvec" /\ call'.args = args /\ call'.size = size
  BY <1>2 DEF Checked, Kernel
<1>8. size["x"] \in Nat /\ size["y"] \in Nat
  BY <1>6 DEF IsSizes
<1>9. MatvecAccepts(dtype, size, cols) \in BOOLEAN
  BY DEF MatvecAccepts
<1>10. CASE ~(dtype = "f32" /\ size["x"] < cols)
  <2>1. MatvecAccepts(dtype, size, cols) =>
          MatvecOutputs(dtype, size, cols) \in InnerOutputs(size)
    BY <1>3, <1>6, <1>10, MatvecInside
  <2>2. ~Unchecked'
    BY <1>7, <1>10 DEF Unchecked
  <2> HIDE DEF args
  <2> QED  BY <1>2, <1>9, <2>1, <2>2, CheckedInside
<1>11. CASE size["y"] = 0 \/ ~MatvecAccepts(dtype, size, cols)
  <2>1. size["y"] = 0 => MatvecOutputs(dtype, size, cols) = <<>>
    BY DEF MatvecOutputs
  <2>2. MatvecAccepts(dtype, size, cols) =>
          MatvecOutputs(dtype, size, cols) \in InnerOutputs(size)
    BY <1>11, <2>1, EmptyInside
  <2>3. ~Unchecked'
    BY <1>2, <1>7, <1>11 DEF Unchecked, Checked, Kernel
  <2> HIDE DEF args
  <2> QED  BY <1>2, <1>9, <2>2, <2>3, CheckedInside
<1>12. CASE /\ dtype = "f32" /\ size["x"] < cols
            /\ size["y"] # 0 /\ MatvecAccepts(dtype, size, cols)
  <2> DEFINE outputs == MatvecOutputs(dtype, size, cols)
  <2>1. 1 \in 1 .. size["y"] /\ cols \in 1 .. cols
    BY <1>3, <1>8, <1>12
  <2>2. /\ 1 \in DOMAIN outputs /\ cols \in DOMAIN outputs[1]
        /\ outputs[1][cols] = WeightReads(dtype, cols, 1 - 1, cols - 1) \o <<At("x", cols - 1)>>
    BY <2>1 DEF MatvecOutputs
  <2>3. PICK w : WeightReads(dtype, cols, 1 - 1, cols - 1) = <<w>>
    BY <1>12 DEF WeightReads
  <2> HIDE DEF outputs
  <2>4. outputs[1][cols] = <<w, At("x", cols - 1)>>
    BY <2>2, <2>3, Joined
  <2>5. 2 \in DOMAIN outputs[1][cols] /\ outputs[1][cols][2] = At("x", cols - 1)
    BY <2>4
  <2>6. cols - 1 \in Nat /\ size["x"] <= cols - 1
    BY <1>3, <1>8, <1>12
  <2>7. Checked("matvec", args, size, TRUE, outputs)
    BY <1>2, <1>9, <1>12 DEF outputs
  <2>8. ~(\A read \in AllReads : InItsBuffer(read))'
    <3> HIDE DEF args
    <3> QED  BY <1>8, <2>2, <2>5, <2>6, <2>7, ReadOutside
  <2>9. Unchecked'
    BY <1>7, <1>12, <2>7 DEF Unchecked, Checked, Kernel
  <2> QED  BY <2>8, <2>9 DEF ReadsInside
<1> QED  BY <1>9, <1>10, <1>11, <1>12

LEMMA MatvecQ4Reads ==
  ASSUME MatvecQ4
  PROVE  ReadsInside'
<1>1. PICK cols \in Cols, rows \in Rows :
        \E size \in Sizes([blocks |-> rows * Blocks(cols), x |-> cols, y |-> rows]) :
          Checked("matvec_q4", [cols |-> cols], size,
                  MatvecQ4Accepts(size, cols), MatvecQ4Outputs(size, cols))
  BY DEF MatvecQ4
<1> DEFINE needed == [blocks |-> rows * Blocks(cols), x |-> cols, y |-> rows]
           args   == [cols |-> cols]
<1>2. PICK size \in Sizes(needed) :
        Checked("matvec_q4", args, size, MatvecQ4Accepts(size, cols), MatvecQ4Outputs(size, cols))
  BY <1>1
<1>3. cols \in Nat /\ rows \in Nat /\ Blocks(cols) \in Nat
  BY SizesAssumption DEF Blocks
<1>4. \A b \in {"blocks", "x", "y"} : needed[b] \in Int
  BY <1>3, ProductTyped
<1>5. DOMAIN needed = {"blocks", "x", "y"}
  OBVIOUS
<1> HIDE DEF needed, args
<1>6. IsSizes(size, {"blocks", "x", "y"})
  BY <1>4, <1>5, SizesTyped
<1>7. MatvecQ4Accepts(size, cols) => MatvecQ4Outputs(size, cols) \in InnerOutputs(size)
  BY <1>3, <1>6, MatvecQ4Inside
<1>8. MatvecQ4Accepts(size, cols) \in BOOLEAN
  BY DEF MatvecQ4Accepts
<1> QED  BY <1>2, <1>7, <1>8, CheckedInside

LEMMA RmsNormReads ==
  ASSUME RmsNorm
  PROVE  ReadsInside'
<1>1. PICK n \in Dims :
        \E size \in Sizes([x |-> n, weight |-> n, y |-> n]) :
          Checked("rms_norm", [dim |-> n], size, RmsNormAccepts(size), RmsNormOutputs(size))
  BY DEF RmsNorm
<1> DEFINE needed == [x |-> n, weight |-> n, y |-> n]
           args   == [dim |-> n]
<1>2. PICK size \in Sizes(needed) :
        Checked("rms_norm", args, size, RmsNormAccepts(size), RmsNormOutputs(size))
  BY <1>1
<1>3. \A b \in {"x", "weight", "y"} : needed[b] \in Int
  BY SizesAssumption
<1>4. DOMAIN needed = {"x", "weight", "y"}
  OBVIOUS
<1> HIDE DEF needed, args
<1>5. IsSizes(size, {"x", "weight", "y"})
  BY <1>3, <1>4, SizesTyped
<1>6. RmsNormAccepts(size) => RmsNormOutputs(size) \in InnerOutputs(size)
  BY <1>5, RmsNormInside
<1>7. RmsNormAccepts(size) \in BOOLEAN
  BY DEF RmsNormAccepts
<1> QED  BY <1>2, <1>6, <1>7, CheckedInside

LEMMA AttentionReads ==
  ASSUME CausalAttention
  PROVE  ReadsInside'
<1>1. PICK past \in Dims, headDim \in Dims :
        \E size \in Sizes([q |-> headDim, keys |-> past * headDim,
                           values |-> past * headDim, out |-> headDim]) :
          Checked("attention", [past |-> past, headDim |-> headDim],
                  [b \in DOMAIN size \cup {"scores"} |-> IF b = "scores" THEN past ELSE size[b]],
                  AttentionAccepts(size, past, headDim), AttentionOutputs(past, headDim))
  BY DEF CausalAttention
<1> DEFINE needed == [q |-> headDim, keys |-> past * headDim,
                      values |-> past * headDim, out |-> headDim]
           args   == [past |-> past, headDim |-> headDim]
<1>2. PICK size \in Sizes(needed) :
        Checked("attention", args,
                [b \in DOMAIN size \cup {"scores"} |-> IF b = "scores" THEN past ELSE size[b]],
                AttentionAccepts(size, past, headDim), AttentionOutputs(past, headDim))
  BY <1>1
<1>3. past \in Nat /\ headDim \in Nat
  BY SizesAssumption
<1>4. \A b \in {"q", "keys", "values", "out"} : needed[b] \in Int
  BY <1>3, ProductTyped
<1>5. DOMAIN needed = {"q", "keys", "values", "out"}
  OBVIOUS
<1> HIDE DEF needed, args
<1>6. IsSizes(size, {"q", "keys", "values", "out"})
  BY <1>4, <1>5, SizesTyped
<1> DEFINE full == [b \in DOMAIN size \cup {"scores"} |-> IF b = "scores" THEN past ELSE size[b]]
<1>7. /\ IsSizes(full, {"q", "keys", "values", "out", "scores"})
      /\ full["scores"] = past
      /\ \A b \in {"q", "keys", "values", "out"} : full[b] = size[b]
  BY <1>3, <1>6 DEF IsSizes
<1> HIDE DEF full
<1>8. AttentionAccepts(size, past, headDim) <=> AttentionAccepts(full, past, headDim)
  BY <1>7 DEF AttentionAccepts
<1>9. AttentionAccepts(size, past, headDim) =>
        AttentionOutputs(past, headDim) \in InnerOutputs(full)
  BY <1>3, <1>7, <1>8, AttentionInside
<1>10. AttentionAccepts(size, past, headDim) \in BOOLEAN
  BY DEF AttentionAccepts
<1>11. Checked("attention", args, full,
               AttentionAccepts(size, past, headDim), AttentionOutputs(past, headDim))
  BY <1>2 DEF full
<1> QED  BY <1>9, <1>10, <1>11, CheckedInside

LEMMA ShortConvReads ==
  ASSUME ShortConvolution
  PROVE  ReadsInside'
<1>1. PICK channels \in Dims, width \in Dims :
        \E size \in Sizes([current |-> channels, out |-> channels, kernel |-> channels * width,
                           history |-> channels * width - channels]) :
          Checked("short_conv", [channels |-> channels, width |-> width], size,
                  ShortConvAccepts(size, channels, width), ShortConvOutputs(channels, width))
  BY DEF ShortConvolution
<1> DEFINE needed == [current |-> channels, out |-> channels, kernel |-> channels * width,
                      history |-> channels * width - channels]
           args   == [channels |-> channels, width |-> width]
<1>2. PICK size \in Sizes(needed) :
        Checked("short_conv", args, size,
                ShortConvAccepts(size, channels, width), ShortConvOutputs(channels, width))
  BY <1>1
<1>3. channels \in Nat /\ width \in Nat
  BY SizesAssumption
<1>4. \A b \in {"current", "out", "kernel", "history"} : needed[b] \in Int
  <2>1. channels * width \in Nat
    BY <1>3, ProductTyped
  <2>2. channels * width - channels \in Int
    BY <1>3, <2>1
  <2> QED  BY <1>3, <2>1, <2>2
<1>5. DOMAIN needed = {"current", "out", "kernel", "history"}
  OBVIOUS
<1> HIDE DEF needed
<1>6. IsSizes(size, {"current", "out", "kernel", "history"})
  BY <1>4, <1>5, SizesTyped
<1>7. call'.op = "short_conv" /\ call'.args = args
  BY <1>2 DEF Checked, Kernel
<1>8. ShortConvAccepts(size, channels, width) \in BOOLEAN
  BY DEF ShortConvAccepts
<1>9. CASE width # 0
  <2>1. ShortConvAccepts(size, channels, width) =>
          ShortConvOutputs(channels, width) \in InnerOutputs(size)
    BY <1>3, <1>6, <1>9, ShortConvInside
  <2>2. ~Unchecked'
    BY <1>7, <1>9 DEF Unchecked
  <2> HIDE DEF args
  <2> QED  BY <1>2, <1>8, <2>1, <2>2, CheckedInside
<1>10. CASE channels = 0 \/ ~ShortConvAccepts(size, channels, width)
  <2>1. channels = 0 => ShortConvOutputs(channels, width) = <<>>
    BY DEF ShortConvOutputs
  <2>2. ShortConvAccepts(size, channels, width) =>
          ShortConvOutputs(channels, width) \in InnerOutputs(size)
    BY <1>10, <2>1, EmptyInside
  <2>3. ~Unchecked'
    BY <1>2, <1>7, <1>10 DEF Unchecked, Checked, Kernel
  <2> HIDE DEF args
  <2> QED  BY <1>2, <1>8, <2>2, <2>3, CheckedInside
<1>11. CASE width = 0 /\ channels # 0 /\ ShortConvAccepts(size, channels, width)
  <2> DEFINE outputs == ShortConvOutputs(channels, width)
             first   == <<At("current", 0), At("kernel", 0)>>
  <2>1. 1 \in 1 .. channels /\ (1 - 1) * width = 0 /\ 1 - 1 = 0
    BY <1>3, <1>11
  <2>2. 1 \in DOMAIN outputs /\ outputs[1] = << first >> \o <<>>
    <3>1. \A f : [k \in 1 .. width - 1 |-> f[k]] = <<>>
      BY <1>11
    <3> QED  BY <1>11, <2>1 DEF ShortConvOutputs
  <2> HIDE DEF outputs
  <2>3. outputs[1] = << first >>
    BY <2>2
  <2>4. 1 \in DOMAIN outputs[1] /\ outputs[1][1] = first
    BY <2>3
  <2>5. 2 \in DOMAIN outputs[1][1] /\ outputs[1][1][2] = At("kernel", 0)
    BY <2>4
  <2>6. size["kernel"] = 0
    <3>1. size["kernel"] = channels * width /\ channels * 0 = 0
      BY <1>3, <1>11 DEF ShortConvAccepts
    <3> QED  BY <1>11, <3>1
  <2>7. size["kernel"] \in Nat /\ size["kernel"] <= 0
    BY <2>6
  <2>8. Checked("short_conv", args, size, TRUE, outputs)
    BY <1>2, <1>8, <1>11 DEF outputs
  <2>9. ~(\A read \in AllReads : InItsBuffer(read))'
    <3>1. 1 \in DOMAIN outputs /\ 1 \in DOMAIN outputs[1] /\ 2 \in DOMAIN outputs[1][1]
      BY <2>2, <2>4, <2>5
    <3>2. outputs[1][1][2] = At("kernel", 0)
      BY <2>5
    <3> HIDE DEF args, first
    <3> QED  BY <2>7, <2>8, <3>1, <3>2, ReadOutside
  <2>10. Unchecked'
    BY <1>7, <1>11, <2>8 DEF Unchecked, Checked, Kernel
  <2> QED  BY <2>9, <2>10 DEF ReadsInside
<1> QED  BY <1>8, <1>9, <1>10, <1>11

LEMMA SwigluReads ==
  ASSUME SwigluMlp
  PROVE  ReadsInside'
<1> DEFINE buffers == {"x", "gate_w", "up_w", "down_w", "hidden", "out"}
           whole(given, hidden) == [b \in DOMAIN given \cup {"gate", "up"} |->
                                      IF b \in {"gate", "up"} THEN hidden ELSE given[b]]
           needed(dim, hidden)  == [x |-> dim, gate_w |-> hidden * dim, up_w |-> hidden * dim,
                                    down_w |-> dim * hidden, hidden |-> hidden, out |-> dim]
<1>1. PICK dim \in Dims, hidden \in Dims :
        \E given \in Sizes(needed(dim, hidden)) :
          \E accepted :
            Kernel("swiglu", [dim |-> dim, hidden |-> hidden], whole(given, hidden), accepted,
                   SwigluOutputs(whole(given, hidden), dim, hidden))
  BY DEF SwigluMlp
<1>2. PICK given \in Sizes(needed(dim, hidden)) :
        \E accepted :
          Kernel("swiglu", [dim |-> dim, hidden |-> hidden], whole(given, hidden), accepted,
                 SwigluOutputs(whole(given, hidden), dim, hidden))
  BY <1>1
<1> DEFINE size == whole(given, hidden)
<1>3. dim \in Nat /\ hidden \in Nat
  BY SizesAssumption
<1>4. \A b \in buffers : needed(dim, hidden)[b] \in Int
  BY <1>3, ProductTyped
<1>5. DOMAIN needed(dim, hidden) = buffers
  OBVIOUS
<1>6. IsSizes(given, buffers)
  <2> HIDE DEF needed, buffers
  <2> QED  BY <1>4, <1>5, SizesTyped
<1>7. /\ IsSizes(size, {"x", "gate_w", "up_w", "down_w", "hidden", "out", "gate", "up"})
      /\ size["gate"] = hidden /\ size["up"] = hidden
  BY <1>3, <1>6 DEF IsSizes
<1> HIDE DEF whole, size
<1>8. SwigluOutputs(size, dim, hidden) \in InnerOutputs(size)
  BY <1>3, <1>7, SwigluInside
<1>9. PICK accepted :
        Kernel("swiglu", [dim |-> dim, hidden |-> hidden], size, accepted,
               SwigluOutputs(size, dim, hidden))
  BY <1>2 DEF size
<1> QED  BY <1>8, <1>9, KernelInside

LEMMA LogitsReads ==
  ASSUME LogitsProjection
  PROVE  ReadsInside'
<1>1. PICK vocab \in Dims, dim \in Dims :
        \E size \in Sizes([w |-> vocab * dim, x |-> dim, logits |-> vocab]) :
          Checked("logits", [vocab |-> vocab, dim |-> dim], size,
                  RowMajorAccepts(size, "w", "x", "logits", vocab, dim),
                  RowMajorOutputs("w", "x", vocab, dim))
  BY DEF LogitsProjection
<1> DEFINE needed == [w |-> vocab * dim, x |-> dim, logits |-> vocab]
           args   == [vocab |-> vocab, dim |-> dim]
<1>2. PICK size \in Sizes(needed) :
        Checked("logits", args, size, RowMajorAccepts(size, "w", "x", "logits", vocab, dim),
                RowMajorOutputs("w", "x", vocab, dim))
  BY <1>1
<1>3. vocab \in Nat /\ dim \in Nat
  BY SizesAssumption
<1>4. \A b \in {"w", "x", "logits"} : needed[b] \in Int
  BY <1>3, ProductTyped
<1>5. DOMAIN needed = {"w", "x", "logits"}
  OBVIOUS
<1> HIDE DEF needed, args
<1>6. IsSizes(size, {"w", "x", "logits"})
  BY <1>4, <1>5, SizesTyped
<1>7. RowMajorAccepts(size, "w", "x", "logits", vocab, dim) =>
        RowMajorOutputs("w", "x", vocab, dim) \in InnerOutputs(size)
  BY <1>3, <1>6, RowMajorInside DEF IsSizes
<1>8. RowMajorAccepts(size, "w", "x", "logits", vocab, dim) \in BOOLEAN
  BY DEF RowMajorAccepts
<1> QED  BY <1>2, <1>7, <1>8, CheckedInside

\* The calls that have no buffers read nothing.
LEMMA MatmulReads ==
  ASSUME MatmulF32
  PROVE  ReadsInside'
<1>1. PICK plan \in Plans :
        Checked("matmul", plan, [a |-> plan.m * plan.k, b |-> plan.k * plan.n],
                MatmulAccepts(plan), MatmulOutputs(plan))
  BY DEF MatmulF32
<1> DEFINE size == [a |-> plan.m * plan.k, b |-> plan.k * plan.n]
<1>2. plan \in [m : Nat, n : Nat, k : Nat, transpose : BOOLEAN]
  BY PlansAssumption
<1>3. MatmulAccepts(plan) => MatmulOutputs(plan) \in InnerOutputs(size)
  BY <1>2, MatmulInside
<1>4. MatmulAccepts(plan) \in BOOLEAN
  BY DEF MatmulAccepts
<1> HIDE DEF size
<1>5. Checked("matmul", plan, size, MatmulAccepts(plan), MatmulOutputs(plan))
  BY <1>1 DEF size
<1> QED  BY <1>3, <1>4, <1>5, CheckedInside

LEMMA RopeReads ==
  ASSUME RopeInplace
  PROVE  ReadsInside'
<1>1. PICK heads \in Dims, headDim \in Dims :
        \E size \in Sizes([v |-> heads * headDim]) :
          Checked("rope", [headDim |-> headDim], size, RopeAccepts(size, headDim),
                  RopeOutputs(size, headDim))
  BY DEF RopeInplace
<1> DEFINE needed == [v |-> heads * headDim]
           args   == [headDim |-> headDim]
<1>2. PICK size \in Sizes(needed) :
        Checked("rope", args, size, RopeAccepts(size, headDim), RopeOutputs(size, headDim))
  BY <1>1
<1>3. heads \in Nat /\ headDim \in Nat
  BY SizesAssumption
<1>4. \A b \in {"v"} : needed[b] \in Int
  BY <1>3, ProductTyped
<1>5. DOMAIN needed = {"v"}
  OBVIOUS
<1> HIDE DEF needed, args
<1>6. IsSizes(size, {"v"})
  BY <1>4, <1>5, SizesTyped
<1>7. RopeAccepts(size, headDim) => RopeOutputs(size, headDim) \in InnerOutputs(size)
  BY <1>3, <1>6, RopeInside
<1>8. RopeAccepts(size, headDim) \in BOOLEAN
  BY DEF RopeAccepts
<1> QED  BY <1>2, <1>7, <1>8, CheckedInside

LEMMA SampleOp ==
  ASSUME Sample
  PROVE  call'.op = "sample"
<1>1. ASSUME NEW logits, NEW topK, NEW topP, NEW temperature, NEW ids, NEW probs, NEW token,
             Sampled(logits, topK, topP, temperature, ids, probs, token)
      PROVE  call'.op = "sample"
  BY <1>1 DEF Sampled
<1>2. PICK logits \in LogitLists, topK \in TopKs, topP \in TopPs, temperature \in Temperatures :
        \/ Sampled(logits, topK, topP, temperature, <<>>, <<>>, 0)
        \/ Sampled(logits, topK, topP, temperature, <<>>, <<>>, Greedy(logits))
        \/ \E ids, probs, final, u :
             Sampled(logits, topK, topP, temperature, SubSeq(ids, 1, Len(final)),
                     final, ids[Drawn(final, u)])
  BY ZenonT(60) DEF Sample
<1> QED  BY <1>1, <1>2

LEMMA OthersRead ==
  ASSUME Describe \/ Convert \/ QuantizeQ4 \/ Sample \/ Return
  PROVE  ReadsInside'
<1>1. CASE Describe
  BY <1>1 DEF Describe, ReadsInside, HasReads
<1>2. CASE Convert
  BY <1>2 DEF Convert, ReadsInside, HasReads
<1>3. CASE QuantizeQ4
  BY <1>3 DEF QuantizeQ4, ReadsInside, HasReads
<1>4. CASE Sample
  <2>1. ASSUME NEW logits, NEW topK, NEW topP, NEW temperature, NEW ids, NEW probs, NEW token,
               Sampled(logits, topK, topP, temperature, ids, probs, token)
        PROVE  ReadsInside'
    BY <2>1 DEF Sampled, ReadsInside, HasReads
  <2>2. PICK logits \in LogitLists, topK \in TopKs, topP \in TopPs, temperature \in Temperatures :
          \/ Sampled(logits, topK, topP, temperature, <<>>, <<>>, 0)
          \/ Sampled(logits, topK, topP, temperature, <<>>, <<>>, Greedy(logits))
          \/ \E ids, probs, final, u :
               Sampled(logits, topK, topP, temperature, SubSeq(ids, 1, Len(final)),
                       final, ids[Drawn(final, u)])
    BY <1>4, ZenonT(60) DEF Sample
  <2> QED  BY <2>1, <2>2
<1>5. CASE Return
  BY <1>5 DEF Return, Idle, ReadsInside, HasReads
<1> QED  BY <1>1, <1>2, <1>3, <1>4, <1>5

-----------------------------------------------------------------------------

\* For every size of matrices, heads, pasts, channels and buffers, no call of a
\* kernel (src/quant.cpp, src/ops.cpp) reads outside a buffer it was given, also
\* when it throws halfway, but the two that Unchecked names, and these do.
THEOREM KernelsReadInside == Spec => []ReadsInside
<1>1. Init => ReadsInside
  BY DEF Init, Idle, ReadsInside, HasReads
<1>2. ReadsInside /\ [Next]_vars => ReadsInside'
  <2> SUFFICES ASSUME ReadsInside, [Next]_vars
               PROVE  ReadsInside'
    OBVIOUS
  <2>1. CASE MatvecGguf
    BY <2>1, MatvecGgufReads
  <2>2. CASE MatvecQ4
    BY <2>2, MatvecQ4Reads
  <2>3. CASE RmsNorm
    BY <2>3, RmsNormReads
  <2>4. CASE CausalAttention
    BY <2>4, AttentionReads
  <2>5. CASE ShortConvolution
    BY <2>5, ShortConvReads
  <2>6. CASE SwigluMlp
    BY <2>6, SwigluReads
  <2>7. CASE LogitsProjection
    BY <2>7, LogitsReads
  <2>8. CASE Describe \/ Convert \/ QuantizeQ4 \/ Sample \/ Return
    BY <2>8, OthersRead
  <2>9. CASE MatmulF32
    BY <2>9, MatmulReads
  <2>10. CASE RopeInplace
    BY <2>10, RopeReads
  <2>11. CASE UNCHANGED vars
    BY <2>11 DEF vars, ReadsInside, HasReads, Unchecked, AllReads, InItsBuffer
  <2> QED  BY <2>1, <2>2, <2>3, <2>4, <2>5, <2>6, <2>7, <2>8, <2>9, <2>10, <2>11
           DEF Next
<1> QED  BY <1>1, <1>2, PTL DEF Spec

-----------------------------------------------------------------------------
(* A tensor, element by element. *)

Elements(dtype) == TensorBlock[dtype].elements
Bytes(dtype)    == TensorBlock[dtype].bytes
RowBlocks(dtype, cols) == (cols + Elements(dtype) - 1) \div Elements(dtype)

\* The kernels take the sizes of the file format.
LEMMA KernelSizes ==
  ASSUME NEW dtype \in Dispatched, NEW cols \in Nat
  PROVE  /\ Elements(dtype) \in {1, 32} /\ Bytes(dtype) \in Nat \ {0}
         /\ Elements(dtype) = 1 <=> dtype \notin Quantized
         /\ RowBlocks(dtype, cols) \in Nat
         /\ RowBytes(dtype, cols) = RowBlocks(dtype, cols) * Bytes(dtype)
<1> USE DEF Elements, Bytes, RowBlocks, RowBytes, TensorBlock, Single, By32, Blocks, BlockBytes,
            Quantized
<1>1. CASE dtype = "f32"
  BY <1>1
<1>2. CASE dtype = "f16"
  BY <1>2
<1>3. CASE dtype = "q4_0"
  BY <1>3
<1>4. CASE dtype = "q4_1"
  BY <1>4
<1>5. CASE dtype = "q8_0"
  BY <1>5
<1> QED  BY <1>1, <1>2, <1>3, <1>4, <1>5 DEF Dispatched

\* A tensor of whole blocks per row, or of one row at most.
IsShape(dtype, rows, cols) ==
  /\ rows \in Nat /\ cols \in Nat \ {0}
  /\ cols % Elements(dtype) = 0 \/ rows <= 1

\* It is as long as its rows.
LEMMA TensorRows ==
  ASSUME NEW dtype \in Dispatched, NEW rows, NEW cols, IsShape(dtype, rows, cols)
  PROVE  TensorBytes(dtype, rows * cols) = rows * RowBytes(dtype, cols)
<1> DEFINE el == Elements(dtype)
           b  == Bytes(dtype)
           n  == RowBlocks(dtype, cols)
           N  == rows * cols
<1>1. rows \in Nat /\ cols \in Nat \ {0} /\ (cols % el = 0 \/ rows <= 1) /\ N \in Nat
  BY DEF IsShape
<1>2. el \in {1, 32} /\ b \in Nat /\ n \in Nat /\ RowBytes(dtype, cols) = n * b
  BY <1>1, KernelSizes
<1>3. TensorBytes(dtype, N) = ((N + el - 1) \div el) * b
  BY DEF TensorBytes, Elements, Bytes
<1>4. n = (cols + el - 1) \div el
  BY DEF RowBlocks
<1> HIDE DEF el, b, n
<1>5. (N + el - 1) \div el = rows * n
  <2>1. CASE el = 1
    <3>1. n = cols
      BY <1>1, <1>4, <2>1
    <3> HIDE DEF N
    <3>2. (N + el - 1) \div el = N
      BY <1>1, <2>1
    <3> QED  BY <3>1, <3>2 DEF N
  <2>2. CASE el = 32 /\ rows <= 1
    <3>1. rows = 0 \/ rows = 1
      BY <1>1, <2>2
    <3>2. CASE rows = 0
      <4>1. N = 0 /\ rows * n = 0
        BY <1>1, <1>2, <3>2
      <4> HIDE DEF N
      <4> QED  BY <2>2, <4>1
    <3>3. CASE rows = 1
      BY <1>1, <1>4, <2>2, <3>3
    <3> QED  BY <3>1, <3>2, <3>3
  <2>3. CASE el = 32 /\ cols % el = 0
    <3>1. cols = 32 * n
      BY <1>1, <1>4, <2>3
    <3>2. N = 32 * (rows * n)
      BY <1>1, <1>2, <3>1
    <3> DEFINE k == rows * n
    <3>3. k \in Nat /\ N = 32 * k
      BY <1>1, <1>2, <3>2
    <3> HIDE DEF N, k
    <3>4. (N + el - 1) \div el = k
      BY <2>3, <3>3
    <3> QED  BY <3>4 DEF k
  <2> QED  BY <1>1, <1>2, <2>1, <2>2, <2>3
<1>6. (rows * n) * b = rows * (n * b)
  BY <1>1, <1>2
<1> QED  BY <1>2, <1>3, <1>5, <1>6

\* Element r * cols + c is in block c \div el of row r.
InRow(dtype, cols, r, c, e) ==
  LET el == Elements(dtype)
  IN  /\ e \in Nat
      /\ e \div el = r * RowBlocks(dtype, cols) + c \div el
      /\ e % el = c % el

LEMMA ElementPlace ==
  ASSUME NEW dtype \in Dispatched, NEW rows, NEW cols, IsShape(dtype, rows, cols),
         NEW r \in 0 .. rows - 1, NEW c \in 0 .. cols - 1
  PROVE  InRow(dtype, cols, r, c, r * cols + c)
<1> DEFINE el == Elements(dtype)
           n  == RowBlocks(dtype, cols)
           e  == r * cols + c
<1>1. rows \in Nat /\ cols \in Nat \ {0} /\ (cols % el = 0 \/ rows <= 1)
  BY DEF IsShape
<1>2. el \in {1, 32} /\ n \in Nat
  BY <1>1, KernelSizes
<1>3. n = (cols + el - 1) \div el
  BY DEF RowBlocks
<1>4. e \in Nat
  BY <1>1, IndexFits
<1> HIDE DEF el, n
<1>5. e \div el = r * n + c \div el /\ e % el = c % el
  <2>1. CASE el = 1
    <3>1. n = cols /\ c \div el = c /\ c % el = 0
      BY <1>1, <1>3, <2>1
    <3> HIDE DEF e
    <3>2. e \div el = e /\ e % el = 0
      BY <1>4, <2>1
    <3> QED  BY <3>1, <3>2 DEF e
  <2>2. CASE el = 32 /\ rows <= 1
    <3>1. r = 0
      BY <1>1, <2>2
    <3>2. r * cols = 0 /\ r * n = 0
      BY <1>1, <1>2, <3>1
    <3>3. c \div el \in Int
      BY <2>2
    <3> QED  BY <3>2, <3>3
  <2>3. CASE el = 32 /\ cols % el = 0
    <3>1. cols = 32 * n
      BY <1>1, <1>3, <2>3
    <3>2. r * cols = 32 * (r * n)
      BY <1>1, <1>2, <3>1
    <3> DEFINE k == r * n
    <3>3. k \in Nat /\ e = 32 * k + c
      BY <1>1, <1>2, <3>2
    <3> HIDE DEF e, k
    <3>4. e \div el = k + c \div el /\ e % el = c % el
      BY <2>3, <3>3
    <3> QED  BY <3>4 DEF k
  <2> QED  BY <1>1, <1>2, <2>1, <2>2, <2>3
<1> QED  BY <1>4, <1>5 DEF InRow, el, n

\* The reads of element e of a tensor, by where its file keeps it.
ReadsOf(dtype, e) ==
  LET start == (e \div Elements(dtype)) * Bytes(dtype)
  IN  IF dtype \notin Quantized THEN << <<"rows", start, Bytes(dtype), "whole">> >>
      ELSE << <<"rows", start, Header[dtype], "whole">>, WeightRead(dtype, start, e % 32) >>

\* They are those of the kernels.
LEMMA WeightReadsOf ==
  ASSUME NEW dtype \in Dispatched, NEW rows, NEW cols, IsShape(dtype, rows, cols),
         NEW r \in 0 .. rows - 1, NEW c \in 0 .. cols - 1
  PROVE  WeightReads(dtype, cols, r, c) = ReadsOf(dtype, r * cols + c)
<1> DEFINE el == Elements(dtype)
           b  == Bytes(dtype)
           n  == RowBlocks(dtype, cols)
           e  == r * cols + c
           k  == c \div el
<1>1. rows \in Nat /\ cols \in Nat \ {0}
  BY DEF IsShape
<1>2. /\ el \in {1, 32} /\ b \in Nat /\ n \in Nat /\ RowBytes(dtype, cols) = n * b
      /\ el = 1 <=> dtype \notin Quantized
  BY <1>1, KernelSizes
<1>3. e \in Nat /\ e \div el = r * n + k /\ e % el = c % el
  BY ElementPlace DEF InRow
<1>4. k \in Nat
  BY <1>2
<1> HIDE DEF el, n, k
<1>5. (r * n + k) * b = r * (n * b) + k * b
  <2> HIDE DEF b
  <2> QED  BY <1>2, <1>4
<1>6. CASE dtype \in Quantized
  <2>1. el = 32 /\ dtype # "f32" /\ dtype # "f16" /\ b = BlockBytes[dtype]
    BY <1>2, <1>6 DEF Quantized, Bytes, TensorBlock, BlockBytes, By32
  <2> HIDE DEF e, b
  <2>2. (e \div el) * b = r * RowBytes(dtype, cols) + (c \div 32) * b
    BY <1>2, <1>3, <1>5, <2>1 DEF k
  <2>3. e % 32 = c % 32
    BY <1>3, <2>1
  <2> QED  BY <1>6, <2>1, <2>2, <2>3 DEF WeightReads, ReadsOf, el, b, e
<1>7. CASE dtype \notin Quantized
  <2>1. el = 1 /\ k = c /\ n = cols /\ e \div el = e
    <3> HIDE DEF e
    <3>1. el = 1
      BY <1>2, <1>7
    <3> QED  BY <1>1, <1>3, <3>1 DEF k, n, el, RowBlocks
  <2>2. CASE dtype = "f32"
    <3>1. b = 4
      BY <2>2 DEF Bytes, TensorBlock, Single
    <3> HIDE DEF b
    <3> QED  BY <1>7, <2>1, <2>2, <3>1 DEF WeightReads, ReadsOf, el, b
  <2>3. CASE dtype = "f16"
    <3>1. b = 2
      BY <2>3 DEF Bytes, TensorBlock, Single
    <3> HIDE DEF b
    <3>2. e * 2 = r * RowBytes(dtype, cols) + c * 2
      BY <1>2, <1>5, <2>1, <3>1
    <3> HIDE DEF e
    <3> QED  BY <1>7, <2>1, <2>3, <3>1, <3>2 DEF WeightReads, ReadsOf, el, b, e
  <2> QED  BY <1>7, <2>2, <2>3 DEF Dispatched
<1> QED  BY <1>6, <1>7

LEMMA ReadsOfItsBlock ==
  ASSUME NEW dtype \in Dispatched, NEW e \in Nat
  PROVE  OfItsBlock(dtype, e, ReadsOf(dtype, e))
<1> DEFINE el == Elements(dtype)
           b  == Bytes(dtype)
           k  == e \div el
<1>1. el \in {1, 32} /\ b \in Nat \ {0} /\ (el = 1 <=> dtype \notin Quantized)
  BY KernelSizes
<1>2. k \in Nat
  BY <1>1
<1>3. CASE dtype \notin Quantized
  BY <1>1, <1>3 DEF OfItsBlock, ReadsOf, Elements, Bytes
<1>4. CASE dtype \in Quantized
  <2> DEFINE start  == k * b
             header == b - IF dtype = "q8_0" THEN 32 ELSE 16
             i      == e % 32
             reads  == ReadsOf(dtype, e)
  <2>1. /\ header = Header[dtype] /\ header \in Nat /\ b \in Nat
        /\ b = header + IF dtype = "q8_0" THEN 32 ELSE 16
    BY <1>4 DEF Quantized, Bytes, TensorBlock, Header, By32
  <2>2. start \in Nat /\ i \in 0 .. 31
    BY <1>2, <2>1
  <2>3. reads[1] = <<"rows", start, header, "whole">> /\ reads[2] = WeightRead(dtype, start, i)
    BY <1>4, <2>1 DEF ReadsOf
  <2> HIDE DEF start, header, i, reads, b
  <2>4. reads[2][2] \in start + header .. start + b - 1
    <3>1. CASE dtype = "q8_0"
      BY <2>1, <2>2, <2>3, <3>1 DEF WeightRead
    <3>2. CASE dtype # "q8_0"
      BY <2>1, <2>2, <2>3, <3>2 DEF WeightRead
    <3> QED  BY <3>1, <3>2
  <2> QED  BY <1>1, <1>4, <2>3, <2>4 DEF OfItsBlock, Elements, Bytes, start, header, reads, b
<1> QED  BY <1>3, <1>4

\* No two elements are read from the same place.
LEMMA ReadsDistinct ==
  ASSUME NEW dtype \in Dispatched, NEW e \in Nat, NEW f \in Nat,
         ReadsOf(dtype, e) = ReadsOf(dtype, f)
  PROVE  e = f
<1> DEFINE el == Elements(dtype)
           b  == Bytes(dtype)
           k  == e \div el
           l  == f \div el
<1>1. el \in {1, 32} /\ b \in Nat \ {0} /\ (el = 1 <=> dtype \notin Quantized)
  BY KernelSizes
<1>2. k \in Nat /\ l \in Nat
  BY <1>1
<1>3. k * b = l * b
  BY DEF ReadsOf
<1>4. k = l
  <2> HIDE DEF b, k, l
  <2>1. ASSUME NEW x \in Nat, NEW y \in Nat, x >= y + 1
        PROVE  x * b # y * b
    <3>1. x * b >= (y + 1) * b /\ x * b \in Int
      BY <1>1, <2>1, TimesOrdered
    <3>2. (y + 1) * b = y * b + b /\ y * b \in Int
      BY <1>1
    <3> QED  BY <1>1, <3>1, <3>2
  <2>2. ~(k >= l + 1) /\ ~(l >= k + 1)
    BY <1>2, <1>3, <2>1
  <2> QED  BY <1>2, <2>2
<1>5. CASE dtype \notin Quantized
  BY <1>1, <1>4, <1>5
<1>6. CASE dtype \in Quantized
  <2> DEFINE start == k * b
             i == e % 32
             j == f % 32
  <2>1. el = 32 /\ i \in 0 .. 31 /\ j \in 0 .. 31
    BY <1>1, <1>6
  <2>2. start + Header[dtype] \in Nat
    BY <1>1, <1>2, <1>6 DEF Quantized, Header
  <2>3. WeightRead(dtype, start, i) = WeightRead(dtype, start, j)
    BY <1>3, <1>6 DEF ReadsOf
  <2> DEFINE s == start + Header[dtype]
  <2> HIDE DEF i, j
  <2>4. i = j
    <3>1. CASE dtype = "q8_0"
      <4>1. s + i = s + j
        BY <2>3, <3>1 DEF WeightRead
      <4> HIDE DEF s
      <4> QED  BY <2>1, <2>2, <4>1 DEF s
    <3>2. CASE dtype # "q8_0"
      <4>1. /\ s + i \div 2 = s + j \div 2
            /\ (IF i % 2 = 0 THEN "low" ELSE "high") = IF j % 2 = 0 THEN "low" ELSE "high"
        BY <2>3, <3>2 DEF WeightRead
      <4>2. s \in Nat
        BY <2>2
      <4> HIDE DEF s
      <4>3. i \div 2 = j \div 2
        BY <2>1, <4>1, <4>2
      <4>4. i % 2 = 0 <=> j % 2 = 0
        BY <4>1
      <4> QED  BY <2>1, <4>3, <4>4
    <3> QED  BY <3>1, <3>2
  <2> QED  BY <1>4, <2>1, <2>4 DEF i, j
<1> QED  BY <1>5, <1>6

LEMMA ReadsTyped ==
  ASSUME NEW dtype, NEW e
  PROVE  \E S : ReadsOf(dtype, e) \in Seq(S)
<1> DEFINE start == (e \div Elements(dtype)) * Bytes(dtype)
           u == <<"rows", start, Bytes(dtype), "whole">>
           v == <<"rows", start, Header[dtype], "whole">>
           w == WeightRead(dtype, start, e % 32)
<1>1. ReadsOf(dtype, e) = IF dtype \notin Quantized THEN <<u>> ELSE <<v, w>>
  BY DEF ReadsOf
<1> HIDE DEF u, v, w
<1>2. <<u>> \in Seq({u, v, w}) /\ <<v, w>> \in Seq({u, v, w})
  OBVIOUS
<1>3. ReadsOf(dtype, e) \in Seq({u, v, w})
  BY <1>1, <1>2
<1> QED  BY <1>3

\* A sequence without its last element.
LEMMA LastTaken ==
  ASSUME NEW S, NEW s \in Seq(S), NEW x
  PROVE  SubSeq(s \o <<x>>, 1, Len(s \o <<x>>) - 1) = s /\ Last(s \o <<x>>) = x
<1> DEFINE t == s \o <<x>>
           T == S \cup {x}
           u == SubSeq(t, 1, Len(t) - 1)
<1>1. s \in Seq(T) /\ <<x>> \in Seq(T)
  OBVIOUS
<1>2. /\ t \in Seq(T) /\ Len(t) = Len(s) + 1 /\ Len(s) \in Nat
      /\ \A i \in 1 .. Len(s) : t[i] = s[i]
      /\ t[Len(s) + 1] = x
  BY <1>1
<1> HIDE DEF t, T
<1>3. u = [i \in 1 .. Len(s) |-> t[i]]
  BY <1>2
<1>4. s = [i \in 1 .. Len(s) |-> s[i]]
  OBVIOUS
<1>5. u = s
  BY <1>2, <1>3, <1>4
<1>6. Last(t) = x
  BY <1>2 DEF Last
<1> QED  BY <1>5, <1>6 DEF t

\* As many places are read as the tensor has elements.
LEMMA PlacesCounted ==
  ASSUME NEW dtype \in Dispatched, NEW N \in Nat
  PROVE  Cardinality({ReadsOf(dtype, e) : e \in 0 .. N - 1}) = N
<1> DEFINE S == 0 .. N - 1
           T == {ReadsOf(dtype, e) : e \in S}
           f == [e \in S |-> ReadsOf(dtype, e)]
<1>1. IsFiniteSet(S) /\ Cardinality(S) = N
  BY FS_Interval
<1>2. f \in [S -> T]
  OBVIOUS
<1>3. \A a, b \in S : f[a] = f[b] => a = b
  BY ReadsDistinct
<1>4. \A t \in T : \E s \in S : f[s] = t
  OBVIOUS
<1>5. f \in Bijection(S, T)
  <2> HIDE DEF f, S, T
  <2>1. f \in Injection(S, T)
    BY <1>2, <1>3 DEF Injection, IsInjective
  <2>2. f \in Surjection(S, T)
    BY <1>2, <1>4 DEF Surjection
  <2> QED  BY <2>1, <2>2 DEF Bijection
<1> HIDE DEF f, S, T
<1>6. ExistsBijection(S, T)
  BY <1>5 DEF ExistsBijection
<1> QED  BY <1>1, <1>6, FS_Bijection DEF S, T

\* What TensorProduct says of the outputs.
ReadByElement(dtype, rows, cols, outputs) ==
  LET terms == (1 .. rows) \X (1 .. cols)
      reads(t) == SubSeq(outputs[t[1]][t[2]], 1, Len(outputs[t[1]][t[2]]) - 1)
  IN  /\ DOMAIN outputs = 1 .. rows
      /\ \A y \in 1 .. rows : DOMAIN outputs[y] = 1 .. cols
      /\ \A t \in terms : /\ OfItsBlock(dtype, (t[1] - 1) * cols + t[2] - 1, reads(t))
                          /\ Last(outputs[t[1]][t[2]]) = At("x", t[2] - 1)
      /\ Cardinality({reads(t) : t \in terms}) = rows * cols

\* The second row begins with a new block; with a rest of a row before it, its
\* file keeps its first element in the block of that rest.
LEMMA SecondRowMisread ==
  ASSUME NEW dtype \in Dispatched, NEW cols \in Nat, cols % Elements(dtype) # 0,
         NEW size, size["y"] \in Nat, size["y"] >= 2,
         NEW outputs, outputs = MatvecOutputs(dtype, size, cols)
  PROVE  ~OfItsBlock(dtype, cols, SubSeq(outputs[2][1], 1, Len(outputs[2][1]) - 1))
<1> DEFINE B == BlockBytes[dtype]
           q == cols \div 32
<1>1. dtype \in Quantized /\ Elements(dtype) = 32
  <2>1. Elements(dtype) = 1 => cols % Elements(dtype) = 0
    OBVIOUS
  <2> QED  BY <2>1, KernelSizes
<1>2. TensorBlock[dtype].bytes = B /\ B \in Nat \ {0} /\ TensorBlock[dtype].elements = 32
  BY <1>1 DEF Quantized, TensorBlock, By32, BlockBytes
<1>3. q \in Nat /\ Blocks(cols) = q + 1 /\ cols # 0
  BY <1>1 DEF Blocks
<1>4. RowBytes(dtype, cols) = Blocks(cols) * B
  BY <1>1 DEF RowBytes, Quantized
<1> DEFINE start == 1 * RowBytes(dtype, cols) + (0 \div 32) * B
<1>5. start = q * B + B /\ q * B \in Nat
  <2> HIDE DEF B, q
  <2>1. (q + 1) * B = q * B + B /\ q * B \in Nat
    BY <1>2, <1>3
  <2>2. start = 1 * ((q + 1) * B) + (0 \div 32) * B
    BY <1>3, <1>4
  <2> QED  BY <1>2, <2>1, <2>2
<1>6. 2 \in 1 .. size["y"] /\ 1 \in 1 .. cols
  BY <1>3
<1>7. outputs[2][1] = WeightReads(dtype, cols, 2 - 1, 1 - 1) \o <<At("x", 1 - 1)>>
  BY <1>6 DEF MatvecOutputs
<1>8. WeightReads(dtype, cols, 1, 0)
        = << <<"rows", start, Header[dtype], "whole">>, WeightRead(dtype, start, 0 % 32) >>
  BY <1>1 DEF WeightReads, Quantized
<1> DEFINE a == <<"rows", start, Header[dtype], "whole">>
           w == WeightRead(dtype, start, 0 % 32)
           reads == SubSeq(outputs[2][1], 1, Len(outputs[2][1]) - 1)
<1>9. a[2] = start
  OBVIOUS
<1> HIDE DEF a, w
<1>10. outputs[2][1] = <<a, w, At("x", 0)>>
  <2>1. 2 - 1 = 1 /\ 1 - 1 = 0
    OBVIOUS
  <2>2. outputs[2][1] = <<a, w>> \o <<At("x", 0)>>
    BY <1>7, <1>8, <2>1 DEF a, w
  <2> QED  BY <2>2, Joined
<1>11. reads[1] = a
  BY <1>10
<1>12. OfItsBlock(dtype, cols, reads) => reads[1][2] = q * B
  <2> HIDE DEF reads
  <2> QED  BY <1>2 DEF OfItsBlock
<1> HIDE DEF reads
<1>13. start # q * B
  <2> DEFINE k == q * B
  <2>1. k \in Nat /\ start = k + B
    BY <1>5
  <2> HIDE DEF k, B, start
  <2> QED  BY <1>2, <2>1 DEF k
<1> QED  BY <1>9, <1>11, <1>12, <1>13 DEF reads

\* A tensor as the loader sizes it is accepted, and read element by element.
LEMMA TensorRead ==
  ASSUME NEW dtype \in Dispatched, NEW rows, NEW cols, IsShape(dtype, rows, cols),
         NEW size, size = [rows |-> TensorBytes(dtype, rows * cols), x |-> cols, y |-> rows],
         NEW outputs, outputs = MatvecOutputs(dtype, size, cols)
  PROVE  MatvecAccepts(dtype, size, cols) /\ ReadByElement(dtype, rows, cols, outputs)
<1> DEFINE N == rows * cols
           terms == (1 .. rows) \X (1 .. cols)
           place(t) == (t[1] - 1) * cols + (t[2] - 1)
           reads(t) == SubSeq(outputs[t[1]][t[2]], 1, Len(outputs[t[1]][t[2]]) - 1)
<1>1. rows \in Nat /\ cols \in Nat \ {0} /\ N \in Nat
  BY DEF IsShape
<1>2. size["x"] = cols /\ size["y"] = rows /\ size["rows"] = TensorBytes(dtype, N)
  OBVIOUS
<1>3. size["rows"] = rows * RowBytes(dtype, cols)
  BY <1>2, TensorRows
<1>4. rows * RowBytes(dtype, cols) \in Int
  <2>1. RowBlocks(dtype, cols) * Bytes(dtype) \in Int
    <3> DEFINE a == RowBlocks(dtype, cols)
               b == Bytes(dtype)
    <3>1. a \in Int /\ b \in Int
      BY <1>1, KernelSizes
    <3> HIDE DEF a, b
    <3> QED  BY <3>1 DEF a, b
  <2> DEFINE w == RowBytes(dtype, cols)
  <2>2. w \in Int
    BY <1>1, <2>1, KernelSizes
  <2> HIDE DEF w
  <2> QED  BY <1>1, <2>2 DEF w
<1>5. MatvecAccepts(dtype, size, cols)
  BY <1>1, <1>2, <1>3, <1>4 DEF MatvecAccepts
<1>6. /\ DOMAIN outputs = 1 .. rows
      /\ \A y \in 1 .. rows : DOMAIN outputs[y] = 1 .. cols
      /\ \A y \in 1 .. rows, p \in 1 .. cols :
           outputs[y][p] = WeightReads(dtype, cols, y - 1, p - 1) \o <<At("x", p - 1)>>
  BY <1>2 DEF MatvecOutputs
<1> HIDE DEF N, terms
<1>7. ASSUME NEW y \in 1 .. rows, NEW p \in 1 .. cols
      PROVE  /\ (y - 1) * cols + (p - 1) \in 0 .. N - 1
             /\ SubSeq(outputs[y][p], 1, Len(outputs[y][p]) - 1)
                  = ReadsOf(dtype, (y - 1) * cols + (p - 1))
             /\ Last(outputs[y][p]) = At("x", p - 1)
  <2> DEFINE e == (y - 1) * cols + (p - 1)
  <2>1. y - 1 \in 0 .. rows - 1 /\ p - 1 \in 0 .. cols - 1
    BY <1>1
  <2>2. e \in Nat /\ e < N
    BY <1>1, <2>1, IndexFits DEF N
  <2>3. WeightReads(dtype, cols, y - 1, p - 1) = ReadsOf(dtype, e)
    BY <2>1, WeightReadsOf
  <2> HIDE DEF e
  <2>4. outputs[y][p] = ReadsOf(dtype, e) \o <<At("x", p - 1)>>
    BY <1>6, <2>3
  <2>5. PICK S : ReadsOf(dtype, e) \in Seq(S)
    BY ReadsTyped
  <2>6. /\ SubSeq(outputs[y][p], 1, Len(outputs[y][p]) - 1) = ReadsOf(dtype, e)
        /\ Last(outputs[y][p]) = At("x", p - 1)
    BY <2>4, <2>5, LastTaken
  <2>7. e \in 0 .. N - 1
    BY <1>1, <2>2
  <2> QED  BY <2>6, <2>7 DEF e
<1>8. ASSUME NEW t \in terms
      PROVE  /\ place(t) \in 0 .. N - 1 /\ reads(t) = ReadsOf(dtype, place(t))
             /\ Last(outputs[t[1]][t[2]]) = At("x", t[2] - 1)
             /\ (t[1] - 1) * cols + t[2] - 1 = place(t)
  <2>1. t[1] \in 1 .. rows /\ t[2] \in 1 .. cols
    BY DEF terms
  <2>2. (t[1] - 1) * cols \in Int
    BY <1>1, <2>1
  <2>3. (t[1] - 1) * cols + t[2] - 1 = place(t)
    BY <2>1, <2>2
  <2> QED  BY <1>7, <2>1, <2>3
<1> HIDE DEF reads, place
<1>9. ASSUME NEW e \in 0 .. N - 1
      PROVE  \E t \in terms : place(t) = e
  <2> DEFINE r == ((e + 1) - 1) \div cols
             c == ((e + 1) - 1) % cols
  <2>1. e + 1 \in 1 .. N /\ rows # 0
    BY <1>1 DEF N
  <2>2. Splits((e + 1) - 1, cols, r, c) /\ r \in 0 .. rows - 1 /\ c \in 0 .. cols - 1
    BY <1>1, <2>1, CellInside DEF N
  <2> HIDE DEF r, c
  <2>3. e = r * cols + c
    BY <1>1, <2>2 DEF Splits
  <2> DEFINE t == <<r + 1, c + 1>>
  <2>4. t \in terms /\ t[1] - 1 = r /\ t[2] - 1 = c
    BY <1>1, <2>2 DEF terms
  <2> HIDE DEF t
  <2>5. place(t) = e
    BY <2>3, <2>4 DEF place
  <2> QED  BY <2>4, <2>5
<1>10. {reads(t) : t \in terms} = {ReadsOf(dtype, e) : e \in 0 .. N - 1}
  BY <1>8, <1>9
<1>11. Cardinality({reads(t) : t \in terms}) = N
  BY <1>1, <1>10, PlacesCounted
<1>12. ASSUME NEW t \in terms
       PROVE  /\ OfItsBlock(dtype, (t[1] - 1) * cols + t[2] - 1, reads(t))
              /\ Last(outputs[t[1]][t[2]]) = At("x", t[2] - 1)
  <2>1. place(t) \in Nat
    BY <1>1, <1>8
  <2> QED  BY <1>8, <2>1, ReadsOfItsBlock
<1> QED  BY <1>5, <1>6, <1>11, <1>12 DEF ReadByElement, N, terms, reads

-----------------------------------------------------------------------------
(* The products. *)

LEMMA MatvecProduct ==
  ASSUME MatvecGguf
  PROVE  ProductsExact'
<1>1. PICK dtype \in Dispatched, cols \in Cols, rows \in Rows :
        \E size \in Sizes([rows |-> TensorBytes(dtype, rows * cols), x |-> cols, y |-> rows]) :
          Checked("matvec", [dtype |-> dtype, cols |-> cols, rows |-> rows], size,
                  MatvecAccepts(dtype, size, cols), MatvecOutputs(dtype, size, cols))
  BY DEF MatvecGguf
<1>2. PICK size :
        Checked("matvec", [dtype |-> dtype, cols |-> cols, rows |-> rows], size,
                MatvecAccepts(dtype, size, cols), MatvecOutputs(dtype, size, cols))
  BY <1>1
<1> DEFINE outputs == MatvecOutputs(dtype, size, cols)
<1>3. /\ call'.op = "matvec" /\ call'.size = size
      /\ call'.args.dtype = dtype /\ call'.args.cols = cols /\ call'.args.rows = rows
  BY <1>2 DEF Checked, Kernel
<1>4. MatvecAccepts(dtype, size, cols) => call'.verdict = "done" /\ call'.outputs = outputs
  BY <1>2 DEF Checked, Kernel
<1>5. cols \in Nat /\ rows \in Nat
  BY SizesAssumption
<1>6. ASSUME IsTensor', WholeRows'
      PROVE  TensorProduct'
  <2>1. IsShape(dtype, rows, cols)
    <3>1. cols # 0 /\ (cols % TensorBlock[dtype].elements = 0 \/ rows <= 1)
      BY <1>3, <1>6 DEF IsTensor, WholeRows
    <3> QED  BY <1>5, <3>1 DEF IsShape, Elements
  <2>2. size = [rows |-> TensorBytes(dtype, rows * cols), x |-> cols, y |-> rows]
    BY <1>3, <1>6 DEF IsTensor
  <2>3. MatvecAccepts(dtype, size, cols) /\ ReadByElement(dtype, rows, cols, outputs)
    BY <2>1, <2>2, TensorRead
  <2> HIDE DEF outputs
  <2>4. /\ call'.verdict = "done"
        /\ ReadByElement(call'.args.dtype, call'.args.rows, call'.args.cols, call'.outputs)
    BY <1>3, <1>4, <2>3
  <2> QED  BY <2>4 DEF TensorProduct, ReadByElement
<1>7. ASSUME IsTensor', TensorProduct', ~WholeRows'
      PROVE  FALSE
  <2>1. cols # 0 /\ cols % Elements(dtype) # 0 /\ ~(rows <= 1)
    BY <1>3, <1>7 DEF IsTensor, WholeRows, Elements
  <2>2. size["y"] = rows
    BY <1>3, <1>7 DEF IsTensor
  <2>3. MatvecAccepts(dtype, size, cols)
    BY <1>2, <1>7 DEF TensorProduct, Checked, Kernel
  <2>4. call'.verdict = "done" /\ call'.outputs = outputs
    BY <1>4, <2>3
  <2>5. ReadByElement(dtype, rows, cols, call'.outputs)
    BY <1>3, <1>7 DEF TensorProduct, ReadByElement
  <2> HIDE DEF outputs
  <2>6. ReadByElement(dtype, rows, cols, outputs)
    BY <2>4, <2>5
  <2> DEFINE t == <<2, 1>>
  <2>7. t \in (1 .. rows) \X (1 .. cols) /\ t[1] = 2 /\ t[2] = 1
    BY <1>5, <2>1
  <2> HIDE DEF t
  <2>8. OfItsBlock(dtype, (t[1] - 1) * cols + t[2] - 1,
                   SubSeq(outputs[t[1]][t[2]], 1, Len(outputs[t[1]][t[2]]) - 1))
    BY <2>6, <2>7 DEF ReadByElement
  <2>9. (2 - 1) * cols + 1 - 1 = cols /\ rows >= 2
    BY <1>5, <2>1
  <2>10. OfItsBlock(dtype, cols, SubSeq(outputs[2][1], 1, Len(outputs[2][1]) - 1))
    BY <2>7, <2>8, <2>9
  <2> QED  BY <1>5, <2>1, <2>2, <2>9, <2>10, SecondRowMisread DEF outputs
<1>8. TensorProduct' \in BOOLEAN /\ WholeRows' \in BOOLEAN
  BY DEF TensorProduct, WholeRows
<1> QED  BY <1>3, <1>6, <1>7, <1>8 DEF ProductsExact

LEMMA MatmulProduct ==
  ASSUME MatmulF32
  PROVE  ProductsExact'
<1>1. PICK plan \in Plans :
        Checked("matmul", plan, [a |-> plan.m * plan.k, b |-> plan.k * plan.n],
                MatmulAccepts(plan), MatmulOutputs(plan))
  BY DEF MatmulF32
<1>2. /\ call'.op = "matmul" /\ call'.args = plan
      /\ call'.verdict = "done" => MatmulAccepts(plan) /\ call'.outputs = MatmulOutputs(plan)
  BY <1>1 DEF Checked, Kernel
<1>3. ASSUME MatmulAccepts(plan), call'.outputs = MatmulOutputs(plan)
      PROVE  TiledProduct'
  <2>1. IsPlan(plan)
    BY <1>3, PlansAssumption DEF MatmulAccepts, IsPlan
  <2> DEFINE tiled(p) == [y \in 1 .. p.m * p.n |-> Dot(p, (y - 1) \div p.n, (y - 1) % p.n)]
  <2>2. MatmulOutputs(plan) = tiled(plan)
    BY <2>1, MatmulDots
  <2> HIDE DEF tiled
  <2>3. call'.outputs = tiled(call'.args)
    BY <1>2, <1>3, <2>2
  <2> QED  BY <2>3 DEF TiledProduct, Dot, tiled
<1> QED  BY <1>2, <1>3 DEF ProductsExact

LEMMA RopeProduct ==
  ASSUME RopeInplace
  PROVE  ProductsExact'
<1>1. PICK heads \in Dims, headDim \in Dims :
        \E size \in Sizes([v |-> heads * headDim]) :
          Checked("rope", [headDim |-> headDim], size, RopeAccepts(size, headDim),
                  RopeOutputs(size, headDim))
  BY DEF RopeInplace
<1> DEFINE needed == [v |-> heads * headDim]
<1>2. PICK size \in Sizes(needed) :
        Checked("rope", [headDim |-> headDim], size, RopeAccepts(size, headDim),
                RopeOutputs(size, headDim))
  BY <1>1
<1>3. heads \in Nat /\ headDim \in Nat
  BY SizesAssumption
<1>4. IsSizes(size, {"v"})
  <2>1. \A b \in {"v"} : needed[b] \in Int
    BY <1>3, ProductTyped
  <2>2. DOMAIN needed = {"v"}
    OBVIOUS
  <2> HIDE DEF needed
  <2> QED  BY <2>1, <2>2, SizesTyped
<1>5. size["v"] \in Nat
  BY <1>4 DEF IsSizes
<1>6. /\ call'.op = "rope" /\ call'.size = size
      /\ call'.verdict = "done" =>
           RopeAccepts(size, headDim) /\ call'.outputs = RopeOutputs(size, headDim)
  BY <1>2 DEF Checked, Kernel
<1>7. ASSUME RopeAccepts(size, headDim), call'.outputs = RopeOutputs(size, headDim)
      PROVE  Rotated'
  <2> DEFINE pairs(n) == [y \in 1 .. n |-> Pair(y)]
  <2>1. RopeOutputs(size, headDim) = pairs(size["v"])
    BY <1>3, <1>5, <1>7, RopePairs
  <2> HIDE DEF pairs
  <2>2. call'.outputs = pairs(call'.size["v"])
    BY <1>6, <1>7, <2>1
  <2> QED  BY <2>2 DEF Rotated, Pair, pairs
<1> QED  BY <1>6, <1>7 DEF ProductsExact

\* The two tables of sizes, and the two lists of types with a kernel.
LEMMA TablesAgree ==
  ASSUME NEW dtype \in DataType
  PROVE  /\ DtypeSize[dtype] = TensorBytes(dtype, TensorBlock[dtype].elements)
         /\ dtype \in LowRam <=> dtype \in Dispatched
<1>1. TensorBlock[dtype].elements \in {1, 32, 256} /\ TensorBlock[dtype].bytes \in Nat
  BY SMT DEF DataType, TensorBlock, Single, By32, By256
<1>2. DtypeSize[dtype] = TensorBlock[dtype].bytes
  BY SMT DEF DataType, TensorBlock, DtypeSize, Single, By32, By256
<1>3. TensorBytes(dtype, TensorBlock[dtype].elements) = TensorBlock[dtype].bytes
  <2> DEFINE el == TensorBlock[dtype].elements
             b  == TensorBlock[dtype].bytes
  <2>1. TensorBytes(dtype, el) = ((el + el - 1) \div el) * b
    BY DEF TensorBytes
  <2>2. el \in {1, 32, 256} /\ b \in Nat
    BY <1>1
  <2> HIDE DEF el, b
  <2>3. (el + el - 1) \div el = 1
    BY <2>2, SMT
  <2>4. 1 * b = b
    BY <2>2
  <2> QED  BY <2>1, <2>3, <2>4 DEF el, b
<1>4. dtype \in LowRam <=> dtype \in Dispatched
  BY DEF LowRam, Dispatched, Quantized
<1> QED  BY <1>2, <1>3, <1>4

LEMMA DescribeExact ==
  ASSUME Describe
  PROVE  ProductsExact'
<1>1. PICK dtype \in DataType :
        call' = [op |-> "describe", dtype |-> dtype, bytes |-> DtypeSize[dtype],
                 lowRam |-> dtype \in LowRam, dispatched |-> dtype \in Dispatched]
  BY DEF Describe
<1> DEFINE low  == dtype \in LowRam
           sent == dtype \in Dispatched
<1>2. low = sent
  BY TablesAgree
<1>3. /\ call'.op = "describe" /\ call'.dtype = dtype /\ call'.bytes = DtypeSize[dtype]
      /\ call'.lowRam = low /\ call'.dispatched = sent
  <2> HIDE DEF low, sent
  <2>1. call' = [op |-> "describe", dtype |-> dtype, bytes |-> DtypeSize[dtype],
                 lowRam |-> low, dispatched |-> sent]
    BY <1>1 DEF low, sent
  <2> QED  BY <2>1
<1> HIDE DEF low, sent
<1>4. DtypeSize[dtype] = TensorBytes(dtype, TensorBlock[dtype].elements)
  BY TablesAgree
<1> QED  BY <1>2, <1>3, <1>4 DEF ProductsExact

LEMMA KernelPlain ==
  ASSUME NEW op \in {"matvec_q4", "rms_norm", "attention", "short_conv", "swiglu", "logits"},
         NEW args, NEW size, NEW accepted, NEW outputs,
         \/ Kernel(op, args, size, accepted, outputs)
         \/ Checked(op, args, size, accepted, outputs)
  PROVE  ProductsExact'
<1>1. call'.op = op
  BY DEF Checked, Kernel
<1> QED  BY <1>1 DEF ProductsExact

\* The kernels visit what they should (src/quant.cpp, src/matmul.cpp, src/ops.cpp):
\* a product with a mapped tensor reads every element once, from the block where
\* its file keeps it, if the rows have whole blocks or there is one at most, and
\* only then; a tiled product adds what a plain one adds, in its order;
\* a rotation turns every pair once; and the tables of types agree.
THEOREM ProductsKept == Spec => []ProductsExact
<1>1. Init => ProductsExact
  BY DEF Init, Idle, ProductsExact
<1>2. ASSUME [Next]_vars, ProductsExact
      PROVE  ProductsExact'
  <2>1. CASE MatvecGguf
    BY <2>1, MatvecProduct
  <2>2. CASE MatmulF32
    BY <2>2, MatmulProduct
  <2>3. CASE RopeInplace
    BY <2>3, RopeProduct
  <2>4. CASE Describe
    BY <2>4, DescribeExact
  <2>5. CASE MatvecQ4
    BY <2>5, KernelPlain DEF MatvecQ4
  <2>6. CASE RmsNorm
    BY <2>6, KernelPlain DEF RmsNorm
  <2>7. CASE CausalAttention
    BY <2>7, KernelPlain DEF CausalAttention
  <2>8. CASE ShortConvolution
    BY <2>8, KernelPlain DEF ShortConvolution
  <2>9. CASE LogitsProjection
    BY <2>9, KernelPlain DEF LogitsProjection
  <2>10. CASE SwigluMlp
    BY <2>10, KernelPlain DEF SwigluMlp
  <2>11. CASE Convert
    BY <2>11 DEF Convert, ProductsExact
  <2>12. CASE QuantizeQ4
    BY <2>12 DEF QuantizeQ4, ProductsExact
  <2>13. CASE Sample
    BY <2>13, SampleOp DEF ProductsExact
  <2>14. CASE Return
    BY <2>14 DEF Return, Idle, ProductsExact
  <2>15. CASE UNCHANGED vars
    <3>1. call' = call
      BY <2>15 DEF vars
    <3>2. ProductsExact' <=> ProductsExact
      BY <3>1
      DEF ProductsExact, IsTensor, WholeRows, TensorProduct, TiledProduct, Rotated
    <3> QED  BY <1>2, <3>2
  <2> QED  BY <1>2, <2>1, <2>2, <2>3, <2>4, <2>5, <2>6, <2>7, <2>8, <2>9,
               <2>10, <2>11, <2>12, <2>13, <2>14, <2>15 DEF Next
<1> QED  BY <1>1, <1>2, PTL DEF Spec

-----------------------------------------------------------------------------
(* Halves. *)

\* Powers of two, under a name that keeps the provers from looking into them.
Power(d) == 2 ^ d

LEMMA PowerDoubles ==
  ASSUME NEW d \in 0 .. 10
  PROVE  /\ Power(d) \in Nat \ {0}
         /\ Power(d + 1) = 2 * Power(d)
         /\ Power(d + 13) = 8192 * Power(d)
<1>0. CASE d = 0
  BY <1>0 DEF Power
<1>1. CASE d = 1
  BY <1>1 DEF Power
<1>2. CASE d = 2
  BY <1>2 DEF Power
<1>3. CASE d = 3
  BY <1>3 DEF Power
<1>4. CASE d = 4
  BY <1>4 DEF Power
<1>5. CASE d = 5
  BY <1>5 DEF Power
<1>6. CASE d = 6
  BY <1>6 DEF Power
<1>7. CASE d = 7
  BY <1>7 DEF Power
<1>8. CASE d = 8
  BY <1>8 DEF Power
<1>9. CASE d = 9
  BY <1>9 DEF Power
<1>10. CASE d = 10
  BY <1>10 DEF Power
<1> QED  BY <1>0, <1>1, <1>2, <1>3, <1>4, <1>5, <1>6, <1>7, <1>8, <1>9, <1>10

LEMMA PowerAt == Power(0) = 1 /\ Power(10) = 1024 /\ Power(13) = 8192
  BY DEF Power

LEMMA TimesTwice ==
  ASSUME NEW a \in Nat, NEW b \in Nat
  PROVE  /\ a * b \in Nat
         /\ a * (2 * b) = 2 * (a * b)
         /\ a * (8192 * b) = 8192 * (a * b)
  OBVIOUS

\* A round of the loop, when g gives the rounds before.
LoopFrom(mant, g, n) == IF n = 0 THEN [exp |-> 1, mant |-> mant] ELSE Shifted(g[n - 1])

IsLoop(mant, g) == g = [n \in 0 .. 10 |-> LoopFrom(mant, g, n)]

LEMMA LoopExists ==
  ASSUME NEW mant
  PROVE  \E g : IsLoop(mant, g)
<1> DEFINE Solves(g, k) == /\ g = [n \in 0 .. 10 |-> g[n]]
                           /\ \A n \in 0 .. 10 : n <= k => g[n] = LoopFrom(mant, g, n)
           S == {k \in Nat : \E g : Solves(g, k)}
<1>1. 0 \in S
  <2> DEFINE g == [n \in 0 .. 10 |-> [exp |-> 1, mant |-> mant]]
  <2>1. Solves(g, 0)
    BY DEF LoopFrom
  <2> QED  BY <2>1
<1>2. ASSUME NEW k \in Nat, k \in S
      PROVE  k + 1 \in S
  <2>1. PICK g : Solves(g, k)
    BY <1>2
  <2> DEFINE h == [n \in 0 .. 10 |-> IF n = k + 1 THEN LoopFrom(mant, g, n) ELSE g[n]]
  <2>2. ASSUME NEW n \in 0 .. 10, n <= k + 1
        PROVE  h[n] = LoopFrom(mant, h, n)
    <3>1. h[n] = LoopFrom(mant, g, n)
      BY <2>1, <2>2
    <3>2. n # 0 => h[n - 1] = g[n - 1]
      BY <2>2
    <3> HIDE DEF h
    <3> QED  BY <3>1, <3>2 DEF LoopFrom
  <2>3. Solves(h, k + 1)
    BY <2>2
  <2> HIDE DEF h, Solves
  <2> QED  BY <2>3
<1> HIDE DEF S
<1>3. 10 \in S
  BY <1>1, <1>2, SetInduction
<1>4. PICK g : Solves(g, 10)
  BY <1>3 DEF S
<1>5. \A n \in 0 .. 10 : g[n] = LoopFrom(mant, g, n)
  BY <1>4
<1> QED  BY <1>4, <1>5 DEF IsLoop

LEMMA LoopDef ==
  ASSUME NEW mant
  PROVE  \E g : /\ Normalised(mant) = g[10]
                /\ \A n \in 0 .. 10 : g[n] = LoopFrom(mant, g, n)
<1> DEFINE f == CHOOSE g : g = [n \in 0 .. 10 |-> LoopFrom(mant, g, n)]
<1>1. f = [n \in 0 .. 10 |-> LoopFrom(mant, f, n)]
  BY LoopExists DEF IsLoop
<1>2. Normalised(mant) = f[10]
  BY DEF Normalised, LoopFrom
<1> HIDE DEF f
<1> DEFINE e(n) == LoopFrom(mant, f, n)
<1>3. f = [n \in 0 .. 10 |-> e(n)]
  BY <1>1
<1> HIDE DEF e
<1>4. \A n \in 0 .. 10 : f[n] = e(n)
  BY <1>3
<1> QED  BY <1>2, <1>4 DEF e

\* After n rounds the mantissa was doubled d times, as often as there were
\* rounds or until its bit 10 was set.
Doubled(mant, s, n, d) ==
  /\ d \in 0 .. n
  /\ s.exp = (1 - d) % 512
  /\ s.mant \in 0 .. 2047
  /\ s.mant = mant * Power(d)
  /\ d < n => s.mant >= 1024

\* The mantissa was doubled d times, and its bit 10 is set.
Brought(mant, s, d) ==
  /\ d \in 1 .. 10
  /\ s.exp = (1 - d) % 512
  /\ s.mant \in 1024 .. 2047
  /\ s.mant = mant * Power(d)

LEMMA LastRound ==
  ASSUME NEW mant \in 1 .. 1023, NEW s, NEW d, Doubled(mant, s, 10, d)
  PROVE  Brought(mant, s, d)
<1>1. d \in 0 .. 10 /\ s.mant \in 0 .. 2047 /\ s.mant = mant * Power(d)
  BY DEF Doubled
<1>2. d < 10 => s.mant >= 1024
  BY DEF Doubled
<1>3. s.exp = (1 - d) % 512
  BY DEF Doubled
<1> DEFINE m == s.mant
<1>4. m \in 1024 .. 2047
  <2> HIDE DEF m
  <2>1. CASE d = 10
    <3>1. m = mant * 1024
      BY <1>1, <2>1, PowerAt DEF m
    <3>2. m \in 0 .. 2047
      BY <1>1 DEF m
    <3> QED  BY <3>1, <3>2
  <2>2. CASE d # 10
    <3>1. m \in 0 .. 2047 /\ m >= 1024
      BY <1>1, <1>2, <2>2 DEF m
    <3> QED  BY <3>1
  <2> QED  BY <2>1, <2>2
<1> HIDE DEF m
<1>5. ASSUME d = 0
      PROVE  FALSE
  <2>1. m = mant * 1
    BY <1>1, <1>5, PowerAt DEF m
  <2>2. mant * 1 = mant
    OBVIOUS
  <2>3. m >= 1024
    BY <1>4
  <2>4. mant < 1024
    OBVIOUS
  <2> QED  BY <2>1, <2>2, <2>3, <2>4
<1>6. d \in 1 .. 10
  BY <1>1, <1>5
<1> QED  BY <1>1, <1>3, <1>4, <1>6 DEF Brought, m

LEMMA OneRound ==
  ASSUME NEW mant \in 1 .. 1023, NEW s, NEW n \in 0 .. 9, NEW d, Doubled(mant, s, n, d)
  PROVE  \E c : Doubled(mant, Shifted(s), n + 1, c)
<1> DEFINE m == s.mant
<1>1. d \in 0 .. n
  BY DEF Doubled
<1>2. s.exp = (1 - d) % 512
  BY DEF Doubled
<1>3. m \in 0 .. 2047
  BY DEF Doubled
<1>4. m = mant * Power(d)
  BY DEF Doubled
<1>5. d < n => m >= 1024
  BY DEF Doubled
<1>6. CASE m >= 1024
  <2> HIDE DEF m
  <2>1. (m \div 1024) % 2 = 1
    BY <1>3, <1>6
  <2>2. Shifted(s) = s
    BY <2>1 DEF Shifted, m
  <2>3. d \in 0 .. n + 1
    BY <1>1
  <2>4. Doubled(mant, s, n + 1, d)
    BY <1>2, <1>3, <1>4, <1>6, <2>3 DEF Doubled, m
  <2> QED  BY <2>2, <2>4
<1>7. CASE ~(m >= 1024)
  <2> HIDE DEF m
  <2>1. (m \div 1024) % 2 # 1
    BY <1>3, <1>7
  <2>2. Shifted(s) = [exp |-> (s.exp - 1) % 512, mant |-> 2 * m]
    BY <2>1 DEF Shifted, m
  <2>3. d = n
    BY <1>1, <1>5, <1>7
  <2>4. d + 1 \in 0 .. n + 1 /\ ~(d + 1 < n + 1)
    BY <1>1, <2>3
  <2>5. (((1 - d) % 512) - 1) % 512 = (1 - (d + 1)) % 512
    BY <1>1
  <2>6. 2 * m = mant * Power(d + 1)
    <3>1. Power(d) \in Nat /\ Power(d + 1) = 2 * Power(d)
      BY <1>1, PowerDoubles
    <3>2. mant * (2 * Power(d)) = 2 * (mant * Power(d))
      BY <3>1, TimesTwice
    <3> QED  BY <1>4, <3>1, <3>2
  <2>7. 2 * m \in 0 .. 2047
    BY <1>3, <1>7
  <2> DEFINE e == (s.exp - 1) % 512
             m2 == 2 * m
             t == [exp |-> e, mant |-> m2]
  <2>8. e = (1 - (d + 1)) % 512
    BY <1>2, <2>5
  <2> HIDE DEF e, m2
  <2>9. t.exp = e /\ t.mant = m2
    OBVIOUS
  <2>10. m2 = mant * Power(d + 1) /\ m2 \in 0 .. 2047
    BY <2>6, <2>7 DEF m2
  <2> HIDE DEF t
  <2>11. Doubled(mant, t, n + 1, d + 1)
    BY <2>4, <2>8, <2>9, <2>10 DEF Doubled
  <2> QED  BY <2>2, <2>11 DEF t, e, m2
<1> QED  BY <1>6, <1>7

\* The loop brings the leading bit of a subnormal half to bit 10, and takes the
\* exponent down by one each time.
LEMMA NormalisedExact ==
  ASSUME NEW mant \in 1 .. 1023
  PROVE  \E d : Brought(mant, Normalised(mant), d)
<1>1. PICK g : /\ Normalised(mant) = g[10]
               /\ \A n \in 0 .. 10 : g[n] = LoopFrom(mant, g, n)
  BY LoopDef
<1> DEFINE S == {n \in Nat : n <= 10 => \E d : Doubled(mant, g[n], n, d)}
<1>2. 0 \in S
  <2>1. g[0] = [exp |-> 1, mant |-> mant]
    BY <1>1 DEF LoopFrom
  <2>2. (1 - 0) % 512 = 1 /\ mant = mant * Power(0) /\ mant \in 0 .. 2047
    <3>1. Power(0) = 1
      BY PowerAt
    <3> QED  BY <3>1
  <2>3. 0 \in 0 .. 0 /\ ~(0 < 0)
    OBVIOUS
  <2>4. Doubled(mant, g[0], 0, 0)
    BY <2>1, <2>2, <2>3 DEF Doubled
  <2> QED  BY <2>4
<1>3. ASSUME NEW n \in Nat, n \in S, n + 1 <= 10
      PROVE  \E d : Doubled(mant, g[n + 1], n + 1, d)
  <2>1. PICK d : Doubled(mant, g[n], n, d)
    BY <1>3
  <2>2. g[n + 1] = Shifted(g[n])
    <3>1. n + 1 \in 0 .. 10 /\ n + 1 # 0 /\ n + 1 - 1 = n
      BY <1>3
    <3> QED  BY <1>1, <3>1 DEF LoopFrom
  <2>3. n \in 0 .. 9
    BY <1>3
  <2> QED  BY <2>1, <2>2, <2>3, OneRound
<1>4. \A n \in Nat : n \in S => n + 1 \in S
  BY <1>3
<1> HIDE DEF S
<1>5. 10 \in S
  BY <1>2, <1>4, SetInduction
<1>6. PICK d : Doubled(mant, g[10], 10, d)
  BY <1>5 DEF S
<1>7. Brought(mant, g[10], d)
  BY <1>6, LastRound
<1> QED  BY <1>1, <1>7

\* What HalfExact says of the exponent and the mantissa of a float.
FieldsExact(exp, mant, e, m) ==
  LET significand == IF exp = 0 THEN mant ELSE 1024 + mant
      scale == IF exp = 0 THEN -24 ELSE exp - 25
  IN  /\ exp = 31 => e = 255 /\ m = mant * 8192
      /\ exp # 31 /\ significand = 0 => e = 0 /\ m = 0
      /\ exp # 31 /\ significand # 0 =>
           /\ e \in 1 .. 254
           /\ scale - (e - 150) \in 0 .. 23
           /\ significand * Power(scale - (e - 150)) = 8388608 + m

\* A float keeps the fields of a half.
Kept(sign, exp, mant, float) ==
  float.sign = sign /\ FieldsExact(exp, mant, float.exp, float.mant)

\* Sets and fields under a name: the numbers in them are too large for Zenon.
Exponents     == 0 .. 31
Mantissas     == 0 .. 1023
Subnormal     == 1 .. 1023
Shifts        == -100 .. 100
Wrapped(e)    == e % 512
Sign(h)       == h \div 32768
Exponent(h)   == (h \div 1024) % 32
Mantissa(h)   == h % 1024
Scaled(mant)  == mant * 8192
Rebased(e)    == e + 112
FloatOf(sign, s) == Float(sign, s.exp, s.mant % 1024)
Fields(sign, e, m) == [sign |-> sign, exp |-> e, mant |-> m]

LEMMA FieldsKept ==
  ASSUME NEW sign, NEW exp, NEW mant, NEW e, NEW m, FieldsExact(exp, mant, e, m)
  PROVE  Kept(sign, exp, mant, Fields(sign, e, m))
  BY DEF Kept, Fields

LEMMA FloatFields ==
  ASSUME NEW sign, NEW exp \in Shifts, NEW mant, NEW e, e = Wrapped(exp)
  PROVE  Float(sign, e, mant) = Fields(sign, Rebased(exp), Scaled(mant))
<1> DEFINE biased == (e + 127 - 15) % 512
<1>1. biased = exp + 112 /\ ~(biased >= 256) /\ biased % 256 = exp + 112
  BY DEF Shifts, Wrapped
<1>2. Float(sign, e, mant)
        = [sign |-> IF biased >= 256 THEN 1 ELSE sign, exp |-> biased % 256, mant |-> mant * 8192]
  BY DEF Float
<1> HIDE DEF biased
<1> QED  BY <1>1, <1>2 DEF Fields, Rebased, Scaled

LEMMA SubnormalFields ==
  ASSUME NEW sign, NEW mant \in Subnormal, NEW s, NEW d, Brought(mant, s, d)
  PROVE  /\ d \in 1 .. 10
         /\ FloatOf(sign, s) = Fields(sign, Rebased(1 - d), Scaled(s.mant % 1024))
<1>1. s.exp = (1 - d) % 512 /\ d \in 1 .. 10
  BY DEF Brought
<1> DEFINE e == s.exp
           x == 1 - d
           m == s.mant % 1024
<1>2. x \in Shifts /\ e = Wrapped(x)
  BY <1>1 DEF Shifts, Wrapped
<1> HIDE DEF e, x, m
<1>3. Float(sign, e, m) = Fields(sign, Rebased(x), Scaled(m))
  BY <1>2, FloatFields, Zenon
<1>4. FloatOf(sign, s) = Fields(sign, Rebased(1 - d), Scaled(s.mant % 1024))
  BY <1>3 DEF FloatOf, e, x, m
<1> QED  BY <1>1, <1>4

LEMMA SubnormalExact ==
  ASSUME NEW sign, NEW mant \in Subnormal, NEW s, NEW d, Brought(mant, s, d)
  PROVE  Kept(sign, 0, mant, FloatOf(sign, s))
<1>1. FloatOf(sign, s) = Fields(sign, Rebased(1 - d), Scaled(s.mant % 1024))
  BY SubnormalFields
<1>2. FieldsExact(0, mant, Rebased(1 - d), Scaled(s.mant % 1024))
  <2> DEFINE m == s.mant
  <2>1. mant \in 1 .. 1023 /\ d \in 1 .. 10 /\ m \in 1024 .. 2047 /\ m = mant * Power(d)
    BY DEF Brought, Subnormal
  <2> HIDE DEF m
  <2>2. Rebased(1 - d) = 113 - d /\ -24 - (113 - d - 150) = d + 13
    BY <2>1 DEF Rebased
  <2>3. Scaled(m % 1024) = 8192 * m - 8388608
    BY <2>1 DEF Scaled
  <2>4. Power(d) \in Nat /\ Power(d + 13) = 8192 * Power(d)
    BY <2>1, PowerDoubles
  <2>5. mant * (8192 * Power(d)) = 8192 * m
    BY <2>1, <2>4, TimesTwice
  <2>6. mant * Power(-24 - (113 - d - 150)) = 8192 * m
    BY <2>2, <2>4, <2>5
  <2>7. mant * Power(-24 - (113 - d - 150)) = 8388608 + (8192 * m - 8388608)
    BY <2>1, <2>6
  <2>8. 113 - d \in 1 .. 254 /\ -24 - (113 - d - 150) \in 0 .. 23 /\ mant # 0
    BY <2>1
  <2>9. FieldsExact(0, mant, 113 - d, 8192 * m - 8388608)
    BY <2>7, <2>8 DEF FieldsExact
  <2> QED  BY <2>2, <2>3, <2>9 DEF m
<1> QED  BY <1>1, <1>2, FieldsKept

LEMMA NormalExact ==
  ASSUME NEW sign, NEW exp \in 1 .. 30, NEW mant \in Mantissas
  PROVE  Kept(sign, exp, mant, Float(sign, exp, mant))
<1>1. exp = Wrapped(exp) /\ exp \in Shifts
  BY DEF Shifts, Wrapped
<1>2. Float(sign, exp, mant) = Fields(sign, Rebased(exp), Scaled(mant))
  BY <1>1, FloatFields, Zenon
<1>3. FieldsExact(exp, mant, Rebased(exp), Scaled(mant))
  <2>1. Rebased(exp) = exp + 112 /\ exp - 25 - (exp + 112 - 150) = 13
    BY DEF Rebased
  <2>2. mant \in 0 .. 1023
    BY DEF Mantissas
  <2>3. (1024 + mant) * Power(exp - 25 - (exp + 112 - 150)) = 8388608 + mant * 8192
    BY <2>1, <2>2, PowerAt
  <2>4. exp + 112 \in 1 .. 254 /\ exp # 0 /\ exp # 31 /\ 1024 + mant # 0
    BY <2>2
  <2> QED  BY <2>1, <2>3, <2>4 DEF FieldsExact, Scaled
<1> QED  BY <1>2, <1>3, FieldsKept

\* The float of a half of these fields.
OfFields(sign, exp, mant) ==
  CASE exp = 0 /\ mant = 0 -> Fields(sign, 0, 0)
    [] exp = 0 /\ mant # 0 -> FloatOf(sign, Normalised(mant))
    [] exp = 31            -> Fields(sign, 255, Scaled(mant))
    [] OTHER               -> Float(sign, exp, mant)

LEMMA EveryHalfKept ==
  ASSUME NEW sign, NEW exp \in Exponents, NEW mant \in Mantissas
  PROVE  Kept(sign, exp, mant, OfFields(sign, exp, mant))
<1>1. CASE exp = 0 /\ mant = 0
  <2>1. OfFields(sign, exp, mant) = Fields(sign, 0, 0)
    BY <1>1 DEF OfFields
  <2>2. FieldsExact(exp, mant, 0, 0)
    BY <1>1 DEF FieldsExact
  <2> QED  BY <2>1, <2>2, FieldsKept
<1>2. CASE exp = 0 /\ mant # 0
  <2>1. OfFields(sign, exp, mant) = FloatOf(sign, Normalised(mant))
    BY <1>2 DEF OfFields
  <2>2. mant \in Subnormal
    BY <1>2 DEF Mantissas, Subnormal
  <2>3. PICK d : Brought(mant, Normalised(mant), d)
    BY <2>2, NormalisedExact DEF Subnormal
  <2>4. Kept(sign, 0, mant, FloatOf(sign, Normalised(mant)))
    BY <2>2, <2>3, SubnormalExact, Zenon
  <2> QED  BY <1>2, <2>1, <2>4, Zenon
<1>3. CASE exp = 31
  <2>1. OfFields(sign, exp, mant) = Fields(sign, 255, Scaled(mant))
    BY <1>3 DEF OfFields
  <2>2. FieldsExact(exp, mant, 255, Scaled(mant))
    BY <1>3 DEF FieldsExact, Scaled
  <2> QED  BY <2>1, <2>2, FieldsKept
<1>4. CASE exp # 0 /\ exp # 31
  <2>1. OfFields(sign, exp, mant) = Float(sign, exp, mant)
    BY <1>4 DEF OfFields
  <2>2. exp \in 1 .. 30
    BY <1>4 DEF Exponents
  <2> QED  BY <2>1, <2>2, NormalExact
<1> QED  BY <1>1, <1>2, <1>3, <1>4, Zenon

LEMMA HalvesExact ==
  ASSUME NEW h \in Nat
  PROVE  HalfExact(h, Fp16ToF32(h))
<1>1. Exponent(h) \in Exponents
  BY DEF Exponent, Exponents
<1>2. Mantissa(h) \in Mantissas
  BY DEF Mantissa, Mantissas
<1>3. Kept(Sign(h), Exponent(h), Mantissa(h), OfFields(Sign(h), Exponent(h), Mantissa(h)))
  BY <1>1, <1>2, EveryHalfKept
<1>4. Fp16ToF32(h) = OfFields(Sign(h), Exponent(h), Mantissa(h))
  BY DEF Fp16ToF32, OfFields, Sign, Exponent, Mantissa, Fields, Scaled, FloatOf
<1>5. Kept(Sign(h), Exponent(h), Mantissa(h), Fp16ToF32(h))
  BY <1>3, <1>4
<1>6. HalfExact(h, Fp16ToF32(h)) <=> Kept(Sign(h), Exponent(h), Mantissa(h), Fp16ToF32(h))
  BY DEF HalfExact, Kept, FieldsExact, Power, Sign, Exponent, Mantissa
<1> QED  BY <1>5, <1>6

-----------------------------------------------------------------------------
(* Quantization. *)

\* The numbers one of which Max chooses, up to position k.
SizesTo(values, base, k) == {0} \cup {Magnitude(values[i]) : i \in base + 1 .. k}

LEMMA MagnitudeTyped ==
  ASSUME NEW v \in Int
  PROVE  Magnitude(v) \in Nat
  BY DEF Magnitude

LEMMA MagnitudesTyped ==
  ASSUME NEW values \in Seq(Int), NEW base \in Nat, NEW k \in 0 .. Len(values)
  PROVE  SizesTo(values, base, k) \subseteq Nat
<1>1. ASSUME NEW i \in base + 1 .. k
      PROVE  Magnitude(values[i]) \in Nat
  <2>1. i \in 1 .. Len(values)
    OBVIOUS
  <2>2. values[i] \in Int
    BY <2>1
  <2> QED  BY <2>2, MagnitudeTyped
<1> QED  BY <1>1 DEF SizesTo

LEMMA SizesHaveGreatest ==
  ASSUME NEW values \in Seq(Int), NEW base \in Nat, NEW k \in 0 .. Len(values)
  PROVE  \E x \in SizesTo(values, base, k) \cap Nat :
           \A y \in SizesTo(values, base, k) : x >= y
<1> DEFINE T(n) == SizesTo(values, base, n)
           Has(n) == \E x \in T(n) \cap Nat : \A y \in T(n) : x >= y
           S == {n \in Nat : n <= Len(values) => Has(n)}
<1>1. 0 \in S
  <2>1. T(0) = {0}
    BY DEF SizesTo
  <2> HIDE DEF T
  <2> QED  BY <2>1
<1>2. ASSUME NEW n \in Nat, n \in S
      PROVE  n + 1 \in S
  <2> SUFFICES ASSUME n + 1 <= Len(values)
               PROVE  Has(n + 1)
    OBVIOUS
  <2>1. PICK x \in T(n) \cap Nat : \A y \in T(n) : x >= y
    BY <1>2
  <2> DEFINE v == Magnitude(values[n + 1])
  <2>2. v \in Nat
    <3>1. n + 1 \in 1 .. Len(values)
      OBVIOUS
    <3>2. values[n + 1] \in Int
      BY <3>1
    <3> QED  BY <3>2, MagnitudeTyped
  <2>3. CASE n + 1 < base + 1
    <3>1. T(n + 1) = T(n)
      BY <2>3 DEF SizesTo
    <3> HIDE DEF T
    <3> QED  BY <2>1, <3>1
  <2>4. CASE n + 1 >= base + 1
    <3>1. base + 1 .. n + 1 = (base + 1 .. n) \cup {n + 1}
      BY <2>4
    <3>2. T(n + 1) = T(n) \cup {v}
      BY <3>1 DEF SizesTo
    <3> HIDE DEF T, v
    <3>3. CASE x >= v
      BY <2>1, <3>2, <3>3
    <3>4. CASE ~(x >= v)
      <4>1. \A y \in T(n) : v >= y
        <5> TAKE y \in T(n)
        <5>1. x >= y
          BY <2>1
        <5>2. T(n) \subseteq Nat
          BY MagnitudesTyped DEF T
        <5>3. x \in Nat /\ y \in Nat
          BY <2>1, <5>2
        <5> QED  BY <5>1, <5>3, <2>2, <3>4
      <4>2. v \in T(n + 1) \cap Nat
        BY <2>2, <3>2
      <4>3. v >= v
        BY <2>2
      <4>4. \A y \in T(n + 1) : v >= y
        BY <3>2, <4>1, <4>3
      <4> QED  BY <4>2, <4>4
    <3> QED  BY <3>3, <3>4
  <2> QED  BY <2>3, <2>4
<1>3. \A n \in Nat : n \in S => n + 1 \in S
  BY <1>2
<1> HIDE DEF S
<1>4. \A n \in Nat : n \in S
  BY <1>1, <1>3, SetInduction
<1>5. k \in Nat /\ k <= Len(values)
  OBVIOUS
<1>6. k \in S
  BY <1>4, <1>5
<1> QED  BY <1>5, <1>6 DEF S

\* The scale of a block covers each of its values.
LEMMA LargestCovers ==
  ASSUME NEW values \in Seq(Int), NEW base \in Nat
  PROVE  /\ Largest(values, base) \in Nat
         /\ \A i \in base + 1 .. Least(base + 32, Len(values)) :
              Magnitude(values[i]) <= Largest(values, base)
<1> DEFINE k == Least(base + 32, Len(values))
           T == SizesTo(values, base, k)
<1>1. k \in 0 .. Len(values)
  BY DEF Least
<1> HIDE DEF k
<1>2. \E x \in T \cap Nat : \A y \in T : x >= y
  BY <1>1, SizesHaveGreatest
<1>3. Largest(values, base) = CHOOSE x \in T : \A y \in T : x >= y
  BY DEF Largest, SizesTo, k, Max
<1>4. \A i \in base + 1 .. k : Magnitude(values[i]) \in T
  BY DEF SizesTo
<1>5. T \subseteq Nat
  BY <1>1, MagnitudesTyped
<1> HIDE DEF T
<1>6. Largest(values, base) \in T /\ \A y \in T : Largest(values, base) >= y
  BY <1>2, <1>3
<1> QED  BY <1>4, <1>5, <1>6 DEF k

\* The quotient and the remainder of any number.
LEMMA DivisionSplits ==
  ASSUME NEW a \in Int, NEW d \in Nat \ {0}
  PROVE  /\ a \div d \in Int
         /\ (a \div d) * d <= a
         /\ a < (a \div d) * d + d
  BY SMT

\* How an integer q follows from the quotient n / d.
Closest(n, d, q) ==
  /\ q \in -7 .. 7
  /\ 2 * Magnitude(q * d - n) <= d
  /\ n = 0 => q = 0

\* Rounding keeps a quotient of at most 7 within half a unit.
LEMMA NearbyClosest ==
  ASSUME NEW n \in Int, NEW d \in Nat \ {0}, NEW tie, Magnitude(n) <= 7 * d
  PROVE  Closest(n, d, NearbyInt(n, d, tie))
<1> DEFINE t == IF tie = "down" THEN 1 ELSE 0
           a == 2 * n + d - t
           q == NearbyInt(n, d, tie)
<1>1. t \in 0 .. 1
  OBVIOUS
<1> HIDE DEF t
<1>2. a \in Int /\ 2 * d \in Nat \ {0}
  BY <1>1
<1>3. q = a \div (2 * d)
  BY DEF NearbyInt, t
<1>4. a = 2 * n + d - t
  OBVIOUS
<1> HIDE DEF a, q
<1>5. q \in Int /\ q * (2 * d) <= a /\ a < q * (2 * d) + 2 * d
  BY <1>2, <1>3, DivisionSplits
<1> DEFINE p == q * d
<1>6. p \in Int /\ q * (2 * d) = 2 * p
  BY <1>5
<1>7. \A k \in Int : (q >= k => p >= k * d) /\ (k >= q => k * d >= p)
  BY <1>5, TimesOrdered
<1> HIDE DEF p
<1>8. 2 * p <= a /\ a < 2 * p + 2 * d
  BY <1>5, <1>6
<1>9. -7 * d <= n /\ n <= 7 * d
  BY DEF Magnitude
<1>10. 2 * p - 2 * n <= d /\ 2 * n - 2 * p <= d
  BY <1>1, <1>4, <1>6, <1>8
<1>11. 2 * Magnitude(p - n) <= d
  BY <1>6, <1>10 DEF Magnitude
<1>12. ~(q >= 8)
  BY <1>6, <1>7, <1>9, <1>10
<1>13. ~(-8 >= q)
  BY <1>6, <1>7, <1>9, <1>10
<1>14. q \in -7 .. 7
  BY <1>5, <1>12, <1>13
<1>15. ASSUME n = 0
       PROVE  q = 0
  <2>1. ~(q >= 1)
    BY <1>6, <1>7, <1>10, <1>15
  <2>2. ~(-1 >= q)
    BY <1>6, <1>7, <1>10, <1>15
  <2> QED  BY <1>5, <2>1, <2>2
<1> QED  BY <1>11, <1>14, <1>15 DEF Closest, p, q

\* The parts of quantize_q4_0.
ScaleOf(amax)      == IF amax = 0 THEN [num |-> 1, den |-> 1] ELSE [num |-> amax, den |-> 7]
ValueAt(values, e) == IF e < Len(values) THEN values[e + 1] ELSE 0
WeightOf(values, b, tie, i) ==
  LET scale == ScaleOf(Largest(values, b * 32))
  IN  NearbyInt(ValueAt(values, b * 32 + i) * scale.den, scale.num, tie)

LEMMA ScaleCovers ==
  ASSUME NEW amax \in Nat, NEW v \in Int, Magnitude(v) <= amax
  PROVE  /\ ScaleOf(amax).num \in Nat \ {0}
         /\ v * ScaleOf(amax).den \in Int
         /\ Magnitude(v * ScaleOf(amax).den) <= 7 * ScaleOf(amax).num
         /\ v = 0 => v * ScaleOf(amax).den = 0
<1>1. CASE amax = 0
  <2>1. ScaleOf(amax).num = 1 /\ ScaleOf(amax).den = 1
    BY <1>1 DEF ScaleOf
  <2>2. v = 0
    BY <1>1 DEF Magnitude
  <2> QED  BY <2>1, <2>2 DEF Magnitude
<1>2. CASE amax # 0
  <2>1. ScaleOf(amax).num = amax /\ ScaleOf(amax).den = 7
    BY <1>2 DEF ScaleOf
  <2> QED  BY <1>2, <2>1 DEF Magnitude
<1> QED  BY <1>1, <1>2

\* A weight is the nearest to its value, on the scale of its block.
LEMMA WeightClosest ==
  ASSUME NEW values \in Seq(Int), NEW b \in Nat, NEW tie, NEW i \in 0 .. 31
  PROVE  LET scale == ScaleOf(Largest(values, b * 32))
             v     == ValueAt(values, b * 32 + i)
         IN  /\ Closest(v * scale.den, scale.num, WeightOf(values, b, tie, i))
             /\ v = 0 => WeightOf(values, b, tie, i) = 0
<1> DEFINE amax == Largest(values, b * 32)
           v == ValueAt(values, b * 32 + i)
           n == v * ScaleOf(amax).den
           d == ScaleOf(amax).num
<1>1. amax \in Nat
  BY LargestCovers
<1>2. v \in Int /\ Magnitude(v) <= amax
  <2>1. CASE b * 32 + i < Len(values)
    <3> DEFINE e == b * 32 + i + 1
    <3>1. e \in 1 .. Len(values) /\ e \in b * 32 + 1 .. Least(b * 32 + 32, Len(values))
      BY <2>1 DEF Least
    <3>2. v = values[e]
      BY <2>1 DEF ValueAt
    <3>3. b * 32 \in Nat
      OBVIOUS
    <3> HIDE DEF e, v, amax
    <3>4. Magnitude(values[e]) <= amax
      BY <3>1, <3>3, LargestCovers DEF amax
    <3> QED  BY <3>1, <3>2, <3>4
  <2>2. CASE ~(b * 32 + i < Len(values))
    <3>1. v = 0
      BY <2>2 DEF ValueAt
    <3> HIDE DEF v, amax
    <3> QED  BY <1>1, <3>1 DEF Magnitude
  <2> QED  BY <2>1, <2>2
<1> HIDE DEF amax, v
<1>3. d \in Nat \ {0} /\ n \in Int /\ Magnitude(n) <= 7 * d /\ (v = 0 => n = 0)
  BY <1>1, <1>2, ScaleCovers
<1> HIDE DEF n, d
<1>4. Closest(n, d, NearbyInt(n, d, tie))
  BY <1>3, NearbyClosest
<1>5. WeightOf(values, b, tie, i) = NearbyInt(n, d, tie)
  BY Zenon DEF WeightOf, n, d, v, amax
<1>6. n = 0 => NearbyInt(n, d, tie) = 0
  BY <1>4 DEF Closest
<1> QED  BY <1>3, <1>4, <1>5, <1>6, Zenon DEF n, d, v, amax

\* Byte j holds these two nibbles, and they come out of it again as two weights.
Holds(packed, j, lo, hi) ==
  {j, lo, hi} \subseteq 0 .. 15 /\ packed[j] = lo + ((16 * hi) % 256)
Yields(packed, j, lo, hi) ==
  Unpacked(packed, 2 * j) = lo - 8 /\ Unpacked(packed, 2 * j + 1) = hi - 8

LEMMA PairUnpacked ==
  ASSUME NEW packed, NEW j, NEW lo, NEW hi, Holds(packed, j, lo, hi)
  PROVE  Yields(packed, j, lo, hi)
<1> DEFINE byte == packed[j]
<1>1. j \in 0 .. 15 /\ lo \in 0 .. 15 /\ hi \in 0 .. 15 /\ byte = lo + ((16 * hi) % 256)
  BY DEF Holds
<1> HIDE DEF byte
<1>2. (16 * hi) % 256 = 16 * hi
  BY <1>1
<1>3. byte % 16 = lo /\ byte \div 16 = hi
  BY <1>1, <1>2
<1>4. /\ (2 * j) % 2 = 0 /\ (2 * j) \div 2 = j
      /\ (2 * j + 1) % 2 # 0 /\ (2 * j + 1) \div 2 = j
  BY <1>1
<1> QED  BY <1>3, <1>4 DEF Unpacked, Yields, byte

\* A weight that is unpacked again, and its value.
IsClose(values, block, e, i) ==
  LET q == Unpacked(block.packed, i)
  IN  IF e < Len(values)
      THEN 2 * Magnitude(q * block.scale.num - values[e + 1] * block.scale.den) <= block.scale.num
      ELSE q = 0

\* Every weight of a block is close to its value.
LEMMA BlockClose ==
  ASSUME NEW values \in Seq(Int), NEW b \in Nat, NEW tie, NEW i \in 0 .. 31
  PROVE  IsClose(values, QuantizeBlock(values, b, tie), b * 32 + i, i)
<1> DEFINE scale == ScaleOf(Largest(values, b * 32))
           block == QuantizeBlock(values, b, tie)
           w(k) == WeightOf(values, b, tie, k)
           v == ValueAt(values, b * 32 + i)
           nibble(k) == Clamped(w(k)) + 8
<1>1. /\ block.scale = scale
      /\ block.packed = [j \in 0 .. 15 |-> nibble(2 * j) + ((16 * nibble(2 * j + 1)) % 256)]
  BY DEF QuantizeBlock, ScaleOf, WeightOf, ValueAt
<1>2. /\ Closest(v * scale.den, scale.num, w(i))
      /\ v = 0 => w(i) = 0
  BY WeightClosest
<1>3. ASSUME NEW k \in 0 .. 31
      PROVE  w(k) \in -7 .. 7
  BY WeightClosest DEF Closest
<1>4. b * 32 + i < Len(values) => v = values[b * 32 + i + 1]
  BY DEF ValueAt
<1>5. ~(b * 32 + i < Len(values)) => v = 0
  BY DEF ValueAt
<1> HIDE DEF scale, block, w, v
<1>6. ASSUME NEW k \in 0 .. 31
      PROVE  nibble(k) \in 0 .. 15 /\ nibble(k) - 8 = w(k)
  <2> DEFINE x == w(k)
  <2>1. x \in -7 .. 7
    BY <1>3
  <2> HIDE DEF x
  <2>2. Clamped(x) = x
    BY <2>1 DEF Clamped, Least
  <2> DEFINE y == nibble(k)
  <2>3. y = x + 8
    BY <2>2 DEF x
  <2> HIDE DEF nibble, y
  <2>4. y \in 0 .. 15 /\ y - 8 = x
    BY <2>1, <2>3
  <2> QED  BY <2>4, Zenon DEF x, y
<1> HIDE DEF nibble
<1>7. Unpacked(block.packed, i) = w(i)
  <2> DEFINE j == i \div 2
  <2>1. j \in 0 .. 15 /\ (i = 2 * j \/ i = 2 * j + 1) /\ 2 * j \in 0 .. 31 /\ 2 * j + 1 \in 0 .. 31
    OBVIOUS
  <2> HIDE DEF j
  <2>2. block.packed[j] = nibble(2 * j) + ((16 * nibble(2 * j + 1)) % 256)
    BY <1>1, <2>1
  <2> DEFINE lo == nibble(2 * j)
             hi == nibble(2 * j + 1)
             packed == block.packed
  <2>3. lo \in 0 .. 15 /\ hi \in 0 .. 15 /\ lo - 8 = w(2 * j) /\ hi - 8 = w(2 * j + 1)
    BY <1>6, <2>1
  <2>4. packed[j] = lo + ((16 * hi) % 256)
    BY <2>2
  <2> HIDE DEF lo, hi, packed
  <2>5. Holds(packed, j, lo, hi)
    BY <2>1, <2>3, <2>4 DEF Holds
  <2>6. Yields(packed, j, lo, hi)
    BY <2>5, PairUnpacked
  <2> QED  BY <2>1, <2>3, <2>6 DEF Yields, packed
<1>8. 2 * Magnitude(w(i) * scale.num - v * scale.den) <= scale.num
  BY <1>2 DEF Closest
<1> QED  BY <1>1, <1>2, <1>4, <1>5, <1>7, <1>8 DEF IsClose, block

LEMMA QuantizesClosely ==
  ASSUME NEW values \in Seq(Int), NEW tie
  PROVE  QuantizedClosely(values, Quantize(values, tie))
<1> DEFINE n == Blocks(Len(values))
           blocks == Quantize(values, tie)
<1>1. n \in Nat
  BY DEF Blocks
<1>2. blocks = [b \in 1 .. n |-> QuantizeBlock(values, b - 1, tie)]
  BY DEF Quantize
<1> HIDE DEF n, blocks
<1>3. Len(blocks) = n /\ DOMAIN blocks = 1 .. n
  BY <1>1, <1>2
<1>4. ASSUME NEW b \in 1 .. n, NEW i \in 0 .. 31
      PROVE  IsClose(values, blocks[b], (b - 1) * 32 + i, i)
  <2>1. b - 1 \in Nat
    BY <1>1
  <2>2. blocks[b] = QuantizeBlock(values, b - 1, tie)
    BY <1>2
  <2> DEFINE c == b - 1
  <2> HIDE DEF c
  <2>3. IsClose(values, QuantizeBlock(values, c, tie), c * 32 + i, i)
    BY <2>1, BlockClose DEF c
  <2> QED  BY <2>2, <2>3 DEF c
<1> QED  BY <1>3, <1>4 DEF QuantizedClosely, IsClose, n, blocks

-----------------------------------------------------------------------------
(* Numbers. *)

LEMMA HalfTyped ==
  ASSUME NEW h \in Halves
  PROVE  h \in Nat
<1>1. h \in 0 .. 2 ^ 16 - 1
  BY NumbersAssumption
<1> QED  BY <1>1

LEMMA ValuesTyped ==
  ASSUME NEW values \in ValueLists
  PROVE  values \in Seq(Int)
  BY NumbersAssumption

\* A call that neither converts nor quantizes.
Other == call.op # "half" /\ call.op # "quantize"

LEMMA KernelOther ==
  ASSUME NEW op \in {"matvec", "matvec_q4", "matmul", "rms_norm", "rope", "attention",
                     "short_conv", "swiglu", "logits"},
         NEW args, NEW size, NEW accepted, NEW outputs,
         \/ Kernel(op, args, size, accepted, outputs)
         \/ Checked(op, args, size, accepted, outputs)
  PROVE  Other'
<1>1. call'.op = op
  BY DEF Checked, Kernel
<1> QED  BY <1>1 DEF Other

\* Conversion and quantization keep the numbers they are given: every float is
\* its half, and every weight is within half a step of its value.
THEOREM NumbersKept == Spec => []NumbersExact
<1>1. Init => NumbersExact
  BY DEF Init, Idle, NumbersExact
<1>2. ASSUME [Next]_vars, NumbersExact
      PROVE  NumbersExact'
  <2>1. Other' => NumbersExact'
    BY DEF Other, NumbersExact
  <2>2. CASE Convert
    <3>1. PICK h \in Halves : call' = [op |-> "half", half |-> h, float |-> Fp16ToF32(h)]
      BY <2>2 DEF Convert
    <3>2. HalfExact(h, Fp16ToF32(h))
      BY HalfTyped, HalvesExact
    <3>3. call'.op = "half" /\ call'.half = h /\ call'.float = Fp16ToF32(h)
      BY <3>1
    <3> QED  BY <3>2, <3>3 DEF NumbersExact
  <2>3. CASE QuantizeQ4
    <3>1. PICK values \in ValueLists, tie \in {"down", "up"} :
            call' = [op |-> "quantize", values |-> values, blocks |-> Quantize(values, tie)]
      BY <2>3 DEF QuantizeQ4
    <3>2. QuantizedClosely(values, Quantize(values, tie))
      BY ValuesTyped, QuantizesClosely
    <3>3. /\ call'.op = "quantize" /\ call'.values = values
          /\ call'.blocks = Quantize(values, tie)
      BY <3>1
    <3> QED  BY <3>2, <3>3 DEF NumbersExact
  <2>4. CASE MatvecGguf
    BY <2>1, <2>4, KernelOther DEF MatvecGguf
  <2>5. CASE MatvecQ4
    BY <2>1, <2>5, KernelOther DEF MatvecQ4
  <2>6. CASE MatmulF32
    BY <2>1, <2>6, KernelOther DEF MatmulF32
  <2>7. CASE RmsNorm
    BY <2>1, <2>7, KernelOther DEF RmsNorm
  <2>8. CASE RopeInplace
    BY <2>1, <2>8, KernelOther DEF RopeInplace
  <2>9. CASE CausalAttention
    BY <2>1, <2>9, KernelOther DEF CausalAttention
  <2>10. CASE ShortConvolution
    BY <2>1, <2>10, KernelOther DEF ShortConvolution
  <2>11. CASE LogitsProjection
    BY <2>1, <2>11, KernelOther DEF LogitsProjection
  <2>12. CASE SwigluMlp
    BY <2>1, <2>12, KernelOther DEF SwigluMlp
  <2>13. CASE Describe
    <3>1. Other'
      BY <2>13 DEF Describe, Other
    <3> QED  BY <2>1, <3>1
  <2>14. CASE Sample
    BY <2>1, <2>14, SampleOp DEF Other
  <2>15. CASE Return
    <3>1. Other'
      BY <2>15 DEF Return, Idle, Other
    <3> QED  BY <2>1, <3>1
  <2>16. CASE UNCHANGED vars
    BY <1>2, <2>16 DEF vars, NumbersExact
  <2> QED  BY <1>2, <2>2, <2>3, <2>4, <2>5, <2>6, <2>7, <2>8,
               <2>9, <2>10, <2>11, <2>12, <2>13, <2>14, <2>15, <2>16 DEF Next
<1> QED  BY <1>1, <1>2, PTL DEF Spec

-----------------------------------------------------------------------------
(* Totals. *)

TotalFrom(s, g, n) == IF n = 0 THEN 0 ELSE g[n - 1] + s[n]

LEMMA TotalExists ==
  ASSUME NEW s, Len(s) \in Nat
  PROVE  \E g : g = [n \in 0 .. Len(s) |-> TotalFrom(s, g, n)]
<1> DEFINE N == Len(s)
           Solves(g, k) == /\ g = [n \in 0 .. N |-> g[n]]
                           /\ \A n \in 0 .. N : n <= k => g[n] = TotalFrom(s, g, n)
           S == {k \in Nat : \E g : Solves(g, k)}
<1>1. N \in Nat
  OBVIOUS
<1> HIDE DEF N
<1>2. 0 \in S
  <2> DEFINE g == [n \in 0 .. N |-> 0]
  <2>1. Solves(g, 0)
    BY DEF TotalFrom
  <2> QED  BY <2>1
<1>3. ASSUME NEW k \in Nat, k \in S
      PROVE  k + 1 \in S
  <2>1. PICK g : Solves(g, k)
    BY <1>3
  <2> DEFINE h == [n \in 0 .. N |-> IF n = k + 1 THEN TotalFrom(s, g, n) ELSE g[n]]
  <2>2. ASSUME NEW n \in 0 .. N, n <= k + 1
        PROVE  h[n] = TotalFrom(s, h, n)
    <3>1. h[n] = TotalFrom(s, g, n)
      BY <2>1, <2>2
    <3>2. n # 0 => h[n - 1] = g[n - 1]
      BY <1>1, <2>2
    <3> HIDE DEF h
    <3> QED  BY <3>1, <3>2 DEF TotalFrom
  <2>3. Solves(h, k + 1)
    BY <2>2
  <2> HIDE DEF h, Solves
  <2> QED  BY <2>3
<1>4. \A k \in Nat : k \in S => k + 1 \in S
  BY <1>3
<1> HIDE DEF S
<1>5. N \in S
  BY <1>1, <1>2, <1>4, SetInduction
<1>6. PICK g : Solves(g, N)
  BY <1>5 DEF S
<1>7. \A n \in 0 .. N : g[n] = TotalFrom(s, g, n)
  BY <1>1, <1>6
<1> QED  BY <1>6, <1>7 DEF N

\* g gives the totals of the first elements.
TotalsUpTo(s, g) == g[0] = 0 /\ \A n \in 1 .. Len(s) : g[n] = g[n - 1] + s[n]

LEMMA TotalDef ==
  ASSUME NEW s, Len(s) \in Nat
  PROVE  \E g : Total(s) = g[Len(s)] /\ TotalsUpTo(s, g)
<1> DEFINE f == CHOOSE g : g = [n \in 0 .. Len(s) |-> TotalFrom(s, g, n)]
<1>1. f = [n \in 0 .. Len(s) |-> TotalFrom(s, f, n)]
  BY TotalExists
<1>2. Total(s) = f[Len(s)]
  BY DEF Total, TotalFrom
<1> HIDE DEF f
<1> DEFINE e(n) == TotalFrom(s, f, n)
<1>3. f = [n \in 0 .. Len(s) |-> e(n)]
  BY <1>1
<1> HIDE DEF e
<1>4. \A n \in 0 .. Len(s) : f[n] = e(n)
  BY <1>3
<1>5. f[0] = 0
  BY <1>4 DEF e, TotalFrom
<1>6. ASSUME NEW n \in 1 .. Len(s)
      PROVE  f[n] = f[n - 1] + s[n]
  <2>1. n # 0 /\ n \in 0 .. Len(s)
    OBVIOUS
  <2> QED  BY <1>4, <2>1 DEF e, TotalFrom
<1> QED  BY <1>2, <1>5, <1>6 DEF TotalsUpTo

\* The total of the first m elements.
TotalTo(s, m) == Total(SubSeq(s, 1, m))

LEMMA TotalToWhole ==
  ASSUME NEW T, NEW s \in Seq(T)
  PROVE  TotalTo(s, Len(s)) = Total(s)
<1>1. SubSeq(s, 1, Len(s)) = s
  OBVIOUS
<1> QED  BY <1>1 DEF TotalTo

LEMMA TotalToNext ==
  ASSUME NEW T, NEW s \in Seq(T), NEW m \in 1 .. Len(s)
  PROVE  TotalTo(s, m) = TotalTo(s, m - 1) + s[m]
<1> DEFINE a == SubSeq(s, 1, m)
           b == SubSeq(s, 1, m - 1)
<1>1. Len(a) = m /\ \A n \in 1 .. m : a[n] = s[n]
  OBVIOUS
<1>2. Len(b) = m - 1 /\ \A n \in 1 .. m - 1 : b[n] = s[n]
  OBVIOUS
<1>3. TotalTo(s, m) = Total(a) /\ TotalTo(s, m - 1) = Total(b)
  BY DEF TotalTo
<1> HIDE DEF a, b
<1>4. PICK g : Total(a) = g[m] /\ TotalsUpTo(a, g)
  BY <1>1, TotalDef
<1>5. PICK h : Total(b) = h[m - 1] /\ TotalsUpTo(b, h)
  BY <1>2, TotalDef
<1> DEFINE S == {n \in Nat : n <= m - 1 => g[n] = h[n]}
<1>6. 0 \in S
  BY <1>4, <1>5 DEF TotalsUpTo
<1>7. ASSUME NEW n \in Nat, n \in S
      PROVE  n + 1 \in S
  <2> SUFFICES ASSUME n + 1 <= m - 1
               PROVE  g[n + 1] = h[n + 1]
    OBVIOUS
  <2>1. g[n] = h[n] /\ n + 1 \in 1 .. m - 1 /\ n + 1 \in 1 .. m /\ (n + 1) - 1 = n
    BY <1>7
  <2>2. g[n + 1] = g[n] + s[n + 1]
    BY <1>1, <1>4, <2>1 DEF TotalsUpTo
  <2>3. h[n + 1] = h[n] + s[n + 1]
    BY <1>2, <1>5, <2>1 DEF TotalsUpTo
  <2> QED  BY <2>1, <2>2, <2>3
<1>8. m - 1 \in Nat
  OBVIOUS
<1> HIDE DEF S
<1>9. m - 1 \in S
  BY <1>6, <1>7, <1>8, SetInduction
<1>10. g[m - 1] = h[m - 1]
  BY <1>8, <1>9 DEF S
<1>11. g[m] = g[m - 1] + s[m]
  BY <1>1, <1>4 DEF TotalsUpTo
<1> QED  BY <1>3, <1>4, <1>5, <1>10, <1>11

LEMMA TotalToNone ==
  ASSUME NEW T, NEW s \in Seq(T)
  PROVE  TotalTo(s, 0) = 0
<1>1. SubSeq(s, 1, 0) = <<>> /\ Len(SubSeq(s, 1, 0)) = 0
  OBVIOUS
<1>2. PICK g : Total(SubSeq(s, 1, 0)) = g[0] /\ TotalsUpTo(SubSeq(s, 1, 0), g)
  BY <1>1, TotalDef
<1> QED  BY <1>2 DEF TotalsUpTo, TotalTo

LEMMA TotalToInt ==
  ASSUME NEW s \in Seq(Int)
  PROVE  \A m \in 0 .. Len(s) : TotalTo(s, m) \in Int
<1> DEFINE S == {m \in Nat : m <= Len(s) => TotalTo(s, m) \in Int}
<1>1. 0 \in S
  BY TotalToNone
<1>2. ASSUME NEW m \in Nat, m \in S
      PROVE  m + 1 \in S
  <2> SUFFICES ASSUME m + 1 <= Len(s)
               PROVE  TotalTo(s, m + 1) \in Int
    OBVIOUS
  <2>1. m + 1 \in 1 .. Len(s) /\ (m + 1) - 1 = m /\ TotalTo(s, m) \in Int /\ s[m + 1] \in Int
    BY <1>2
  <2>2. TotalTo(s, m + 1) = TotalTo(s, m) + s[m + 1]
    BY <2>1, TotalToNext
  <2> QED  BY <2>1, <2>2
<1> HIDE DEF S
<1>3. \A m \in Nat : m \in S
  BY <1>1, <1>2, SetInduction
<1> QED  BY <1>3 DEF S

LEMMA TotalToGrows ==
  ASSUME NEW s \in Seq(Nat), NEW i \in 0 .. Len(s)
  PROVE  \A j \in i .. Len(s) : TotalTo(s, i) <= TotalTo(s, j)
<1>0. s \in Seq(Int) /\ i \in Nat
  OBVIOUS
<1>1. \A m \in 0 .. Len(s) : TotalTo(s, m) \in Int
  BY <1>0, TotalToInt
<1> DEFINE S == {d \in Nat : i + d <= Len(s) => TotalTo(s, i) <= TotalTo(s, i + d)}
<1>2. 0 \in S
  BY <1>0, <1>1
<1>3. ASSUME NEW d \in Nat, d \in S
      PROVE  d + 1 \in S
  <2> SUFFICES ASSUME i + (d + 1) <= Len(s)
               PROVE  TotalTo(s, i) <= TotalTo(s, i + (d + 1))
    OBVIOUS
  <2>1. i + (d + 1) \in 1 .. Len(s) /\ (i + (d + 1)) - 1 = i + d /\ s[i + (d + 1)] \in Nat
    BY <1>0
  <2>2. TotalTo(s, i + (d + 1)) = TotalTo(s, i + d) + s[i + (d + 1)]
    BY <2>1, TotalToNext
  <2>3. TotalTo(s, i) <= TotalTo(s, i + d) /\ i + d \in 0 .. Len(s)
    BY <1>0, <1>3
  <2>4. TotalTo(s, i) \in Int /\ TotalTo(s, i + d) \in Int
    BY <1>1, <2>3
  <2> QED  BY <2>1, <2>2, <2>3, <2>4
<1> HIDE DEF S
<1>4. \A d \in Nat : d \in S
  BY <1>2, <1>3, SetInduction
<1>5. ASSUME NEW j \in i .. Len(s)
      PROVE  TotalTo(s, i) <= TotalTo(s, j)
  <2>1. j - i \in Nat /\ i + (j - i) = j /\ j <= Len(s)
    BY <1>0
  <2>2. j - i \in S
    BY <1>4, <2>1
  <2> QED  BY <2>1, <2>2 DEF S
<1> QED  BY <1>5

LEMMA TotalToAtMost ==
  ASSUME NEW s \in Seq(Nat), NEW hi \in Nat, \A i \in 1 .. Len(s) : s[i] <= hi
  PROVE  \A m \in 0 .. Len(s) : TotalTo(s, m) <= m * hi
<1>0. s \in Seq(Int)
  OBVIOUS
<1>1. \A m \in 0 .. Len(s) : TotalTo(s, m) \in Int
  BY <1>0, TotalToInt
<1> DEFINE S == {m \in Nat : m <= Len(s) => TotalTo(s, m) <= m * hi}
<1>2. 0 \in S
  BY TotalToNone
<1>3. ASSUME NEW m \in Nat, m \in S
      PROVE  m + 1 \in S
  <2> SUFFICES ASSUME m + 1 <= Len(s)
               PROVE  TotalTo(s, m + 1) <= (m + 1) * hi
    OBVIOUS
  <2>1. m + 1 \in 1 .. Len(s) /\ (m + 1) - 1 = m /\ TotalTo(s, m) <= m * hi
    BY <1>3
  <2>2. TotalTo(s, m + 1) = TotalTo(s, m) + s[m + 1]
    BY <2>1, TotalToNext
  <2>3. TotalTo(s, m) \in Int /\ s[m + 1] \in Nat /\ s[m + 1] <= hi
    BY <1>1, <2>1
  <2>4. (m + 1) * hi = m * hi + hi /\ m * hi \in Int
    OBVIOUS
  <2> QED  BY <2>1, <2>2, <2>3, <2>4
<1> HIDE DEF S
<1>4. \A m \in Nat : m \in S
  BY <1>2, <1>3, SetInduction
<1> QED  BY <1>4 DEF S

\* p * t and a * g differ by at most d.
Near(p, t, a, g, d) == p * t - a * g <= d /\ a * g - p * t <= d

LEMMA NearAdds ==
  ASSUME NEW p \in Int, NEW q \in Int, NEW a \in Int, NEW b \in Int, NEW t \in Int, NEW g \in Int,
         NEW d \in Int, NEW e \in Int, Near(p, t, a, g, d), Near(q, t, b, g, e)
  PROVE  Near(p + q, t, a + b, g, d + e)
<1>1. (p + q) * t = p * t + q * t /\ (a + b) * g = a * g + b * g
  OBVIOUS
<1>2. p * t \in Int /\ q * t \in Int /\ a * g \in Int /\ b * g \in Int
  OBVIOUS
<1> QED  BY <1>1, <1>2 DEF Near

LEMMA TotalToNear ==
  ASSUME NEW s \in Seq(Int), NEW w \in Seq(Int), Len(s) = Len(w),
         NEW t \in Int, NEW g \in Int, NEW d \in Int,
         \A i \in 1 .. Len(w) : Near(s[i], t, w[i], g, d)
  PROVE  \A m \in 0 .. Len(w) : Near(TotalTo(s, m), t, TotalTo(w, m), g, m * d)
<1>1. \A m \in 0 .. Len(w) : TotalTo(s, m) \in Int /\ TotalTo(w, m) \in Int
  BY TotalToInt
<1> DEFINE S == {m \in Nat : m <= Len(w) => Near(TotalTo(s, m), t, TotalTo(w, m), g, m * d)}
<1>2. 0 \in S
  <2>1. TotalTo(s, 0) = 0 /\ TotalTo(w, 0) = 0
    BY TotalToNone
  <2>2. Near(0, t, 0, g, 0 * d)
    BY DEF Near
  <2> QED  BY <2>1, <2>2
<1>3. ASSUME NEW m \in Nat, m \in S
      PROVE  m + 1 \in S
  <2> SUFFICES ASSUME m + 1 <= Len(w)
               PROVE  Near(TotalTo(s, m + 1), t, TotalTo(w, m + 1), g, (m + 1) * d)
    OBVIOUS
  <2>1. m + 1 \in 1 .. Len(w) /\ (m + 1) - 1 = m /\ Near(TotalTo(s, m), t, TotalTo(w, m), g, m * d)
    BY <1>3
  <2>2. TotalTo(s, m + 1) = TotalTo(s, m) + s[m + 1] /\ TotalTo(w, m + 1) = TotalTo(w, m) + w[m + 1]
    BY <2>1, TotalToNext
  <2>3. TotalTo(s, m) \in Int /\ TotalTo(w, m) \in Int /\ s[m + 1] \in Int /\ w[m + 1] \in Int
    BY <1>1, <2>1
  <2>4. (m + 1) * d = m * d + d /\ m * d \in Int
    OBVIOUS
  <2>5. Near(s[m + 1], t, w[m + 1], g, d)
    BY <2>1
  <2>6. Near(TotalTo(s, m) + s[m + 1], t, TotalTo(w, m) + w[m + 1], g, m * d + d)
    BY <2>1, <2>3, <2>4, <2>5, NearAdds
  <2> QED  BY <2>2, <2>4, <2>6
<1> HIDE DEF S
<1>4. \A m \in Nat : m \in S
  BY <1>2, <1>3, SetInduction
<1> QED  BY <1>4 DEF S

\* The first m of the first n are the first m.
LEMMA TotalToCut ==
  ASSUME NEW T, NEW s \in Seq(T), NEW n \in 0 .. Len(s), NEW m \in 0 .. n
  PROVE  TotalTo(SubSeq(s, 1, n), m) = TotalTo(s, m)
<1>1. SubSeq(SubSeq(s, 1, n), 1, m) = SubSeq(s, 1, m)
  OBVIOUS
<1> QED  BY <1>1 DEF TotalTo

-----------------------------------------------------------------------------
(* Shares, and where they are cut and drawn. *)

\* q is n / t, rounded down or up.
RoundedTo(q, n, t) == \E r \in {0, t - 1} : q = (n + r) \div t

LEMMA RoundedNear ==
  ASSUME NEW n \in Nat, NEW t \in Nat \ {0}, NEW q, RoundedTo(q, n, t)
  PROVE  /\ q \in Nat /\ q * t - n <= t - 1 /\ n - q * t <= t - 1
         /\ n = 0 => q = 0
         /\ n >= t => q >= 1
<1>1. PICK r \in {0, t - 1} : q = (n + r) \div t
  BY DEF RoundedTo
<1>2. n + r \in Nat /\ n + r >= n /\ n + r <= n + t - 1
  OBVIOUS
<1> DEFINE x == n + r
           m == x % t
<1>3. x \in Nat /\ x >= n /\ x <= n + t - 1
  BY <1>2
<1>4. q = x \div t
  BY <1>1
<1> HIDE DEF x
<1>5. q \in Nat /\ m \in 0 .. t - 1 /\ x = q * t + m
  BY <1>3, <1>4
<1>6. q * t \in Nat
  BY <1>5
<1> HIDE DEF m
<1>7. q * t - n <= t - 1 /\ n - q * t <= t - 1
  BY <1>3, <1>5, <1>6
<1>8. ASSUME q >= 1
      PROVE  q * t >= t
  BY <1>5, <1>8
<1>9. n = 0 => q = 0
  BY <1>5, <1>7, <1>8, <1>6
<1>10. n >= t => q >= 1
  <2>1. ASSUME q = 0
        PROVE  q * t = 0
    BY <2>1
  <2> QED  BY <1>5, <1>6, <1>7, <2>1
<1> QED  BY <1>5, <1>7, <1>9, <1>10

LEMMA RoundedExact ==
  ASSUME NEW n \in Nat, NEW t \in Nat \ {0}, NEW q, RoundedTo(q, n, t), n % t = 0
  PROVE  q * t = n
<1> DEFINE c == n \div t
<1>1. c \in Nat /\ n = c * t
  OBVIOUS
<1>2. q \in Nat /\ q * t - n <= t - 1 /\ n - q * t <= t - 1
  BY RoundedNear
<1> HIDE DEF c
<1>3. (q - c) * t = q * t - n
  BY <1>1, <1>2
<1>4. ASSUME q - c >= 1
      PROVE  (q - c) * t >= t
  BY <1>1, <1>2, <1>4
<1>5. ASSUME c - q >= 1
      PROVE  (c - q) * t >= t
  BY <1>1, <1>2, <1>5
<1>6. (c - q) * t = n - q * t
  BY <1>1, <1>2
<1>7. q * t \in Int
  BY <1>2
<1>8. ~(q - c >= 1) /\ ~(c - q >= 1)
  BY <1>2, <1>3, <1>4, <1>5, <1>6, <1>7
<1>9. q = c
  BY <1>1, <1>2, <1>8
<1> QED  BY <1>1, <1>9

\* s are the shares of w, each rounded.
AreShares(s, w, t) ==
  /\ s \in Seq(Nat) /\ Len(s) = Len(w)
  /\ \A i \in 1 .. Len(w) : RoundedTo(s[i], w[i] * Grid, t)

LEMMA SharesRounded ==
  ASSUME NEW w \in Seq(Nat), Total(w) \in Nat \ {0}, NEW s \in Shares(w)
  PROVE  AreShares(s, w, Total(w))
<1> DEFINE t == Total(w)
<1>1. PICK up \in SUBSET DOMAIN w :
        s = [i \in DOMAIN w |-> (w[i] * Grid + IF i \in up THEN t - 1 ELSE 0) \div t]
  BY DEF Shares
<1>2. t \in Nat \ {0}
  OBVIOUS
<1> HIDE DEF t
<1>3. DOMAIN w = 1 .. Len(w) /\ Len(w) \in Nat
  OBVIOUS
<1>4. ASSUME NEW i \in 1 .. Len(w)
      PROVE  RoundedTo(s[i], w[i] * Grid, t) /\ s[i] \in Nat
  <2>1. w[i] \in Nat /\ Grid \in Nat
    BY GridAssumption
  <2>2. w[i] * Grid \in Nat
    BY <2>1
  <2>3. s[i] = (w[i] * Grid + IF i \in up THEN t - 1 ELSE 0) \div t
    BY <1>1, <1>3
  <2>4. (IF i \in up THEN t - 1 ELSE 0) \in {0, t - 1}
    OBVIOUS
  <2>5. RoundedTo(s[i], w[i] * Grid, t)
    BY <2>3, <2>4 DEF RoundedTo
  <2>6. s[i] \in Nat
    BY <1>2, <2>2, <2>5, RoundedNear
  <2> QED  BY <2>5, <2>6
<1>5. s = [i \in 1 .. Len(w) |-> s[i]]
  BY <1>1, <1>3
<1>6. s \in Seq(Nat) /\ Len(s) = Len(w)
  <2>1. s \in [1 .. Len(w) -> Nat]
    BY <1>4, <1>5
  <2> QED  BY <1>3, <2>1
<1> QED  BY <1>4, <1>6 DEF AreShares, t

-----------------------------------------------------------------------------

\* The first m elements reach x.
Reaches(s, m, x) == x <= TotalTo(s, m)

\* n is where s reaches x first, or its end.
FirstReach(s, x, n) ==
  /\ n \in 1 .. Len(s)
  /\ \A m \in 1 .. n - 1 : ~Reaches(s, m, x)
  /\ n = Len(s) \/ Reaches(s, n, x)

LEMMA DrawnFirst ==
  ASSUME NEW s \in Seq(Nat), Len(s) # 0, NEW x \in Int
  PROVE  FirstReach(s, x, Drawn(s, x))
<1> DEFINE R == {i \in DOMAIN s : x <= Total(SubSeq(s, 1, i))}
<1>1. R = {i \in 1 .. Len(s) : Reaches(s, i, x)}
  BY DEF Reaches, TotalTo
<1>2. Drawn(s, x) = IF R = {} THEN Len(s) ELSE CHOOSE i \in R : \A j \in R : i <= j
  BY DEF Drawn
<1> HIDE DEF R
<1>3. Len(s) \in Nat /\ Len(s) >= 1
  OBVIOUS
<1>4. CASE R = {}
  <2>1. Drawn(s, x) = Len(s)
    BY <1>2, <1>4
  <2>2. \A m \in 1 .. Len(s) - 1 : ~Reaches(s, m, x)
    BY <1>1, <1>4
  <2> QED  BY <1>3, <2>1, <2>2 DEF FirstReach
<1>5. CASE R # {}
  <2> DEFINE n == CHOOSE i \in R : \A j \in R : i <= j
  <2>1. R \subseteq Nat
    BY <1>1
  <2>2. \E i \in R : \A j \in R : i <= j
    BY <1>5, <2>1, NatSetHasLeast
  <2>3. n \in R /\ \A j \in R : n <= j
    BY <2>2
  <2>4. Drawn(s, x) = n
    BY <1>2, <1>5
  <2> HIDE DEF n
  <2>5. n \in 1 .. Len(s) /\ Reaches(s, n, x)
    BY <1>1, <2>3
  <2>6. ASSUME NEW m \in 1 .. n - 1
        PROVE  ~Reaches(s, m, x)
    <3>1. m \in 1 .. Len(s) /\ m < n
      BY <2>5
    <3>2. m \notin R
      BY <2>1, <2>3, <3>1
    <3> QED  BY <1>1, <3>1, <3>2
  <2> QED  BY <2>4, <2>5, <2>6 DEF FirstReach
<1> QED  BY <1>4, <1>5

LEMMA KeepFirst ==
  ASSUME NEW s \in Seq(Nat), Len(s) # 0, NEW x \in Int
  PROVE  FirstReach(s, x, Keep(s, x))
<1>0. s \in Seq(Int)
  OBVIOUS
<1>1. \A i \in 0 .. Len(s) : TotalTo(s, i) \in Int
  BY <1>0, TotalToInt
<1> DEFINE R == {i \in DOMAIN s : x <= Total(SubSeq(s, 1, i))}
           Q == {i \in DOMAIN s : Total(SubSeq(s, 1, i)) >= x}
<1>2. R = Q
  BY <1>1 DEF TotalTo
<1>3. Keep(s, x) = IF Q = {} THEN Len(s) ELSE CHOOSE i \in Q : \A j \in Q : i <= j
  BY DEF Keep
<1>4. Drawn(s, x) = IF R = {} THEN Len(s) ELSE CHOOSE i \in R : \A j \in R : i <= j
  BY DEF Drawn
<1> HIDE DEF R, Q
<1>5. Keep(s, x) = Drawn(s, x)
  BY <1>2, <1>3, <1>4
<1> QED  BY <1>5, DrawnFirst

LEMMA FirstReachUnique ==
  ASSUME NEW s, Len(s) \in Nat, NEW x, NEW n, NEW m, FirstReach(s, x, n), FirstReach(s, x, m)
  PROVE  n = m
<1>1. n \in 1 .. Len(s) /\ m \in 1 .. Len(s)
  BY DEF FirstReach
<1>2. ASSUME n < m
      PROVE  FALSE
  <2>1. n \in 1 .. m - 1 /\ n # Len(s)
    BY <1>1, <1>2
  <2> QED  BY <2>1 DEF FirstReach
<1>3. ASSUME m < n
      PROVE  FALSE
  <2>1. m \in 1 .. n - 1 /\ m # Len(s)
    BY <1>1, <1>3
  <2> QED  BY <2>1 DEF FirstReach
<1> QED  BY <1>1, <1>2, <1>3

-----------------------------------------------------------------------------

\* The values of u that draw i.
DrawsOf(s, i) == {u \in 0 .. Grid - 1 : Drawn(s, u) = i}

LEMMA DrawsAsMany ==
  ASSUME NEW s \in Seq(Nat), NEW i \in 1 .. Len(s), Total(s) = Grid
  PROVE  /\ Cardinality(DrawsOf(s, i)) \in Nat
         /\ Cardinality(DrawsOf(s, i)) - s[i] <= 1
         /\ s[i] - Cardinality(DrawsOf(s, i)) <= 1
<1> DEFINE P(m) == TotalTo(s, m)
           n == Len(s)
           lo == IF i = 1 THEN 0 ELSE P(i - 1) + 1
           hi == IF P(i) <= Grid - 1 THEN P(i) ELSE Grid - 1
<1>0. Grid \in Nat /\ Grid >= 1 /\ s \in Seq(Int) /\ n \in Nat
  BY GridAssumption
<1>1. \A m \in 0 .. n : P(m) \in Int
  BY <1>0, TotalToInt
<1>2. P(n) = Grid
  BY TotalToWhole
<1>3. ASSUME NEW a \in 0 .. n, NEW b \in a .. n
      PROVE  P(a) <= P(b)
  BY TotalToGrows
<1>4. P(i) = P(i - 1) + s[i]
  BY TotalToNext
<1>5. P(0) = 0
  BY TotalToNone
<1> HIDE DEF n
<1>6. i \in 1 .. n /\ i - 1 \in 0 .. n /\ i \in 0 .. n /\ n \in 0 .. n
  BY <1>0 DEF n
<1>7. P(i) <= Grid /\ P(i) \in Int /\ P(i - 1) \in Int /\ s[i] \in Nat /\ P(i - 1) >= 0
  <2>1. P(i) <= P(n)
    BY <1>3, <1>6
  <2>2. P(0) <= P(i - 1)
    BY <1>3, <1>6
  <2> QED  BY <1>1, <1>2, <1>5, <1>6, <2>1, <2>2
<1>8. ASSUME NEW u \in 0 .. Grid - 1
      PROVE  Drawn(s, u) = i <=> u \in lo .. hi
  <2>0. FirstReach(s, u, Drawn(s, u))
    BY <1>0, <1>6, DrawnFirst DEF n
  <2>1. Reaches(s, n, u)
    BY <1>0, <1>2 DEF Reaches
  <2>2. ASSUME Drawn(s, u) = i
        PROVE  u \in lo .. hi
    <3>1. Reaches(s, i, u)
      BY <2>0, <2>1, <2>2 DEF FirstReach, n
    <3>2. i # 1 => ~Reaches(s, i - 1, u)
      <4>1. i # 1 => i - 1 \in 1 .. i - 1
        BY <1>6
      <4> QED  BY <2>0, <2>2, <4>1 DEF FirstReach
    <3>3. u <= P(i) /\ (i # 1 => ~(u <= P(i - 1)))
      BY <3>1, <3>2 DEF Reaches
    <3> HIDE DEF P
    <3> QED  BY <1>0, <1>7, <3>3
  <2>3. ASSUME u \in lo .. hi
        PROVE  Drawn(s, u) = i
    <3>1. u <= P(i) /\ (i # 1 => u > P(i - 1))
      <4> HIDE DEF P
      <4> QED  BY <1>0, <1>7, <2>3
    <3>2. Reaches(s, i, u)
      BY <3>1 DEF Reaches
    <3>3. ASSUME NEW m \in 1 .. i - 1
          PROVE  ~Reaches(s, m, u)
      <4>1. m \in 0 .. n /\ i - 1 \in m .. n /\ i # 1
        BY <1>0, <1>6
      <4>2. P(m) <= P(i - 1) /\ P(m) \in Int
        BY <1>1, <1>3, <4>1
      <4>3. u > P(i - 1)
        BY <3>1, <4>1
      <4> HIDE DEF P
      <4>4. ~(u <= P(m))
        BY <1>7, <4>2, <4>3
      <4> QED  BY <4>4 DEF Reaches, P
    <3>4. FirstReach(s, u, i)
      BY <1>6, <3>2, <3>3 DEF FirstReach, n
    <3> QED  BY <1>0, <2>0, <3>4, FirstReachUnique DEF n
  <2> QED  BY <2>2, <2>3
<1> HIDE DEF P
<1>9. lo \in Nat /\ hi \in Int /\ hi <= Grid - 1
  BY <1>0, <1>7
<1>10. DrawsOf(s, i) = lo .. hi
  <2> HIDE DEF lo, hi
  <2>1. \A u \in lo .. hi : u \in 0 .. Grid - 1
    BY <1>0, <1>9
  <2> QED  BY <1>8, <2>1 DEF DrawsOf
<1>11. Cardinality(DrawsOf(s, i)) = IF lo > hi THEN 0 ELSE hi - lo + 1
  <2> HIDE DEF lo, hi
  <2>1. lo \in Int /\ hi \in Int
    BY <1>9
  <2> QED  BY <1>10, <2>1, FS_Interval
<1> DEFINE c == Cardinality(DrawsOf(s, i))
<1>12. c = IF lo > hi THEN 0 ELSE hi - lo + 1
  BY <1>11
<1> HIDE DEF c
<1>13. i = 1 => P(i - 1) = 0
  BY <1>5
<1>14. c \in Nat /\ c - s[i] <= 1 /\ s[i] - c <= 1
  <2> DEFINE p == P(i)
             o == P(i - 1)
             e == s[i]
  <2>1. /\ p \in Int /\ o \in Int /\ e \in Nat /\ o >= 0 /\ p <= Grid /\ p = o + e
        /\ i = 1 => o = 0
    BY <1>4, <1>7, <1>13
  <2>2. lo = IF i = 1 THEN 0 ELSE o + 1
    OBVIOUS
  <2>3. hi = IF p <= Grid - 1 THEN p ELSE Grid - 1
    OBVIOUS
  <2> HIDE DEF p, o, e, lo, hi
  <2>4. c \in Nat /\ c - e <= 1 /\ e - c <= 1
    BY <1>0, <1>12, <2>1, <2>2, <2>3
  <2> QED  BY <2>4 DEF e
<1> QED  BY <1>14 DEF c

\* An element that adds nothing is drawn only as the last, unless it is the first.
LEMMA NothingDrawnLast ==
  ASSUME NEW s \in Seq(Nat), NEW u \in Int, NEW d, d = Drawn(s, u), Len(s) # 0,
         s[d] = 0, d # 1
  PROVE  d = Len(s)
<1>1. FirstReach(s, u, d)
  BY DrawnFirst
<1>2. d \in 1 .. Len(s) /\ d - 1 \in 1 .. d - 1
  BY <1>1 DEF FirstReach
<1>3. TotalTo(s, d) = TotalTo(s, d - 1) + s[d]
  BY <1>2, TotalToNext
<1>4. TotalTo(s, d - 1) \in Int
  <2>1. s \in Seq(Int) /\ d - 1 \in 0 .. Len(s)
    BY <1>2
  <2> QED  BY <2>1, TotalToInt
<1>5. TotalTo(s, d) = TotalTo(s, d - 1)
  BY <1>3, <1>4
<1>6. ~Reaches(s, d - 1, u)
  BY <1>1, <1>2 DEF FirstReach
<1>7. ~Reaches(s, d, u)
  BY <1>5, <1>6 DEF Reaches
<1> QED  BY <1>1, <1>7 DEF FirstReach

-----------------------------------------------------------------------------
(* Candidates. *)

LEMMA DistinctCounted ==
  ASSUME NEW N \in Nat, NEW s, NEW T,
         \A i \in 1 .. N : s[i] \in T, \A t \in T : \E i \in 1 .. N : s[i] = t,
         \A a \in 1 .. N : \A b \in 1 .. N : s[a] = s[b] => a = b
  PROVE  Cardinality(T) = N
<1> DEFINE S == 1 .. N
           f == [i \in S |-> s[i]]
<1>1. IsFiniteSet(S) /\ Cardinality(S) = N
  BY FS_Interval
<1>2. f \in [S -> T]
  OBVIOUS
<1>3. \A a, b \in S : f[a] = f[b] => a = b
  OBVIOUS
<1>4. \A t \in T : \E i \in S : f[i] = t
  OBVIOUS
<1>5. f \in Bijection(S, T)
  <2> HIDE DEF f, S
  <2>1. f \in Injection(S, T)
    BY <1>2, <1>3 DEF Injection, IsInjective
  <2>2. f \in Surjection(S, T)
    BY <1>2, <1>4 DEF Surjection
  <2> QED  BY <2>1, <2>2 DEF Bijection
<1> HIDE DEF f, S
<1>6. ExistsBijection(S, T)
  BY <1>5 DEF ExistsBijection
<1> QED  BY <1>1, <1>6, FS_Bijection DEF S

\* ids are k candidates of the greatest logits, greatest first.
FirstOnes(ids, k, logits) ==
  /\ ids \in [1 .. k -> DOMAIN logits]
  /\ \A i, j \in 1 .. k : ids[i] = ids[j] => i = j
  /\ \A i, j \in 1 .. k : i <= j => logits[ids[i]] >= logits[ids[j]]
  /\ \A i \in 1 .. k : \A t \in DOMAIN logits :
       (\A j \in 1 .. i : ids[j] # t) => logits[ids[i]] >= logits[t]

LEMMA SortsSorted ==
  ASSUME NEW logits \in Seq(Int), NEW k \in Nat, NEW ids \in PartialSorts(k, logits)
  PROVE  FirstOnes(ids, k, logits)
<1>1. ids \in [1 .. k -> DOMAIN logits] /\ \A i, j \in 1 .. k : i # j => ids[i] # ids[j]
  BY DEF PartialSorts
<1>2. \A i \in 1 .. k : \A t \in DOMAIN logits \ {ids[j] : j \in 1 .. i} : logits[ids[i]] >= logits[t]
  BY DEF PartialSorts
<1>3. \A i \in 1 .. k : \A t \in DOMAIN logits :
        (\A j \in 1 .. i : ids[j] # t) => logits[ids[i]] >= logits[t]
  BY <1>2
<1>4. \A i \in 1 .. k : logits[ids[i]] \in Int
  BY <1>1
<1>5. ASSUME NEW i \in 1 .. k, NEW j \in 1 .. k, i <= j
      PROVE  logits[ids[i]] >= logits[ids[j]]
  <2>1. CASE i = j
    BY <1>4, <2>1
  <2>2. CASE i # j
    <3>1. \A l \in 1 .. i : ids[l] # ids[j]
      BY <1>1, <1>5, <2>2
    <3> QED  BY <1>1, <1>3, <3>1
  <2> QED  BY <2>1, <2>2
<1> QED  BY <1>1, <1>3, <1>5 DEF FirstOnes

LEMMA SameLogits ==
  ASSUME NEW logits \in Seq(Int), NEW k \in Nat, NEW a, NEW b,
         FirstOnes(a, k, logits), FirstOnes(b, k, logits), NEW i \in 1 .. k
  PROVE  logits[a[i]] <= logits[b[i]]
<1>1. \A j \in 1 .. k : logits[a[j]] \in Int /\ logits[b[j]] \in Int
  BY DEF FirstOnes
<1>2. ASSUME logits[a[i]] > logits[b[i]]
      PROVE  FALSE
  <2> DEFINE S == 1 .. i
             T == 1 .. i - 1
             f == [j \in S |-> CHOOSE l \in T : b[l] = a[j]]
  <2>1. ASSUME NEW j \in S
        PROVE  \E l \in T : b[l] = a[j]
    <3>1. j \in 1 .. k /\ a[j] \in DOMAIN logits /\ logits[a[j]] >= logits[a[i]]
      BY DEF FirstOnes
    <3>2. ~(logits[b[i]] >= logits[a[j]])
      BY <1>1, <1>2, <3>1
    <3>3. PICK l \in 1 .. i : b[l] = a[j]
      BY <3>1, <3>2 DEF FirstOnes
    <3>4. l # i
      BY <1>1, <3>1, <3>2, <3>3
    <3> QED  BY <3>3, <3>4
  <2>2. \A j \in S : f[j] \in T /\ b[f[j]] = a[j]
    BY <2>1
  <2>3. f \in [S -> T]
    BY <2>1
  <2>4. IsFiniteSet(S) /\ Cardinality(S) = i
    BY FS_Interval
  <2>5. IsFiniteSet(T) /\ Cardinality(T) = i - 1
    BY FS_Interval
  <2> HIDE DEF f
  <2>6. PICK x, y \in S : x # y /\ f[x] = f[y]
    <3>1. Cardinality(T) < Cardinality(S)
      BY <2>4, <2>5
    <3> HIDE DEF S, T
    <3> QED  BY <2>3, <2>4, <2>5, <3>1, FS_PigeonHole
  <2>7. a[x] = a[y] /\ x \in 1 .. k /\ y \in 1 .. k
    BY <2>2, <2>6
  <2> QED  BY <2>6, <2>7 DEF FirstOnes
<1> QED  BY <1>1, <1>2

LEMMA SameWeights ==
  ASSUME NEW logits \in Seq(Int), NEW k \in Nat, NEW temperature,
         NEW a \in PartialSorts(k, logits), NEW b \in PartialSorts(k, logits)
  PROVE  Weights(a, logits, temperature) = Weights(b, logits, temperature)
<1>1. FirstOnes(a, k, logits) /\ FirstOnes(b, k, logits)
  BY SortsSorted
<1>2. \A i \in 1 .. k : logits[a[i]] \in Int /\ logits[b[i]] \in Int
  BY <1>1 DEF FirstOnes
<1>3. \A i \in 1 .. k : logits[a[i]] <= logits[b[i]] /\ logits[b[i]] <= logits[a[i]]
  BY <1>1, SameLogits
<1>4. \A i \in 1 .. k : logits[a[i]] = logits[b[i]]
  BY <1>2, <1>3
<1>5. DOMAIN a = 1 .. k /\ DOMAIN b = 1 .. k
  BY <1>1 DEF FirstOnes
<1>6. \A i \in 1 .. k : logits[a[1]] = logits[b[1]]
  BY <1>4
<1>7. \A i \in 1 .. k : Weight(logits[a[1]] - logits[a[i]], temperature)
                        = Weight(logits[b[1]] - logits[b[i]], temperature)
  BY <1>4, <1>6
<1> QED  BY <1>5, <1>7 DEF Weights

\* Weights of which the first is greatest, and large enough for a share of its own.
AreWeights(w, k) ==
  /\ w \in Seq(Nat) /\ Len(w) = k /\ w[1] >= 1
  /\ Total(w) \in Nat \ {0} /\ w[1] * Grid >= Total(w)

LEMMA WeightsTyped ==
  ASSUME NEW logits \in LogitLists, NEW temperature \in Temperatures, temperature # 0,
         NEW k \in 1 .. Len(logits), NEW ids \in PartialSorts(k, logits)
  PROVE  AreWeights(Weights(ids, logits, temperature), k)
<1> DEFINE w == Weights(ids, logits, temperature)
           m == Weight(0, temperature)
<1>1. logits \in Seq(Int) /\ Len(logits) <= Grid /\ k \in Nat /\ k >= 1 /\ k <= Grid /\ Grid \in Nat
  BY LogitsAssumption, WeightsAssumption, GridAssumption
<1>2. FirstOnes(ids, k, logits)
  BY <1>1, SortsSorted
<1>3. m \in Nat \ {0} /\ \A d \in Distances : Weight(d, temperature) \in 0 .. m
  BY WeightsAssumption
<1>4. DOMAIN ids = 1 .. k /\ \A i \in 1 .. k : ids[i] \in DOMAIN logits /\ logits[ids[i]] \in Int
  BY <1>1, <1>2 DEF FirstOnes
<1>5. \A i \in 1 .. k : logits[ids[1]] >= logits[ids[i]]
  BY <1>1, <1>2 DEF FirstOnes
<1>6. w = [i \in 1 .. k |-> Weight(logits[ids[1]] - logits[ids[i]], temperature)]
  BY <1>4 DEF Weights
<1> HIDE DEF w, m
<1>7. ASSUME NEW i \in 1 .. k
      PROVE  w[i] \in Nat /\ w[i] <= m
  <2> DEFINE d == logits[ids[1]] - logits[ids[i]]
  <2>1. d \in Nat
    BY <1>1, <1>4, <1>5
  <2>2. d \in {logits[x] - logits[y] : x, y \in DOMAIN logits}
    BY <1>1, <1>4
  <2>3. d \in Distances
    <3> DEFINE Below(l) == {l[x] - l[y] : x, y \in DOMAIN l}
    <3>1. Distances = Nat \cap UNION {Below(l) : l \in LogitLists}
      BY DEF Distances
    <3>2. d \in Below(logits)
      BY <2>2
    <3> HIDE DEF d, Below
    <3>3. Below(logits) \in {Below(l) : l \in LogitLists}
      OBVIOUS
    <3>4. d \in UNION {Below(l) : l \in LogitLists}
      BY <3>2, <3>3
    <3> QED  BY <2>1, <3>1, <3>4
  <2>4. w[i] = Weight(d, temperature)
    BY <1>6
  <2> HIDE DEF d
  <2> QED  BY <1>3, <2>3, <2>4
<1>8. w[1] = m
  <2>1. logits[ids[1]] - logits[ids[1]] = 0 /\ 1 \in 1 .. k
    BY <1>1, <1>4
  <2> QED  BY <1>6, <2>1 DEF m
<1>9. w \in Seq(Nat) /\ Len(w) = k
  <2>1. w \in [1 .. k -> Nat]
    BY <1>6, <1>7
  <2> QED  BY <1>1, <2>1
<1>10. TotalTo(w, k) <= k * m
  <2>1. \A i \in 1 .. Len(w) : w[i] <= m
    BY <1>7, <1>9
  <2>2. m \in Nat /\ k \in 0 .. Len(w)
    BY <1>1, <1>3, <1>9
  <2> QED  BY <1>9, <2>1, <2>2, TotalToAtMost
<1>11. TotalTo(w, k) = Total(w)
  BY <1>9, TotalToWhole
<1>12. TotalTo(w, 1) = w[1]
  <2>1. TotalTo(w, 1) = TotalTo(w, 1 - 1) + w[1]
    BY <1>1, <1>9, TotalToNext
  <2>2. TotalTo(w, 0) = 0 /\ w[1] \in Int
    BY <1>3, <1>8, <1>9, TotalToNone
  <2> QED  BY <2>1, <2>2
<1>13. TotalTo(w, 1) <= TotalTo(w, k) /\ TotalTo(w, k) \in Int
  <2>1. 1 \in 0 .. Len(w) /\ k \in 1 .. Len(w) /\ w \in Seq(Int)
    BY <1>1, <1>9
  <2> QED  BY <1>9, <2>1, TotalToGrows, TotalToInt
<1>14. Total(w) \in Nat \ {0}
  BY <1>3, <1>8, <1>11, <1>12, <1>13
<1>15. k * m <= Grid * m
  BY <1>1, <1>3
<1>16. w[1] * Grid >= Total(w)
  <2>1. k * m \in Int /\ m * Grid = Grid * m /\ m * Grid \in Int
    BY <1>1, <1>3
  <2> QED  BY <1>8, <1>10, <1>11, <1>13, <1>15, <2>1
<1> QED  BY <1>3, <1>8, <1>9, <1>14, <1>16 DEF AreWeights, w

-----------------------------------------------------------------------------

\* What the probabilities drawn from promise, of the weights they were made of.
IsNucleus(final, w, topP) ==
  LET n == Len(final) IN
  /\ final \in Seq(Nat) /\ n \in 1 .. Len(w)
  /\ topP < Grid =>
       /\ n > 1 => TotalTo(w, n - 1) * Grid < (topP + n) * Total(w)
       /\ n = Len(w) \/ TotalTo(w, n) * Grid > (topP - n) * Total(w)
  /\ topP >= Grid => n = Len(w)
  /\ \A i \in 1 .. n : w[i] = 0 => final[i] = 0
  /\ (/\ \A i \in 1 .. Len(w) : (w[i] * Grid) % Total(w) = 0
      /\ \A i \in 1 .. n : (w[i] * Grid) % TotalTo(w, n) = 0)
     => \A i \in 1 .. n : final[i] * TotalTo(w, n) = w[i] * Grid

LEMMA NothingShared ==
  ASSUME NEW s, NEW w \in Seq(Nat), NEW t \in Nat \ {0}, AreShares(s, w, t),
         NEW i \in 1 .. Len(w)
  PROVE  /\ s[i] \in Nat /\ w[i] * Grid \in Nat
         /\ w[i] = 0 => s[i] = 0
         /\ w[i] * Grid >= t => s[i] >= 1
         /\ Near(s[i], t, w[i], Grid, t - 1)
         /\ (w[i] * Grid) % t = 0 => s[i] * t = w[i] * Grid
<1>1. w[i] \in Nat /\ Grid \in Nat /\ RoundedTo(s[i], w[i] * Grid, t)
  BY GridAssumption DEF AreShares
<1>2. w[i] * Grid \in Nat /\ (w[i] = 0 => w[i] * Grid = 0)
  BY <1>1
<1>3. /\ s[i] \in Nat
      /\ s[i] * t - w[i] * Grid <= t - 1 /\ w[i] * Grid - s[i] * t <= t - 1
      /\ w[i] * Grid = 0 => s[i] = 0
      /\ w[i] * Grid >= t => s[i] >= 1
  BY <1>1, <1>2, RoundedNear
<1>4. (w[i] * Grid) % t = 0 => s[i] * t = w[i] * Grid
  BY <1>1, <1>2, RoundedExact
<1> QED  BY <1>2, <1>3, <1>4 DEF Near

LEMMA UncutNucleus ==
  ASSUME NEW w, NEW k \in Nat \ {0}, AreWeights(w, k), NEW s \in Shares(w),
         NEW topP \in Int, topP >= Grid
  PROVE  IsNucleus(s, w, topP)
<1> DEFINE t == Total(w)
<1>1. w \in Seq(Nat) /\ Len(w) = k /\ t \in Nat \ {0}
  BY DEF AreWeights
<1>2. AreShares(s, w, t)
  BY <1>1, SharesRounded
<1>3. s \in Seq(Nat) /\ Len(s) = k
  BY <1>1, <1>2 DEF AreShares
<1>4. TotalTo(w, k) = t
  BY <1>1, TotalToWhole
<1> HIDE DEF t
<1>5. \A i \in 1 .. k : /\ w[i] = 0 => s[i] = 0
                        /\ (w[i] * Grid) % t = 0 => s[i] * t = w[i] * Grid
  BY <1>1, <1>2, NothingShared
<1>6. ~(topP < Grid) /\ k \in 1 .. k
  BY GridAssumption
<1> QED  BY <1>1, <1>3, <1>4, <1>5, <1>6 DEF IsNucleus, t

\* A share of what was kept is a share of all, kept.
LEMMA ShareOfKept ==
  ASSUME NEW p \in Nat, NEW t \in Nat \ {0}, NEW x \in Nat, NEW g \in Nat, NEW v \in Nat,
         NEW z \in Nat, NEW c \in Nat, p * t = x * g, z * t = v * g, x * g = c * v
  PROVE  p * g = c * z
<1> DEFINE d == p * g - c * z
<1>1. d * t = 0
  <2>1. d * t = (p * t) * g - c * (z * t)
    OBVIOUS
  <2>2. (p * t) * g = (c * v) * g
    OBVIOUS
  <2>3. c * (z * t) = (c * v) * g
    OBVIOUS
  <2>4. (c * v) * g \in Int
    OBVIOUS
  <2> HIDE DEF d
  <2> QED  BY <2>1, <2>2, <2>3, <2>4
<1>2. d \in Int
  OBVIOUS
<1>3. d = 0
  <2> HIDE DEF d
  <2> QED  BY <1>1, <1>2
<1>4. p * g \in Int /\ c * z \in Int
  OBVIOUS
<1> QED  BY <1>3, <1>4

\* The bounds of the sums kept, from those of the rounded.
LEMMA CutBounds ==
  ASSUME NEW p \in Int, NEW a \in Int, NEW t \in Nat \ {0}, NEW g \in Nat, NEW x \in Int,
         NEW m \in Nat, Near(p, t, a, g, m * (t - 1))
  PROVE  /\ p < x => a * g < (x + (m + 1)) * t
         /\ p >= x /\ m # 0 => a * g > (x - m) * t
<1> DEFINE P == p * t
           A == a * g
           X == x * t
           M == m * t
<1>1. P \in Int /\ A \in Int /\ X \in Int /\ M \in Int
  OBVIOUS
<1>2. m * (t - 1) = M - m
  OBVIOUS
<1>3. P - A <= M - m /\ A - P <= M - m
  BY <1>2 DEF Near
<1>4. (x + (m + 1)) * t = X + M + t /\ (x - m) * t = X - M
  OBVIOUS
<1>5. p < x => P <= X - t
  <2> SUFFICES ASSUME p < x
               PROVE  P <= X - t
    OBVIOUS
  <2>1. x - p - 1 \in Nat
    OBVIOUS
  <2>2. (x - p - 1) * t >= 0
    BY <2>1
  <2>3. (x - p - 1) * t = X - P - t
    OBVIOUS
  <2> HIDE DEF P, X
  <2> QED  BY <1>1, <2>2, <2>3
<1>6. p >= x => P >= X
  <2> SUFFICES ASSUME p >= x
               PROVE  P >= X
    OBVIOUS
  <2>1. p - x \in Nat
    OBVIOUS
  <2>2. (p - x) * t >= 0
    BY <2>1
  <2>3. (p - x) * t = P - X
    OBVIOUS
  <2> HIDE DEF P, X
  <2> QED  BY <1>1, <2>2, <2>3
<1> HIDE DEF P, A, X, M
<1>7. p < x => A < X + M + t
  BY <1>1, <1>3, <1>5
<1>8. p >= x /\ m # 0 => A > X - M
  BY <1>1, <1>3, <1>6
<1> QED  BY <1>4, <1>7, <1>8 DEF A

LEMMA CutNucleus ==
  ASSUME NEW w, NEW k \in Nat \ {0}, AreWeights(w, k), NEW probs \in Shares(w),
         NEW topP \in Int, topP < Grid,
         NEW final \in Shares(SubSeq(probs, 1, Keep(probs, topP)))
  PROVE  IsNucleus(final, w, topP)
<1> DEFINE t == Total(w)
           n == Keep(probs, topP)
           kept == SubSeq(probs, 1, n)
           z == Total(kept)
<1>1. /\ w \in Seq(Nat) /\ w \in Seq(Int) /\ Len(w) = k /\ t \in Nat \ {0} /\ Grid \in Nat
      /\ w[1] * Grid >= t /\ w[1] >= 1 /\ 1 \in 1 .. k
  BY GridAssumption DEF AreWeights
<1>2. AreShares(probs, w, t)
  BY <1>1, SharesRounded
<1>3. probs \in Seq(Nat) /\ probs \in Seq(Int) /\ Len(probs) = k
  BY <1>1, <1>2 DEF AreShares
<1>4. FirstReach(probs, topP, n)
  BY <1>3, KeepFirst
<1> HIDE DEF n, t
<1>5. n \in 1 .. k /\ n \in Nat /\ n - 1 \in 0 .. k /\ n \in 0 .. k
  BY <1>3, <1>4 DEF FirstReach
<1>6. kept \in Seq(Nat) /\ Len(kept) = n /\ \A i \in 1 .. n : kept[i] = probs[i]
  BY <1>3, <1>5
<1> HIDE DEF kept
<1>7. \A i \in 1 .. k : /\ probs[i] \in Nat /\ w[i] \in Nat
                        /\ w[i] = 0 => probs[i] = 0
                        /\ w[i] * Grid >= t => probs[i] >= 1
                        /\ Near(probs[i], t, w[i], Grid, t - 1)
                        /\ (w[i] * Grid) % t = 0 => probs[i] * t = w[i] * Grid
  <2> SUFFICES ASSUME NEW i \in 1 .. k
               PROVE  /\ probs[i] \in Nat /\ w[i] \in Nat
                      /\ w[i] = 0 => probs[i] = 0
                      /\ w[i] * Grid >= t => probs[i] >= 1
                      /\ Near(probs[i], t, w[i], Grid, t - 1)
                      /\ (w[i] * Grid) % t = 0 => probs[i] * t = w[i] * Grid
    OBVIOUS
  <2>1. i \in 1 .. Len(w) /\ w[i] \in Nat
    BY <1>1
  <2> QED  BY <1>1, <1>2, <2>1, NothingShared
<1>8. z = TotalTo(probs, n)
  BY DEF TotalTo, kept
<1> HIDE DEF z
<1>9. \A m \in 0 .. k : TotalTo(probs, m) \in Int /\ TotalTo(w, m) \in Int
  BY <1>1, <1>3, TotalToInt
<1>10. z \in Nat \ {0} /\ TotalTo(w, n) \in Nat \ {0}
  <2>1. TotalTo(probs, 1) = TotalTo(probs, 1 - 1) + probs[1] /\ TotalTo(w, 1) = TotalTo(w, 1 - 1) + w[1]
    BY <1>1, <1>3, TotalToNext
  <2>2. TotalTo(probs, 0) = 0 /\ TotalTo(w, 0) = 0
    BY <1>1, <1>3, TotalToNone
  <2>3. probs[1] >= 1 /\ probs[1] \in Nat /\ w[1] \in Nat
    BY <1>1, <1>7
  <2>4. TotalTo(probs, 1) >= 1 /\ TotalTo(w, 1) >= 1
    BY <1>1, <2>1, <2>2, <2>3
  <2>5. 1 \in 0 .. k /\ n \in 1 .. k
    BY <1>1, <1>5
  <2>6. TotalTo(probs, 1) <= TotalTo(probs, n) /\ TotalTo(w, 1) <= TotalTo(w, n)
    BY <1>1, <1>3, <2>5, TotalToGrows
  <2> QED  BY <1>5, <1>8, <1>9, <2>4, <2>5, <2>6
<1>11. AreShares(final, kept, z)
  BY <1>6, <1>10, SharesRounded DEF z, kept, n
<1>12. final \in Seq(Nat) /\ Len(final) = n
  BY <1>6, <1>11 DEF AreShares
<1>13. ASSUME NEW i \in 1 .. n
       PROVE  /\ kept[i] = 0 => final[i] = 0
              /\ final[i] \in Nat
              /\ (kept[i] * Grid) % z = 0 => final[i] * z = kept[i] * Grid
  BY <1>6, <1>10, <1>11, NothingShared
<1>14. ASSUME NEW m \in 0 .. k
       PROVE  Near(TotalTo(probs, m), t, TotalTo(w, m), Grid, m * (t - 1))
  <2>1. \A i \in 1 .. Len(w) : Near(probs[i], t, w[i], Grid, t - 1)
    BY <1>1, <1>7
  <2>2. t \in Int /\ Grid \in Int /\ t - 1 \in Int /\ Len(probs) = Len(w) /\ m \in 0 .. Len(w)
    BY <1>1, <1>3
  <2> QED  BY <1>1, <1>3, <2>1, <2>2, TotalToNear
<1>15. n > 1 => TotalTo(w, n - 1) * Grid < (topP + n) * t
  <2> SUFFICES ASSUME n > 1
               PROVE  TotalTo(w, n - 1) * Grid < (topP + n) * t
    OBVIOUS
  <2>1. n - 1 \in 1 .. n - 1
    BY <1>5
  <2>2. ~(topP <= TotalTo(probs, n - 1))
    BY <1>4, <2>1 DEF FirstReach, Reaches
  <2>3. TotalTo(probs, n - 1) < topP /\ TotalTo(probs, n - 1) \in Int /\ TotalTo(w, n - 1) \in Int
    BY <1>5, <1>9, <2>2
  <2>4. n - 1 \in Nat /\ (n - 1) + 1 = n
    BY <1>5
  <2>5. Near(TotalTo(probs, n - 1), t, TotalTo(w, n - 1), Grid, (n - 1) * (t - 1))
    BY <1>5, <1>14
  <2>6. TotalTo(w, n - 1) * Grid < (topP + ((n - 1) + 1)) * t
    BY <1>1, <2>3, <2>4, <2>5, CutBounds
  <2> QED  BY <2>4, <2>6
<1>16. n = k \/ TotalTo(w, n) * Grid > (topP - n) * t
  <2> SUFFICES ASSUME n # k
               PROVE  TotalTo(w, n) * Grid > (topP - n) * t
    OBVIOUS
  <2>1. topP <= TotalTo(probs, n)
    BY <1>3, <1>4 DEF FirstReach, Reaches
  <2>2. TotalTo(probs, n) >= topP /\ TotalTo(probs, n) \in Int /\ TotalTo(w, n) \in Int /\ n # 0
    BY <1>5, <1>9, <2>1
  <2>3. Near(TotalTo(probs, n), t, TotalTo(w, n), Grid, n * (t - 1))
    BY <1>5, <1>14
  <2> QED  BY <1>1, <1>5, <2>2, <2>3, CutBounds
<1>17. ASSUME NEW i \in 1 .. n, w[i] = 0
       PROVE  final[i] = 0
  <2>1. i \in 1 .. k
    BY <1>5
  <2>2. probs[i] = 0
    BY <1>7, <1>17, <2>1
  <2>3. kept[i] = 0
    BY <1>6, <2>2
  <2> QED  BY <1>13, <2>3
<1>18. ASSUME \A i \in 1 .. k : (w[i] * Grid) % t = 0,
              \A i \in 1 .. n : (w[i] * Grid) % TotalTo(w, n) = 0,
              NEW i \in 1 .. n
       PROVE  final[i] * TotalTo(w, n) = w[i] * Grid
  <2>1. \A j \in 1 .. k : probs[j] * t = w[j] * Grid /\ probs[j] \in Nat /\ w[j] \in Nat
    BY <1>7, <1>18
  <2>2. \A j \in 1 .. Len(w) : Near(probs[j], t, w[j], Grid, 0)
    <3> SUFFICES ASSUME NEW j \in 1 .. k
                 PROVE  Near(probs[j], t, w[j], Grid, 0)
      BY <1>1
    <3>1. probs[j] * t = w[j] * Grid /\ w[j] * Grid \in Int
      BY <1>1, <2>1
    <3> QED  BY <3>1 DEF Near
  <2>3. Near(TotalTo(probs, n), t, TotalTo(w, n), Grid, n * 0)
    <3>1. t \in Int /\ Grid \in Int /\ 0 \in Int /\ Len(probs) = Len(w) /\ n \in 0 .. Len(w)
      BY <1>1, <1>3, <1>5
    <3> QED  BY <1>1, <1>3, <2>2, <3>1, TotalToNear
  <2> DEFINE v == TotalTo(w, n)
             x == w[i]
             p == probs[i]
  <2>4. z * t = v * Grid
    <3>1. z * t \in Int /\ v * Grid \in Int
      BY <1>1, <1>10
    <3> QED  BY <1>5, <1>8, <2>3, <3>1 DEF Near
  <2>5. x \in Nat /\ p \in Nat /\ p * t = x * Grid /\ (x * Grid) % v = 0 /\ v \in Nat \ {0}
    BY <1>5, <1>10, <1>18, <2>1
  <2>6. kept[i] = p
    BY <1>6
  <2> HIDE DEF v, x, p
  <2>7. PICK c \in Nat : x * Grid = c * v
    <3> DEFINE y == x * Grid
    <3>1. y \in Nat /\ y % v = 0
      BY <1>1, <2>5
    <3> HIDE DEF y
    <3>2. y \div v \in Nat /\ y = (y \div v) * v
      BY <2>5, <3>1
    <3> QED  BY <3>2 DEF y
  <2>8. p * Grid = c * z
    <3>1. z \in Nat /\ v \in Nat
      BY <1>10, <2>5
    <3> QED  BY <1>1, <2>4, <2>5, <2>7, <3>1, ShareOfKept
  <2>9. (p * Grid) % z = 0
    <3> DEFINE y == p * Grid
    <3>1. y = c * z
      BY <2>8
    <3> HIDE DEF y
    <3>2. y % z = 0
      BY <1>10, <3>1
    <3> QED  BY <3>2 DEF y
  <2>10. final[i] * z = c * z /\ final[i] \in Nat
    BY <1>13, <2>6, <2>9, <2>8
  <2>11. final[i] = c
    BY <1>10, <2>10
  <2> QED  BY <2>7, <2>11 DEF v, x
<1>19. ~(topP >= Grid)
  BY <1>1
<1> QED  BY <1>1, <1>5, <1>12, <1>15, <1>16, <1>17, <1>18, <1>19 DEF IsNucleus, t

-----------------------------------------------------------------------------
(* Draws. *)

\* i is the first of the greatest of the first n logits.
IsGreatest(logits, n, i) ==
  /\ i \in 1 .. n
  /\ \A j \in 1 .. n : logits[i] >= logits[j] /\ (logits[j] = logits[i] => i <= j)

LEMMA GreatestExists ==
  ASSUME NEW logits \in Seq(Int), logits # <<>>
  PROVE  \E i : IsGreatest(logits, Len(logits), i)
<1> DEFINE N == Len(logits)
           S == {n \in Nat : n + 1 <= N => \E i : IsGreatest(logits, n + 1, i)}
<1>1. N \in Nat /\ N >= 1 /\ \A i \in 1 .. N : logits[i] \in Int
  OBVIOUS
<1> HIDE DEF N
<1>2. 0 \in S
  <2>1. 1 <= N => IsGreatest(logits, 1, 1)
    BY <1>1 DEF IsGreatest
  <2> QED  BY <2>1
<1>3. ASSUME NEW n \in Nat, n \in S
      PROVE  n + 1 \in S
  <2> DEFINE m == n + 2
  <2> SUFFICES ASSUME m <= N
               PROVE  \E i : IsGreatest(logits, m, i)
    OBVIOUS
  <2>0. n + 1 <= N /\ m \in 1 .. N
    BY <1>1
  <2>1. PICK i : IsGreatest(logits, n + 1, i)
    BY <1>3, <2>0
  <2>2. i \in 1 .. N /\ logits[i] \in Int /\ logits[m] \in Int /\ i \in 1 .. n + 1
    BY <1>1, <2>0, <2>1 DEF IsGreatest
  <2>3. \A j \in 1 .. n + 1 : /\ logits[j] \in Int /\ logits[i] >= logits[j]
                              /\ logits[j] = logits[i] => i <= j
    BY <1>1, <2>0, <2>1 DEF IsGreatest
  <2>4. \A j \in 1 .. m : j \in 1 .. n + 1 \/ j = m
    OBVIOUS
  <2>5. CASE logits[m] > logits[i]
    <3>1. \A j \in 1 .. n + 1 : logits[m] > logits[j]
      BY <2>2, <2>3, <2>5
    <3>2. \A j \in 1 .. m : logits[m] >= logits[j] /\ (logits[j] = logits[m] => m <= j)
      BY <2>2, <2>3, <2>4, <3>1
    <3>3. m \in 1 .. m
      BY <2>0
    <3> HIDE DEF m
    <3>4. IsGreatest(logits, m, m)
      BY <3>2, <3>3 DEF IsGreatest
    <3> QED  BY <3>4
  <2>6. CASE ~(logits[m] > logits[i])
    <3>1. logits[i] >= logits[m] /\ i <= m
      BY <2>2, <2>6
    <3>2. \A j \in 1 .. m : logits[i] >= logits[j] /\ (logits[j] = logits[i] => i <= j)
      BY <2>3, <2>4, <3>1
    <3>3. i \in 1 .. m
      BY <2>2
    <3> HIDE DEF m
    <3>4. IsGreatest(logits, m, i)
      BY <3>2, <3>3 DEF IsGreatest
    <3> QED  BY <3>4
  <2> QED  BY <2>5, <2>6
<1> HIDE DEF S
<1>4. \A n \in Nat : n \in S
  BY <1>2, <1>3, SetInduction
<1>5. N - 1 \in S /\ (N - 1) + 1 = N
  BY <1>1, <1>4
<1>6. \E i : IsGreatest(logits, N, i)
  BY <1>5 DEF S
<1> QED  BY <1>6 DEF N

LEMMA GreedyFirst ==
  ASSUME NEW logits \in Seq(Int), logits # <<>>
  PROVE  /\ \A t \in DOMAIN logits : logits[t] <= logits[Greedy(logits)]
         /\ \A t \in 1 .. Greedy(logits) - 1 : logits[t] < logits[Greedy(logits)]
<1> DEFINE D == DOMAIN logits
           g == Greedy(logits)
<1>1. D = 1 .. Len(logits) /\ \A i \in D : logits[i] \in Int
  OBVIOUS
<1>2. \E i \in D : \A j \in D : logits[i] >= logits[j] /\ (logits[j] = logits[i] => i <= j)
  <2>1. PICK i : IsGreatest(logits, Len(logits), i)
    BY GreatestExists
  <2> QED  BY <1>1, <2>1 DEF IsGreatest
<1>3. g = CHOOSE i \in D : \A j \in D : logits[i] >= logits[j] /\ (logits[j] = logits[i] => i <= j)
  BY DEF Greedy
<1>4. g \in D /\ \A j \in D : logits[g] >= logits[j] /\ (logits[j] = logits[g] => g <= j)
  <2> HIDE DEF g
  <2> QED  BY <1>2, <1>3
<1> HIDE DEF g
<1>5. \A t \in D : logits[t] <= logits[g]
  BY <1>1, <1>4
<1>6. ASSUME NEW t \in 1 .. g - 1
      PROVE  logits[t] < logits[g]
  <2>1. t \in D /\ t < g
    BY <1>1, <1>4
  <2> QED  BY <1>1, <1>4, <2>1
<1> QED  BY <1>5, <1>6 DEF g, D

LEMMA CandidatesInside ==
  ASSUME NEW logits \in Seq(Int), logits # <<>>, NEW topK \in Nat
  PROVE  /\ Candidates(topK, logits) \in 1 .. Len(logits)
         /\ topK = 0 \/ Candidates(topK, logits) <= topK
<1>1. Len(logits) \in Nat /\ Len(logits) >= 1
  OBVIOUS
<1> QED  BY <1>1 DEF Candidates

LEMMA FinalNucleus ==
  ASSUME NEW w, NEW k \in Nat \ {0}, AreWeights(w, k), NEW probs \in Shares(w),
         NEW topP \in Int, NEW final \in Renormalised(probs, topP)
  PROVE  IsNucleus(final, w, topP)
<1>1. CASE topP < Grid
  BY <1>1, CutNucleus DEF Renormalised
<1>2. CASE ~(topP < Grid)
  <2>1. topP >= Grid
    BY <1>2, GridAssumption
  <2>2. final = probs
    BY <1>2 DEF Renormalised
  <2> QED  BY <2>1, <2>2, UncutNucleus
<1> QED  BY <1>1, <1>2

-----------------------------------------------------------------------------

\* The weights of the first n are the first n weights.
LEMMA WeightsCut ==
  ASSUME NEW logits \in Seq(Int), NEW k \in Nat, NEW ids \in [1 .. k -> DOMAIN logits],
         NEW n \in 1 .. k, NEW temperature
  PROVE  Weights(SubSeq(ids, 1, n), logits, temperature)
           = SubSeq(Weights(ids, logits, temperature), 1, n)
<1> DEFINE c == SubSeq(ids, 1, n)
           w == Weights(ids, logits, temperature)
           v(i) == Weight(logits[ids[1]] - logits[ids[i]], temperature)
<1>1. ids \in Seq(DOMAIN logits) /\ Len(ids) = k /\ n \in 0 .. k /\ DOMAIN ids = 1 .. k
  OBVIOUS
<1>2. c = [i \in 1 .. n |-> ids[i]]
  BY <1>1
<1>3. w = [i \in 1 .. k |-> v(i)]
  BY <1>1 DEF Weights
<1>4. Weights(c, logits, temperature) = [i \in 1 .. n |-> v(i)]
  <2>1. 1 \in 1 .. n /\ c[1] = ids[1]
    BY <1>2
  <2>2. \A i \in 1 .. n : c[i] = ids[i]
    BY <1>2
  <2>3. DOMAIN c = 1 .. n
    BY <1>2
  <2> HIDE DEF c
  <2>4. Weights(c, logits, temperature)
          = [i \in 1 .. n |-> Weight(logits[c[1]] - logits[c[i]], temperature)]
    BY <2>3 DEF Weights
  <2> QED  BY <2>1, <2>2, <2>4
<1> HIDE DEF w, v
<1>5. SubSeq(w, 1, n) = [i \in 1 .. n |-> v(i)]
  <2>1. Len(w) = k /\ DOMAIN w = 1 .. k /\ \A i \in 1 .. k : w[i] = v(i)
    BY <1>3
  <2>2. SubSeq(w, 1, n) = [i \in 1 .. n |-> w[i]]
    BY <2>1
  <2> QED  BY <2>1, <2>2
<1> QED  BY <1>4, <1>5 DEF c, w

\* What the last call was given, chose from and drew.
IsDraw(logits, topK, topP, temperature, ids, final, token) ==
  /\ call.op = "sample" /\ call.logits = logits /\ call.topK = topK /\ call.topP = topP
  /\ call.temperature = temperature /\ call.ids = ids /\ call.probs = final
  /\ call.token = token

LEMMA SampledDraw ==
  ASSUME NEW logits, NEW topK, NEW topP, NEW temperature, NEW ids, NEW final, NEW token,
         Sampled(logits, topK, topP, temperature, ids, final, token)
  PROVE  IsDraw(logits, topK, topP, temperature, ids, final, token)'
BY DEF Sampled, IsDraw

\* A draw of u from these probabilities, of these candidates.
LEMMA DrawFollows ==
  ASSUME NEW logits \in LogitLists, logits # <<>>, NEW topK \in TopKs, NEW topP \in TopPs,
         NEW temperature \in Temperatures, temperature # 0,
         NEW ids \in PartialSorts(Candidates(topK, logits), logits),
         NEW probs \in Shares(Weights(ids, logits, temperature)),
         NEW final \in Renormalised(probs, topP), NEW u \in 0 .. Grid - 1,
         IsDraw(logits, topK, topP, temperature, SubSeq(ids, 1, Len(final)),
                final, ids[Drawn(final, u)])
  PROVE  SampledFromNucleus
<1> DEFINE k == Candidates(topK, logits)
           w == Weights(ids, logits, temperature)
           n == Len(final)
           cut == SubSeq(ids, 1, n)
           d == Drawn(final, u)
           token == ids[d]
<1>0. /\ logits \in Seq(Int) /\ topK \in Nat /\ topP \in Int /\ Grid \in Nat /\ u \in Int
      /\ Len(logits) \in Nat
  BY LogitsAssumption, GridAssumption
<1>1. k \in 1 .. Len(logits) /\ k \in Nat /\ k # 0 /\ (topK = 0 \/ k <= topK)
  <2>1. k \in 1 .. Len(logits)
    BY <1>0, CandidatesInside
  <2>2. topK = 0 \/ k <= topK
    BY <1>0, CandidatesInside
  <2> HIDE DEF k
  <2> QED  BY <1>0, <2>1, <2>2
<1>2. /\ call.op = "sample" /\ call.logits = logits /\ call.topK = topK /\ call.topP = topP
      /\ call.temperature = temperature /\ call.ids = cut /\ call.probs = final
      /\ call.token = token
  BY DEF IsDraw
<1> HIDE DEF k
<1>3. ids \in PartialSorts(k, logits)
  BY DEF k
<1>4. FirstOnes(ids, k, logits) /\ ids \in [1 .. k -> DOMAIN logits]
  BY <1>0, <1>1, <1>3, SortsSorted DEF FirstOnes
<1>5. AreWeights(w, k)
  BY <1>1, <1>3, WeightsTyped
<1>6. w \in Seq(Nat) /\ Len(w) = k /\ w[1] >= 1
  BY <1>5 DEF AreWeights
<1>7. IsNucleus(final, w, topP)
  BY <1>0, <1>1, <1>5, FinalNucleus
<1>8. Weights(cut, logits, temperature) = SubSeq(w, 1, n) /\ n \in 1 .. k /\ n \in Nat /\ final \in Seq(Nat)
  <2>1. n \in 1 .. k /\ final \in Seq(Nat)
    BY <1>6, <1>7 DEF IsNucleus
  <2>2. n \in Nat
    BY <1>1, <2>1
  <2> HIDE DEF n
  <2>3. Weights(SubSeq(ids, 1, n), logits, temperature)
          = SubSeq(Weights(ids, logits, temperature), 1, n)
    BY <1>0, <1>1, <1>4, <2>1, WeightsCut
  <2> QED  BY <2>1, <2>2, <2>3
<1>9. PoolWeights = w
  <2> DEFINE pool == CHOOSE a \in PartialSorts(k, logits) : SubSeq(a, 1, Len(cut)) = cut
  <2>0. Len(cut) = n
    BY <1>4, <1>8
  <2>1. \E a \in PartialSorts(k, logits) : SubSeq(a, 1, Len(cut)) = cut
    BY <1>3, <2>0
  <2>2. pool \in PartialSorts(k, logits)
    BY <2>1
  <2>3. PoolWeights = Weights(pool, logits, temperature)
    BY <1>2 DEF PoolWeights, k
  <2> HIDE DEF pool
  <2> QED  BY <1>0, <1>1, <1>3, <2>2, <2>3, SameWeights
<1>10. KeptWeights = SubSeq(w, 1, n)
  BY <1>2, <1>8 DEF KeptWeights
<1> HIDE DEF w, n, d
<1>11. d \in 1 .. n /\ d = Drawn(final, u)
  BY <1>0, <1>8, DrawnFirst DEF FirstReach, d, n
<1>12. cut = [i \in 1 .. n |-> ids[i]] /\ Len(cut) = n /\ DOMAIN cut = 1 .. n
  BY <1>4, <1>8
<1> HIDE DEF cut
<1>13. \A i \in 1 .. n : i \in 1 .. k /\ cut[i] = ids[i]
  <2>1. \A i \in 1 .. n : i \in 1 .. k
    BY <1>1, <1>8
  <2>2. \A i \in 1 .. n : cut[i] = ids[i]
    BY <1>12
  <2> QED  BY <2>1, <2>2
<1>14. Range(cut) = {cut[i] : i \in 1 .. n}
  BY <1>12 DEF Range
<1>15. call.token \in Range(call.ids)
  <2>1. cut[d] = token
    BY <1>11, <1>13
  <2>2. token \in {cut[i] : i \in 1 .. n}
    BY <1>11, <2>1
  <2> QED  BY <1>2, <1>14, <2>2
<1>16. FromTheTop
  <2> DEFINE chosen == Range(cut)
  <2>1. Cardinality(chosen) = n
    <3>1. \A a \in 1 .. n : \A b \in 1 .. n : cut[a] = cut[b] => a = b
      BY <1>4, <1>13 DEF FirstOnes
    <3>2. /\ \A i \in 1 .. n : cut[i] \in chosen
          /\ \A t \in chosen : \E i \in 1 .. n : cut[i] = t
      BY <1>14
    <3>3. n \in Nat
      BY <1>8
    <3> HIDE DEF chosen
    <3> QED  BY <3>1, <3>2, <3>3, DistinctCounted
  <2>2. topK # 0 => n <= topK
    BY <1>0, <1>1, <1>8
  <2>3. ASSUME NEW t \in chosen, NEW o \in DOMAIN logits \ chosen
        PROVE  logits[o] <= logits[t]
    <3>1. PICK i \in 1 .. n : t = cut[i]
      BY <1>14
    <3>2. \A j \in 1 .. i : ids[j] # o
      <4>1. ASSUME NEW j \in 1 .. i
            PROVE  ids[j] # o
        <5>1. j \in 1 .. n
          BY <1>8
        <5>2. cut[j] \in chosen
          BY <1>14, <5>1
        <5> QED  BY <1>13, <5>1, <5>2
      <4> QED  BY <4>1
    <3>3. i \in 1 .. k /\ t = ids[i]
      BY <1>13, <3>1
    <3>4. logits[t] >= logits[o]
      BY <1>4, <3>2, <3>3 DEF FirstOnes
    <3>5. logits[t] \in Int /\ logits[o] \in Int
      BY <1>0, <1>4, <3>3
    <3> QED  BY <3>4, <3>5
  <2> HIDE DEF chosen
  <2> QED  BY <1>2, <1>12, <2>1, <2>2, <2>3 DEF FromTheTop, chosen
<1>17. CutAtTopP
  <2>1. Total(SubSeq(w, 1, n)) = TotalTo(w, n)
    BY DEF TotalTo
  <2>2. n > 1 => SubSeq(SubSeq(w, 1, n), 1, n - 1) = SubSeq(w, 1, n - 1)
    BY <1>6, <1>8
  <2>3. n > 1 => Total(SubSeq(SubSeq(w, 1, n), 1, n - 1)) = TotalTo(w, n - 1)
    BY <2>2 DEF TotalTo
  <2>4. /\ topP < Grid =>
             /\ n > 1 => TotalTo(w, n - 1) * Grid < (topP + n) * Total(w)
             /\ n = k \/ TotalTo(w, n) * Grid > (topP - n) * Total(w)
        /\ topP >= Grid => n = k
    BY <1>6, <1>7 DEF IsNucleus, n
  <2>5. /\ call.topP < Grid =>
             /\ n > 1 => Total(SubSeq(KeptWeights, 1, n - 1)) * Grid < (call.topP + n) * Total(PoolWeights)
             /\ n = k \/ Total(KeptWeights) * Grid > (call.topP - n) * Total(PoolWeights)
        /\ call.topP >= Grid => n = k
    BY <1>2, <1>9, <1>10, <2>1, <2>3, <2>4
  <2>6. Len(call.ids) = n /\ Candidates(call.topK, call.logits) = k
    BY <1>2, <1>12 DEF k
  <2> QED  BY <2>5, <2>6 DEF CutAtTopP
<1>18. DrawnByWeight
  <2> DEFINE x == SubSeq(w, 1, n)
  <2>1. x \in Seq(Nat) /\ Len(x) = n /\ DOMAIN x = 1 .. n /\ \A i \in 1 .. n : x[i] = w[i] /\ x[i] \in Nat
    BY <1>6, <1>8
  <2>2. Total(x) = TotalTo(w, n)
    BY DEF TotalTo
  <2>3. KeptWeights = x /\ DOMAIN w = 1 .. k
    BY <1>6, <1>10
  <2> HIDE DEF x
  <2> DEFINE v == Total(x)
  <2>4. v \in Nat \ {0}
    <3>1. w \in Seq(Int) /\ 1 \in 0 .. Len(w) /\ 1 \in 1 .. Len(w) /\ n \in 1 .. Len(w) /\ n \in 0 .. Len(w)
      BY <1>1, <1>6, <1>8
    <3>2. TotalTo(w, 1) <= TotalTo(w, n) /\ TotalTo(w, n) \in Int
      BY <1>6, <3>1, TotalToGrows, TotalToInt
    <3>3. TotalTo(w, 1) = TotalTo(w, 1 - 1) + w[1] /\ TotalTo(w, 0) = 0 /\ w[1] \in Nat
      BY <1>6, <3>1, TotalToNext, TotalToNone
    <3>4. TotalTo(w, 1) >= 1
      BY <1>6, <3>3
    <3>5. TotalTo(w, 1) \in Int
      BY <3>1, TotalToInt
    <3> QED  BY <2>2, <3>2, <3>4, <3>5
  <2>5. ASSUME Even(PoolWeights), Even(KeptWeights), NEW i \in 1 .. n
        PROVE  Magnitude(Times(i) * Total(KeptWeights) - KeptWeights[i] * Grid) <= Total(KeptWeights)
    <3>1. \A j \in 1 .. k : (w[j] * Grid) % Total(w) = 0
      BY <1>9, <2>3, <2>5 DEF Even
    <3>2. \A j \in 1 .. n : (w[j] * Grid) % TotalTo(w, n) = 0
      BY <2>1, <2>2, <2>3, <2>5 DEF Even
    <3>3. \A j \in 1 .. n : final[j] * v = w[j] * Grid
      BY <1>6, <1>7, <2>2, <3>1, <3>2 DEF IsNucleus, n
    <3>4. Total(final) = Grid
      <4>1. \A j \in 1 .. Len(x) : Near(final[j], v, x[j], Grid, 0)
        <5> SUFFICES ASSUME NEW j \in 1 .. n
                     PROVE  Near(final[j], v, x[j], Grid, 0)
          BY <2>1
        <5>1. final[j] * v = x[j] * Grid /\ x[j] * Grid \in Int
          <6>1. x[j] = w[j] /\ x[j] \in Nat
            BY <2>1
          <6>2. final[j] * v = w[j] * Grid
            BY <3>3
          <6>3. x[j] * Grid \in Int
            BY <1>0, <6>1
          <6> QED  BY <6>1, <6>2, <6>3
        <5> QED  BY <5>1 DEF Near
      <4>2. /\ final \in Seq(Int) /\ x \in Seq(Int) /\ Len(final) = Len(x) /\ v \in Int
            /\ Grid \in Int /\ 0 \in Int /\ n \in 0 .. Len(x) /\ Len(x) = n
        BY <1>0, <1>8, <2>1, <2>4 DEF n
      <4>3. Near(TotalTo(final, n), v, TotalTo(x, n), Grid, n * 0)
        BY <4>1, <4>2, TotalToNear
      <4>4. TotalTo(final, n) = Total(final) /\ TotalTo(x, n) = v
        BY <4>2, TotalToWhole
      <4>5. Total(final) \in Int
        BY <4>2, <4>4, TotalToInt
      <4> DEFINE f == Total(final)
      <4>6. f * v - v * Grid <= 0 /\ v * Grid - f * v <= 0
        BY <1>8, <4>3, <4>4 DEF Near
      <4>7. f \in Int
        BY <4>5
      <4> HIDE DEF f, v
      <4>8. f * v = v * Grid
        BY <1>0, <2>4, <4>6, <4>7
      <4>9. f = Grid
        BY <1>0, <2>4, <4>7, <4>8
      <4> QED  BY <4>9 DEF f
    <3> DEFINE c == Cardinality(DrawsOf(final, i))
    <3>5. c \in Nat /\ c - final[i] <= 1 /\ final[i] - c <= 1
      <4>1. i \in 1 .. Len(final)
        BY DEF n
      <4> QED  BY <1>8, <3>4, <4>1, DrawsAsMany
    <3>6. Times(i) = c
      BY <1>2 DEF Times, DrawsOf
    <3> HIDE DEF c, v
    <3> DEFINE e == final[i]
    <3>7. e \in Nat /\ e * v = x[i] * Grid
      <4>1. i \in 1 .. Len(final)
        BY DEF n
      <4>2. e \in Nat
        BY <1>8, <4>1
      <4>3. x[i] = w[i]
        BY <2>1
      <4>4. e * v = w[i] * Grid
        BY <3>3
      <4> QED  BY <4>2, <4>3, <4>4
    <3>8. c - e <= 1 /\ e - c <= 1
      BY <3>5
    <3> HIDE DEF e
    <3>9. Magnitude(c * v - e * v) <= v
      <4>1. c * v - e * v = (c - e) * v
        BY <2>4, <3>5, <3>7
      <4>2. c - e \in {0, 1, 0 - 1}
        BY <3>5, <3>7, <3>8
      <4>3. (c - e) * v \in {0, v, 0 - v}
        BY <2>4, <4>2
      <4> DEFINE y == c * v - e * v
      <4>4. y \in {0, v, 0 - v}
        BY <4>1, <4>3
      <4> HIDE DEF y
      <4>5. Magnitude(y) <= v
        BY <2>4, <4>4 DEF Magnitude
      <4> QED  BY <4>5 DEF y
    <3> QED  BY <2>3, <3>6, <3>7, <3>9 DEF v
  <2>6. ASSUME NEW i \in 1 .. n, call.ids[i] = call.token, KeptWeights[i] = 0
        PROVE  i = n
    <3>1. i = d
      <4>1. cut[i] = token /\ cut[i] = ids[i]
        BY <1>2, <1>13, <2>6
      <4>2. i \in 1 .. k /\ d \in 1 .. k
        BY <1>11, <1>13
      <4> QED  BY <1>4, <4>1, <4>2 DEF FirstOnes
    <3>2. w[i] = 0
      BY <2>1, <2>3, <2>6
    <3>3. final[i] = 0
      BY <1>7, <3>2 DEF IsNucleus, n
    <3>4. d # 1
      BY <1>6, <3>1, <3>2
    <3>5. Len(final) # 0 /\ final[d] = 0
      BY <1>8, <3>1, <3>3 DEF n
    <3> QED  BY <1>0, <1>8, <1>11, <3>1, <3>4, <3>5, NothingDrawnLast DEF n
  <2>7. Len(call.ids) = n
    BY <1>2, <1>12
  <2> QED  BY <2>5, <2>6, <2>7 DEF DrawnByWeight
<1> QED  BY <1>15, <1>16, <1>17, <1>18, <1>2 DEF SampledFromNucleus

LEMMA NextDrawFollows ==
  ASSUME NEW logits \in LogitLists, logits # <<>>, NEW topK \in TopKs, NEW topP \in TopPs,
         NEW temperature \in Temperatures, temperature # 0,
         NEW ids \in PartialSorts(Candidates(topK, logits), logits),
         NEW probs \in Shares(Weights(ids, logits, temperature)),
         NEW final \in Renormalised(probs, topP), NEW u \in 0 .. Grid - 1
  PROVE  (IsDraw(logits, topK, topP, temperature, SubSeq(ids, 1, Len(final)),
                 final, ids[Drawn(final, u)]) => SampledFromNucleus)'
<1>1. IsDraw(logits, topK, topP, temperature, SubSeq(ids, 1, Len(final)),
             final, ids[Drawn(final, u)]) => SampledFromNucleus
  BY DrawFollows
<1> QED  BY <1>1, PTL

LEMMA SampleFollows ==
  ASSUME Sample
  PROVE  SampledFromNucleus'
<1>1. PICK logits \in LogitLists, topK \in TopKs, topP \in TopPs, temperature \in Temperatures :
        \/ /\ logits = <<>>
           /\ Sampled(logits, topK, topP, temperature, <<>>, <<>>, 0)
        \/ /\ logits # <<>>
           /\ temperature = 0
           /\ Sampled(logits, topK, topP, temperature, <<>>, <<>>, Greedy(logits))
        \/ /\ logits # <<>>
           /\ temperature # 0
           /\ \E ids \in PartialSorts(Candidates(topK, logits), logits) :
                \E probs \in Shares(Weights(ids, logits, temperature)) :
                  \E final \in Renormalised(probs, topP), u \in 0 .. Grid - 1 :
                    Sampled(logits, topK, topP, temperature, SubSeq(ids, 1, Len(final)),
                            final, ids[Drawn(final, u)])
  BY ZenonT(60) DEF Sample
<1>2. CASE /\ logits = <<>>
           /\ Sampled(logits, topK, topP, temperature, <<>>, <<>>, 0)
  <2>1. call'.logits = <<>>
    BY <1>2 DEF Sampled
  <2> QED  BY <2>1 DEF SampledFromNucleus
<1>3. CASE /\ logits # <<>>
           /\ temperature = 0
           /\ Sampled(logits, topK, topP, temperature, <<>>, <<>>, Greedy(logits))
  <2>1. call'.temperature = 0 /\ call'.logits = logits /\ call'.token = Greedy(logits)
    BY <1>3 DEF Sampled
  <2>2. logits \in Seq(Int)
    BY LogitsAssumption
  <2>3. /\ \A t \in DOMAIN logits : logits[t] <= logits[Greedy(logits)]
        /\ \A t \in 1 .. Greedy(logits) - 1 : logits[t] < logits[Greedy(logits)]
    BY <1>3, <2>2, GreedyFirst
  <2>4. DrawnGreedily'
    BY <2>1, <2>3 DEF DrawnGreedily
  <2> QED  BY <2>1, <2>4 DEF SampledFromNucleus
<1>4. CASE /\ logits # <<>>
           /\ temperature # 0
           /\ \E ids \in PartialSorts(Candidates(topK, logits), logits) :
                \E probs \in Shares(Weights(ids, logits, temperature)) :
                  \E final \in Renormalised(probs, topP), u \in 0 .. Grid - 1 :
                    Sampled(logits, topK, topP, temperature, SubSeq(ids, 1, Len(final)),
                            final, ids[Drawn(final, u)])
  <2>1. PICK ids \in PartialSorts(Candidates(topK, logits), logits) :
          \E probs \in Shares(Weights(ids, logits, temperature)) :
            \E final \in Renormalised(probs, topP), u \in 0 .. Grid - 1 :
              Sampled(logits, topK, topP, temperature, SubSeq(ids, 1, Len(final)),
                      final, ids[Drawn(final, u)])
    BY <1>4
  <2>2. PICK probs \in Shares(Weights(ids, logits, temperature)) :
          \E final \in Renormalised(probs, topP), u \in 0 .. Grid - 1 :
            Sampled(logits, topK, topP, temperature, SubSeq(ids, 1, Len(final)),
                    final, ids[Drawn(final, u)])
    BY <2>1
  <2>3. PICK final \in Renormalised(probs, topP), u \in 0 .. Grid - 1 :
          Sampled(logits, topK, topP, temperature, SubSeq(ids, 1, Len(final)),
                  final, ids[Drawn(final, u)])
    BY <2>2
  <2>4. IsDraw(logits, topK, topP, temperature, SubSeq(ids, 1, Len(final)),
               final, ids[Drawn(final, u)])'
    BY <2>3, SampledDraw
  <2> QED  BY <1>4, <2>3, <2>4, NextDrawFollows
<1> QED  BY <1>1, <1>2, <1>3, <1>4

LEMMA OtherOps ==
  ASSUME \/ MatvecGguf \/ Describe \/ MatvecQ4 \/ MatmulF32 \/ RmsNorm \/ RopeInplace
         \/ CausalAttention \/ ShortConvolution \/ SwigluMlp \/ LogitsProjection
         \/ Convert \/ QuantizeQ4 \/ Return
  PROVE  call'.op # "sample"
<1>1. ASSUME NEW op, NEW args, NEW size, NEW accepted, NEW outputs, op # "sample",
             Kernel(op, args, size, accepted, outputs)
      PROVE  call'.op # "sample"
  BY <1>1 DEF Kernel
<1>2. ASSUME NEW op, NEW args, NEW size, NEW accepted, NEW outputs, op # "sample",
             Checked(op, args, size, accepted, outputs)
      PROVE  call'.op # "sample"
  BY <1>2 DEF Kernel, Checked
<1>3. CASE MatvecGguf
  BY <1>2, <1>3 DEF MatvecGguf
<1>4. CASE MatmulF32
  BY <1>2, <1>4 DEF MatmulF32
<1>5. CASE RopeInplace
  BY <1>2, <1>5 DEF RopeInplace
<1>6. CASE Describe
  BY <1>6 DEF Describe
<1>7. CASE MatvecQ4
  BY <1>2, <1>7 DEF MatvecQ4
<1>8. CASE RmsNorm
  BY <1>2, <1>8 DEF RmsNorm
<1>9. CASE CausalAttention
  BY <1>2, <1>9 DEF CausalAttention
<1>10. CASE ShortConvolution
  BY <1>2, <1>10 DEF ShortConvolution
<1>11. CASE SwigluMlp
  BY <1>1, <1>11 DEF SwigluMlp
<1>12. CASE LogitsProjection
  BY <1>2, <1>12 DEF LogitsProjection
<1>13. CASE Convert
  BY <1>13 DEF Convert
<1>14. CASE QuantizeQ4
  BY <1>14 DEF QuantizeQ4
<1>15. CASE Return
  BY <1>15 DEF Return, Idle
<1> QED  BY <1>3, <1>4, <1>5, <1>6, <1>7, <1>8, <1>9, <1>10, <1>11, <1>12, <1>13, <1>14, <1>15

\* Whatever the logits and the settings, the sampler chooses and draws as nucleus
\* sampling does.
THEOREM SamplerDrawsFromNucleus == Spec => []SampledFromNucleus
<1>1. Init => SampledFromNucleus
  BY DEF Init, Idle, SampledFromNucleus
<1>2. ASSUME [Next]_vars, SampledFromNucleus
      PROVE  SampledFromNucleus'
  <2>1. CASE Sample
    BY <2>1, SampleFollows
  <2>2. CASE \/ MatvecGguf \/ Describe \/ MatvecQ4 \/ MatmulF32 \/ RmsNorm \/ RopeInplace
             \/ CausalAttention \/ ShortConvolution \/ SwigluMlp \/ LogitsProjection
             \/ Convert \/ QuantizeQ4 \/ Return
    <3>1. call'.op # "sample"
      BY <2>2, OtherOps
    <3> QED  BY <3>1 DEF SampledFromNucleus
  <2>3. CASE UNCHANGED vars
    <3>1. call' = call
      BY <2>3 DEF vars
    <3>2. SampledFromNucleus' <=> SampledFromNucleus
      BY <3>1 DEF SampledFromNucleus, DrawnGreedily, FromTheTop, CutAtTopP, DrawnByWeight,
                  KeptWeights, PoolWeights, Times
    <3> QED  BY <1>2, <3>2
  <2> QED  BY <1>2, <2>1, <2>2, <2>3 DEF Next
<1> QED  BY <1>1, <1>2, PTL DEF Spec
=============================================================================
