---------------------------- MODULE SeqOpsProofs ----------------------------
(***************************************************************************)
(* Lemmas about the operators of SeqOps: totals of numbers, sequences      *)
(* without some of their elements, and sequences of anything.  They are by *)
(* induction, from the library's theorem that < is well-founded on Nat.    *)
(***************************************************************************)
EXTENDS SeqOps, SequenceTheorems, WellFoundedInduction, TLAPS

\* Every set of natural numbers that is not empty has a least one.
LEMMA LeastNumber ==
    ASSUME NEW T \in SUBSET Nat, T # {}
    PROVE  \E x \in T : \A y \in T : x <= y
<1> DEFINE Less == {ss \in Nat \X Nat : ss[1] < ss[2]}
<1>1. IsWellFoundedOn(Less, Nat)
  <2>1. OpToRel(<, Nat) = Less
    BY Zenon DEF OpToRel
  <2>2. IsWellFoundedOn(OpToRel(<, Nat), Nat)
    BY NatLessThanWellFounded, Zenon
  <2> HIDE DEF Less
  <2>3. QED
    BY <2>1, <2>2, Zenon
<1>2. PICK x \in T : \A y \in T : <<y, x>> \notin Less
  <2> HIDE DEF Less
  <2> QED
    BY <1>1, WFMin, Zenon
<1>3. ASSUME NEW y \in T
      PROVE  x <= y
  <2>1. <<y, x>> \notin Less
    BY <1>2, Zenon
  <2>2. x \in Nat /\ y \in Nat
    OBVIOUS
  <2>3. QED
    BY <2>1, <2>2
<1>4. QED
  BY <1>3

\* A set with 0 that holds the successor of each member holds every natural number.
LEMMA Induction ==
    ASSUME NEW S \in SUBSET Nat, 0 \in S, \A n \in S : n + 1 \in S
    PROVE  \A n \in Nat : n \in S
<1>1. SUFFICES ASSUME Nat \ S # {}
               PROVE  FALSE
  OBVIOUS
<1>2. PICK x \in Nat \ S : \A y \in Nat \ S : x <= y
  BY <1>1, LeastNumber
<1>3. x # 0 /\ x - 1 \in S
  BY <1>2
<1>4. QED
  BY <1>2, <1>3

Sums(f, w) == f = [n \in 0 .. Len(w) |-> IF n = 0 THEN 0 ELSE f[n - 1] + w[n]]

\* Each partial sum is the one before it and a number more.
LEMMA SumsStep ==
    ASSUME NEW w \in Seq(Int), NEW f, Sums(f, w)
    PROVE  /\ f[0] = 0
           /\ \A k \in Nat : k + 1 <= Len(w) => f[k + 1] = f[k] + w[k + 1]
<1>1. Len(w) \in Nat
  OBVIOUS
<1>2. f[0] = 0
  BY <1>1 DEF Sums
<1>3. ASSUME NEW k \in Nat, k + 1 <= Len(w)
      PROVE  f[k + 1] = f[k] + w[k + 1]
  <2>1. k + 1 \in 0 .. Len(w) /\ k + 1 # 0 /\ (k + 1) - 1 = k
    BY <1>1, <1>3
  <2>2. QED
    BY <2>1 DEF Sums
<1>4. QED
  BY <1>2, <1>3

Upto(f, w, k) == f[0] = 0 /\ \A n \in 1 .. k : f[n] = f[n - 1] + w[n]
HasSums(w, k) == \E f \in [0 .. k -> Int] : Upto(f, w, k)

\* Every sequence of numbers has partial sums.
LEMMA SumsExist ==
    ASSUME NEW w \in Seq(Int)
    PROVE  \E f : Sums(f, w)
<1> DEFINE S == {k \in Nat : k <= Len(w) => HasSums(w, k)}
<1>1. Len(w) \in Nat /\ \A i \in 1 .. Len(w) : w[i] \in Int
  OBVIOUS
<1>2. HasSums(w, 0)
  <2> DEFINE z == [n \in 0 .. 0 |-> 0]
  <2>1. z \in [0 .. 0 -> Int] /\ Upto(z, w, 0)
    BY DEF Upto
  <2> HIDE DEF z
  <2>2. QED
    BY <2>1, Zenon DEF HasSums
<1>3. ASSUME NEW k \in Nat, k + 1 <= Len(w), HasSums(w, k)
      PROVE  HasSums(w, k + 1)
  <2>1. PICK f \in [0 .. k -> Int] : Upto(f, w, k)
    BY <1>3 DEF HasSums
  <2> DEFINE g == [n \in 0 .. k + 1 |-> IF n <= k THEN f[n] ELSE f[k] + w[k + 1]]
  <2>2. g \in [0 .. k + 1 -> Int]
    BY <1>1, <1>3
  <2>3. ASSUME NEW n \in 1 .. k + 1
        PROVE  g[n] = g[n - 1] + w[n]
    <3>1. CASE n <= k
      BY <2>1, <3>1 DEF Upto
    <3>2. CASE n = k + 1
      BY <3>2
    <3>3. QED
      BY <3>1, <3>2
  <2>4. g[0] = 0
    BY <2>1 DEF Upto
  <2> HIDE DEF g
  <2>5. Upto(g, w, k + 1)
    BY <2>3, <2>4 DEF Upto
  <2>6. QED
    BY <2>2, <2>5, Zenon DEF HasSums
<1>4. \A n \in Nat : n \in S
  <2>1. 0 \in S
    BY <1>2
  <2>2. ASSUME NEW k \in S
        PROVE  k + 1 \in S
    <3>1. k \in Nat /\ (k <= Len(w) => HasSums(w, k))
      OBVIOUS
    <3>2. QED
      BY <1>1, <1>3, <3>1
  <2> HIDE DEF S
  <2>3. S \in SUBSET Nat
    BY DEF S
  <2>4. QED
    BY <2>1, <2>2, <2>3, Induction
<1>5. HasSums(w, Len(w))
  BY <1>1, <1>4
<1>6. PICK f \in [0 .. Len(w) -> Int] : Upto(f, w, Len(w))
  BY <1>5 DEF HasSums
<1>7. Sums(f, w)
  BY <1>1, <1>6 DEF Sums, Upto
<1>8. QED
  BY <1>7

\* The total is the last of them.
LEMMA TotalIs ==
    ASSUME NEW w \in Seq(Int)
    PROVE  \E f : Sums(f, w) /\ Total(w) = f[Len(w)]
<1> DEFINE F == CHOOSE f : Sums(f, w)
<1>1. Sums(F, w)
  BY SumsExist
<1>2. Total(w) = F[Len(w)]
  BY DEF Total, Sums
<1>3. QED
  BY <1>1, <1>2

\* The partial sums are numbers.
LEMMA SumsInt ==
    ASSUME NEW w \in Seq(Int), NEW f, Sums(f, w)
    PROVE  f \in [0 .. Len(w) -> Int]
<1> DEFINE S == {k \in Nat : k <= Len(w) => f[k] \in Int}
<1>1. Len(w) \in Nat /\ \A i \in 1 .. Len(w) : w[i] \in Int
  OBVIOUS
<1>2. 0 \in S
  BY <1>1 DEF Sums
<1>3. ASSUME NEW k \in S
      PROVE  k + 1 \in S
  <2>1. SUFFICES ASSUME k + 1 <= Len(w)
                 PROVE  f[k + 1] \in Int
    BY <1>1
  <2>2. k \in Nat /\ f[k] \in Int /\ w[k + 1] \in Int
    BY <1>1, <2>1
  <2>3. f[k + 1] = f[k] + w[k + 1]
    BY <1>1, <2>1, <2>2 DEF Sums
  <2>4. QED
    BY <2>2, <2>3
<1>4. \A k \in Nat : k \in S
  <2> HIDE DEF S
  <2>1. S \in SUBSET Nat
    BY DEF S
  <2>2. QED
    BY <1>2, <1>3, <2>1, Induction
<1>5. QED
  BY <1>1, <1>4 DEF Sums

\* Sequences that begin alike have the same partial sums there.
LEMMA SumsAgree ==
    ASSUME NEW w \in Seq(Int), NEW v \in Seq(Int), NEW f, NEW g, Sums(f, w), Sums(g, v),
           NEW m \in Nat, m <= Len(w), m <= Len(v), \A i \in 1 .. m : w[i] = v[i]
    PROVE  f[m] = g[m]
<1> DEFINE S == {k \in Nat : k <= m => f[k] = g[k]}
<1>1. Len(w) \in Nat /\ Len(v) \in Nat
  OBVIOUS
<1>2. 0 \in S
  BY <1>1 DEF Sums
<1>3. ASSUME NEW k \in S
      PROVE  k + 1 \in S
  <2>1. SUFFICES ASSUME k + 1 <= m
                 PROVE  f[k + 1] = g[k + 1]
    OBVIOUS
  <2>2. k \in Nat /\ f[k] = g[k] /\ w[k + 1] = v[k + 1]
    BY <2>1
  <2>3. f[k + 1] = f[k] + w[k + 1]
    BY <1>1, <2>1, <2>2 DEF Sums
  <2>4. g[k + 1] = g[k] + v[k + 1]
    BY <1>1, <2>1, <2>2 DEF Sums
  <2>5. QED
    BY <2>2, <2>3, <2>4
<1>4. \A k \in Nat : k \in S
  <2> HIDE DEF S
  <2>1. S \in SUBSET Nat
    BY DEF S
  <2>2. QED
    BY <1>2, <1>3, <2>1, Induction
<1>5. QED
  BY <1>4

\* The total of a sequence of numbers is a number.
LEMMA TotalInt ==
    ASSUME NEW w \in Seq(Int)
    PROVE  Total(w) \in Int
BY TotalIs, SumsInt

\* Numbers that are not negative have a total that is not negative.
LEMMA TotalNat ==
    ASSUME NEW w \in Seq(Int), \A i \in 1 .. Len(w) : w[i] >= 0
    PROVE  Total(w) >= 0
<1>1. PICK f : Sums(f, w) /\ Total(w) = f[Len(w)]
  BY TotalIs
<1>2. Len(w) \in Nat /\ f \in [0 .. Len(w) -> Int] /\ \A i \in 1 .. Len(w) : w[i] \in Int
  BY <1>1, SumsInt
<1>3. f[0] = 0 /\ \A k \in Nat : k + 1 <= Len(w) => f[k + 1] = f[k] + w[k + 1]
  BY <1>1, SumsStep
<1> DEFINE S == {k \in Nat : k <= Len(w) => f[k] >= 0}
<1>4. 0 \in S
  BY <1>3
<1>5. ASSUME NEW k \in S
      PROVE  k + 1 \in S
  <2>1. SUFFICES ASSUME k + 1 <= Len(w)
                 PROVE  f[k + 1] >= 0
    OBVIOUS
  <2>2. k \in 0 .. Len(w) /\ k + 1 \in 1 .. Len(w) /\ k \in Nat /\ f[k] >= 0
    BY <1>2, <2>1
  <2>3. f[k + 1] = f[k] + w[k + 1] /\ f[k] \in Int /\ w[k + 1] \in Int /\ w[k + 1] >= 0
    BY <1>2, <1>3, <2>1, <2>2
  <2>4. QED
    BY <2>2, <2>3
<1>6. \A k \in Nat : k \in S
  <2> HIDE DEF S
  <2>1. S \in SUBSET Nat
    BY DEF S
  <2>2. QED
    BY <1>4, <1>5, <2>1, Induction
<1>7. Len(w) \in S
  BY <1>2, <1>6
<1>8. QED
  BY <1>1, <1>2, <1>7

\* The total of nothing.
LEMMA TotalEmpty == Total(<<>>) = 0
<1>1. <<>> \in Seq(Int) /\ Len(<<>>) = 0
  OBVIOUS
<1>2. PICK f : Sums(f, <<>>) /\ Total(<<>>) = f[Len(<<>>)]
  BY <1>1, TotalIs
<1>3. f[0] = 0
  BY <1>1, <1>2 DEF Sums
<1>4. QED
  BY <1>1, <1>2, <1>3

\* Appending a number adds it to the total.
LEMMA TotalAppend ==
    ASSUME NEW w \in Seq(Int), NEW x \in Int
    PROVE  Total(Append(w, x)) = Total(w) + x
<1> DEFINE v == Append(w, x)
<1>1. PICK f : Sums(f, w) /\ Total(w) = f[Len(w)]
  BY TotalIs
<1>2. v \in Seq(Int) /\ Len(v) = Len(w) + 1 /\ v[Len(w) + 1] = x /\ Len(w) \in Nat
      /\ \A i \in 1 .. Len(w) : w[i] = v[i]
  OBVIOUS
<1> HIDE DEF v
<1>3. PICK g : Sums(g, v) /\ Total(v) = g[Len(v)]
  BY <1>2, TotalIs
<1>4. f[Len(w)] = g[Len(w)]
  <2>1. Len(w) \in Nat /\ Len(w) <= Len(w) /\ Len(w) <= Len(v) /\ v \in Seq(Int)
    BY <1>2
  <2>2. Sums(f, w) /\ Sums(g, v)
    BY <1>1, <1>3
  <2>3. \A i \in 1 .. Len(w) : w[i] = v[i]
    BY <1>2
  <2>4. QED
    BY <2>1, <2>2, <2>3, SumsAgree
<1>5. g[Len(w) + 1] = g[Len(w)] + v[Len(w) + 1]
  BY <1>2, <1>3 DEF Sums
<1>6. QED
  BY <1>1, <1>2, <1>3, <1>4, <1>5 DEF v

\* Removing the first number takes it from the total.
LEMMA TotalTail ==
    ASSUME NEW w \in Seq(Int), w # <<>>
    PROVE  Total(Tail(w)) = Total(w) - w[1]
<1> DEFINE v == Tail(w)
<1>1. PICK f : Sums(f, w) /\ Total(w) = f[Len(w)]
  BY TotalIs
<1>2. v \in Seq(Int) /\ Len(w) = Len(v) + 1 /\ Len(v) \in Nat /\ Len(w) \in Nat
      /\ w[1] \in Int /\ \A i \in 1 .. Len(v) : v[i] = w[i + 1]
  OBVIOUS
<1> HIDE DEF v
<1>3. PICK g : Sums(g, v) /\ Total(v) = g[Len(v)]
  BY <1>2, TotalIs
<1>4. f \in [0 .. Len(w) -> Int] /\ g \in [0 .. Len(v) -> Int]
  BY <1>1, <1>2, <1>3, SumsInt
<1> DEFINE S == {k \in Nat : k <= Len(v) => f[k + 1] = g[k] + w[1]}
<1>5. 0 \in S
  <2>1. f[0] = 0 /\ f[1] = f[0] + w[1] /\ g[0] = 0
    BY <1>1, <1>2, <1>3 DEF Sums
  <2>2. QED
    BY <1>2, <2>1
<1>6. ASSUME NEW k \in S
      PROVE  k + 1 \in S
  <2>1. SUFFICES ASSUME k + 1 <= Len(v)
                 PROVE  f[k + 2] = g[k + 1] + w[1]
    BY <1>2
  <2>2. k \in Nat /\ f[k + 1] = g[k] + w[1] /\ v[k + 1] = w[k + 2]
    BY <1>2, <2>1
  <2>3. f[(k + 1) + 1] = f[k + 1] + w[(k + 1) + 1]
    <3>1. k + 1 \in Nat /\ (k + 1) + 1 <= Len(w)
      BY <1>2, <2>1, <2>2
    <3>2. QED
      BY <1>1, <3>1, SumsStep
  <2>4. g[k + 1] = g[k] + v[k + 1]
    BY <1>2, <1>3, <2>1, <2>2, SumsStep
  <2>5. g[k] \in Int /\ v[k + 1] \in Int
    <3>1. k \in 0 .. Len(v) /\ k + 1 \in 1 .. Len(v)
      BY <1>2, <2>1, <2>2
    <3>2. g[k] \in Int
      BY <1>4, <3>1
    <3>3. v[k + 1] \in Int
      BY <1>2, <3>1
    <3>4. QED
      BY <3>2, <3>3
  <2>6. QED
    BY <1>2, <2>2, <2>3, <2>4, <2>5
<1>7. \A k \in Nat : k \in S
  <2> HIDE DEF S
  <2>1. S \in SUBSET Nat
    BY DEF S
  <2>2. QED
    BY <1>5, <1>6, <2>1, Induction
<1>8. f[Len(w)] = g[Len(v)] + w[1]
  BY <1>2, <1>7
<1>9. QED
  BY <1>1, <1>2, <1>3, <1>4, <1>8 DEF v

FilterOf(f, s, gone) ==
    f = [n \in 0 .. Len(s) |-> IF n = 0 THEN <<>>
                               ELSE IF s[n] \in gone THEN f[n - 1] ELSE Append(f[n - 1], s[n])]

KeepUpto(f, s, gone, k) ==
    /\ f[0] = <<>>
    /\ \A n \in 1 .. k : f[n] = IF s[n] \in gone THEN f[n - 1] ELSE Append(f[n - 1], s[n])
HasFilter(s, gone, S, k) == \E f \in [0 .. k -> Seq(S)] : KeepUpto(f, s, gone, k)

\* What is left of each beginning of a sequence can be listed.
LEMMA FilterExists ==
    ASSUME NEW S, NEW s \in Seq(S), NEW gone
    PROVE  \E f \in [0 .. Len(s) -> Seq(S)] : FilterOf(f, s, gone)
<1> DEFINE T == {k \in Nat : k <= Len(s) => HasFilter(s, gone, S, k)}
<1>1. Len(s) \in Nat /\ \A i \in 1 .. Len(s) : s[i] \in S
  OBVIOUS
<1>2. HasFilter(s, gone, S, 0)
  <2> DEFINE z == [n \in 0 .. 0 |-> <<>>]
  <2>1. z \in [0 .. 0 -> Seq(S)] /\ KeepUpto(z, s, gone, 0)
    BY DEF KeepUpto
  <2> HIDE DEF z
  <2>2. QED
    BY <2>1, Zenon DEF HasFilter
<1>3. ASSUME NEW k \in Nat, k + 1 <= Len(s), HasFilter(s, gone, S, k)
      PROVE  HasFilter(s, gone, S, k + 1)
  <2>1. PICK f \in [0 .. k -> Seq(S)] : KeepUpto(f, s, gone, k)
    BY <1>3 DEF HasFilter
  <2> DEFINE x == IF s[k + 1] \in gone THEN f[k] ELSE Append(f[k], s[k + 1])
             g == [n \in 0 .. k + 1 |-> IF n <= k THEN f[n] ELSE x]
  <2>2. x \in Seq(S)
    BY <1>1, <1>3
  <2>3. ASSUME NEW n \in 1 .. k + 1
        PROVE  g[n] = IF s[n] \in gone THEN g[n - 1] ELSE Append(g[n - 1], s[n])
    <3>1. CASE n <= k
      <4>1. n - 1 \in 0 .. k /\ n \in 0 .. k /\ n \in 1 .. k
        BY <3>1
      <4>2. g[n] = f[n] /\ g[n - 1] = f[n - 1]
        BY <4>1, <3>1
      <4> HIDE DEF g
      <4>3. QED
        BY <2>1, <4>1, <4>2 DEF KeepUpto
    <3>2. CASE n = k + 1
      <4>1. g[n] = x /\ g[n - 1] = f[k]
        BY <3>2
      <4> HIDE DEF g
      <4>2. QED
        BY <3>2, <4>1
    <3>3. QED
      BY <3>1, <3>2
  <2>4. g \in [0 .. k + 1 -> Seq(S)]
    <3> HIDE DEF x
    <3> QED
      BY <2>2
  <2>5. g[0] = <<>>
    BY <2>1 DEF KeepUpto
  <2> HIDE DEF g
  <2>6. KeepUpto(g, s, gone, k + 1)
    BY <2>3, <2>5 DEF KeepUpto
  <2>7. QED
    BY <2>4, <2>6, Zenon DEF HasFilter
<1>4. \A n \in Nat : n \in T
  <2>1. 0 \in T
    BY <1>2
  <2>2. ASSUME NEW k \in T
        PROVE  k + 1 \in T
    <3>1. k \in Nat /\ (k <= Len(s) => HasFilter(s, gone, S, k))
      OBVIOUS
    <3>2. QED
      BY <1>1, <1>3, <3>1
  <2> HIDE DEF T
  <2>3. T \in SUBSET Nat
    BY DEF T
  <2>4. QED
    BY <2>1, <2>2, <2>3, Induction
<1>5. HasFilter(s, gone, S, Len(s))
  BY <1>1, <1>4
<1>6. PICK f \in [0 .. Len(s) -> Seq(S)] : KeepUpto(f, s, gone, Len(s))
  BY <1>5 DEF HasFilter
<1>7. FilterOf(f, s, gone)
  <2>1. ASSUME NEW n \in 0 .. Len(s)
        PROVE  f[n] = IF n = 0 THEN <<>>
                      ELSE IF s[n] \in gone THEN f[n - 1] ELSE Append(f[n - 1], s[n])
    <3>1. n = 0 \/ n \in 1 .. Len(s)
      BY <1>1
    <3>2. QED
      BY <1>6, <3>1 DEF KeepUpto
  <2>2. QED
    BY <2>1 DEF FilterOf
<1>8. QED
  BY <1>7

\* What is left of a sequence has the elements that were not taken out.
LEMMA WithoutElements ==
    ASSUME NEW S, NEW s \in Seq(S), NEW gone
    PROVE  /\ Without(s, gone) \in Seq(S)
           /\ \A x : (\E i \in 1 .. Len(Without(s, gone)) : Without(s, gone)[i] = x)
                     <=> x \notin gone /\ \E i \in 1 .. Len(s) : s[i] = x
<1> DEFINE f == CHOOSE g : FilterOf(g, s, gone)
<1>1. FilterOf(f, s, gone) /\ Without(s, gone) = f[Len(s)]
  <2>1. FilterOf(f, s, gone)
    BY FilterExists
  <2>2. Without(s, gone) = f[Len(s)]
    BY DEF Without, FilterOf
  <2>3. QED
    BY <2>1, <2>2
<1> HIDE DEF f
<1>2. Len(s) \in Nat /\ \A i \in 1 .. Len(s) : s[i] \in S
  OBVIOUS
<1>3. f[0] = <<>>
  BY <1>1, <1>2 DEF FilterOf
<1>4. ASSUME NEW k \in Nat, k + 1 <= Len(s)
      PROVE  f[k + 1] = IF s[k + 1] \in gone THEN f[k] ELSE Append(f[k], s[k + 1])
  <2>1. k + 1 \in 0 .. Len(s) /\ k + 1 # 0 /\ (k + 1) - 1 = k
    BY <1>2, <1>4
  <2>2. QED
    BY <1>1, <2>1 DEF FilterOf
<1> DEFINE In(x, q) == \E i \in 1 .. Len(q) : q[i] = x
           Good(k) == /\ f[k] \in Seq(S)
                      /\ \A x : In(x, f[k]) <=> x \notin gone /\ \E i \in 1 .. k : s[i] = x
           T == {k \in Nat : k <= Len(s) => Good(k)}
<1>5. Good(0)
  BY <1>3
<1>6. ASSUME NEW k \in Nat, k + 1 <= Len(s), Good(k)
      PROVE  Good(k + 1)
  <2>1. CASE s[k + 1] \in gone
    <3>1. f[k + 1] = f[k]
      BY <1>4, <1>6, <2>1
    <3>2. \A x : (\E i \in 1 .. k + 1 : s[i] = x) <=> (x = s[k + 1] \/ \E i \in 1 .. k : s[i] = x)
      OBVIOUS
    <3> HIDE DEF In
    <3>3. QED
      BY <1>6, <2>1, <3>1, <3>2
  <2>2. CASE s[k + 1] \notin gone
    <3>1. f[k + 1] = Append(f[k], s[k + 1]) /\ s[k + 1] \in S
      <4>1. k + 1 \in 1 .. Len(s)
        BY <1>2, <1>6
      <4>2. s[k + 1] \in S
        BY <1>2, <4>1
      <4>3. f[k + 1] = Append(f[k], s[k + 1])
        BY <1>4, <1>6, <2>2
      <4>4. QED
        BY <4>2, <4>3
    <3>2. \A x : (\E i \in 1 .. k + 1 : s[i] = x) <=> (x = s[k + 1] \/ \E i \in 1 .. k : s[i] = x)
      OBVIOUS
    <3>3. ASSUME NEW q \in Seq(S), NEW e \in S, NEW x
          PROVE  In(x, Append(q, e)) <=> x = e \/ In(x, q)
      <4>1. /\ Len(q) \in Nat /\ Len(Append(q, e)) = Len(q) + 1 /\ Append(q, e)[Len(q) + 1] = e
            /\ \A i \in 1 .. Len(q) : Append(q, e)[i] = q[i]
        OBVIOUS
      <4>2. QED
        BY <4>1
    <3> HIDE DEF In
    <3>4. QED
      BY <1>6, <2>2, <3>1, <3>2, <3>3
  <2>3. QED
    BY <2>1, <2>2
<1>7. \A n \in Nat : n \in T
  <2> HIDE DEF Good
  <2>1. 0 \in T
    BY <1>5
  <2>2. ASSUME NEW k \in T
        PROVE  k + 1 \in T
    <3>1. k \in Nat /\ (k <= Len(s) => Good(k))
      OBVIOUS
    <3>2. QED
      BY <1>2, <1>6, <3>1
  <2> HIDE DEF T
  <2>3. T \in SUBSET Nat
    BY DEF T
  <2>4. QED
    BY <2>1, <2>2, <2>3, Induction
<1>8. Good(Len(s))
  <2> HIDE DEF Good
  <2> QED
    BY <1>2, <1>7
<1>9. QED
  BY <1>1, <1>8

\* Taking out an element that occurs at most once, at p, closes the gap.
LEMMA WithoutOne ==
    ASSUME NEW S, NEW s \in Seq(S), NEW x, NEW p \in 1 .. Len(s) + 1,
           p <= Len(s) => s[p] = x,
           \A i \in 1 .. Len(s) : i # p => s[i] # x
    PROVE  LET rest == Without(s, {x}) IN
           /\ rest \in Seq(S)
           /\ Len(rest) = IF p <= Len(s) THEN Len(s) - 1 ELSE Len(s)
           /\ \A i \in 1 .. Len(rest) : rest[i] = IF i < p THEN s[i] ELSE s[i + 1]
<1> DEFINE f == CHOOSE g : FilterOf(g, s, {x})
<1>1. FilterOf(f, s, {x}) /\ Without(s, {x}) = f[Len(s)]
  <2>1. FilterOf(f, s, {x})
    BY FilterExists
  <2>2. Without(s, {x}) = f[Len(s)]
    BY DEF Without, FilterOf
  <2>3. QED
    BY <2>1, <2>2
<1> HIDE DEF f
<1>2. Len(s) \in Nat /\ \A i \in 1 .. Len(s) : s[i] \in S
  OBVIOUS
<1>3. f[0] = <<>>
  BY <1>1, <1>2 DEF FilterOf
<1>4. ASSUME NEW k \in Nat, k + 1 <= Len(s)
      PROVE  f[k + 1] = IF s[k + 1] = x THEN f[k] ELSE Append(f[k], s[k + 1])
  <2>1. k + 1 \in 0 .. Len(s) /\ k + 1 # 0 /\ (k + 1) - 1 = k
    BY <1>2, <1>4
  <2>2. QED
    BY <1>1, <2>1 DEF FilterOf
<1> DEFINE Good(k) == /\ f[k] \in Seq(S)
                      /\ Len(f[k]) = IF p <= k THEN k - 1 ELSE k
                      /\ \A i \in 1 .. Len(f[k]) : f[k][i] = IF i < p THEN s[i] ELSE s[i + 1]
           T == {k \in Nat : k <= Len(s) => Good(k)}
<1>5. Good(0)
  BY <1>3
<1>6. ASSUME NEW k \in Nat, k + 1 <= Len(s), Good(k)
      PROVE  Good(k + 1)
  <2>1. k + 1 \in 1 .. Len(s) /\ s[k + 1] \in S
    BY <1>2, <1>6
  <2>2. CASE k + 1 = p
    <3>1. f[k + 1] = f[k]
      BY <1>4, <1>6, <2>2
    <3>2. QED
      BY <1>6, <2>2, <3>1
  <2>3. CASE k + 1 # p
    <3>1. f[k + 1] = Append(f[k], s[k + 1])
      BY <1>4, <1>6, <2>1, <2>3
    <3>2. /\ f[k] \in Seq(S) /\ f[k + 1] \in Seq(S) /\ Len(f[k + 1]) = Len(f[k]) + 1
          /\ f[k + 1][Len(f[k]) + 1] = s[k + 1] /\ Len(f[k]) \in Nat
          /\ \A i \in 1 .. Len(f[k]) : f[k + 1][i] = f[k][i]
      BY <1>6, <2>1, <3>1
    <3>3. ASSUME NEW i \in 1 .. Len(f[k + 1])
          PROVE  f[k + 1][i] = IF i < p THEN s[i] ELSE s[i + 1]
      <4>1. CASE i <= Len(f[k])
        <5>1. i \in 1 .. Len(f[k])
          BY <3>2, <4>1
        <5>2. f[k + 1][i] = f[k][i]
          BY <3>2, <5>1
        <5>3. f[k][i] = IF i < p THEN s[i] ELSE s[i + 1]
          BY <1>6, <5>1
        <5>4. QED
          BY <5>2, <5>3
      <4>2. CASE i = Len(f[k]) + 1
        <5>1. f[k + 1][i] = s[k + 1]
          BY <3>2, <4>2
        <5>2. i = IF p <= k THEN k ELSE k + 1
          BY <1>6, <4>2
        <5>3. CASE p <= k
          BY <5>1, <5>2, <5>3
        <5>4. CASE p > k
          <6>1. i = k + 1 /\ i < p
            BY <2>3, <5>2, <5>4
          <6>2. QED
            BY <5>1, <6>1
        <5>5. QED
          BY <5>3, <5>4
      <4>3. QED
        BY <3>2, <4>1, <4>2
    <3>4. QED
      BY <1>6, <2>3, <3>2, <3>3
  <2>4. QED
    BY <2>2, <2>3
<1>7. \A n \in Nat : n \in T
  <2> HIDE DEF Good
  <2>1. 0 \in T
    BY <1>5
  <2>2. ASSUME NEW k \in T
        PROVE  k + 1 \in T
    <3>1. k \in Nat /\ (k <= Len(s) => Good(k))
      OBVIOUS
    <3>2. QED
      BY <1>2, <1>6, <3>1
  <2> HIDE DEF T
  <2>3. T \in SUBSET Nat
    BY DEF T
  <2>4. QED
    BY <2>1, <2>2, <2>3, Induction
<1>8. Good(Len(s))
  <2> HIDE DEF Good
  <2> QED
    BY <1>2, <1>7
<1>9. QED
  BY <1>1, <1>2, <1>8

\* A function on 1 .. n is a sequence of length n.
LEMMA FunIsSeq ==
    ASSUME NEW S, NEW n \in Nat, NEW f \in [1 .. n -> S]
    PROVE  f \in Seq(S) /\ Len(f) = n
<1>1. f \in Seq(S)
  BY SeqDef
<1>2. DOMAIN f = 1 .. Len(f) /\ Len(f) \in Nat /\ DOMAIN f = 1 .. n
  BY <1>1, LenProperties
<1>3. QED
  BY <1>1, <1>2

\* A sequence of whatever elements it has.
IsSeq(s) == s \in Seq({s[i] : i \in DOMAIN s})

\* The empty sequence is one.
LEMMA IsSeqEmpty == IsSeq(<<>>)
BY DEF IsSeq

\* Appending makes a sequence one longer and changes nothing before its end.
LEMMA IsSeqAppend ==
    ASSUME NEW s, NEW x, IsSeq(s)
    PROVE  /\ IsSeq(Append(s, x)) /\ Len(s) \in Nat /\ Len(Append(s, x)) = Len(s) + 1
           /\ \A i \in 1 .. Len(s) : Append(s, x)[i] = s[i]
           /\ Append(s, x)[Len(s) + 1] = x
           /\ DOMAIN Append(s, x) = 1 .. Len(s) + 1
<1> DEFINE S == {s[i] : i \in DOMAIN s} \cup {x}
           T == {Append(s, x)[i] : i \in DOMAIN Append(s, x)}
<1>1. s \in Seq(S)
  <2>1. s \in Seq({s[i] : i \in DOMAIN s})
    BY DEF IsSeq
  <2>2. {s[i] : i \in DOMAIN s} \subseteq S
    OBVIOUS
  <2> HIDE DEF S
  <2>3. QED
    BY <2>1, <2>2, SeqMonotonic
<1>2. x \in S
  OBVIOUS
<1> HIDE DEF S
<1>3. /\ Append(s, x) \in Seq(S) /\ Len(s) \in Nat /\ Len(Append(s, x)) = Len(s) + 1
      /\ \A i \in 1 .. Len(s) : Append(s, x)[i] = s[i]
      /\ Append(s, x)[Len(s) + 1] = x
      /\ DOMAIN Append(s, x) = 1 .. Len(s) + 1
  BY <1>1, <1>2
<1>4. Append(s, x) \in [1 .. Len(s) + 1 -> T]
  <2>1. Len(s) + 1 \in Nat
    BY <1>3
  <2>2. \A i \in 1 .. Len(s) + 1 : Append(s, x)[i] \in T
    BY <1>3
  <2>3. Append(s, x) \in [1 .. Len(s) + 1 -> S]
    BY <1>3, <2>1, LenProperties
  <2> HIDE DEF T
  <2>4. QED
    BY <2>2, <2>3
<1>5. Append(s, x) \in Seq(T)
  <2> HIDE DEF T
  <2>1. Len(s) + 1 \in Nat
    BY <1>3
  <2>2. QED
    BY <1>4, <2>1, SeqDef
<1>6. QED
  BY <1>3, <1>5 DEF IsSeq

\* A sequence with one element set anew.
LEMMA IsSeqSet ==
    ASSUME NEW s, NEW k, NEW v, IsSeq(s), k \in 1 .. Len(s)
    PROVE  LET u == [s EXCEPT ![k] = v] IN
           /\ IsSeq(u) /\ Len(u) = Len(s) /\ Len(s) \in Nat /\ DOMAIN s = 1 .. Len(s)
           /\ u[k] = v /\ \A i \in 1 .. Len(s) : i # k => u[i] = s[i]
<1> DEFINE S == {s[i] : i \in DOMAIN s} \cup {v}
           u == [s EXCEPT ![k] = v]
           n == Len(s)
<1>1. n \in Nat /\ DOMAIN s = 1 .. n
  <2>1. s \in Seq({s[i] : i \in DOMAIN s})
    BY DEF IsSeq
  <2> HIDE DEF n
  <2>2. QED
    BY <2>1, LenProperties DEF n
<1>2. u \in [1 .. n -> S] /\ u[k] = v /\ \A i \in 1 .. n : i # k => u[i] = s[i]
  BY <1>1
<1> HIDE DEF u, n, S
<1>3. Len(u) = n
  BY <1>1, <1>2, FunIsSeq
<1>4. u \in [1 .. n -> {u[i] : i \in DOMAIN u}]
  BY <1>2
<1>5. IsSeq(u)
  <2> DEFINE T == {u[i] : i \in DOMAIN u}
  <2>1. u \in [1 .. n -> T]
    BY <1>4
  <2> HIDE DEF T
  <2>2. u \in Seq(T)
    BY <1>1, <2>1, FunIsSeq
  <2>3. QED
    BY <2>2 DEF IsSeq, T
<1>6. QED
  BY <1>1, <1>2, <1>3, <1>5 DEF u, n

\* A sequence of anything has a length and is a function on the numbers up to it.
LEMMA IsSeqDomain ==
    ASSUME NEW s, IsSeq(s)
    PROVE  Len(s) \in Nat /\ DOMAIN s = 1 .. Len(s) /\ s = [i \in 1 .. Len(s) |-> s[i]]
<1> DEFINE S == {s[i] : i \in DOMAIN s}
<1>1. s \in Seq(S)
  BY DEF IsSeq
<1> HIDE DEF S
<1>2. Len(s) \in Nat /\ DOMAIN s = 1 .. Len(s) /\ s \in [1 .. Len(s) -> S]
  BY <1>1, LenProperties
<1>3. QED
  BY <1>2

\* A function on 1 .. n is one.
LEMMA IsSeqFun ==
    ASSUME NEW n \in Nat, NEW f, f = [i \in 1 .. n |-> f[i]]
    PROVE  IsSeq(f) /\ Len(f) = n /\ DOMAIN f = 1 .. n
<1> DEFINE S == {f[i] : i \in DOMAIN f}
<1>1. DOMAIN f = 1 .. n
  OBVIOUS
<1>2. f \in [1 .. n -> S]
  BY <1>1
<1> HIDE DEF S
<1>3. f \in Seq(S) /\ Len(f) = n
  BY <1>2, FunIsSeq
<1>4. QED
  BY <1>1, <1>3 DEF IsSeq, S

\* A part of a sequence.
LEMMA IsSeqSub ==
    ASSUME NEW s, IsSeq(s), NEW m \in Nat \ {0}, NEW n \in Nat, n <= Len(s)
    PROVE  LET u == SubSeq(s, m, n) IN
           /\ IsSeq(u) /\ Len(u) = IF m <= n THEN n - m + 1 ELSE 0
           /\ DOMAIN u = 1 .. Len(u) /\ \A i \in 1 .. Len(u) : u[i] = s[m + i - 1]
<1> DEFINE S == {s[i] : i \in DOMAIN s}
           u == SubSeq(s, m, n)
           l == IF m <= n THEN n - m + 1 ELSE 0
<1>1. Len(s) \in Nat /\ \A i \in m .. n : s[i] \in S
  BY IsSeqDomain
<1> HIDE DEF S
<1>2. u \in Seq(S) /\ Len(u) = l /\ \A i \in 1 .. n - m + 1 : u[i] = s[m + i - 1]
  BY <1>1, SubSeqProperties
<1>3. l \in Nat /\ 1 .. l = 1 .. n - m + 1
  OBVIOUS
<1> HIDE DEF u, l
<1>4. u \in [1 .. l -> S]
  BY <1>2, LenProperties
<1>5. u = [i \in 1 .. l |-> u[i]]
  BY <1>4
<1>6. IsSeq(u) /\ DOMAIN u = 1 .. l
  BY <1>3, <1>5, IsSeqFun
<1>7. QED
  BY <1>2, <1>3, <1>6 DEF u, l

\* One sequence after another.
LEMMA IsSeqConcat ==
    ASSUME NEW s, IsSeq(s), NEW t, IsSeq(t)
    PROVE  /\ IsSeq(s \o t) /\ Len(s \o t) = Len(s) + Len(t) /\ DOMAIN (s \o t) = 1 .. Len(s) + Len(t)
           /\ \A i \in 1 .. Len(s) + Len(t) : (s \o t)[i] = IF i <= Len(s) THEN s[i] ELSE t[i - Len(s)]
<1> DEFINE S == {s[i] : i \in DOMAIN s}
           T == {t[i] : i \in DOMAIN t}
           U == S \cup T
           u == s \o t
           l == Len(s) + Len(t)
<1>1. s \in Seq(S) /\ t \in Seq(T) /\ S \subseteq U /\ T \subseteq U
  BY DEF IsSeq
<1> HIDE DEF S, T, U
<1>2. s \in Seq(U) /\ t \in Seq(U)
  BY <1>1, SeqMonotonic
<1>3. /\ u \in Seq(U) /\ Len(u) = l
      /\ \A i \in 1 .. l : u[i] = IF i <= Len(s) THEN s[i] ELSE t[i - Len(s)]
  BY <1>2, ConcatProperties
<1>4. l \in Nat
  BY IsSeqDomain
<1> HIDE DEF u, l
<1>5. u \in [1 .. l -> U]
  BY <1>3, LenProperties
<1>6. u = [i \in 1 .. l |-> u[i]]
  BY <1>5
<1>7. IsSeq(u) /\ DOMAIN u = 1 .. l
  BY <1>4, <1>6, IsSeqFun
<1>8. QED
  BY <1>3, <1>7 DEF u, l
=============================================================================
