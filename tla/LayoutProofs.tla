---------------------------- MODULE LayoutProofs ----------------------------
(***************************************************************************)
(* Proofs about the layout tree and about the main loop's panes, tabs and  *)
(* input modes (Workbench), for any number of panes and tabs, any terminal *)
(* sizes and any layout specs.                                             *)
(*                                                                         *)
(* A tree is a set of paths with something at each, so what an edit does   *)
(* to the tree is said of one path at a time; only what the areas of a     *)
(* path are goes by induction on its length.                               *)
(***************************************************************************)
EXTENDS Editing, FiniteSetTheorems, FunctionTheorems, SeqOpsProofs

-----------------------------------------------------------------------------
(* Paths.                                                                  *)

Paths == Seq(BOOLEAN)

\* Two paths are equal when they agree at every step.
LEMMA PathEqual ==
    ASSUME NEW p \in Paths, NEW q \in Paths, Len(p) = Len(q), \A k \in 1 .. Len(p) : p[k] = q[k]
    PROVE  p = q
BY SeqEqual DEF Paths

\* One path is the beginning of another.
LEMMA PrefixIs ==
    ASSUME NEW p \in Paths, NEW q \in Paths
    PROVE  SeqX!IsPrefix(p, q) <=> Len(p) <= Len(q) /\ \A k \in 1 .. Len(p) : p[k] = q[k]
<1>1. Len(p) \in Nat /\ Len(q) \in Nat
  BY DEF Paths
<1>2. ASSUME Len(p) <= Len(q)
      PROVE  /\ SubSeq(p, 1, Len(p)) = p
             /\ SubSeq(q, 1, Len(p)) \in Paths /\ Len(SubSeq(q, 1, Len(p))) = Len(p)
             /\ \A k \in 1 .. Len(p) : SubSeq(q, 1, Len(p))[k] = q[k]
  <2>1. \A k \in 1 .. Len(p) : q[k] \in BOOLEAN
    BY <1>1, <1>2 DEF Paths
  <2>2. SubSeq(p, 1, Len(p)) = p
    BY SubSeqFull DEF Paths
  <2>3. /\ SubSeq(q, 1, Len(p)) \in Paths
        /\ Len(SubSeq(q, 1, Len(p))) = IF 1 <= Len(p) THEN Len(p) - 1 + 1 ELSE 0
        /\ \A k \in 1 .. Len(p) - 1 + 1 : SubSeq(q, 1, Len(p))[k] = q[1 + k - 1]
    BY <1>1, <2>1, SubSeqProperties DEF Paths
  <2>4. QED
    BY <1>1, <2>2, <2>3
<1>3. QED
  BY <1>1, <1>2, PathEqual DEF SeqX!IsPrefix

\* A step down and the way back up.
LEMMA DownUp ==
    ASSUME NEW p \in Paths, NEW b \in BOOLEAN
    PROVE  /\ Append(p, b) \in Paths /\ Append(p, b) # <<>> /\ Len(Append(p, b)) = Len(p) + 1
           /\ Append(p, b)[Len(p) + 1] = b /\ \A k \in 1 .. Len(p) : Append(p, b)[k] = p[k]
           /\ Up(Append(p, b)) = p
<1>1. Len(p) \in Nat
  BY DEF Paths
<1>2. /\ Append(p, b) \in Paths /\ Append(p, b) # <<>> /\ Len(Append(p, b)) = Len(p) + 1
      /\ Append(p, b)[Len(p) + 1] = b /\ \A k \in 1 .. Len(p) : Append(p, b)[k] = p[k]
  BY AppendProperties DEF Paths
<1>3. /\ SubSeq(Append(p, b), 1, Len(p)) \in Paths
      /\ Len(SubSeq(Append(p, b), 1, Len(p))) = Len(p)
      /\ \A k \in 1 .. Len(p) : SubSeq(Append(p, b), 1, Len(p))[k] = p[k]
  <2>1. \A k \in 1 .. Len(p) : Append(p, b)[k] \in BOOLEAN
    BY <1>1, <1>2 DEF Paths
  <2>2. /\ SubSeq(Append(p, b), 1, Len(p)) \in Paths
        /\ Len(SubSeq(Append(p, b), 1, Len(p))) = IF 1 <= Len(p) THEN Len(p) - 1 + 1 ELSE 0
        /\ \A k \in 1 .. Len(p) - 1 + 1 : SubSeq(Append(p, b), 1, Len(p))[k] = Append(p, b)[1 + k - 1]
    BY <1>1, <2>1, SubSeqProperties DEF Paths
  <2>3. QED
    BY <1>1, <1>2, <2>2
<1>4. Up(Append(p, b)) = p
  <2>1. Up(Append(p, b)) = SubSeq(Append(p, b), 1, Len(p))
    BY <1>1, <1>2 DEF Up
  <2>2. QED
    BY <1>3, <2>1, PathEqual
<1>5. QED
  BY <1>2, <1>4

\* A step up and the way back down.
LEMMA UpDown ==
    ASSUME NEW p \in Paths, p # <<>>
    PROVE  /\ Len(p) \in Nat \ {0} /\ p[Len(p)] \in BOOLEAN
           /\ Up(p) \in Paths /\ Len(Up(p)) = Len(p) - 1
           /\ \A k \in 1 .. Len(p) - 1 : Up(p)[k] = p[k]
           /\ Append(Up(p), p[Len(p)]) = p
<1>1. Len(p) \in Nat \ {0} /\ \A k \in 1 .. Len(p) : p[k] \in BOOLEAN
  BY EmptySeq DEF Paths
<1>2. p[Len(p)] \in BOOLEAN
  BY <1>1
<1>3. /\ Up(p) \in Paths
      /\ Len(Up(p)) = IF 1 <= Len(p) - 1 THEN Len(p) - 1 - 1 + 1 ELSE 0
      /\ \A k \in 1 .. Len(p) - 1 - 1 + 1 : Up(p)[k] = p[1 + k - 1]
  <2>1. \A k \in 1 .. Len(p) - 1 : p[k] \in BOOLEAN
    BY <1>1
  <2>2. QED
    BY <1>1, <2>1, SubSeqProperties DEF Paths, Up
<1>4. Len(Up(p)) = Len(p) - 1 /\ \A k \in 1 .. Len(p) - 1 : Up(p)[k] = p[k]
  <2> DEFINE n == Len(p)
             u == Up(p)
  <2>1. n \in Nat \ {0} /\ Len(u) = (IF 1 <= n - 1 THEN n - 1 - 1 + 1 ELSE 0)
        /\ \A k \in 1 .. n - 1 - 1 + 1 : u[k] = p[1 + k - 1]
    BY <1>1, <1>3
  <2> HIDE DEF n, u
  <2>2. Len(u) = n - 1
    BY <2>1
  <2>3. \A k \in 1 .. n - 1 : u[k] = p[k]
    BY <2>1
  <2>4. QED
    BY <2>2, <2>3 DEF n, u
<1>5. Append(Up(p), p[Len(p)]) = p
  <2> DEFINE q == Append(Up(p), p[Len(p)])
  <2>1. /\ q \in Paths /\ Len(q) = Len(Up(p)) + 1
        /\ q[Len(Up(p)) + 1] = p[Len(p)] /\ \A k \in 1 .. Len(Up(p)) : q[k] = Up(p)[k]
    BY <1>2, <1>3, DownUp
  <2> HIDE DEF q
  <2>2. Len(q) = Len(p) /\ \A k \in 1 .. Len(p) : q[k] = p[k]
    BY <1>1, <1>4, <2>1
  <2>3. QED
    BY <2>1, <2>2, PathEqual DEF q
<1>6. QED
  BY <1>1, <1>2, <1>3, <1>4, <1>5

Pre(p, q) == Len(p) <= Len(q) /\ \A k \in 1 .. Len(p) : p[k] = q[k]

\* What is known of paths and their lengths.
LEMMA PathFacts ==
    /\ <<>> \in Paths /\ Len(<<>>) = 0
    /\ \A p \in Paths : Len(p) \in Nat /\ DOMAIN p = 1 .. Len(p) /\ (p = <<>> <=> Len(p) = 0)
    /\ \A p \in Paths : \A k \in 1 .. Len(p) : p[k] \in BOOLEAN
<1>1. <<>> \in Paths /\ Len(<<>>) = 0
  BY DEF Paths
<1>2. ASSUME NEW p \in Paths
      PROVE  /\ Len(p) \in Nat /\ DOMAIN p = 1 .. Len(p) /\ (p = <<>> <=> Len(p) = 0)
             /\ \A k \in 1 .. Len(p) : p[k] \in BOOLEAN
  <2>1. Len(p) \in Nat /\ DOMAIN p = 1 .. Len(p) /\ \A k \in 1 .. Len(p) : p[k] \in BOOLEAN
    BY LenProperties DEF Paths
  <2>2. p = <<>> <=> Len(p) = 0
    BY <1>1, EmptySeq DEF Paths
  <2>3. QED
    BY <2>1, <2>2
<1>3. QED
  BY <1>1, <1>2

\* What a path begins with before and after a step down.
LEMMA PreDown ==
    ASSUME NEW p \in Paths, NEW q \in Paths, NEW b \in BOOLEAN
    PROVE  Pre(p, Append(q, b)) <=> Pre(p, q) \/ p = Append(q, b)
<1> DEFINE r == Append(q, b)
<1>1. /\ r \in Paths /\ Len(r) = Len(q) + 1 /\ r[Len(q) + 1] = b
      /\ \A k \in 1 .. Len(q) : r[k] = q[k]
  BY DownUp
<1>2. Len(p) \in Nat /\ Len(q) \in Nat
  BY PathFacts
<1> HIDE DEF r
<1>3. Pre(p, r) /\ ~Pre(p, q) => p = r
  <2>1. SUFFICES ASSUME Pre(p, r), ~Pre(p, q)
                 PROVE  p = r
    OBVIOUS
  <2>2. Len(p) = Len(r)
    BY <1>1, <1>2, <2>1 DEF Pre
  <2>3. QED
    BY <1>1, <2>1, <2>2, PathEqual DEF Pre
<1>4. Pre(p, q) \/ p = r => Pre(p, r)
  BY <1>1, <1>2 DEF Pre
<1>5. QED
  BY <1>3, <1>4 DEF r

\* A path that begins with another one is it, or is below one of its children.
LEMMA PreNext ==
    ASSUME NEW p \in Paths, NEW q \in Paths, Pre(p, q)
    PROVE  p = q \/ (Len(p) < Len(q) /\ Pre(Append(p, q[Len(p) + 1]), q))
<1>1. Len(p) \in Nat /\ Len(q) \in Nat /\ Len(p) <= Len(q)
  BY PathFacts DEF Pre
<1>2. CASE Len(p) = Len(q)
  BY <1>2, PathEqual DEF Pre
<1>3. CASE Len(p) < Len(q)
  <2> DEFINE b == q[Len(p) + 1]
             r == Append(p, b)
  <2>1. b \in BOOLEAN
    BY <1>1, <1>3, PathFacts
  <2>2. Len(r) = Len(p) + 1 /\ r[Len(p) + 1] = b /\ \A k \in 1 .. Len(p) : r[k] = p[k]
    BY <2>1, DownUp
  <2> HIDE DEF r
  <2>3. Pre(r, q)
    BY <1>1, <1>3, <2>2 DEF Pre
  <2>4. QED
    BY <1>3, <2>3 DEF r
<1>4. QED
  BY <1>1, <1>2, <1>3

\* Paths put together.
LEMMA JoinIs ==
    ASSUME NEW p \in Paths, NEW s \in Paths
    PROVE  /\ p \o s \in Paths /\ Len(p \o s) = Len(p) + Len(s) /\ p \o <<>> = p
           /\ \A k \in 1 .. Len(p) : (p \o s)[k] = p[k]
           /\ \A k \in 1 .. Len(s) : (p \o s)[Len(p) + k] = s[k]
           /\ Pre(p, p \o s)
<1>1. Len(p) \in Nat /\ Len(s) \in Nat
  BY PathFacts
<1>2. p \o s \in Paths /\ Len(p \o s) = Len(p) + Len(s) /\ p \o <<>> = p
  BY ConcatProperties, ConcatEmptySeq DEF Paths
<1>3. \A k \in 1 .. Len(p) + Len(s) : (p \o s)[k] = IF k <= Len(p) THEN p[k] ELSE s[k - Len(p)]
  BY ConcatProperties DEF Paths
<1> DEFINE q == p \o s
<1>4. q \in Paths /\ Len(q) = Len(p) + Len(s)
      /\ \A k \in 1 .. Len(p) + Len(s) : q[k] = IF k <= Len(p) THEN p[k] ELSE s[k - Len(p)]
  BY <1>2, <1>3
<1> HIDE DEF q
<1>5. \A k \in 1 .. Len(p) : q[k] = p[k]
  BY <1>1, <1>4
<1>6. \A k \in 1 .. Len(s) : q[Len(p) + k] = s[k]
  BY <1>1, <1>4
<1>7. Pre(p, q)
  BY <1>1, <1>4, <1>5 DEF Pre
<1>8. QED
  BY <1>2, <1>5, <1>6, <1>7 DEF q

\* A join is undone in one way.
LEMMA JoinCancel ==
    ASSUME NEW p \in Paths, NEW s \in Paths, NEW r \in Paths, p \o s = p \o r
    PROVE  s = r
<1>0. Len(p) \in Nat /\ Len(s) \in Nat
  BY PathFacts
<1>1. Len(r) \in Nat /\ Len(s) = Len(r)
  <2>1. Len(r) \in Nat
    BY PathFacts
  <2>2. Len(p \o s) = Len(p) + Len(s) /\ Len(p \o r) = Len(p) + Len(r)
    BY JoinIs
  <2>3. Len(p) + Len(s) = Len(p) + Len(r)
    BY <2>2
  <2>4. QED
    BY <1>0, <2>1, <2>3
<1>2. ASSUME NEW k \in 1 .. Len(s)
      PROVE  s[k] = r[k]
  <2>1. (p \o s)[Len(p) + k] = s[k] /\ (p \o r)[Len(p) + k] = r[k]
    BY <1>1, JoinIs
  <2>2. QED
    BY <2>1
<1>3. QED
  BY <1>1, <1>2, PathEqual

\* A step down is taken after a join as before it.
LEMMA JoinDown ==
    ASSUME NEW p \in Paths, NEW s \in Paths, NEW b \in BOOLEAN
    PROVE  Append(p \o s, b) = p \o Append(s, b)
<1>0. Len(p) \in Nat /\ Len(s) \in Nat
  BY PathFacts
<1> DEFINE j == p \o s
           a == Append(j, b)
           e == Append(s, b)
           c == p \o e
<1>1. /\ j \in Paths /\ Len(j) = Len(p) + Len(s)
      /\ \A k \in 1 .. Len(p) : j[k] = p[k]
      /\ \A k \in 1 .. Len(s) : j[Len(p) + k] = s[k]
  BY JoinIs
<1>2. a \in Paths /\ Len(a) = Len(j) + 1 /\ a[Len(j) + 1] = b /\ \A k \in 1 .. Len(j) : a[k] = j[k]
  <2> HIDE DEF j
  <2> QED
    BY <1>1, DownUp
<1>3. e \in Paths /\ Len(e) = Len(s) + 1 /\ e[Len(s) + 1] = b /\ \A k \in 1 .. Len(s) : e[k] = s[k]
  BY DownUp
<1> HIDE DEF j, a, e
<1>4. /\ c \in Paths /\ Len(c) = Len(p) + Len(e)
      /\ \A k \in 1 .. Len(p) : c[k] = p[k]
      /\ \A k \in 1 .. Len(e) : c[Len(p) + k] = e[k]
  BY <1>3, JoinIs
<1> HIDE DEF c
<1>5. ASSUME NEW k \in 1 .. Len(a)
      PROVE  a[k] = c[k]
  <2>1. CASE k <= Len(p)
    <3>1. k \in 1 .. Len(p) /\ k \in 1 .. Len(j)
      BY <1>0, <1>1, <1>2, <2>1
    <3>2. QED
      BY <1>1, <1>2, <1>4, <3>1
  <2>2. CASE Len(p) < k /\ k <= Len(j)
    <3> DEFINE m == k - Len(p)
    <3>1. m \in 1 .. Len(s) /\ m \in 1 .. Len(e) /\ k = Len(p) + m /\ k \in 1 .. Len(j)
      BY <1>0, <1>1, <1>2, <1>3, <2>2
    <3> HIDE DEF m
    <3>2. a[k] = j[k] /\ j[k] = s[m] /\ c[k] = e[m] /\ e[m] = s[m]
      BY <1>1, <1>2, <1>3, <1>4, <3>1
    <3>3. QED
      BY <3>2
  <2>3. CASE k = Len(j) + 1
    <3>1. Len(s) + 1 \in 1 .. Len(e) /\ k = Len(p) + (Len(s) + 1)
      BY <1>0, <1>1, <1>3, <2>3
    <3>2. c[k] = e[Len(s) + 1]
      BY <1>4, <3>1
    <3>3. QED
      BY <1>2, <1>3, <2>3, <3>2
  <2>4. QED
    BY <1>0, <1>1, <1>2, <2>1, <2>2, <2>3
<1>6. Len(a) = Len(c)
  BY <1>0, <1>1, <1>2, <1>3, <1>4
<1>7. a = c
  BY <1>2, <1>4, <1>5, <1>6, PathEqual
<1>8. QED
  BY <1>7 DEF a, j, c, e

\* A path is what it begins with and the rest.
LEMMA JoinRest ==
    ASSUME NEW p \in Paths, NEW q \in Paths, Pre(p, q)
    PROVE  LET s == SubSeq(q, Len(p) + 1, Len(q)) IN s \in Paths /\ p \o s = q
<1> DEFINE s == SubSeq(q, Len(p) + 1, Len(q))
           j == p \o s
<1>1. Len(p) \in Nat /\ Len(q) \in Nat /\ Len(p) <= Len(q) /\ \A k \in 1 .. Len(q) : q[k] \in BOOLEAN
  BY PathFacts DEF Pre
<1>2. /\ s \in Paths
      /\ Len(s) = (IF Len(p) + 1 <= Len(q) THEN Len(q) - (Len(p) + 1) + 1 ELSE 0)
      /\ \A k \in 1 .. Len(q) - (Len(p) + 1) + 1 : s[k] = q[(Len(p) + 1) + k - 1]
  <2>1. \A k \in Len(p) + 1 .. Len(q) : q[k] \in BOOLEAN
    BY <1>1
  <2>2. QED
    BY <1>1, <2>1, SubSeqProperties DEF Paths
<1> HIDE DEF s
<1>3. Len(s) = Len(q) - Len(p)
  BY <1>1, <1>2
<1>4. \A k \in 1 .. Len(s) : s[k] = q[Len(p) + k]
  <2>1. ASSUME NEW k \in 1 .. Len(s)
        PROVE  s[k] = q[Len(p) + k]
    <3>1. k \in 1 .. Len(q) - (Len(p) + 1) + 1 /\ (Len(p) + 1) + k - 1 = Len(p) + k
      BY <1>1, <1>3
    <3>2. QED
      BY <1>2, <3>1
  <2>2. QED
    BY <2>1
<1>5. /\ j \in Paths /\ Len(j) = Len(p) + Len(s)
      /\ \A k \in 1 .. Len(p) : j[k] = p[k]
      /\ \A k \in 1 .. Len(s) : j[Len(p) + k] = s[k]
  BY <1>2, JoinIs
<1> HIDE DEF j
<1>6. ASSUME NEW k \in 1 .. Len(j)
      PROVE  j[k] = q[k]
  <2>1. CASE k <= Len(p)
    BY <1>1, <1>5, <2>1 DEF Pre
  <2>2. CASE k > Len(p)
    <3> DEFINE m == k - Len(p)
    <3>1. m \in 1 .. Len(s) /\ k = Len(p) + m
      BY <1>1, <1>3, <1>5, <2>2
    <3> HIDE DEF m
    <3>2. QED
      BY <1>4, <1>5, <3>1
  <2>3. QED
    BY <1>1, <1>3, <1>5, <2>1, <2>2
<1>7. j = q
  BY <1>1, <1>3, <1>5, <1>6, PathEqual
<1>8. QED
  BY <1>2, <1>7 DEF s, j

-----------------------------------------------------------------------------
(* The shape of a tree.                                                    *)

\* A finite set of paths that holds the root, and with every other path the
\* one above it and both ways down from there.
IsShape(D) ==
    /\ D \subseteq Paths /\ IsFiniteSet(D) /\ <<>> \in D
    /\ \A p \in D \ {<<>>} : Up(p) \in D /\ \A b \in BOOLEAN : Append(Up(p), b) \in D

\* The same, said of a step down.
LEMMA ShapeIs ==
    ASSUME NEW D
    PROVE  IsShape(D) <=>
             /\ D \subseteq Paths /\ IsFiniteSet(D) /\ <<>> \in D
             /\ \A p \in Paths, b \in BOOLEAN :
                  Append(p, b) \in D => p \in D /\ \A c \in BOOLEAN : Append(p, c) \in D
<1>1. ASSUME IsShape(D), NEW p \in Paths, NEW b \in BOOLEAN, Append(p, b) \in D
      PROVE  p \in D /\ \A c \in BOOLEAN : Append(p, c) \in D
  <2>1. Append(p, b) # <<>> /\ Up(Append(p, b)) = p
    BY DownUp
  <2>2. QED
    BY <1>1, <2>1 DEF IsShape
<1>2. ASSUME D \subseteq Paths, NEW p \in D \ {<<>>},
             \A q \in Paths, b \in BOOLEAN :
               Append(q, b) \in D => q \in D /\ \A c \in BOOLEAN : Append(q, c) \in D
      PROVE  Up(p) \in D /\ \A c \in BOOLEAN : Append(Up(p), c) \in D
  <2>1. p \in Paths /\ p # <<>>
    BY <1>2
  <2>2. Up(p) \in Paths /\ p[Len(p)] \in BOOLEAN /\ Append(Up(p), p[Len(p)]) = p
    BY <2>1, UpDown
  <2>3. QED
    BY <1>2, <2>2, ZenonT(40)
<1>3. QED
  BY <1>1, <1>2 DEF IsShape

\* All that a path in a shape begins with is in it.
LEMMA ShapeClosed ==
    ASSUME NEW D, IsShape(D), NEW p \in Paths, NEW q \in D, Pre(p, q)
    PROVE  p \in D
<1> DEFINE S == {n \in Nat : \A r \in D : Len(r) = Len(p) + n /\ Pre(p, r) => p \in D}
<1>1. D \subseteq Paths
  BY DEF IsShape
<1>2. 0 \in S
  <2>1. ASSUME NEW r \in D, Len(r) = Len(p) + 0, Pre(p, r)
        PROVE  p \in D
    <3>1. r \in Paths /\ Len(p) \in Nat
      BY <1>1, PathFacts
    <3>2. p = r
      BY <2>1, <3>1, PathEqual DEF Pre
    <3>3. QED
      BY <3>2
  <2>2. QED
    BY <2>1
<1>3. ASSUME NEW n \in S
      PROVE  n + 1 \in S
  <2>1. ASSUME NEW r \in D, Len(r) = Len(p) + (n + 1), Pre(p, r)
        PROVE  p \in D
    <3>1. r \in Paths /\ Len(p) \in Nat /\ Len(r) \in Nat /\ n \in Nat
      BY <1>1, PathFacts
    <3>2. r # <<>>
      BY <2>1, <3>1, PathFacts
    <3>3. Up(r) \in D /\ Len(Up(r)) = Len(r) - 1 /\ \A k \in 1 .. Len(r) - 1 : Up(r)[k] = r[k]
      BY <3>1, <3>2, UpDown DEF IsShape
    <3>4. Len(Up(r)) = Len(p) + n /\ Pre(p, Up(r))
      BY <2>1, <3>1, <3>3 DEF Pre
    <3>5. QED
      BY <3>3, <3>4
  <2>2. QED
    BY <2>1
<1>4. \A n \in Nat : n \in S
  <2> HIDE DEF S
  <2>1. S \in SUBSET Nat
    BY DEF S
  <2>2. QED
    BY <1>2, <1>3, <2>1, Induction
<1>5. Len(q) - Len(p) \in S
  <2>1. Len(q) - Len(p) \in Nat
    BY <1>1, PathFacts DEF Pre
  <2>2. QED
    BY <1>4, <2>1
<1>6. Len(q) = Len(p) + (Len(q) - Len(p))
  BY <1>1, PathFacts
<1>7. QED
  BY <1>5, <1>6

\* Nothing in a shape is below a leaf.
LEMMA LeavesApart ==
    ASSUME NEW t, IsShape(DOMAIN t), NEW p \in Leaves(t), NEW q \in DOMAIN t, Pre(p, q)
    PROVE  p = q
<1>1. p \in Paths /\ q \in Paths /\ p \in DOMAIN t /\ Append(p, FALSE) \notin DOMAIN t
  BY DEF IsShape, Leaves
<1>2. SUFFICES ASSUME p # q
               PROVE  FALSE
  OBVIOUS
<1> DEFINE b == q[Len(p) + 1]
           r == Append(p, b)
<1>3. Len(p) < Len(q) /\ Pre(r, q)
  BY <1>1, <1>2, PreNext
<1>4. b \in BOOLEAN
  BY <1>1, <1>3, PathFacts
<1>5. r \in Paths
  BY <1>1, <1>4, DownUp
<1> HIDE DEF r
<1>6. r \in DOMAIN t
  BY <1>3, <1>5, ShapeClosed
<1>7. QED
  BY <1>1, <1>4, <1>6, ShapeIs DEF r

-----------------------------------------------------------------------------
(* The order of the leaves.                                                *)

\* Before is a strict order.
LEMMA BeforeOrder ==
    ASSUME NEW p \in Paths, NEW q \in Paths, NEW r \in Paths
    PROVE  /\ ~Before(p, p)
           /\ Before(p, q) /\ Before(q, r) => Before(p, r)
<1>1. /\ DOMAIN p = 1 .. Len(p) /\ DOMAIN q = 1 .. Len(q) /\ DOMAIN r = 1 .. Len(r)
      /\ Len(p) \in Nat /\ Len(q) \in Nat /\ Len(r) \in Nat
  BY PathFacts
<1>2. ~Before(p, p)
  BY DEF Before
<1>3. ASSUME Before(p, q), Before(q, r)
      PROVE  Before(p, r)
  <2>1. PICK i \in DOMAIN p \cap DOMAIN q : ~p[i] /\ q[i] /\ \A j \in 1 .. i - 1 : p[j] = q[j]
    BY <1>3 DEF Before
  <2>2. PICK k \in DOMAIN q \cap DOMAIN r : ~q[k] /\ r[k] /\ \A j \in 1 .. k - 1 : q[j] = r[j]
    BY <1>3 DEF Before
  <2>3. i # k
    BY <2>1, <2>2
  <2>4. CASE i < k
    <3>1. i \in DOMAIN p \cap DOMAIN r /\ q[i] = r[i]
      BY <1>1, <2>2, <2>4
    <3>2. \A j \in 1 .. i - 1 : p[j] = r[j]
      BY <1>1, <2>1, <2>2, <2>4
    <3>3. QED
      BY <2>1, <3>1, <3>2 DEF Before
  <2>5. CASE k < i
    <3>1. k \in DOMAIN p \cap DOMAIN r /\ p[k] = q[k]
      BY <1>1, <2>1, <2>5
    <3>2. \A j \in 1 .. k - 1 : p[j] = r[j]
      BY <1>1, <2>1, <2>2, <2>5
    <3>3. QED
      BY <2>2, <3>1, <3>2 DEF Before
  <2>6. QED
    BY <1>1, <2>3, <2>4, <2>5
<1>4. QED
  BY <1>2, <1>3

\* Of two leaves one is before the other.
LEMMA BeforeTotal ==
    ASSUME NEW t, IsShape(DOMAIN t), NEW p \in Leaves(t), NEW q \in Leaves(t), p # q
    PROVE  Before(p, q) \/ Before(q, p)
<1>1. p \in Paths /\ q \in Paths /\ p \in DOMAIN t /\ q \in DOMAIN t
  BY DEF IsShape, Leaves
<1>2. /\ Len(p) \in Nat /\ Len(q) \in Nat /\ DOMAIN p = 1 .. Len(p) /\ DOMAIN q = 1 .. Len(q)
      /\ \A k \in 1 .. Len(p) : p[k] \in BOOLEAN
      /\ \A k \in 1 .. Len(q) : q[k] \in BOOLEAN
  BY <1>1, PathFacts
<1>3. ~Pre(p, q) /\ ~Pre(q, p)
  BY <1>1, LeavesApart
<1> DEFINE T == {k \in Nat : k \in 1 .. Len(p) /\ k \in 1 .. Len(q) /\ p[k] # q[k]}
<1>4. T \in SUBSET Nat /\ T # {}
  BY <1>2, <1>3 DEF Pre
<1>5. PICK k \in T : \A j \in T : k <= j
  <2> HIDE DEF T
  <2> QED
    BY <1>4, LeastNumber
<1>6. k \in DOMAIN p \cap DOMAIN q /\ p[k] # q[k] /\ p[k] \in BOOLEAN /\ q[k] \in BOOLEAN
  BY <1>2, <1>5
<1>7. \A j \in 1 .. k - 1 : p[j] = q[j]
  BY <1>2, <1>5
<1>8. QED
  BY <1>6, <1>7 DEF Before

\* The paths of a finite set are no longer than some number.
LEMMA LengthsBounded ==
    ASSUME NEW D \in SUBSET Paths, IsFiniteSet(D)
    PROVE  \E B \in Nat : \A q \in D : Len(q) <= B
<1> DEFINE N == Cardinality(D)
<1>1. N \in Nat /\ ExistsBijection(1 .. N, D)
  BY FS_CardinalityType
<1> HIDE DEF N
<1>2. PICK f \in Bijection(1 .. N, D) : TRUE
  BY <1>1 DEF ExistsBijection
<1>3. f \in [1 .. N -> D] /\ \A q \in D : \E i \in 1 .. N : f[i] = q
  BY <1>2 DEF Bijection, Injection, Surjection
<1> DEFINE S == {k \in Nat : k <= N => \E B \in Nat : \A i \in 1 .. k : Len(f[i]) <= B}
<1>4. 0 \in S
  OBVIOUS
<1>5. ASSUME NEW k \in S
      PROVE  k + 1 \in S
  <2>1. SUFFICES ASSUME k + 1 <= N
                 PROVE  \E B \in Nat : \A i \in 1 .. k + 1 : Len(f[i]) <= B
    OBVIOUS
  <2>2. k \in Nat
    OBVIOUS
  <2>3. PICK B \in Nat : \A i \in 1 .. k : Len(f[i]) <= B
    BY <1>1, <2>1
  <2>4. Len(f[k + 1]) \in Nat
    BY <1>1, <1>3, <2>1, <2>2, PathFacts
  <2>5. \A i \in 1 .. k : Len(f[i]) \in Nat
    BY <1>1, <1>3, <2>1, <2>2, PathFacts
  <2>6. \A i \in 1 .. k + 1 : Len(f[i]) <= B + Len(f[k + 1])
    <3>1. ASSUME NEW i \in 1 .. k + 1
          PROVE  Len(f[i]) <= B + Len(f[k + 1])
      <4>1. CASE i = k + 1
        BY <2>4, <4>1
      <4>2. CASE i \in 1 .. k
        BY <2>3, <2>4, <2>5, <4>2
      <4>3. QED
        BY <2>2, <4>1, <4>2
    <3>2. QED
      BY <3>1
  <2>7. B + Len(f[k + 1]) \in Nat
    BY <2>4
  <2>8. QED
    BY <2>6, <2>7
<1>6. \A k \in Nat : k \in S
  <2> HIDE DEF S
  <2>1. S \in SUBSET Nat
    BY DEF S
  <2>2. QED
    BY <1>4, <1>5, <2>1, Induction
<1>7. PICK B \in Nat : \A i \in 1 .. N : Len(f[i]) <= B
  <2>1. N \in S
    <3> HIDE DEF S
    <3> QED
      BY <1>1, <1>6
  <2>2. QED
    BY <2>1
<1>8. QED
  BY <1>3, <1>7

\* Every node has a leaf at or below it.
LEMMA LeafBelow ==
    ASSUME NEW t, IsShape(DOMAIN t), NEW p \in DOMAIN t
    PROVE  \E q \in Leaves(t) : Pre(p, q)
<1>1. DOMAIN t \subseteq Paths /\ IsFiniteSet(DOMAIN t)
  BY DEF IsShape
<1>2. PICK B \in Nat : \A q \in DOMAIN t : Len(q) <= B
  BY <1>1, LengthsBounded
<1> DEFINE T == {n \in Nat : \E q \in DOMAIN t : Pre(p, q) /\ n = B - Len(q)}
<1>3. Pre(p, p) /\ p \in Paths
  BY <1>1, PathFacts DEF Pre
<1>4. B - Len(p) \in T
  BY <1>1, <1>2, <1>3, PathFacts
<1>5. PICK m \in T : \A n \in T : m <= n
  <2> HIDE DEF T
  <2>1. T \in SUBSET Nat
    BY DEF T
  <2>2. QED
    BY <1>4, <2>1, LeastNumber
<1>6. PICK q \in DOMAIN t : Pre(p, q) /\ m = B - Len(q)
  BY <1>5
<1>7. q \in Leaves(t)
  <2>1. SUFFICES ASSUME Append(q, FALSE) \in DOMAIN t
                 PROVE  FALSE
    BY DEF Leaves
  <2> DEFINE r == Append(q, FALSE)
  <2>2. q \in Paths /\ Len(q) \in Nat
    BY <1>1, PathFacts
  <2>3. Pre(p, r) /\ Len(r) = Len(q) + 1
    BY <1>3, <1>6, <2>2, PreDown, DownUp
  <2> HIDE DEF r
  <2>4. r \in DOMAIN t /\ Len(r) <= B
    BY <1>2, <2>1 DEF r
  <2>5. B - Len(r) \in T
    BY <2>2, <2>3, <2>4
  <2>6. m <= B - Len(r)
    BY <1>5, <2>5
  <2>7. QED
    BY <1>6, <2>2, <2>3, <2>6
<1>8. QED
  BY <1>6, <1>7

\* The leaves can be counted, and there is one.
LEMMA LeavesCount ==
    ASSUME NEW t, IsShape(DOMAIN t)
    PROVE  /\ IsFiniteSet(Leaves(t)) /\ CountLeaves(t) \in Nat \ {0}
           /\ Leaves(t) \subseteq DOMAIN t /\ Leaves(t) \subseteq Paths /\ Leaves(t) # {}
<1>1. DOMAIN t \subseteq Paths /\ IsFiniteSet(DOMAIN t) /\ <<>> \in DOMAIN t
  BY DEF IsShape
<1>2. Leaves(t) \in SUBSET DOMAIN t
  BY DEF Leaves
<1>3. IsFiniteSet(Leaves(t)) /\ Cardinality(Leaves(t)) \in Nat
  BY <1>1, <1>2, FS_Subset, FS_CardinalityType
<1>4. Leaves(t) # {}
  BY <1>1, LeafBelow
<1>5. Cardinality(Leaves(t)) # 0
  BY <1>3, <1>4, FS_EmptySet
<1>6. QED
  BY <1>1, <1>2, <1>3, <1>4, <1>5 DEF CountLeaves

\* The ranks of the leaves are the numbers below their count, each of one leaf.
LEMMA RankIs ==
    ASSUME NEW t, IsShape(DOMAIN t)
    PROVE  /\ \A p \in Leaves(t) : Rank(t, p) \in 0 .. CountLeaves(t) - 1
           /\ \A p, q \in Leaves(t) : Rank(t, p) = Rank(t, q) => p = q
           /\ \A k \in 0 .. CountLeaves(t) - 1 : \E p \in Leaves(t) : Rank(t, p) = k
<1> DEFINE L == Leaves(t)
           N == CountLeaves(t)
           Less(p) == {q \in L : Before(q, p)}
<1>1. IsFiniteSet(L) /\ N \in Nat \ {0} /\ N = Cardinality(L) /\ L \subseteq Paths
  BY LeavesCount DEF CountLeaves
<1>2. ASSUME NEW p \in L
      PROVE  IsFiniteSet(Less(p)) /\ Cardinality(Less(p)) \in 0 .. N - 1
  <2>1. Less(p) \in SUBSET L
    OBVIOUS
  <2>2. p \notin Less(p)
    BY <1>1, BeforeOrder
  <2>3. Less(p) # L
    BY <2>2
  <2> HIDE DEF Less, L, N
  <2>4. IsFiniteSet(Less(p)) /\ Cardinality(Less(p)) <= N /\ Cardinality(Less(p)) # N
    BY <1>1, <2>1, <2>3, FS_Subset
  <2>5. Cardinality(Less(p)) \in Nat
    BY <2>4, FS_CardinalityType
  <2>6. QED
    BY <1>1, <2>4, <2>5
<1>3. ASSUME NEW p \in L, NEW q \in L, Before(p, q)
      PROVE  Cardinality(Less(p)) < Cardinality(Less(q))
  <2>1. Less(p) \in SUBSET Less(q)
    BY <1>1, <1>3, BeforeOrder
  <2>2. p \in Less(q) /\ p \notin Less(p)
    BY <1>1, <1>3, BeforeOrder
  <2>3. Less(p) # Less(q)
    BY <2>2
  <2> HIDE DEF Less
  <2>4. Cardinality(Less(p)) <= Cardinality(Less(q)) /\ Cardinality(Less(p)) # Cardinality(Less(q))
    BY <1>2, <2>1, <2>3, FS_Subset
  <2>5. QED
    BY <1>2, <2>4
<1>4. \A p \in L : Rank(t, p) = Cardinality(Less(p))
  BY DEF Rank
<1> HIDE DEF Less
<1>5. \A p \in L : Rank(t, p) \in 0 .. N - 1
  BY <1>2, <1>4
<1>6. ASSUME NEW p \in L, NEW q \in L, Rank(t, p) = Rank(t, q)
      PROVE  p = q
  <2>1. SUFFICES ASSUME p # q
                 PROVE  FALSE
    OBVIOUS
  <2>2. Before(p, q) \/ Before(q, p)
    BY <2>1, BeforeTotal
  <2>3. Cardinality(Less(p)) = Cardinality(Less(q)) /\ Cardinality(Less(p)) \in Int
    BY <1>2, <1>4, <1>6
  <2>4. QED
    BY <1>3, <2>2, <2>3
<1>7. \A k \in 0 .. N - 1 : \E p \in L : Rank(t, p) = k
  <2> DEFINE f == [p \in L |-> Rank(t, p)]
             I == 0 .. N - 1
  <2>1. f \in [L -> I] /\ \A p, q \in L : f[p] = f[q] => p = q
    BY <1>5, <1>6
  <2>2. IsFiniteSet(I) /\ Cardinality(I) = N
    <3>1. IsFiniteSet(0 .. N - 1) /\ Cardinality(0 .. N - 1) = IF 0 > N - 1 THEN 0 ELSE (N - 1) - 0 + 1
      BY <1>1, FS_Interval, SMTT(30)
    <3>2. QED
      BY <1>1, <3>1
  <2> HIDE DEF f, I, L, N
  <2>3. f \in Injection(L, I)
    BY <2>1, Fun_IsInj
  <2>4. f \in Surjection(L, I)
    BY <1>1, <2>2, <2>3, FS_Injection
  <2>5. \A k \in I : \E p \in L : f[p] = k
    BY <2>4, Fun_SurjectionProperties
  <2>6. QED
    BY <2>5 DEF f, I
<1>8. QED
  BY <1>5, <1>6, <1>7

\* A shape is a single leaf exactly if it has one leaf.
LEMMA LeafIsAlone ==
    ASSUME NEW t, IsShape(DOMAIN t)
    PROVE  IsLeaf(t) <=> CountLeaves(t) = 1
<1>1. DOMAIN t \subseteq Paths /\ <<>> \in DOMAIN t
  BY DEF IsShape
<1>2. ASSUME IsLeaf(t)
      PROVE  CountLeaves(t) = 1
  <2>1. Append(<<>>, FALSE) # <<>>
    BY <1>1, DownUp
  <2>2. Leaves(t) = {<<>>}
    BY <1>2, <2>1 DEF IsLeaf, Leaves
  <2>3. QED
    BY <2>2, FS_Singleton DEF CountLeaves
<1>3. ASSUME CountLeaves(t) = 1, ~IsLeaf(t)
      PROVE  FALSE
  <2>1. PICK p \in DOMAIN t : p # <<>>
    BY <1>1, <1>3 DEF IsLeaf
  <2> DEFINE q == Up(p)
  <2>2. q \in Paths /\ Len(q) \in Nat /\ Append(q, FALSE) \in DOMAIN t /\ Append(q, TRUE) \in DOMAIN t
    BY <1>1, <2>1, UpDown, PathFacts DEF IsShape
  <2> HIDE DEF q
  <2>3. PICK l \in Leaves(t) : Pre(Append(q, FALSE), l)
    BY <2>2, LeafBelow
  <2>4. PICK r \in Leaves(t) : Pre(Append(q, TRUE), r)
    BY <2>2, LeafBelow
  <2>5. PICK x : Leaves(t) = {x}
    BY <1>3, LeavesCount, FS_Singleton DEF CountLeaves
  <2>6. l = r
    BY <2>3, <2>4, <2>5
  <2>7. /\ Len(Append(q, FALSE)) = Len(q) + 1 /\ Append(q, FALSE)[Len(q) + 1] = FALSE
        /\ Len(Append(q, TRUE)) = Len(q) + 1 /\ Append(q, TRUE)[Len(q) + 1] = TRUE
    BY <2>2, DownUp
  <2>8. l[Len(q) + 1] = FALSE /\ r[Len(q) + 1] = TRUE
    <3> DEFINE n == Len(q) + 1
    <3>1. n \in 1 .. n
      BY <2>2
    <3>2. Append(q, FALSE)[n] = l[n]
      BY <2>3, <2>7, <3>1 DEF Pre
    <3>3. Append(q, TRUE)[n] = r[n]
      BY <2>4, <2>7, <3>1 DEF Pre
    <3>4. QED
      BY <2>7, <3>2, <3>3
  <2>9. QED
    BY <2>6, <2>8
<1>4. QED
  BY <1>2, <1>3

-----------------------------------------------------------------------------
(* The panes of a tree.                                                    *)

SplitRec == [dir : {"h", "v"}, ratio : Int]

\* A shape with a split at every inner path.
IsPlan(t) == IsShape(DOMAIN t) /\ \A p \in Splits(t) : t[p] \in SplitRec

\* A plan with a pane at every leaf, no pane twice.
IsTree(t) ==
    /\ IsPlan(t)
    /\ \A p \in Leaves(t) : t[p].id \in Nat
    /\ \A p, q \in Leaves(t) : t[p].id = t[q].id => p = q

\* The path to a pane is the one leaf that has it.
LEMMA PathToIs ==
    ASSUME NEW t, IsTree(t)
    PROVE  /\ \A i \in Ids(t) : PathTo(t, i) \in Leaves(t) /\ t[PathTo(t, i)].id = i
           /\ \A p \in Leaves(t) : t[p].id \in Ids(t) /\ PathTo(t, t[p].id) = p
           /\ Ids(t) \subseteq Nat /\ Ids(t) # {}
<1>1. ASSUME NEW i \in Ids(t)
      PROVE  PathTo(t, i) \in Leaves(t) /\ t[PathTo(t, i)].id = i
  <2>1. \E p \in Leaves(t) : t[p].id = i
    BY DEF Ids
  <2>2. QED
    BY <2>1 DEF PathTo
<1>2. ASSUME NEW p \in Leaves(t)
      PROVE  t[p].id \in Ids(t) /\ PathTo(t, t[p].id) = p
  <2>1. t[p].id \in Ids(t)
    BY DEF Ids
  <2>2. QED
    BY <1>1, <2>1 DEF IsTree
<1>3. Leaves(t) # {}
  BY LeavesCount DEF IsTree, IsPlan
<1>4. Ids(t) \subseteq Nat /\ Ids(t) # {}
  BY <1>2, <1>3 DEF Ids, IsTree
<1>5. QED
  BY <1>1, <1>2, <1>4

\* The panes in the order of the walk.
LEMMA PaneIdsIs ==
    ASSUME NEW t, IsShape(DOMAIN t)
    PROVE  /\ DOMAIN PaneIds(t) = 1 .. CountLeaves(t) /\ CountLeaves(t) \in Nat \ {0}
           /\ \A p \in Leaves(t) : /\ Rank(t, p) + 1 \in 1 .. CountLeaves(t)
                                   /\ PaneIds(t)[Rank(t, p) + 1] = t[p].id
           /\ \A k \in 1 .. CountLeaves(t) :
                \E p \in Leaves(t) : Rank(t, p) + 1 = k /\ PaneIds(t)[k] = t[p].id
<1> DEFINE N == CountLeaves(t)
<1>1. N \in Nat \ {0}
  BY LeavesCount
<1>2. DOMAIN PaneIds(t) = 1 .. N
  BY DEF PaneIds
<1>3. ASSUME NEW p \in Leaves(t)
      PROVE  /\ Rank(t, p) + 1 \in 1 .. N
             /\ PaneIds(t)[Rank(t, p) + 1] = t[p].id
  <2> DEFINE k == Rank(t, p) + 1
             q == CHOOSE q \in Leaves(t) : Rank(t, q) = k - 1
  <2>1. Rank(t, p) \in 0 .. N - 1
    BY RankIs
  <2>2. k \in 1 .. N /\ Rank(t, p) = k - 1
    BY <1>1, <2>1
  <2>3. q \in Leaves(t) /\ Rank(t, q) = k - 1
    BY <2>2
  <2>4. q = p
    BY <2>2, <2>3, RankIs
  <2>5. PaneIds(t)[k] = t[q].id
    BY <2>2 DEF PaneIds
  <2>6. QED
    BY <2>2, <2>4, <2>5
<1>4. ASSUME NEW k \in 1 .. N
      PROVE  \E p \in Leaves(t) : Rank(t, p) + 1 = k /\ PaneIds(t)[k] = t[p].id
  <2>1. k - 1 \in 0 .. N - 1
    BY <1>1
  <2>2. PICK p \in Leaves(t) : Rank(t, p) = k - 1
    BY <2>1, RankIs
  <2>3. Rank(t, p) + 1 = k
    BY <2>2
  <2>4. QED
    BY <1>3, <2>3
<1>5. QED
  BY <1>1, <1>2, <1>3, <1>4

\* The panes of the walk are the panes of the tree.
LEMMA PaneIdsInIds ==
    ASSUME NEW t, IsShape(DOMAIN t)
    PROVE  /\ \A k \in 1 .. CountLeaves(t) : PaneIds(t)[k] \in Ids(t)
           /\ Head(PaneIds(t)) \in Ids(t)
           /\ Len(PaneIds(t)) = CountLeaves(t)
<1>1. \A k \in 1 .. CountLeaves(t) : PaneIds(t)[k] \in Ids(t)
  BY PaneIdsIs DEF Ids
<1>2. CountLeaves(t) \in Nat \ {0} /\ DOMAIN PaneIds(t) = 1 .. CountLeaves(t)
  BY PaneIdsIs
<1>4. PaneIds(t) \in [1 .. CountLeaves(t) -> Ids(t)]
  BY <1>1, <1>2 DEF PaneIds
<1>5. Len(PaneIds(t)) = CountLeaves(t) /\ Head(PaneIds(t)) = PaneIds(t)[1]
  <2> DEFINE s == PaneIds(t)
             n == CountLeaves(t)
  <2>1. s \in [1 .. n -> Ids(t)] /\ n \in Nat
    BY <1>2, <1>4
  <2> HIDE DEF s, n
  <2>2. s \in Seq(Ids(t)) /\ Len(s) = n
    BY <2>1, FunIsSeq
  <2>3. Head(s) = s[1]
    BY <1>2, <2>2 DEF n
  <2>4. QED
    BY <2>2, <2>3 DEF s, n
<1>6. QED
  BY <1>1, <1>2, <1>5

\* The neighbours of a pane in the walk.
LEMMA NeighboursInIds ==
    ASSUME NEW t, IsTree(t), NEW i
    PROVE  NextPane(t, i) \in Ids(t) /\ PrevPane(t, i) \in Ids(t)
<1> DEFINE N == CountLeaves(t)
<1>1. IsShape(DOMAIN t)
  BY DEF IsTree, IsPlan
<1>2. N \in Nat \ {0} /\ \A k \in 1 .. N : PaneIds(t)[k] \in Ids(t)
  BY <1>1, PaneIdsIs, PaneIdsInIds
<1>3. PosOf(t, i) \in 1 .. N
  <2>1. CASE i \in Ids(t)
    <3>1. PathTo(t, i) \in Leaves(t)
      BY <2>1, PathToIs
    <3>2. QED
      BY <1>1, <2>1, <3>1, PaneIdsIs DEF PosOf
  <2>2. CASE i \notin Ids(t)
    BY <1>2, <2>2 DEF PosOf
  <2>3. QED
    BY <2>1, <2>2
<1> DEFINE n == PosOf(t, i)
<1>4. NextPane(t, i) = PaneIds(t)[(n % N) + 1] /\ PrevPane(t, i) = PaneIds(t)[IF n = 1 THEN N ELSE n - 1]
  BY DEF NextPane, PrevPane
<1> HIDE DEF n, N
<1>5. (n % N) + 1 \in 1 .. N /\ (IF n = 1 THEN N ELSE n - 1) \in 1 .. N
  BY <1>2, <1>3 DEF n
<1>6. QED
  BY <1>2, <1>4, <1>5

-----------------------------------------------------------------------------
(* Changes of the tree.                                                    *)

\* New ratios leave the panes alone.
LEMMA SameLeaves ==
    ASSUME NEW t, IsTree(t), NEW u, DOMAIN u = DOMAIN t,
           \A p \in Leaves(t) : u[p] = t[p], \A p \in Splits(t) : u[p] \in SplitRec
    PROVE  IsTree(u) /\ Ids(u) = Ids(t) /\ (IsLeaf(u) <=> IsLeaf(t))
<1>1. Leaves(u) = Leaves(t) /\ Splits(u) = Splits(t) /\ (IsLeaf(u) <=> IsLeaf(t))
  BY DEF Leaves, Splits, IsLeaf
<1>2. Ids(u) = Ids(t)
  BY <1>1 DEF Ids
<1>3. IsTree(u)
  BY <1>1 DEF IsTree, IsPlan
<1>4. QED
  BY <1>1, <1>2, <1>3

\* Equalize only sets ratios, to a whole number of units.
LEMMA EqualizeIs ==
    ASSUME NEW t, IsTree(t)
    PROVE  /\ IsTree(Equalize(t)) /\ Ids(Equalize(t)) = Ids(t)
           /\ IsLeaf(Equalize(t)) <=> IsLeaf(t)
<1> DEFINE u == Equalize(t)
<1>1. IsShape(DOMAIN t) /\ Leaves(t) \subseteq Paths /\ DOMAIN t \subseteq Paths /\ IsFiniteSet(Leaves(t))
  BY LeavesCount DEF IsTree, IsPlan, IsShape
<1>2. DOMAIN u = DOMAIN t /\ \A p \in Leaves(t) : u[p] = t[p]
  BY <1>1, LeavesCount DEF Equalize
<1>3. ASSUME NEW p \in Splits(t)
      PROVE  u[p] \in SplitRec
  <2> DEFINE left == CountUnder(t, Append(p, FALSE))
             total == CountUnder(t, p)
  <2>1. p \in DOMAIN t /\ p \notin Leaves(t) /\ p \in Paths /\ Append(p, FALSE) \in Paths
    BY <1>1, DownUp DEF Splits
  <2>2. ASSUME NEW q \in Paths
        PROVE  /\ IsFiniteSet({l \in Leaves(t) : SeqX!IsPrefix(q, l)})
               /\ CountUnder(t, q) \in Nat
    <3>1. {l \in Leaves(t) : SeqX!IsPrefix(q, l)} \in SUBSET Leaves(t)
      OBVIOUS
    <3>2. IsFiniteSet({l \in Leaves(t) : SeqX!IsPrefix(q, l)})
      BY <1>1, <3>1, FS_Subset
    <3>3. QED
      BY <3>2, FS_CardinalityType DEF CountUnder
  <2>3. left \in Nat /\ total \in Nat
    BY <2>1, <2>2
  <2>4. total # 0
    <3>1. PICK l \in Leaves(t) : Pre(p, l)
      BY <1>1, <2>1, LeafBelow
    <3>2. SeqX!IsPrefix(p, l)
      BY <1>1, <2>1, <3>1, PrefixIs DEF Pre
    <3>3. {k \in Leaves(t) : SeqX!IsPrefix(p, k)} # {}
      BY <3>2
    <3>4. QED
      BY <2>1, <2>2, <3>3, FS_EmptySet DEF CountUnder
  <2>5. u[p] = [t[p] EXCEPT !.ratio = (2 * left * Scale + total) \div (2 * total)]
    BY <2>1 DEF Equalize
  <2> HIDE DEF left, total, u
  <2>6. (2 * left * Scale + total) \div (2 * total) \in Int
    <3> DEFINE a == 2 * left * Scale + total
               b == 2 * total
    <3>1. a \in Int /\ b \in Int /\ b > 0
      BY <2>3, <2>4 DEF Scale
    <3> HIDE DEF a, b
    <3>2. a \div b \in Int
      BY <3>1
    <3>3. QED
      BY <3>2 DEF a, b
  <2>7. t[p] \in SplitRec
    BY DEF IsTree, IsPlan
  <2>8. QED
    BY <2>5, <2>6, <2>7 DEF SplitRec
<1> HIDE DEF u
<1>4. IsTree(u) /\ Ids(u) = Ids(t) /\ (IsLeaf(u) <=> IsLeaf(t))
  BY <1>2, <1>3, SameLeaves
<1>5. QED
  BY <1>4 DEF u

\* So does moving a separator by the keyboard.
LEMMA ResizePaneIs ==
    ASSUME NEW t, IsTree(t), NEW i, NEW nav, NEW delta \in Int
    PROVE  LET u == ResizePane(t, i, nav, delta) IN
           IsTree(u) /\ Ids(u) = Ids(t) /\ (IsLeaf(u) <=> IsLeaf(t))
<1>1. ASSUME NEW path, NEW n \in Int
      PROVE  LET u == AdjustRatioAt(t, path, n) IN
             IsTree(u) /\ Ids(u) = Ids(t) /\ (IsLeaf(u) <=> IsLeaf(t))
  <2>1. CASE path \notin Splits(t)
    BY <2>1 DEF AdjustRatioAt
  <2>2. CASE path \in Splits(t)
    <3> DEFINE u == AdjustRatioAt(t, path, n)
    <3>1. t[path] \in SplitRec /\ path \in DOMAIN t /\ path \notin Leaves(t)
      BY <2>2 DEF IsTree, IsPlan, Splits
    <3>2. ClampRatio(t[path].ratio + n) \in Int
      <4>1. t[path].ratio + n \in Int
        BY <3>1 DEF SplitRec
      <4>2. \A r \in Int : ClampRatio(r) \in Int
        BY DEF ClampRatio, Clamp, Least, Most, Scale
      <4>3. QED
        BY <4>1, <4>2
    <3>3. u = [t EXCEPT ![path] = [t[path] EXCEPT !.ratio = ClampRatio(t[path].ratio + n)]]
      BY <2>2 DEF AdjustRatioAt
    <3>4. DOMAIN u = DOMAIN t /\ \A p \in DOMAIN t \ {path} : u[p] = t[p]
      BY <3>3
    <3>5. u[path] \in SplitRec
      BY <3>1, <3>2, <3>3 DEF SplitRec
    <3> HIDE DEF u
    <3>6. \A p \in Leaves(t) : u[p] = t[p]
      BY <3>1, <3>4 DEF Leaves
    <3>7. \A p \in Splits(t) : u[p] \in SplitRec
      BY <3>4, <3>5 DEF Splits, IsTree, IsPlan
    <3>8. IsTree(u) /\ Ids(u) = Ids(t) /\ (IsLeaf(u) <=> IsLeaf(t))
      BY <3>4, <3>6, <3>7, SameLeaves
    <3>9. QED
      BY <3>8 DEF u
  <2>3. QED
    BY <2>1, <2>2
<1>2. CASE Crumbs(t, i, nav) = {}
  BY <1>2 DEF ResizePane
<1>3. CASE Crumbs(t, i, nav) # {}
  <2> DEFINE nearest == CHOOSE p \in Crumbs(t, i, nav) : \A q \in Crumbs(t, i, nav) : Len(q) <= Len(p)
             n == IF nav \in {"left", "up"} THEN -delta ELSE delta
  <2>1. n \in Int
    OBVIOUS
  <2>2. ResizePane(t, i, nav, delta) = AdjustRatioAt(t, nearest, n)
    BY <1>3 DEF ResizePane
  <2> HIDE DEF nearest, n
  <2>3. QED
    BY <1>1, <2>1, <2>2
<1>4. QED
  BY <1>2, <1>3

\* Two panes change places.
LEMMA SwapIs ==
    ASSUME NEW t, IsTree(t), NEW a \in Nat, NEW b \in Nat, a # b
    PROVE  LET u == SwapPanes(t, a, b) IN
           /\ IsTree(u) /\ (IsLeaf(u) <=> IsLeaf(t)) /\ Ids(u) \subseteq Ids(t) \cup {a, b}
           /\ a \in Ids(t) /\ b \in Ids(t) => Ids(u) = Ids(t)
<1> DEFINE u == SwapPanes(t, a, b)
           New(i) == IF i = a THEN b ELSE IF i = b THEN a ELSE i
<1>1. /\ DOMAIN u = DOMAIN t /\ Leaves(u) = Leaves(t) /\ Splits(u) = Splits(t)
      /\ IsLeaf(u) <=> IsLeaf(t)
  BY DEF SwapPanes, Leaves, Splits, IsLeaf
<1>2. \A p \in Splits(t) : u[p] = t[p]
  BY DEF SwapPanes, Splits
<1>3. \A p \in Leaves(t) : u[p].id = New(t[p].id)
  <2>1. ASSUME NEW p \in Leaves(t)
        PROVE  u[p].id = New(t[p].id)
    <3>1. u[p] = IF t[p].id \in {a, b} THEN [id |-> IF t[p].id = a THEN b ELSE a] ELSE t[p]
      BY DEF SwapPanes, Leaves
    <3> HIDE DEF u
    <3>2. QED
      BY <3>1
  <2>2. QED
    BY <2>1
<1> HIDE DEF u
<1>4. \A p \in Leaves(t) : t[p].id \in Nat
  BY DEF IsTree
<1>5. IsTree(u)
  <2>1. IsPlan(u)
    BY <1>1, <1>2 DEF IsTree, IsPlan
  <2>2. \A p \in Leaves(u) : u[p].id \in Nat
    BY <1>1, <1>3, <1>4
  <2>3. ASSUME NEW p \in Leaves(u), NEW q \in Leaves(u), u[p].id = u[q].id
        PROVE  p = q
    <3>1. New(t[p].id) = New(t[q].id)
      BY <1>1, <1>3, <2>3
    <3>2. t[p].id = t[q].id
      BY <3>1
    <3>3. QED
      BY <1>1, <3>2 DEF IsTree
  <2>4. QED
    BY <2>1, <2>2, <2>3 DEF IsTree
<1>6. Ids(u) = {New(i) : i \in Ids(t)}
  BY <1>1, <1>3 DEF Ids
<1>7. QED
  BY <1>1, <1>5, <1>6 DEF u

\* A pane of the tree is split: the new one is the second at its place.
LEMMA SplitIs ==
    ASSUME NEW t, IsTree(t), NEW i \in Ids(t), NEW new \in Nat, new \notin Ids(t), NEW d \in {"h", "v"}
    PROVE  LET u == Split(t, i, new, d) IN
           IsTree(u) /\ Ids(u) = Ids(t) \cup {new}
<1> DEFINE p == PathTo(t, i)
           l == Append(p, FALSE)
           r == Append(p, TRUE)
           D == DOMAIN t
           E == D \cup {l, r}
           u == SplitNode(t, i, new, d)
<1>1. IsShape(D) /\ D \subseteq Paths /\ IsFiniteSet(D) /\ <<>> \in D
  BY DEF IsTree, IsPlan, IsShape
<1>2. p \in Leaves(t) /\ t[p].id = i /\ p \in D /\ p \in Paths
  BY <1>1, PathToIs DEF Leaves
<1>3. l \in Paths /\ r \in Paths /\ Len(l) = Len(p) + 1 /\ Len(r) = Len(p) + 1
      /\ Up(l) = p /\ Up(r) = p /\ l # r /\ Len(p) \in Nat /\ l # p /\ r # p
  <2>1. l[Len(p) + 1] = FALSE /\ r[Len(p) + 1] = TRUE
    BY <1>2, DownUp
  <2>2. l \in Paths /\ r \in Paths /\ Len(l) = Len(p) + 1 /\ Len(r) = Len(p) + 1
        /\ Up(l) = p /\ Up(r) = p
    BY <1>2, DownUp
  <2>3. Len(p) \in Nat
    BY <1>2, PathFacts
  <2> HIDE DEF l, r, p
  <2>4. l # r /\ l # p /\ r # p
    BY <2>1, <2>2, <2>3
  <2>5. QED
    BY <2>2, <2>3, <2>4
<1>4. l \notin D /\ r \notin D
  <2>1. l \notin D
    BY <1>2 DEF Leaves
  <2>2. r \in D => l \in D
    BY <1>1, <1>2, ShapeIs
  <2>3. QED
    BY <2>1, <2>2
<1>5. \A q \in Paths, b \in BOOLEAN : Append(q, b) \in {l, r} <=> q = p
  <2>1. ASSUME NEW q \in Paths, NEW b \in BOOLEAN
        PROVE  Append(q, b) \in {l, r} <=> q = p
    <3>1. Up(Append(q, b)) = q
      BY DownUp
    <3>2. b = FALSE \/ b = TRUE
      OBVIOUS
    <3>3. QED
      BY <1>3, <3>1, <3>2
  <2>2. QED
    BY <2>1
<1>6. /\ DOMAIN u = E
      /\ u[p] = [dir |-> d, ratio |-> Scale \div 2] /\ u[l] = t[p] /\ u[r] = [id |-> new]
      /\ \A q \in D \ {p} : u[q] = t[q]
  BY <1>2, <1>3, <1>4 DEF SplitNode
<1> HIDE DEF u
<1>7. IsShape(E)
  <2>1. IsFiniteSet(E)
    <3>1. IsFiniteSet({l}) /\ IsFiniteSet({r})
      BY FS_Singleton
    <3>2. E = (D \cup {l}) \cup {r}
      OBVIOUS
    <3> HIDE DEF l, r, D, E
    <3>3. QED
      BY <1>1, <3>1, <3>2, FS_Union
  <2>2. E \subseteq Paths /\ <<>> \in E
    BY <1>1, <1>3
  <2>3. ASSUME NEW q \in Paths, NEW b \in BOOLEAN, Append(q, b) \in E
        PROVE  q \in E /\ \A c \in BOOLEAN : Append(q, c) \in E
    <3>1. CASE Append(q, b) \in D
      BY <1>1, <3>1, ShapeIs
    <3>2. CASE Append(q, b) \in {l, r}
      <4>1. q = p
        BY <1>5, <3>2
      <4>2. QED
        BY <1>2, <1>5, <4>1
    <3>3. QED
      BY <2>3, <3>1, <3>2
  <2> HIDE DEF E
  <2>4. QED
    BY <2>1, <2>2, <2>3, ShapeIs
<1>8. Leaves(u) = (Leaves(t) \ {p}) \cup {l, r}
  <2>1. ASSUME NEW q \in E
        PROVE  q \in Leaves(u) <=> q \in (Leaves(t) \ {p}) \cup {l, r}
    <3>1. q \in Leaves(u) <=> Append(q, FALSE) \notin D /\ Append(q, FALSE) \notin {l, r}
      BY <1>6 DEF Leaves
    <3>2. q \in Paths
      BY <1>1, <1>3
    <3>3. Append(q, FALSE) \in {l, r} <=> q = p
      BY <1>5, <3>2
    <3>4. CASE q \in D
      <4>1. q \notin {l, r} /\ (q \in Leaves(t) <=> Append(q, FALSE) \notin D)
        BY <1>4, <3>4 DEF Leaves
      <4>2. QED
        BY <3>1, <3>3, <4>1
    <3>5. CASE q \in {l, r}
      <4>1. Append(q, FALSE) \notin D
        BY <1>1, <1>4, <3>2, <3>5, ShapeIs
      <4>2. QED
        BY <1>3, <3>1, <3>3, <3>5, <4>1
    <3>6. QED
      BY <3>4, <3>5
  <2>2. Leaves(u) \subseteq E /\ (Leaves(t) \ {p}) \cup {l, r} \subseteq E
    BY <1>6 DEF Leaves
  <2> HIDE DEF E
  <2>3. QED
    BY <2>1, <2>2
<1>9. u[l].id = i /\ u[r].id = new /\ \A q \in Leaves(t) \ {p} : u[q].id = t[q].id
  <2>1. u[l].id = i
    BY <1>2, <1>6
  <2>2. u[r].id = new
    <3> HIDE DEF r
    <3> QED
      BY <1>6
  <2>3. \A q \in Leaves(t) \ {p} : u[q].id = t[q].id
    BY <1>6 DEF Leaves
  <2>4. QED
    BY <2>1, <2>2, <2>3
<1>10. IsTree(u) /\ Ids(u) = Ids(t) \cup {new}
  <2>1. IsPlan(u)
    <3>1. ASSUME NEW q \in Splits(u)
          PROVE  u[q] \in SplitRec
      <4>1. q \in E /\ q \notin Leaves(u)
        BY <1>6, <3>1 DEF Splits
      <4>2. q = p \/ q \in Splits(t)
        BY <1>8, <4>1 DEF Splits
      <4>3. CASE q = p
        <5>1. u[q] = [dir |-> d, ratio |-> Scale \div 2]
          BY <1>6, <4>3
        <5>2. Scale \div 2 \in Int
          BY DEF Scale
        <5>3. QED
          BY <5>1, <5>2 DEF SplitRec
      <4>4. CASE q \in Splits(t) /\ q # p
        <5>1. q \in D \ {p} /\ t[q] \in SplitRec
          BY <4>4 DEF Splits, IsTree, IsPlan
        <5>2. QED
          BY <1>6, <5>1
      <4>5. QED
        BY <4>2, <4>3, <4>4
    <3>2. QED
      BY <1>6, <1>7, <3>1 DEF IsPlan
  <2> DEFINE Old == Leaves(t) \ {p}
  <2>2. \A q \in Old : t[q].id \in Nat /\ t[q].id \in Ids(t) /\ t[q].id # i /\ u[q].id = t[q].id
    BY <1>2, <1>9, PathToIs DEF IsTree
  <2>3. \A q, s \in Old : t[q].id = t[s].id => q = s
    BY DEF IsTree
  <2>4. Leaves(u) = Old \cup {l, r} /\ i \in Nat /\ i # new
    BY <1>2, <1>8 DEF IsTree
  <2> HIDE DEF Old, l, r
  <2>5. \A q \in Leaves(u) : u[q].id \in Nat
    BY <1>9, <2>2, <2>4
  <2>6. \A q, s \in Leaves(u) : u[q].id = u[s].id => q = s
    BY <1>9, <2>2, <2>3, <2>4
  <2>7. Ids(u) = {t[q].id : q \in Old} \cup {i, new}
    BY <1>9, <2>2, <2>4 DEF Ids
  <2>8. Ids(t) = {t[q].id : q \in Old} \cup {i}
    BY <1>2 DEF Ids, Old
  <2>9. QED
    BY <2>1, <2>5, <2>6, <2>7, <2>8 DEF IsTree
<1>11. Split(t, i, new, d) = Equalize(u)
  BY DEF Split, u
<1>12. QED
  BY <1>10, <1>11, EqualizeIs

\* What is left of a tree without a pane: everything that is not below the
\* parent, and in the parent's place what is below the sibling.
LEMMA RemoveNodeIs ==
    ASSUME NEW t, IsTree(t), NEW i \in Ids(t), CountLeaves(t) > 1
    PROVE  IsTree(RemoveNode(t, i)) /\ Ids(RemoveNode(t, i)) = Ids(t) \ {i}
<1> DEFINE D == DOMAIN t
           p == PathTo(t, i)
           parent == Up(p)
           sibling == Append(parent, ~p[Len(p)])
           kept == {q \in D : ~SeqX!IsPrefix(parent, q)}
           raised == {q \in D : SeqX!IsPrefix(sibling, q)}
           Place(q) == parent \o SubSeq(q, Len(sibling) + 1, Len(q))
           From(q) == sibling \o SubSeq(q, Len(parent) + 1, Len(q))
           Sub == {s \in Paths : sibling \o s \in D}
           E == kept \cup {parent \o s : s \in Sub}
           u == RemoveNode(t, i)
<1>1. IsShape(D) /\ D \subseteq Paths /\ IsFiniteSet(D) /\ <<>> \in D
  BY DEF IsTree, IsPlan, IsShape
<1>2. p \in Leaves(t) /\ t[p].id = i /\ p \in D /\ p \in Paths
  BY <1>1, PathToIs DEF Leaves
<1>3. p # <<>>
  <2>1. SUFFICES ASSUME p = <<>>
                 PROVE  FALSE
    OBVIOUS
  <2>2. \A q \in D : Pre(p, q)
    BY <1>1, <2>1, PathFacts DEF Pre
  <2>3. D = {<<>>}
    BY <1>1, <1>2, <2>1, <2>2, LeavesApart
  <2>4. CountLeaves(t) = 1
    BY <1>1, <2>3, LeafIsAlone DEF IsLeaf
  <2>5. QED
    BY <2>4
<1>4. /\ parent \in Paths /\ p[Len(p)] \in BOOLEAN /\ Append(parent, p[Len(p)]) = p
      /\ parent \in D /\ sibling \in D /\ sibling \in Paths
      /\ Len(parent) \in Nat /\ Len(sibling) = Len(parent) + 1
  <2>1. parent \in Paths /\ p[Len(p)] \in BOOLEAN /\ Append(parent, p[Len(p)]) = p
    BY <1>2, <1>3, UpDown
  <2>2. parent \in D /\ sibling \in D
    BY <1>1, <1>2, <1>3, <2>1 DEF IsShape
  <2>3. Len(sibling) = Len(parent) + 1
    BY <2>1, DownUp
  <2>4. QED
    BY <1>1, <2>1, <2>2, <2>3, PathFacts
<1> DEFINE b == p[Len(p)]
<1>5. b \in BOOLEAN /\ p = Append(parent, b) /\ sibling = Append(parent, ~b)
  BY <1>4
<1>6. DOMAIN u = kept \cup {Place(r) : r \in raised}
      /\ \A q \in DOMAIN u : u[q] = IF q \in kept THEN t[q] ELSE t[From(q)]
  BY DEF RemoveNode
<1> HIDE DEF p, parent, sibling, b, u
<1>7. /\ \A q \in D : q \in kept <=> ~Pre(parent, q)
      /\ \A q \in D : q \in raised <=> Pre(sibling, q)
  BY <1>1, <1>4, PrefixIs DEF Pre
<1>8. \A s \in Sub : sibling \o s \in raised /\ Place(sibling \o s) = parent \o s
  <2>1. ASSUME NEW s \in Sub
        PROVE  sibling \o s \in raised /\ Place(sibling \o s) = parent \o s
    <3> DEFINE q == sibling \o s
               r == SubSeq(q, Len(sibling) + 1, Len(q))
    <3>1. q \in Paths /\ q \in D /\ Pre(sibling, q)
      BY <1>4, JoinIs
    <3>2. r \in Paths /\ sibling \o r = q
      BY <1>4, <3>1, JoinRest
    <3> HIDE DEF r
    <3>3. r = s
      BY <1>4, <3>2, JoinCancel DEF Sub
    <3>4. QED
      BY <1>7, <3>1, <3>3
  <2>2. QED
    BY <2>1
<1>9. \A q \in raised : \E s \in Sub : q = sibling \o s
  <2>1. ASSUME NEW q \in raised
        PROVE  \E s \in Sub : q = sibling \o s
    <3> DEFINE r == SubSeq(q, Len(sibling) + 1, Len(q))
    <3>1. q \in D /\ q \in Paths /\ Pre(sibling, q)
      BY <1>1, <1>7
    <3>2. r \in Paths /\ sibling \o r = q
      BY <1>4, <3>1, JoinRest
    <3> HIDE DEF r
    <3>3. r \in Sub
      BY <3>1, <3>2
    <3>4. QED
      BY <3>2, <3>3
  <2>2. QED
    BY <2>1
<1>10. {Place(r) : r \in raised} = {parent \o s : s \in Sub}
  <2> HIDE DEF Place, raised, Sub
  <2>1. ASSUME NEW r \in raised
        PROVE  Place(r) \in {parent \o s : s \in Sub}
    <3>1. PICK s \in Sub : r = sibling \o s
      BY <1>9
    <3>2. Place(r) = parent \o s
      BY <1>8, <3>1
    <3>3. QED
      BY <3>2
  <2>2. \A s \in Sub : parent \o s \in {Place(r) : r \in raised}
    BY <1>8
  <2>3. QED
    BY <2>1, <2>2
<1>11. \A s \in Sub : /\ parent \o s \in Paths /\ Pre(parent, parent \o s) /\ parent \o s \notin kept
                      /\ From(parent \o s) = sibling \o s /\ sibling \o s \in D
  <2>1. ASSUME NEW s \in Sub
        PROVE  /\ parent \o s \in Paths /\ Pre(parent, parent \o s) /\ parent \o s \notin kept
               /\ From(parent \o s) = sibling \o s /\ sibling \o s \in D
    <3> DEFINE q == parent \o s
               r == SubSeq(q, Len(parent) + 1, Len(q))
    <3>1. q \in Paths /\ Pre(parent, q)
      BY <1>4, JoinIs
    <3>2. r \in Paths /\ parent \o r = q
      BY <1>4, <3>1, JoinRest
    <3> HIDE DEF r
    <3>3. r = s
      BY <1>4, <3>2, JoinCancel DEF Sub
    <3>4. q \notin kept
      BY <1>7, <3>1
    <3>5. QED
      BY <3>1, <3>3, <3>4
  <2>2. QED
    BY <2>1
<1> HIDE DEF Place, From
<1>12. DOMAIN u = E
  BY <1>6, <1>10
<1>13. /\ \A q \in kept : u[q] = t[q]
       /\ \A s \in Sub : u[parent \o s] = t[sibling \o s]
  <2>1. \A q \in kept : u[q] = t[q]
    BY <1>6, <1>12
  <2>2. ASSUME NEW s \in Sub
        PROVE  u[parent \o s] = t[sibling \o s]
    <3>1. parent \o s \in DOMAIN u
      BY <1>12
    <3> HIDE DEF kept, Sub
    <3>2. QED
      BY <1>6, <1>11, <3>1
  <2>3. QED
    BY <2>1, <2>2
<1>14. <<>> \in Sub /\ parent \o <<>> = parent
  <2>1. sibling \o <<>> = sibling /\ parent \o <<>> = parent
    BY <1>4, PathFacts, JoinIs
  <2>2. QED
    BY <1>4, <2>1, PathFacts
<1>15. \A s \in Paths, c \in BOOLEAN :
         /\ Append(s, c) \in Paths
         /\ Append(parent \o s, c) = parent \o Append(s, c)
         /\ Append(s, c) \in Sub => s \in Sub /\ \A e \in BOOLEAN : Append(s, e) \in Sub
         /\ Append(s, c) \in Sub <=> Append(sibling \o s, c) \in D
  <2>1. ASSUME NEW s \in Paths, NEW c \in BOOLEAN
        PROVE  /\ Append(s, c) \in Paths
               /\ Append(parent \o s, c) = parent \o Append(s, c)
               /\ Append(s, c) \in Sub => s \in Sub /\ \A e \in BOOLEAN : Append(s, e) \in Sub
               /\ Append(s, c) \in Sub <=> Append(sibling \o s, c) \in D
    <3>1. Append(parent \o s, c) = parent \o Append(s, c)
      BY <1>4, JoinDown
    <3>2. \A e \in BOOLEAN : Append(s, e) \in Paths /\ Append(sibling \o s, e) = sibling \o Append(s, e)
      <4>1. ASSUME NEW e \in BOOLEAN
            PROVE  Append(s, e) \in Paths /\ Append(sibling \o s, e) = sibling \o Append(s, e)
        <5>1. Append(s, e) \in Paths
          BY DownUp
        <5>2. Append(sibling \o s, e) = sibling \o Append(s, e)
          BY <1>4, JoinDown
        <5>3. QED
          BY <5>1, <5>2
      <4>2. QED
        BY <4>1
    <3>3. sibling \o s \in Paths
      BY <1>4, JoinIs
    <3>4. \A e \in BOOLEAN : Append(s, e) \in Sub <=> Append(sibling \o s, e) \in D
      BY <3>2
    <3>5. Append(s, c) \in Sub => sibling \o s \in D /\ \A e \in BOOLEAN : Append(sibling \o s, e) \in D
      BY <1>1, <3>3, <3>4, ShapeIs
    <3>6. QED
      BY <3>1, <3>2, <3>4, <3>5
  <2>2. QED
    BY <2>1
<1>16. \A q \in Paths, c \in BOOLEAN :
         Append(q, c) \in E => q \in E /\ \A e \in BOOLEAN : Append(q, e) \in E
  <2>1. ASSUME NEW q \in Paths, NEW c \in BOOLEAN, Append(q, c) \in kept
        PROVE  q \in E /\ \A e \in BOOLEAN : Append(q, e) \in E
    <3>1. q \in D /\ \A e \in BOOLEAN : Append(q, e) \in D
      BY <1>1, <2>1, ShapeIs
    <3>2. ~Pre(parent, q)
      BY <1>4, <1>7, <2>1, PreDown
    <3>3. q \in kept
      BY <1>7, <3>1, <3>2
    <3>4. ASSUME NEW e \in BOOLEAN
          PROVE  Append(q, e) \in E
      <4>1. CASE Append(q, e) = parent
        BY <1>14, <4>1
      <4>2. CASE Append(q, e) # parent
        <5>1. ~Pre(parent, Append(q, e))
          BY <1>4, <3>2, <4>2, PreDown
        <5>2. QED
          BY <1>7, <3>1, <5>1
      <4>3. QED
        BY <4>1, <4>2
    <3>5. QED
      BY <3>3, <3>4
  <2>2. ASSUME NEW q \in Paths, NEW c \in BOOLEAN, NEW s \in Sub, Append(q, c) = parent \o s
        PROVE  q \in E /\ \A e \in BOOLEAN : Append(q, e) \in E
    <3>1. CASE s = <<>>
      <4>1. Append(q, c) = parent
        BY <1>14, <2>2, <3>1
      <4>2. q \in D /\ \A e \in BOOLEAN : Append(q, e) \in D
        BY <1>1, <1>4, <4>1, ShapeIs
      <4>3. Len(parent) = Len(q) + 1 /\ Len(q) \in Nat
            /\ \A e \in BOOLEAN : Len(Append(q, e)) = Len(q) + 1 /\ Append(q, e) \in Paths
        BY <4>1, DownUp, PathFacts
      <4>4. ~Pre(parent, q)
        BY <4>3 DEF Pre
      <4>5. ASSUME NEW e \in BOOLEAN
            PROVE  Append(q, e) \in E
        <5>1. CASE Append(q, e) = parent
          BY <1>14, <5>1
        <5>2. CASE Append(q, e) # parent
          <6>1. ~Pre(parent, Append(q, e))
            BY <1>4, <4>4, <5>2, PreDown
          <6>2. QED
            BY <1>7, <4>2, <6>1
        <5>3. QED
          BY <5>1, <5>2
      <4>6. QED
        BY <1>7, <4>2, <4>4, <4>5
    <3>2. CASE s # <<>>
      <4> DEFINE v == Up(s)
                 f == s[Len(s)]
      <4>1. v \in Paths /\ f \in BOOLEAN /\ Append(v, f) = s
        BY <3>2, UpDown
      <4> HIDE DEF v, f
      <4>2. Append(parent \o v, f) = Append(q, c) /\ parent \o v \in Paths
        BY <1>4, <1>15, <2>2, <4>1, JoinIs
      <4>3. q = parent \o v
        <5>1. Up(Append(parent \o v, f)) = parent \o v /\ Up(Append(q, c)) = q
          BY <4>1, <4>2, DownUp
        <5>2. QED
          BY <4>2, <5>1
      <4>4. v \in Sub /\ \A e \in BOOLEAN : Append(v, e) \in Sub /\ Append(q, e) = parent \o Append(v, e)
        BY <1>15, <4>1, <4>3
      <4> HIDE DEF Sub, kept
      <4>5. QED
        BY <4>3, <4>4
    <3>3. QED
      BY <3>1, <3>2
  <2> HIDE DEF Sub, kept
  <2>3. QED
    BY <2>1, <2>2
<1>17. IsFiniteSet(E)
  <2>1. kept \in SUBSET D /\ raised \in SUBSET D
    OBVIOUS
  <2>2. IsFiniteSet(kept) /\ IsFiniteSet(raised)
    <3> HIDE DEF kept, raised, D
    <3> QED
      BY <1>1, <2>1, FS_Subset
  <2> DEFINE R == {Place(q) : q \in raised}
             f == [q \in raised |-> Place(q)]
  <2>3. IsFiniteSet(R)
    <3>1. f \in [raised -> R] /\ \A y \in R : \E q \in raised : f[q] = y
      OBVIOUS
    <3> HIDE DEF f, R, raised
    <3>2. f \in Surjection(raised, R)
      BY <3>1, Fun_IsSurj
    <3>3. QED
      BY <2>2, <3>2, FS_Surjection
  <2>4. E = kept \cup R
    BY <1>10
  <2> HIDE DEF E, R, kept
  <2>5. QED
    BY <2>2, <2>3, <2>4, FS_Union
<1>18. IsShape(E)
  <2>1. E \subseteq Paths
    BY <1>1, <1>11
  <2>2. <<>> \in E
    <3>1. CASE Pre(parent, <<>>)
      <4>1. Len(parent) = 0
        BY <1>4, <3>1, PathFacts DEF Pre
      <4>2. parent = <<>>
        BY <1>4, <4>1, PathFacts
      <4>3. QED
        BY <1>14, <4>2
    <3>2. CASE ~Pre(parent, <<>>)
      BY <1>1, <1>7, <3>2
    <3>3. QED
      BY <3>1, <3>2
  <2> HIDE DEF E
  <2>3. QED
    BY <1>16, <1>17, <2>1, <2>2, ShapeIs
<1>19. \A q \in kept : q \in Leaves(u) <=> q \in Leaves(t)
  <2>1. ASSUME NEW q \in kept
        PROVE  Append(q, FALSE) \in E <=> Append(q, FALSE) \in D
    <3>1. q \in D /\ q \in Paths /\ ~Pre(parent, q)
      BY <1>1, <1>7
    <3> DEFINE r == Append(q, FALSE)
    <3>2. r \in Paths
      BY <3>1, DownUp
    <3>3. CASE r = parent
      BY <1>4, <1>14, <3>3
    <3>4. CASE r # parent
      <4>1. ~Pre(parent, r)
        BY <1>4, <3>1, <3>4, PreDown
      <4>2. r \notin {parent \o s : s \in Sub}
        BY <1>11, <4>1
      <4> HIDE DEF r
      <4>3. QED
        BY <1>7, <4>1, <4>2 DEF r
    <3>5. QED
      BY <3>3, <3>4
  <2>2. QED
    BY <1>12, <2>1 DEF Leaves
<1>20. \A s \in Sub : parent \o s \in Leaves(u) <=> sibling \o s \in Leaves(t)
  <2>1. ASSUME NEW s \in Sub
        PROVE  parent \o s \in Leaves(u) <=> sibling \o s \in Leaves(t)
    <3> DEFINE a == Append(s, FALSE)
    <3>1. Append(parent \o s, FALSE) = parent \o a /\ (a \in Sub <=> Append(sibling \o s, FALSE) \in D)
          /\ a \in Paths
      BY <1>15
    <3>2. parent \o a \in E <=> a \in Sub
      <4>1. parent \o a \notin kept
        BY <1>4, <1>7, <3>1, JoinIs
      <4>2. \A v \in Sub : v \in Paths
        OBVIOUS
      <4> HIDE DEF a, Sub, kept
      <4>3. \A v \in Sub : parent \o a = parent \o v => a = v
        BY <1>4, <3>1, <4>2, JoinCancel
      <4>4. QED
        BY <4>1, <4>3
    <3>3. parent \o s \in E /\ sibling \o s \in D
      OBVIOUS
    <3> HIDE DEF a, E, Sub
    <3>4. QED
      BY <1>12, <3>1, <3>2, <3>3 DEF Leaves
  <2>2. QED
    BY <2>1
<1>21. \A q \in Leaves(t) : q = p \/ q \in kept \/ \E s \in Sub : q = sibling \o s
  <2>1. ASSUME NEW q \in Leaves(t), q # p, q \notin kept
        PROVE  \E s \in Sub : q = sibling \o s
    <3>1. q \in D /\ q \in Paths /\ Pre(parent, q)
      BY <1>1, <1>7, <2>1 DEF Leaves
    <3>2. q # parent
      <4>1. SUFFICES ASSUME q = parent
                     PROVE  FALSE
        OBVIOUS
      <4>2. Pre(q, p)
        BY <1>2, <1>4, <1>5, <4>1, PreDown, PathFacts DEF Pre
      <4>3. QED
        BY <1>1, <1>2, <2>1, <4>2, LeavesApart
    <3> DEFINE f == q[Len(parent) + 1]
    <3>3. Len(parent) < Len(q) /\ Pre(Append(parent, f), q)
      BY <1>4, <3>1, <3>2, PreNext
    <3>4. f \in BOOLEAN
      BY <1>4, <3>1, <3>3, PathFacts
    <3>5. f # b
      <4>1. SUFFICES ASSUME f = b
                     PROVE  FALSE
        OBVIOUS
      <4>2. Pre(p, q)
        BY <1>5, <3>3, <4>1
      <4>3. QED
        BY <1>1, <1>2, <2>1, <3>1, <4>2, LeavesApart
    <3>6. Pre(sibling, q)
      <4>1. f = ~b
        BY <1>5, <3>4, <3>5
      <4>2. QED
        BY <1>5, <3>3, <4>1
    <3>7. q \in raised
      BY <1>7, <3>1, <3>6
    <3>8. QED
      BY <1>9, <3>7
  <2>2. QED
    BY <2>1
<1>22. p \notin kept /\ \A s \in Sub : sibling \o s # p
  <2>1. Pre(parent, p)
    BY <1>4, <1>5, PreDown, PathFacts DEF Pre
  <2>2. ~Pre(sibling, p)
    <3>1. /\ p[Len(parent) + 1] = b /\ sibling[Len(parent) + 1] = ~b /\ Len(sibling) = Len(parent) + 1
      BY <1>4, <1>5, DownUp
    <3>2. SUFFICES ASSUME Pre(sibling, p)
                   PROVE  FALSE
      OBVIOUS
    <3>3. Len(parent) + 1 \in 1 .. Len(sibling)
      BY <1>4, <3>1
    <3>4. sibling[Len(parent) + 1] = p[Len(parent) + 1]
      BY <3>2, <3>3 DEF Pre
    <3>5. QED
      BY <1>5, <3>1, <3>4
  <2>3. \A s \in Sub : Pre(sibling, sibling \o s)
    BY <1>4, JoinIs
  <2>4. QED
    BY <1>2, <1>7, <2>1, <2>2, <2>3
<1> DEFINE Kept == kept \cap Leaves(t)
           Raised == {s \in Sub : sibling \o s \in Leaves(t)}
<1>23. Leaves(u) = Kept \cup {parent \o s : s \in Raised}
  <2>1. Leaves(u) \subseteq E
    BY <1>12 DEF Leaves
  <2> HIDE DEF Sub, kept
  <2>2. QED
    BY <1>19, <1>20, <2>1
<1>24. Leaves(t) = Kept \cup {sibling \o s : s \in Raised} \cup {p}
  <2> HIDE DEF Sub, kept
  <2> QED
    BY <1>2, <1>21
<1>25. /\ \A q \in Kept : u[q] = t[q] /\ q \in Leaves(t) /\ q # p
       /\ \A s \in Raised : /\ u[parent \o s] = t[sibling \o s]
                            /\ sibling \o s \in Leaves(t) /\ sibling \o s # p
  <2> HIDE DEF Sub, kept
  <2> QED
    BY <1>13, <1>22
<1>26. \A q \in Kept, s \in Raised : q # sibling \o s
  <2>1. \A s \in Sub : Pre(parent, sibling \o s)
    <3>1. ASSUME NEW s \in Sub
          PROVE  Pre(parent, sibling \o s)
      <4>1. Pre(parent, sibling) /\ Pre(sibling, sibling \o s) /\ sibling \o s \in Paths
        <5>1. Pre(sibling, sibling \o s) /\ sibling \o s \in Paths
          BY <1>4, JoinIs
        <5>2. Pre(parent, parent)
          BY <1>4 DEF Pre
        <5>3. Pre(parent, sibling)
          BY <1>4, <1>5, <5>2, PreDown
        <5>4. QED
          BY <5>1, <5>3
      <4>2. Len(sibling) \in Nat /\ Len(sibling \o s) \in Nat
        BY <1>4, <4>1, PathFacts
      <4>3. QED
        BY <1>4, <4>1, <4>2 DEF Pre
    <3>2. QED
      BY <3>1
  <2>2. QED
    BY <1>7, <2>1
<1>27. \A s, v \in Raised : sibling \o s = sibling \o v => s = v
  <2>1. \A s \in Raised : s \in Paths
    OBVIOUS
  <2> HIDE DEF Raised, Sub
  <2>2. QED
    BY <1>4, <2>1, JoinCancel
<1>28. IsPlan(u)
  <2>1. ASSUME NEW q \in Splits(u)
        PROVE  u[q] \in SplitRec
    <3>1. q \in E /\ q \notin Leaves(u)
      BY <1>12, <2>1 DEF Splits
    <3>2. CASE q \in kept
      <4>1. q \in Splits(t)
        BY <1>19, <3>1, <3>2 DEF Splits
      <4>2. QED
        BY <1>13, <3>2, <4>1 DEF IsTree, IsPlan
    <3>3. ASSUME NEW s \in Sub, q = parent \o s
          PROVE  u[q] \in SplitRec
      <4>1. sibling \o s \in Splits(t)
        BY <1>20, <3>1, <3>3 DEF Splits
      <4> HIDE DEF Sub
      <4>2. QED
        BY <1>13, <3>3, <4>1 DEF IsTree, IsPlan
    <3> HIDE DEF Sub, kept
    <3>4. QED
      BY <3>1, <3>2, <3>3
  <2>2. QED
    BY <1>12, <1>18, <2>1 DEF IsPlan
<1> HIDE DEF Kept, Raised
<1>29. \A q \in Leaves(u) : \E v \in Leaves(t) \ {p} : u[q] = t[v]
  BY <1>23, <1>25
<1>30. \A v \in Leaves(t) \ {p} : \E q \in Leaves(u) : u[q] = t[v]
  BY <1>23, <1>24, <1>25
<1>31. \A v, w \in Leaves(t) : t[v].id = t[w].id => v = w
  BY DEF IsTree
<1>32. IsTree(u)
  <2>1. \A q \in Leaves(u) : u[q].id \in Nat
    BY <1>29 DEF IsTree
  <2>2. ASSUME NEW q \in Leaves(u), NEW r \in Leaves(u), u[q].id = u[r].id
        PROVE  q = r
    <3>1. CASE q \in Kept /\ r \in Kept
      BY <1>25, <1>31, <2>2, <3>1
    <3>2. ASSUME NEW x \in Kept, NEW s \in Raised, u[x].id = u[parent \o s].id
          PROVE  FALSE
      BY <1>25, <1>26, <1>31, <3>2
    <3>3. ASSUME NEW s \in Raised, NEW v \in Raised, u[parent \o s].id = u[parent \o v].id
          PROVE  s = v
      <4>1. /\ sibling \o s \in Leaves(t) /\ u[parent \o s] = t[sibling \o s]
            /\ sibling \o v \in Leaves(t) /\ u[parent \o v] = t[sibling \o v]
        BY <1>25
      <4>2. sibling \o s = sibling \o v
        BY <1>31, <3>3, <4>1
      <4>3. QED
        BY <1>27, <4>2
    <3>4. QED
      BY <1>23, <2>2, <3>1, <3>2, <3>3
  <2>3. QED
    BY <1>28, <2>1, <2>2 DEF IsTree
<1>33. Ids(u) = Ids(t) \ {i}
  <2>1. \A v \in Leaves(t) : v = p <=> t[v].id = i
    BY <1>2, <1>31
  <2>2. Ids(u) = {t[v].id : v \in Leaves(t) \ {p}}
    BY <1>29, <1>30 DEF Ids
  <2>3. QED
    BY <1>2, <2>1, <2>2 DEF Ids
<1>34. QED
  BY <1>32, <1>33 DEF u

-----------------------------------------------------------------------------
(* Trees made of other trees.                                              *)

\* The first step of a path and the rest.
LEMMA FirstStep ==
    ASSUME NEW b \in BOOLEAN, NEW q \in Paths
    PROVE  /\ <<b>> \in Paths /\ <<b>> \o q \in Paths /\ <<b>> \o q # <<>>
           /\ Head(<<b>> \o q) = b /\ Tail(<<b>> \o q) = q
           /\ Append(<<>>, b) = <<b>> \o <<>>
<1> DEFINE s == <<b>> \o q
<1>1. <<b>> \in Paths /\ Len(<<b>>) = 1 /\ Append(<<>>, b) = <<b>> \o <<>>
  BY DEF Paths
<1>2. s \in Paths /\ Len(s) = 1 + Len(q) /\ \A k \in 1 .. Len(q) : s[1 + k] = q[k]
  BY <1>1, JoinIs
<1>3. s[1] = b
  <2>1. \A k \in 1 .. 1 : s[k] = <<b>>[k]
    BY <1>1, JoinIs
  <2> HIDE DEF s
  <2>2. QED
    BY <2>1
<1>4. Len(q) \in Nat
  BY PathFacts
<1> HIDE DEF s
<1>5. s # <<>>
  BY <1>2, <1>4, PathFacts
<1>6. Head(s) = b
  BY <1>2, <1>3, <1>5 DEF Paths
<1>7. Tail(s) = q
  <2>1. Tail(s) \in Paths /\ Len(Tail(s)) = Len(s) - 1 /\ \A k \in 1 .. Len(Tail(s)) : Tail(s)[k] = s[k + 1]
    BY <1>2, <1>5, HeadTailProperties DEF Paths
  <2> DEFINE r == Tail(s)
  <2> HIDE DEF r
  <2>2. r \in Paths /\ Len(r) = Len(q) /\ \A k \in 1 .. Len(r) : r[k] = q[k]
    BY <1>2, <1>4, <2>1 DEF r
  <2>3. r = q
    BY <2>2, PathEqual
  <2>4. QED
    BY <2>3 DEF r
<1>8. QED
  BY <1>1, <1>2, <1>5, <1>6, <1>7 DEF s

\* A split above two plans is a plan; its leaves are theirs.
LEMMA NodeIs ==
    ASSUME NEW a, NEW b, IsPlan(a), IsPlan(b), NEW d \in {"h", "v"}, NEW r \in Int
    PROVE  LET u == Node(d, r, a, b) IN
           /\ IsPlan(u)
           /\ Leaves(u) = {<<FALSE>> \o q : q \in Leaves(a)} \cup {<<TRUE>> \o q : q \in Leaves(b)}
           /\ \A q \in DOMAIN a : u[<<FALSE>> \o q] = a[q]
           /\ \A q \in DOMAIN b : u[<<TRUE>> \o q] = b[q]
<1> DEFINE X(e) == IF e THEN b ELSE a
           Of(e) == {<<e>> \o q : q \in DOMAIN X(e)}
           E == {<<>>} \cup Of(FALSE) \cup Of(TRUE)
           u == Node(d, r, a, b)
<1>1. \A e \in BOOLEAN : /\ IsShape(DOMAIN X(e)) /\ DOMAIN X(e) \subseteq Paths /\ <<>> \in DOMAIN X(e)
                         /\ IsFiniteSet(DOMAIN X(e)) /\ \A q \in Splits(X(e)) : X(e)[q] \in SplitRec
  BY DEF IsPlan, IsShape
<1>2. DOMAIN u = E
  BY DEF Node
<1>3. \A e \in BOOLEAN : \A q \in DOMAIN X(e) : <<e>> \o q \in E /\ u[<<e>> \o q] = X(e)[q]
  <2>1. ASSUME NEW e \in BOOLEAN, NEW q \in DOMAIN X(e)
        PROVE  <<e>> \o q \in E /\ u[<<e>> \o q] = X(e)[q]
    <3> DEFINE s == <<e>> \o q
    <3>1. s # <<>> /\ Head(s) = e /\ Tail(s) = q
      BY <1>1, FirstStep
    <3>2. s \in E
      <4>1. s \in Of(e) /\ e \in {FALSE, TRUE}
        OBVIOUS
      <4> HIDE DEF Of, s
      <4>2. QED
        BY <4>1
    <3>3. u[s] = IF s = <<>> THEN [dir |-> d, ratio |-> r] ELSE IF Head(s) THEN b[Tail(s)] ELSE a[Tail(s)]
      BY <1>2, <3>2 DEF Node
    <3> HIDE DEF s, u, E
    <3>4. QED
      BY <3>1, <3>2, <3>3 DEF s
  <2>2. QED
    BY <2>1
<1>4. u[<<>>] = [dir |-> d, ratio |-> r]
  BY <1>2 DEF Node
<1> HIDE DEF u
<1>5. \A x \in E : x = <<>> \/ \E e \in BOOLEAN : \E q \in DOMAIN X(e) : x = <<e>> \o q
  OBVIOUS
<1>6. \A e, f \in BOOLEAN : \A q, s \in Paths : <<e>> \o q = <<f>> \o s => e = f /\ q = s
  <2>1. ASSUME NEW e \in BOOLEAN, NEW f \in BOOLEAN, NEW q \in Paths, NEW s \in Paths,
               <<e>> \o q = <<f>> \o s
        PROVE  e = f /\ q = s
    <3>1. Head(<<e>> \o q) = e /\ Tail(<<e>> \o q) = q
      BY FirstStep
    <3>2. Head(<<f>> \o s) = f /\ Tail(<<f>> \o s) = s
      BY FirstStep
    <3>3. QED
      BY <2>1, <3>1, <3>2
  <2>2. QED
    BY <2>1
<1>7. \A e \in BOOLEAN : \A q \in Paths : <<e>> \o q \in E <=> q \in DOMAIN X(e)
  <2>1. ASSUME NEW e \in BOOLEAN, NEW q \in Paths, <<e>> \o q \in E
        PROVE  q \in DOMAIN X(e)
    <3>1. <<e>> \o q # <<>>
      BY FirstStep
    <3>2. PICK f \in BOOLEAN : \E s \in DOMAIN X(f) : <<e>> \o q = <<f>> \o s
      BY <1>5, <2>1, <3>1
    <3>3. PICK s \in DOMAIN X(f) : <<e>> \o q = <<f>> \o s
      BY <3>2
    <3>4. e = f /\ q = s
      BY <1>1, <1>6, <3>3
    <3>5. QED
      BY <3>4
  <2> HIDE DEF X, E
  <2>2. QED
    BY <1>1, <1>3, <2>1
<1>8. \A e, c \in BOOLEAN : \A q \in Paths : Append(<<e>> \o q, c) = <<e>> \o Append(q, c) /\ Append(q, c) \in Paths
  <2>1. ASSUME NEW e \in BOOLEAN, NEW c \in BOOLEAN, NEW q \in Paths
        PROVE  Append(<<e>> \o q, c) = <<e>> \o Append(q, c) /\ Append(q, c) \in Paths
    <3>1. <<e>> \in Paths
      BY FirstStep
    <3>2. Append(<<e>> \o q, c) = <<e>> \o Append(q, c)
      BY <3>1, JoinDown
    <3>3. QED
      BY <3>2, DownUp
  <2>2. QED
    BY <2>1
<1> HIDE DEF X
<1>9. IsFiniteSet(E)
  <2>1. ASSUME NEW e \in BOOLEAN
        PROVE  IsFiniteSet(Of(e))
    <3> DEFINE S == DOMAIN X(e)
               T == Of(e)
               f == [q \in S |-> <<e>> \o q]
    <3>1. f \in [S -> T] /\ \A y \in T : \E q \in S : f[q] = y
      OBVIOUS
    <3>2. IsFiniteSet(S)
      BY <1>1
    <3> HIDE DEF f, S, T
    <3>3. f \in Surjection(S, T)
      BY <3>1, Fun_IsSurj
    <3>4. IsFiniteSet(T)
      BY <3>2, <3>3, FS_Surjection
    <3>5. QED
      BY <3>4 DEF T
  <2>2. IsFiniteSet(Of(FALSE)) /\ IsFiniteSet(Of(TRUE)) /\ IsFiniteSet({<<>>})
    BY <2>1, FS_Singleton
  <2> HIDE DEF Of
  <2>3. IsFiniteSet({<<>>} \cup Of(FALSE))
    BY <2>2, FS_Union
  <2>4. QED
    BY <2>2, <2>3, FS_Union
<1>10. E \subseteq Paths
  <2>1. \A e \in BOOLEAN : \A q \in DOMAIN X(e) : <<e>> \o q \in Paths
    BY <1>1, FirstStep
  <2>2. ASSUME NEW x \in E
        PROVE  x \in Paths
    <3>1. x = <<>> \/ \E e \in BOOLEAN : \E q \in DOMAIN X(e) : x = <<e>> \o q
      BY <1>5
    <3> HIDE DEF E
    <3>2. QED
      BY <2>1, <3>1, PathFacts
  <2> HIDE DEF E
  <2>3. QED
    BY <2>2
<1>11. <<>> \in E
  OBVIOUS
<1> HIDE DEF E, Of
<1>12. \A q \in Paths, c \in BOOLEAN :
         Append(q, c) \in E => q \in E /\ \A e \in BOOLEAN : Append(q, e) \in E
  <2>1. ASSUME NEW q \in Paths, NEW c \in BOOLEAN, Append(q, c) \in E
        PROVE  q \in E /\ \A e \in BOOLEAN : Append(q, e) \in E
    <3>1. Append(q, c) # <<>> /\ Up(Append(q, c)) = q
      BY DownUp
    <3>2. PICK f \in BOOLEAN : \E s \in DOMAIN X(f) : Append(q, c) = <<f>> \o s
      BY <1>5, <2>1, <3>1
    <3>3. PICK s \in DOMAIN X(f) : Append(q, c) = <<f>> \o s
      BY <3>2
    <3>4. s \in Paths
      BY <1>1
    <3>5. CASE s = <<>>
      <4>1. Append(q, c) = Append(<<>>, f)
        BY <3>3, <3>5, FirstStep, PathFacts
      <4>2. Up(Append(<<>>, f)) = <<>>
        BY PathFacts, DownUp
      <4>3. q = <<>>
        BY <3>1, <4>1, <4>2
      <4>4. \A e \in BOOLEAN : Append(<<>>, e) = <<e>> \o <<>>
        BY FirstStep, PathFacts
      <4>5. \A e \in BOOLEAN : <<e>> \o <<>> \in E
        BY <1>1, <1>3
      <4>6. QED
        BY <1>11, <4>3, <4>4, <4>5
    <3>6. CASE s # <<>>
      <4> DEFINE v == Up(s)
                 g == s[Len(s)]
      <4>1. v \in Paths /\ g \in BOOLEAN /\ Append(v, g) = s
        BY <3>4, <3>6, UpDown
      <4> HIDE DEF v, g
      <4>2. v \in DOMAIN X(f) /\ \A e \in BOOLEAN : Append(v, e) \in DOMAIN X(f)
        BY <1>1, <4>1, ShapeIs
      <4>3. Append(<<f>> \o v, g) = Append(q, c)
        BY <1>8, <3>3, <4>1
      <4>4. <<f>> \o v \in Paths
        BY <4>1, FirstStep
      <4>5. q = <<f>> \o v
        <5>1. Up(Append(<<f>> \o v, g)) = <<f>> \o v
          BY <4>1, <4>4, DownUp
        <5>2. QED
          BY <3>1, <4>3, <5>1
      <4>6. \A e \in BOOLEAN : Append(q, e) = <<f>> \o Append(v, e)
        BY <1>8, <4>1, <4>5
      <4>7. QED
        BY <1>3, <4>2, <4>5, <4>6
    <3>7. QED
      BY <3>5, <3>6
  <2>2. QED
    BY <2>1
<1>13. IsShape(E)
  BY <1>9, <1>10, <1>11, <1>12, ShapeIs
<1>14. \A e \in BOOLEAN : \A q \in DOMAIN X(e) : <<e>> \o q \in Leaves(u) <=> q \in Leaves(X(e))
  <2>1. ASSUME NEW e \in BOOLEAN, NEW q \in DOMAIN X(e)
        PROVE  <<e>> \o q \in Leaves(u) <=> q \in Leaves(X(e))
    <3>1. q \in Paths /\ <<e>> \o q \in E
      BY <1>1, <1>3
    <3>2. Append(<<e>> \o q, FALSE) \in E <=> Append(q, FALSE) \in DOMAIN X(e)
      BY <1>7, <1>8, <3>1
    <3>3. QED
      BY <1>2, <3>1, <3>2 DEF Leaves
  <2>2. QED
    BY <2>1
<1>15. <<>> \notin Leaves(u)
  <2>1. Append(<<>>, FALSE) = <<FALSE>> \o <<>>
    BY FirstStep, PathFacts
  <2>2. <<FALSE>> \o <<>> \in E
    BY <1>1, <1>3
  <2>3. QED
    BY <1>2, <2>1, <2>2 DEF Leaves
<1>16. IsPlan(u)
  <2>1. ASSUME NEW x \in Splits(u)
        PROVE  u[x] \in SplitRec
    <3>1. x \in E /\ x \notin Leaves(u)
      BY <1>2 DEF Splits
    <3>2. CASE x = <<>>
      BY <1>4, <3>2 DEF SplitRec
    <3>3. ASSUME NEW e \in BOOLEAN, NEW q \in DOMAIN X(e), x = <<e>> \o q
          PROVE  u[x] \in SplitRec
      <4>1. q \in Splits(X(e))
        BY <1>14, <3>1, <3>3 DEF Splits
      <4>2. QED
        BY <1>1, <1>3, <3>3, <4>1
    <3>4. QED
      BY <1>5, <3>1, <3>2, <3>3
  <2>2. QED
    BY <1>2, <1>13, <2>1 DEF IsPlan
<1>17. X(FALSE) = a /\ X(TRUE) = b
  BY DEF X
<1>18. Leaves(u) = {<<FALSE>> \o q : q \in Leaves(a)} \cup {<<TRUE>> \o q : q \in Leaves(b)}
  <2>1. Leaves(a) \subseteq DOMAIN a /\ Leaves(b) \subseteq DOMAIN b /\ Leaves(u) \subseteq E
    BY <1>2 DEF Leaves
  <2>2. ASSUME NEW x \in Leaves(u)
        PROVE  x \in {<<FALSE>> \o q : q \in Leaves(a)} \cup {<<TRUE>> \o q : q \in Leaves(b)}
    <3>1. PICK e \in BOOLEAN : \E q \in DOMAIN X(e) : x = <<e>> \o q
      BY <1>5, <1>15, <2>1
    <3>2. PICK q \in DOMAIN X(e) : x = <<e>> \o q
      BY <3>1
    <3>3. q \in Leaves(X(e))
      BY <1>14, <3>2
    <3>4. QED
      BY <1>17, <3>2, <3>3
  <2>3. \A q \in Leaves(a) : <<FALSE>> \o q \in Leaves(u)
    BY <1>14, <1>17, <2>1
  <2>4. \A q \in Leaves(b) : <<TRUE>> \o q \in Leaves(u)
    BY <1>14, <1>17, <2>1
  <2>5. QED
    BY <2>2, <2>3, <2>4
<1>19. QED
  BY <1>3, <1>16, <1>17, <1>18 DEF u

\* A single leaf is a plan.
LEMMA LeafIs ==
    ASSUME NEW i
    PROVE  /\ IsPlan(Leaf(i)) /\ IsLeaf(Leaf(i)) /\ Leaves(Leaf(i)) = {<<>>}
           /\ DOMAIN Leaf(i) = {<<>>} /\ Leaf(i)[<<>>].id = i
<1> DEFINE u == Leaf(i)
<1>1. DOMAIN u = {<<>>} /\ u[<<>>].id = i
  BY DEF Leaf
<1> HIDE DEF u
<1>2. IsShape({<<>>})
  BY PathFacts, FS_Singleton DEF IsShape
<1>3. Append(<<>>, FALSE) # <<>>
  BY PathFacts, DownUp
<1>4. Leaves(u) = {<<>>}
  BY <1>1, <1>3 DEF Leaves
<1>5. IsPlan(u) /\ IsLeaf(u)
  BY <1>1, <1>2, <1>4 DEF IsPlan, IsLeaf, Splits
<1>6. QED
  BY <1>1, <1>4, <1>5 DEF u

\* A row or a column: each of its parts is split off what comes after it.
Chain(f, d, k, n, ratio, item) ==
    f = [c \in k .. n |-> IF c = n THEN item[n] ELSE Node(d, ratio[c], item[c], f[c + 1])]

\* There is one, and it is a plan if its parts are.
LEMMA ChainIs ==
    ASSUME NEW n \in Nat \ {0}, NEW d \in {"h", "v"}, NEW ratio, NEW item,
           \A c \in 1 .. n : ratio[c] \in Int /\ IsPlan(item[c])
    PROVE  /\ \E f : Chain(f, d, 1, n, ratio, item)
           /\ \A f : Chain(f, d, 1, n, ratio, item) => IsPlan(f[1])
<1> DEFINE S == {j \in Nat : j < n => \E f : Chain(f, d, n - j, n, ratio, item)}
<1>1. 0 \in S
  <2> DEFINE g == [c \in n .. n |-> item[n]]
  <2>1. Chain(g, d, n, n, ratio, item)
    BY DEF Chain
  <2> HIDE DEF g
  <2>2. n - 0 = n
    OBVIOUS
  <2>3. QED
    BY <2>1, <2>2
<1>2. ASSUME NEW j \in S
      PROVE  j + 1 \in S
  <2>1. SUFFICES ASSUME j + 1 < n
                 PROVE  \E f : Chain(f, d, n - (j + 1), n, ratio, item)
    OBVIOUS
  <2> DEFINE k == n - (j + 1)
  <2>2. k \in Nat \ {0} /\ k < n /\ n - j = k + 1
    BY <2>1
  <2>3. PICK f : Chain(f, d, k + 1, n, ratio, item)
    <3>1. \E f : Chain(f, d, n - j, n, ratio, item)
      BY <2>1
    <3> HIDE DEF k
    <3>2. QED
      BY <2>2, <3>1
  <2> DEFINE g == [c \in k .. n |-> IF c = k THEN Node(d, ratio[k], item[k], f[k + 1]) ELSE f[c]]
  <2> HIDE DEF k
  <2>4. ASSUME NEW c \in k .. n
        PROVE  g[c] = IF c = n THEN item[n] ELSE Node(d, ratio[c], item[c], g[c + 1])
    <3>1. CASE c = k
      <4>1. k + 1 \in k .. n /\ k + 1 # k /\ k # n
        BY <2>2
      <4>2. g[c] = Node(d, ratio[c], item[c], f[k + 1]) /\ g[k + 1] = f[k + 1]
        BY <3>1, <4>1
      <4> HIDE DEF g
      <4>3. QED
        BY <3>1, <4>1, <4>2
    <3>2. CASE c # k
      <4>1. c \in k + 1 .. n /\ g[c] = f[c]
        BY <2>2, <3>2
      <4>2. f[c] = IF c = n THEN item[n] ELSE Node(d, ratio[c], item[c], f[c + 1])
        BY <2>3, <4>1 DEF Chain
      <4>3. c # n => g[c + 1] = f[c + 1]
        <5>1. c # n => c + 1 \in k .. n /\ c + 1 # k
          BY <2>2, <4>1
        <5>2. QED
          BY <5>1
      <4> HIDE DEF g
      <4>4. QED
        BY <4>1, <4>2, <4>3
    <3>3. QED
      BY <3>1, <3>2
  <2>5. Chain(g, d, k, n, ratio, item)
    <3>1. g = [c \in k .. n |-> g[c]]
      OBVIOUS
    <3> HIDE DEF g
    <3>2. QED
      BY <2>4, <3>1 DEF Chain
  <2> HIDE DEF g
  <2>6. QED
    BY <2>5 DEF k
<1>3. \A j \in Nat : j \in S
  <2> HIDE DEF S
  <2>1. S \in SUBSET Nat
    BY DEF S
  <2>2. QED
    BY <1>1, <1>2, <2>1, Induction
<1>4. \E f : Chain(f, d, 1, n, ratio, item)
  <2> DEFINE j == n - 1
  <2>1. j \in Nat /\ j < n /\ n - j = 1
    OBVIOUS
  <2> HIDE DEF j
  <2>2. \E f : Chain(f, d, n - j, n, ratio, item)
    BY <1>3, <2>1
  <2>3. QED
    BY <2>1, <2>2
<1>5. ASSUME NEW f, Chain(f, d, 1, n, ratio, item)
      PROVE  IsPlan(f[1])
  <2> DEFINE T == {j \in Nat : j < n => IsPlan(f[n - j])}
  <2>1. \A c \in 1 .. n : f[c] = IF c = n THEN item[n] ELSE Node(d, ratio[c], item[c], f[c + 1])
    BY <1>5 DEF Chain
  <2>2. 0 \in T
    <3>1. n \in 1 .. n /\ n - 0 = n
      OBVIOUS
    <3>2. QED
      BY <2>1, <3>1
  <2>3. ASSUME NEW j \in T
        PROVE  j + 1 \in T
    <3>1. SUFFICES ASSUME j + 1 < n
                   PROVE  IsPlan(f[n - (j + 1)])
      OBVIOUS
    <3> DEFINE k == n - (j + 1)
    <3>2. k \in 1 .. n /\ k # n /\ n - j = k + 1 /\ IsPlan(f[n - j])
      BY <3>1
    <3> HIDE DEF k
    <3>3. f[k] = Node(d, ratio[k], item[k], f[k + 1])
      BY <2>1, <3>2
    <3>4. IsPlan(Node(d, ratio[k], item[k], f[k + 1]))
      BY <3>2, NodeIs
    <3>5. QED
      BY <3>3, <3>4 DEF k
  <2>4. \A j \in Nat : j \in T
    <3> HIDE DEF T
    <3>1. T \in SUBSET Nat
      BY DEF T
    <3>2. QED
      BY <2>2, <2>3, <3>1, Induction
  <2>5. n - 1 \in T /\ n - (n - 1) = 1
    <3> HIDE DEF T
    <3> QED
      BY <2>4
  <2>6. QED
    BY <2>5
<1>6. QED
  BY <1>4, <1>5

Weights == Seq(Nat \ {0}) \ {<<>>}
RowRatio(w, c) ==
    (2 * w[c] * Scale + Total(SubSeq(w, c, Len(w)))) \div (2 * Total(SubSeq(w, c, Len(w))))
IsRow(f, w, id) ==
    f = [c \in 1 .. Len(w) |-> IF c = Len(w) THEN Leaf(id + c - 1)
                               ELSE Node("h", RowRatio(w, c), Leaf(id + c - 1), f[c + 1])]

\* The ratios of a row are whole numbers of units.
LEMMA RowRatioInt ==
    ASSUME NEW w \in Weights, NEW c \in 1 .. Len(w)
    PROVE  RowRatio(w, c) \in Int
<1> DEFINE s == SubSeq(w, c, Len(w))
           total == Total(s)
<1>1. w \in Seq(Nat \ {0}) /\ Len(w) \in Nat \ {0} /\ \A k \in 1 .. Len(w) : w[k] \in Nat \ {0}
  BY EmptySeq DEF Weights
<1>2. /\ s \in Seq(Nat \ {0})
      /\ Len(s) = (IF c <= Len(w) THEN Len(w) - c + 1 ELSE 0)
  <2>1. \A k \in c .. Len(w) : w[k] \in Nat \ {0}
    BY <1>1
  <2>2. QED
    BY <1>1, <2>1, SubSeqProperties
<1> HIDE DEF s
<1>3. Len(s) \in Nat \ {0} /\ s \in Seq(Int) /\ s # <<>> /\ \A k \in 1 .. Len(s) : s[k] \in Nat \ {0}
  <2>1. Len(s) \in Nat \ {0} /\ \A k \in 1 .. Len(s) : s[k] \in Nat \ {0}
    BY <1>1, <1>2
  <2>2. s \in Seq(Int)
    BY <1>2, SeqMonotonic
  <2>3. s # <<>>
    BY <2>1, EmptySeq
  <2>4. QED
    BY <2>1, <2>2, <2>3
<1>4. Total(Tail(s)) = Total(s) - s[1] /\ Total(Tail(s)) >= 0
  <2>1. Total(Tail(s)) = Total(s) - s[1]
    BY <1>3, TotalTail
  <2>2. Tail(s) \in Seq(Int) /\ Len(Tail(s)) = Len(s) - 1 /\ \A k \in 1 .. Len(Tail(s)) : Tail(s)[k] = s[k + 1]
    BY <1>3, HeadTailProperties
  <2> DEFINE v == Tail(s)
  <2> HIDE DEF v
  <2>3. v \in Seq(Int) /\ \A k \in 1 .. Len(v) : v[k] >= 0
    BY <1>3, <2>2 DEF v
  <2>4. Total(v) >= 0
    BY <2>3, TotalNat
  <2>5. QED
    BY <2>1, <2>4 DEF v
<1>5. total \in Nat \ {0}
  <2>1. total \in Int /\ s[1] \in Nat \ {0}
    BY <1>3, TotalInt
  <2>2. Total(Tail(s)) = total - s[1] /\ Total(Tail(s)) >= 0
    BY <1>4
  <2> HIDE DEF total
  <2>3. QED
    BY <2>1, <2>2
<1>6. w[c] \in Nat
  BY <1>1
<1>7. RowRatio(w, c) = (2 * w[c] * Scale + total) \div (2 * total)
  BY DEF RowRatio, s
<1> DEFINE x == 2 * w[c] * Scale + total
           y == 2 * total
<1>8. x \in Int /\ y \in Int /\ y > 0
  <2> HIDE DEF total
  <2> QED
    BY <1>5, <1>6 DEF Scale
<1> HIDE DEF x, y
<1>9. x \div y \in Int
  BY <1>8
<1>10. QED
  BY <1>7, <1>9 DEF x, y

\* A row of panes is a plan; one pane is a leaf, two are a split.
LEMMA RowIs ==
    ASSUME NEW w \in Weights, NEW id
    PROVE  /\ IsPlan(WeightedRow(w, id))
           /\ Len(w) = 1 => WeightedRow(w, id) = Leaf(id + 1 - 1)
           /\ Len(w) = 2 => WeightedRow(w, id) = Node("h", RowRatio(w, 1), Leaf(id + 1 - 1), Leaf(id + 2 - 1))
<1> DEFINE n == Len(w)
           ratio == [c \in 1 .. n |-> RowRatio(w, c)]
           item == [c \in 1 .. n |-> Leaf(id + c - 1)]
           F == CHOOSE f : IsRow(f, w, id)
<1>1. n \in Nat \ {0}
  BY EmptySeq DEF Weights
<1>2. \A c \in 1 .. n : ratio[c] \in Int /\ IsPlan(item[c])
  BY RowRatioInt, LeafIs
<1>3. \A f : IsRow(f, w, id) <=> Chain(f, "h", 1, n, ratio, item)
  <2>1. ASSUME NEW f
        PROVE  IsRow(f, w, id) <=> Chain(f, "h", 1, n, ratio, item)
    <3> DEFINE A == [c \in 1 .. n |-> IF c = n THEN Leaf(id + c - 1)
                                      ELSE Node("h", RowRatio(w, c), Leaf(id + c - 1), f[c + 1])]
               B == [c \in 1 .. n |-> IF c = n THEN item[n]
                                      ELSE Node("h", ratio[c], item[c], f[c + 1])]
    <3>1. \A c \in 1 .. n : A[c] = B[c]
      BY <1>1
    <3>2. A = B
      BY <3>1
    <3>3. (IsRow(f, w, id) <=> f = A) /\ (Chain(f, "h", 1, n, ratio, item) <=> f = B)
      BY DEF IsRow, Chain
    <3> HIDE DEF A, B
    <3>4. QED
      BY <3>2, <3>3
  <2>2. QED
    BY <2>1
<1> HIDE DEF ratio, item, n
<1>4. (\E f : Chain(f, "h", 1, n, ratio, item)) /\ \A f : Chain(f, "h", 1, n, ratio, item) => IsPlan(f[1])
  BY <1>1, <1>2, ChainIs
<1>5. IsRow(F, w, id)
  BY <1>3, <1>4
<1>6. WeightedRow(w, id) = F[1]
  BY DEF WeightedRow, IsRow, RowRatio
<1> HIDE DEF F
<1>7. IsPlan(F[1])
  BY <1>3, <1>4, <1>5
<1>8. ASSUME NEW c \in 1 .. n
      PROVE  F[c] = IF c = n THEN Leaf(id + c - 1)
                    ELSE Node("h", RowRatio(w, c), Leaf(id + c - 1), F[c + 1])
  BY <1>5, <1>8 DEF IsRow, n
<1>9. n = 1 => F[1] = Leaf(id + 1 - 1)
  <2>1. ASSUME n = 1
        PROVE  F[1] = Leaf(id + 1 - 1)
    <3>1. 1 \in 1 .. n /\ 1 = n
      BY <2>1
    <3>2. QED
      BY <1>8, <3>1
  <2>2. QED
    BY <2>1
<1>10. n = 2 => F[1] = Node("h", RowRatio(w, 1), Leaf(id + 1 - 1), Leaf(id + 2 - 1))
  <2>1. ASSUME n = 2
        PROVE  F[1] = Node("h", RowRatio(w, 1), Leaf(id + 1 - 1), Leaf(id + 2 - 1))
    <3>1. 1 \in 1 .. n /\ 2 \in 1 .. n /\ 1 # n /\ 1 + 1 = 2
      BY <2>1
    <3>2. F[2] = Leaf(id + 2 - 1)
      BY <1>8, <2>1, <3>1
    <3>3. F[1] = Node("h", RowRatio(w, 1), Leaf(id + 1 - 1), F[1 + 1])
      BY <1>8, <3>1
    <3>4. QED
      BY <3>1, <3>2, <3>3
  <2>2. QED
    BY <2>1
<1>11. QED
  BY <1>6, <1>7, <1>9, <1>10 DEF n

IsColumn(f, rows) ==
    f = [k \in 1 .. Len(rows) |->
           LET n == Len(rows) - k + 1
           IN  IF n = 1 THEN rows[k] ELSE Node("v", (2 * Scale + n) \div (2 * n), rows[k], f[k + 1])]

\* A column of rows is a plan; a single row is its own column.
LEMMA ColumnIs ==
    ASSUME NEW rows, NEW n \in Nat \ {0}, Len(rows) = n, \A k \in 1 .. n : IsPlan(rows[k])
    PROVE  IsPlan(WeightedColumn(rows)) /\ (n = 1 => WeightedColumn(rows) = rows[1])
<1> DEFINE ratio == [k \in 1 .. n |-> IF k = n THEN 0 ELSE (2 * Scale + (n - k + 1)) \div (2 * (n - k + 1))]
           F == CHOOSE f : IsColumn(f, rows)
<1>1. \A k \in 1 .. n : ratio[k] \in Int
  <2>1. ASSUME NEW k \in 1 .. n
        PROVE  (2 * Scale + (n - k + 1)) \div (2 * (n - k + 1)) \in Int
    <3> DEFINE x == 2 * Scale + (n - k + 1)
               y == 2 * (n - k + 1)
    <3>1. x \in Int /\ y \in Int /\ y > 0
      BY DEF Scale
    <3> HIDE DEF x, y
    <3>2. x \div y \in Int
      BY <3>1
    <3>3. QED
      BY <3>2 DEF x, y
  <2>2. QED
    BY <2>1
<1>2. \A f : IsColumn(f, rows) <=> Chain(f, "v", 1, n, ratio, rows)
  <2>1. ASSUME NEW f
        PROVE  IsColumn(f, rows) <=> Chain(f, "v", 1, n, ratio, rows)
    <3> DEFINE m(k) == n - k + 1
               A == [k \in 1 .. n |-> IF m(k) = 1 THEN rows[k]
                                      ELSE Node("v", (2 * Scale + m(k)) \div (2 * m(k)), rows[k], f[k + 1])]
               B == [k \in 1 .. n |-> IF k = n THEN rows[n]
                                      ELSE Node("v", ratio[k], rows[k], f[k + 1])]
    <3>1. ASSUME NEW k \in 1 .. n
          PROVE  A[k] = B[k]
      <4>1. CASE k = n
        <5>1. m(k) = 1
          BY <4>1
        <5>2. QED
          BY <4>1, <5>1
      <4>2. CASE k # n
        <5>1. m(k) # 1
          BY <4>2
        <5>2. ratio[k] = (2 * Scale + m(k)) \div (2 * m(k))
          BY <4>2
        <5> HIDE DEF ratio, m
        <5>3. QED
          BY <4>2, <5>1, <5>2
      <4>3. QED
        BY <4>1, <4>2
    <3>2. A = B
      <4>1. A = [k \in 1 .. n |-> A[k]] /\ B = [k \in 1 .. n |-> B[k]]
        OBVIOUS
      <4> HIDE DEF A, B
      <4>2. QED
        BY <3>1, <4>1
    <3>3. (IsColumn(f, rows) <=> f = A) /\ (Chain(f, "v", 1, n, ratio, rows) <=> f = B)
      BY DEF IsColumn, Chain
    <3> HIDE DEF A, B
    <3>4. QED
      BY <3>2, <3>3
  <2>2. QED
    BY <2>1
<1> HIDE DEF ratio
<1>3. (\E f : Chain(f, "v", 1, n, ratio, rows)) /\ \A f : Chain(f, "v", 1, n, ratio, rows) => IsPlan(f[1])
  BY <1>1, ChainIs
<1>4. IsColumn(F, rows)
  BY <1>2, <1>3
<1>5. WeightedColumn(rows) = F[1]
  BY DEF WeightedColumn, IsColumn
<1> HIDE DEF F
<1>6. IsPlan(F[1])
  BY <1>2, <1>3, <1>4
<1>7. n = 1 => F[1] = rows[1]
  BY <1>4 DEF IsColumn
<1>8. QED
  BY <1>5, <1>6, <1>7

SpecSet == Seq(Weights) \ {<<>>}

\* Every layout spec makes a plan.
LEMMA FromSpecIs ==
    ASSUME NEW spec \in SpecSet
    PROVE  /\ IsPlan(FromSpec(spec))
           /\ Len(spec) = 1 => FromSpec(spec) = WeightedRow(spec[1], 0)
<1> DEFINE n == Len(spec)
           before(k) == Total([j \in 1 .. k - 1 |-> Len(spec[j])])
           rows == [k \in 1 .. n |-> WeightedRow(spec[k], before(k))]
           S == {rows[k] : k \in 1 .. n}
<1>1. n \in Nat \ {0} /\ \A k \in 1 .. n : spec[k] \in Weights
  BY EmptySeq DEF SpecSet
<1>2. \A k \in 1 .. n : IsPlan(rows[k])
  <2> HIDE DEF before
  <2> QED
    BY <1>1, RowIs
<1>3. Len(rows) = n
  <2>1. rows \in [1 .. n -> S]
    OBVIOUS
  <2> HIDE DEF rows, S, n
  <2>2. QED
    BY <1>1, <2>1, FunIsSeq
<1>4. FromSpec(spec) = WeightedColumn(rows)
  BY DEF FromSpec
<1>5. rows[1] = WeightedRow(spec[1], before(1))
  <2> HIDE DEF before
  <2> QED
    BY <1>1
<1>6. before(1) = 0
  <2> DEFINE e == [j \in 1 .. 1 - 1 |-> Len(spec[j])]
  <2>1. e \in [1 .. 0 -> {}]
    OBVIOUS
  <2> HIDE DEF e
  <2>2. e \in Seq({}) /\ Len(e) = 0
    BY <2>1, FunIsSeq
  <2>3. e = <<>>
    BY <2>2, EmptySeq
  <2>4. QED
    BY <2>3, TotalEmpty DEF e
<1> HIDE DEF rows, before, n
<1>7. IsPlan(WeightedColumn(rows)) /\ (n = 1 => WeightedColumn(rows) = rows[1])
  BY <1>1, <1>2, <1>3, ColumnIs
<1>8. QED
  BY <1>4, <1>5, <1>6, <1>7 DEF n

\* Remove takes out one pane, and nothing when it is the last one or unknown.
LEMMA RemoveIs ==
    ASSUME NEW t, IsTree(t), NEW i
    PROVE  LET u == IF CountLeaves(t) > 1 /\ i \in Ids(t) THEN Remove(t, i) ELSE t IN
           /\ IsTree(u)
           /\ Ids(u) = IF CountLeaves(t) > 1 THEN Ids(t) \ {i} ELSE Ids(t)
           /\ CountLeaves(t) > 1 \/ IsLeaf(u)
<1>1. IsShape(DOMAIN t) /\ CountLeaves(t) \in Nat \ {0}
  BY LeavesCount DEF IsTree, IsPlan
<1>2. CASE CountLeaves(t) > 1 /\ i \in Ids(t)
  <2>1. Remove(t, i) = RemoveNode(t, i)
    BY <1>1, <1>2 DEF Remove
  <2>2. QED
    BY <1>2, <2>1, RemoveNodeIs
<1>3. CASE ~(CountLeaves(t) > 1 /\ i \in Ids(t))
  <2>1. CountLeaves(t) > 1 \/ IsLeaf(t)
    BY <1>1, LeafIsAlone
  <2>2. CountLeaves(t) > 1 => Ids(t) \ {i} = Ids(t)
    BY <1>3
  <2>3. QED
    BY <1>3, <2>1, <2>2
<1>4. QED
  BY <1>2, <1>3

\* A layout spec moves the panes and loses none.
LEMMA ReconfigureIs ==
    ASSUME NEW t, IsTree(t), NEW spec \in SpecSet
    PROVE  LET u == Reconfigure(t, spec) IN
           IsTree(u) /\ Ids(u) = Ids(t) /\ (IsLeaf(u) <=> IsLeaf(t))
<1> DEFINE u == Reconfigure(t, spec)
           new == FromSpec(spec)
           ids == PaneIds(t)
<1>1. IsPlan(new) /\ IsShape(DOMAIN new) /\ IsShape(DOMAIN t)
  BY FromSpecIs DEF IsTree, IsPlan
<1>2. CASE CountLeaves(new) # CountLeaves(t)
  BY <1>2 DEF Reconfigure
<1>3. CASE CountLeaves(new) = CountLeaves(t)
  <2> DEFINE N == CountLeaves(t)
  <2>1. u = [p \in DOMAIN new |-> IF p \in Leaves(new) THEN [id |-> ids[Rank(new, p) + 1]] ELSE new[p]]
    BY <1>3 DEF Reconfigure
  <2> HIDE DEF u, new
  <2>2. DOMAIN u = DOMAIN new /\ Leaves(new) \subseteq DOMAIN new
    BY <2>1 DEF Leaves
  <2>3. Leaves(u) = Leaves(new) /\ Splits(u) = Splits(new) /\ (IsLeaf(u) <=> IsLeaf(new))
    BY <2>2 DEF Leaves, Splits, IsLeaf
  <2>4. \A p \in Leaves(new) : u[p].id = ids[Rank(new, p) + 1]
    BY <2>1, <2>2
  <2>5. \A p \in Splits(new) : u[p] = new[p]
    BY <2>1 DEF Splits
  <2>6. IsPlan(u)
    BY <1>1, <2>2, <2>3, <2>5 DEF IsPlan
  <2>7. N \in Nat \ {0} /\ \A p \in Leaves(new) : Rank(new, p) \in 0 .. N - 1
    BY <1>1, <1>3, RankIs, LeavesCount
  <2>8. \A p \in Leaves(new) : Rank(new, p) + 1 \in 1 .. N
    <3> HIDE DEF N
    <3> QED
      BY <2>7
  <2>9. \A k \in 1 .. N : ids[k] \in Ids(t)
    BY <1>1, PaneIdsInIds
  <2>10. Ids(t) \subseteq Nat
    BY PathToIs
  <2>11. \A p \in Leaves(u) : u[p].id \in Ids(t)
    BY <2>3, <2>4, <2>8, <2>9
  <2>12. ASSUME NEW j \in 1 .. N, NEW k \in 1 .. N, ids[j] = ids[k]
         PROVE  j = k
    <3>1. PICK p \in Leaves(t) : Rank(t, p) + 1 = j /\ ids[j] = t[p].id
      BY <1>1, PaneIdsIs
    <3>2. PICK q \in Leaves(t) : Rank(t, q) + 1 = k /\ ids[k] = t[q].id
      BY <1>1, PaneIdsIs
    <3>3. p = q
      BY <2>12, <3>1, <3>2 DEF IsTree
    <3>4. QED
      BY <3>1, <3>2, <3>3
  <2>13. ASSUME NEW p \in Leaves(u), NEW q \in Leaves(u), u[p].id = u[q].id
         PROVE  p = q
    <3>1. p \in Leaves(new) /\ q \in Leaves(new)
      BY <2>3
    <3>2. ids[Rank(new, p) + 1] = ids[Rank(new, q) + 1]
      BY <2>4, <2>13, <3>1
    <3>3. Rank(new, p) + 1 = Rank(new, q) + 1
      BY <2>8, <2>12, <3>1, <3>2
    <3>4. Rank(new, p) = Rank(new, q)
      BY <2>7, <3>1, <3>3
    <3>5. QED
      BY <1>1, <3>1, <3>4, RankIs
  <2>14. ASSUME NEW i \in Ids(t)
         PROVE  \E p \in Leaves(u) : u[p].id = i
    <3> DEFINE l == PathTo(t, i)
    <3>1. l \in Leaves(t) /\ t[l].id = i
      BY PathToIs
    <3>2. Rank(t, l) \in 0 .. N - 1 /\ ids[Rank(t, l) + 1] = i
      BY <1>1, <3>1, RankIs, PaneIdsIs
    <3>3. PICK p \in Leaves(new) : Rank(new, p) = Rank(t, l)
      BY <1>1, <1>3, <3>2, RankIs
    <3>4. QED
      BY <2>3, <2>4, <3>2, <3>3
  <2>15. IsTree(u)
    BY <2>6, <2>10, <2>11, <2>13 DEF IsTree
  <2>16. Ids(u) = Ids(t)
    <3>1. Ids(u) \subseteq Ids(t)
      BY <2>11 DEF Ids
    <3>2. Ids(t) \subseteq Ids(u)
      BY <2>14 DEF Ids
    <3>3. QED
      BY <3>1, <3>2
  <2>17. IsLeaf(new) <=> IsLeaf(t)
    BY <1>1, <1>3, LeafIsAlone
  <2>18. QED
    BY <2>3, <2>15, <2>16, <2>17 DEF u
<1>4. QED
  BY <1>2, <1>3

\* A new tab's panes are numbered from 0.
LEMMA NewTreeIs ==
    /\ IsTree(FromGrid(1, 1)) /\ Ids(FromGrid(1, 1)) = {0} /\ IsLeaf(FromGrid(1, 1))
    /\ IsTree(FromGrid(1, 2)) /\ Ids(FromGrid(1, 2)) = {0, 1}
<1> DEFINE row(n) == [c \in 1 .. n |-> 1]
           spec(n) == [r \in 1 .. 1 |-> row(n)]
<1>1. ASSUME NEW n \in {1, 2}
      PROVE  /\ row(n) \in Weights /\ Len(row(n)) = n
             /\ spec(n) \in SpecSet /\ Len(spec(n)) = 1 /\ spec(n)[1] = row(n)
  <2>1. row(n) \in [1 .. n -> Nat \ {0}] /\ n \in Nat /\ n # 0
    OBVIOUS
  <2> HIDE DEF row
  <2>2. row(n) \in Seq(Nat \ {0}) /\ Len(row(n)) = n
    BY <2>1, FunIsSeq
  <2>3. row(n) \in Weights
    BY <2>1, <2>2, EmptySeq DEF Weights
  <2>4. spec(n) \in [1 .. 1 -> Weights] /\ spec(n)[1] = row(n)
    BY <2>3
  <2> HIDE DEF spec
  <2>5. spec(n) \in Seq(Weights) /\ Len(spec(n)) = 1
    BY <2>4, FunIsSeq
  <2>6. spec(n) \in SpecSet
    BY <2>5, EmptySeq, SMTT(30) DEF SpecSet
  <2>7. QED
    BY <2>2, <2>3, <2>4, <2>5, <2>6
<1>2. \A n : FromGrid(1, n) = FromSpec(spec(n))
  BY DEF FromGrid
<1> HIDE DEF row, spec
<1>3. ASSUME NEW n \in {1, 2}
      PROVE  FromGrid(1, n) = WeightedRow(row(n), 0)
  BY <1>1, <1>2, FromSpecIs
<1>4. FromGrid(1, 1) = Leaf(0)
  <2>1. WeightedRow(row(1), 0) = Leaf(0 + 1 - 1)
    BY <1>1, RowIs
  <2>2. QED
    BY <1>3, <2>1
<1>5. /\ FromGrid(1, 2) = Node("h", RowRatio(row(2), 1), Leaf(0), Leaf(1))
      /\ RowRatio(row(2), 1) \in Int
  <2>1. WeightedRow(row(2), 0) = Node("h", RowRatio(row(2), 1), Leaf(0 + 1 - 1), Leaf(0 + 2 - 1))
    BY <1>1, RowIs
  <2>2. 1 \in 1 .. Len(row(2))
    BY <1>1
  <2>3. RowRatio(row(2), 1) \in Int
    BY <1>1, <2>2, RowRatioInt
  <2>4. QED
    BY <1>3, <2>1, <2>3
<1>6. /\ IsTree(Leaf(0)) /\ Ids(Leaf(0)) = {0} /\ IsLeaf(Leaf(0))
  BY LeafIs DEF IsTree, Ids
<1>7. ASSUME NEW r \in Int
      PROVE  LET u == Node("h", r, Leaf(0), Leaf(1)) IN IsTree(u) /\ Ids(u) = {0, 1}
  <2> DEFINE a == Leaf(0)
             b == Leaf(1)
             u == Node("h", r, a, b)
             pf == <<FALSE>> \o <<>>
             pt == <<TRUE>> \o <<>>
  <2>1. /\ IsPlan(a) /\ Leaves(a) = {<<>>} /\ <<>> \in DOMAIN a /\ a[<<>>].id = 0
        /\ IsPlan(b) /\ Leaves(b) = {<<>>} /\ <<>> \in DOMAIN b /\ b[<<>>].id = 1
    BY LeafIs
  <2> HIDE DEF a, b
  <2>2. /\ IsPlan(u)
        /\ Leaves(u) = {<<FALSE>> \o q : q \in Leaves(a)} \cup {<<TRUE>> \o q : q \in Leaves(b)}
        /\ \A q \in DOMAIN a : u[<<FALSE>> \o q] = a[q]
        /\ \A q \in DOMAIN b : u[<<TRUE>> \o q] = b[q]
    <3>1. "h" \in {"h", "v"}
      OBVIOUS
    <3> HIDE DEF u
    <3>2. IsPlan(Node("h", r, a, b))
      BY <1>7, <2>1, <3>1, NodeIs
    <3>3. Leaves(Node("h", r, a, b)) = {<<FALSE>> \o q : q \in Leaves(a)} \cup {<<TRUE>> \o q : q \in Leaves(b)}
      BY <1>7, <2>1, <3>1, NodeIs
    <3>4. \A q \in DOMAIN a : Node("h", r, a, b)[<<FALSE>> \o q] = a[q]
      BY <1>7, <2>1, <3>1, NodeIs
    <3>5. \A q \in DOMAIN b : Node("h", r, a, b)[<<TRUE>> \o q] = b[q]
      BY <1>7, <2>1, <3>1, NodeIs
    <3>6. QED
      BY <3>2, <3>3, <3>4, <3>5 DEF u
  <2> HIDE DEF u
  <2>3. Leaves(u) = {pf, pt}
    BY <2>1, <2>2
  <2>4. u[pf].id = 0 /\ u[pt].id = 1
    BY <2>1, <2>2
  <2> HIDE DEF pf, pt
  <2>5. \A p \in Leaves(u) : (p = pf /\ u[p].id = 0) \/ (p = pt /\ u[p].id = 1)
    BY <2>3, <2>4
  <2>6. IsTree(u)
    <3>1. \A p \in Leaves(u) : u[p].id \in Nat
      BY <2>5
    <3>2. \A p, q \in Leaves(u) : u[p].id = u[q].id => p = q
      BY <2>5
    <3>3. QED
      BY <2>2, <3>1, <3>2 DEF IsTree
  <2>7. Ids(u) = {0, 1}
    <3>1. Ids(u) = {u[pf].id, u[pt].id}
      BY <2>3 DEF Ids
    <3>2. QED
      BY <2>4, <3>1
  <2>8. QED
    BY <2>6, <2>7 DEF u, a, b
<1>8. QED
  BY <1>4, <1>5, <1>6, <1>7

-----------------------------------------------------------------------------
(* Areas.                                                                  *)

\* Rectangles whose corners fit in 16 bits, as all below the root are.
Cells == [x : Nat, y : Nat, w : Nat, h : Nat]
Areal(a) == a \in Cells /\ a.x + a.w <= U16Max /\ a.y + a.h <= U16Max

\* A function with the four fields of a rectangle is one.
LEMMA RectIs ==
    ASSUME NEW x, NEW y, NEW w, NEW h
    PROVE  /\ Rect(x, y, w, h).x = x /\ Rect(x, y, w, h).y = y
           /\ Rect(x, y, w, h).w = w /\ Rect(x, y, w, h).h = h
           /\ \A r : /\ DOMAIN r = {"x", "y", "w", "h"} /\ r = [f \in DOMAIN r |-> r[f]]
                     /\ r.x = x /\ r.y = y /\ r.w = w /\ r.h = h
                     => r = Rect(x, y, w, h)
           /\ x \in Nat /\ y \in Nat /\ w \in Nat /\ h \in Nat => Rect(x, y, w, h) \in Cells
<1> DEFINE v == Rect(x, y, w, h)
<1>1. /\ DOMAIN v = {"x", "y", "w", "h"} /\ v = [f \in DOMAIN v |-> v[f]]
      /\ v.x = x /\ v.y = y /\ v.w = w /\ v.h = h
  BY DEF Rect
<1>2. x \in Nat /\ y \in Nat /\ w \in Nat /\ h \in Nat => v \in Cells
  BY DEF Rect, Cells
<1> HIDE DEF v
<1>3. ASSUME NEW r, DOMAIN r = {"x", "y", "w", "h"}, r = [f \in DOMAIN r |-> r[f]],
             r.x = x, r.y = y, r.w = w, r.h = h
      PROVE  r = v
  BY <1>1, <1>3
<1>4. QED
  BY <1>1, <1>2, <1>3 DEF v

\* Records with some fields set anew.
Shrink(a, m, n) == [a EXCEPT !.w = m, !.h = n]
MoveX(a, m, n) == [a EXCEPT !.x = m, !.w = n]
MoveY(a, m, n) == [a EXCEPT !.y = m, !.h = n]

\* They are rectangles again.
LEMMA RectSet ==
    ASSUME NEW a \in Cells, NEW m
    PROVE  /\ a = Rect(a.x, a.y, a.w, a.h)
           /\ [a EXCEPT !.w = m] = Rect(a.x, a.y, m, a.h)
           /\ [a EXCEPT !.h = m] = Rect(a.x, a.y, a.w, m)
<1> DEFINE IsRect(r) == DOMAIN r = {"x", "y", "w", "h"} /\ r = [f \in DOMAIN r |-> r[f]]
<1>1. IsRect(a)
  BY DEF Cells
<1>2. a = Rect(a.x, a.y, a.w, a.h)
  BY <1>1, RectIs
<1> DEFINE b == [a EXCEPT !.w = m]
           c == [a EXCEPT !.h = m]
<1>3. IsRect(b) /\ b.x = a.x /\ b.y = a.y /\ b.w = m /\ b.h = a.h
  BY <1>1
<1>4. IsRect(c) /\ c.x = a.x /\ c.y = a.y /\ c.w = a.w /\ c.h = m
  BY <1>1
<1> HIDE DEF b, c
<1>5. b = Rect(a.x, a.y, m, a.h)
  BY <1>3, RectIs
<1>6. c = Rect(a.x, a.y, a.w, m)
  BY <1>4, RectIs
<1>7. QED
  BY <1>2, <1>5, <1>6 DEF b, c

\* Shrinking leaves the corner.
LEMMA ShrinkIs ==
    ASSUME NEW a \in Cells, NEW m, NEW n
    PROVE  Shrink(a, m, n) = Rect(a.x, a.y, m, n)
<1> DEFINE d == Shrink(a, m, n)
<1>1. DOMAIN a = {"x", "y", "w", "h"}
  BY DEF Cells
<1>2. /\ DOMAIN d = {"x", "y", "w", "h"} /\ d = [f \in DOMAIN d |-> d[f]]
      /\ d.x = a.x /\ d.y = a.y /\ d.w = m /\ d.h = n
  BY <1>1 DEF Shrink
<1> HIDE DEF d
<1>3. d = Rect(a.x, a.y, m, n)
  BY <1>2, RectIs
<1>4. QED
  BY <1>3 DEF d

\* Moving right leaves the rows.
LEMMA MoveXIs ==
    ASSUME NEW a \in Cells, NEW m, NEW n
    PROVE  MoveX(a, m, n) = Rect(m, a.y, n, a.h)
<1> DEFINE d == MoveX(a, m, n)
<1>1. DOMAIN a = {"x", "y", "w", "h"}
  BY DEF Cells
<1>2. /\ DOMAIN d = {"x", "y", "w", "h"} /\ d = [f \in DOMAIN d |-> d[f]]
      /\ d.x = m /\ d.y = a.y /\ d.w = n /\ d.h = a.h
  BY <1>1 DEF MoveX
<1> HIDE DEF d
<1>3. d = Rect(m, a.y, n, a.h)
  BY <1>2, RectIs
<1>4. QED
  BY <1>3 DEF d

\* Moving down leaves the columns.
LEMMA MoveYIs ==
    ASSUME NEW a \in Cells, NEW m, NEW n
    PROVE  MoveY(a, m, n) = Rect(a.x, m, a.w, n)
<1> DEFINE d == MoveY(a, m, n)
<1>1. DOMAIN a = {"x", "y", "w", "h"}
  BY DEF Cells
<1>2. /\ DOMAIN d = {"x", "y", "w", "h"} /\ d = [f \in DOMAIN d |-> d[f]]
      /\ d.x = a.x /\ d.y = m /\ d.w = a.w /\ d.h = n
  BY <1>1 DEF MoveY
<1> HIDE DEF d
<1>3. d = Rect(a.x, m, a.w, n)
  BY <1>2, RectIs
<1>4. QED
  BY <1>3 DEF d

\* Clipping does nothing to a rectangle that fits.
LEMMA ClippedIs ==
    ASSUME NEW a \in Cells, a.x <= U16Max, a.y <= U16Max
    PROVE  Areal(Clipped(a)) /\ (Areal(a) => Clipped(a) = a)
<1> DEFINE m == Least(a.w, U16Max - a.x)
           n == Least(a.h, U16Max - a.y)
<1>1. a.x \in Nat /\ a.y \in Nat /\ a.w \in Nat /\ a.h \in Nat
  BY DEF Cells
<1>2. /\ m \in Nat /\ a.x + m <= U16Max /\ n \in Nat /\ a.y + n <= U16Max
      /\ Areal(a) => m = a.w /\ n = a.h
  BY <1>1 DEF Areal, Least, U16Max
<1>3. Clipped(a) = Shrink(a, m, n)
  BY DEF Clipped, Shrink
<1> HIDE DEF m, n
<1>4. Clipped(a) = Rect(a.x, a.y, m, n)
  BY <1>3, ShrinkIs
<1>5. a = Rect(a.x, a.y, a.w, a.h)
  BY RectSet
<1>6. Areal(Clipped(a))
  BY <1>1, <1>2, <1>4, RectIs DEF Areal
<1>7. Areal(a) => Clipped(a) = a
  BY <1>2, <1>4, <1>5
<1>8. QED
  BY <1>6, <1>7

\* An area cut in two at m cells, with n cells after the separator, or not at all.
Halves(d, a, b, c, m, n) ==
    \/ /\ d = "h" /\ ((n = 0 /\ m = a.w) \/ (m > 0 /\ n > 0 /\ m + 1 + n = a.w))
       /\ b = Rect(a.x, a.y, m, a.h) /\ c = Rect(IF n = 0 THEN a.x ELSE a.x + m + 1, a.y, n, a.h)
    \/ /\ d = "v" /\ ((n = 0 /\ m = a.h) \/ (m > 0 /\ n > 0 /\ m + 1 + n = a.h))
       /\ b = Rect(a.x, a.y, a.w, m) /\ c = Rect(a.x, IF n = 0 THEN a.y ELSE a.y + m + 1, a.w, n)

\* That is what SplitArea does.
LEMMA SplitHalves ==
    ASSUME NEW a, Areal(a), NEW d \in {"h", "v"}, NEW ratio \in Int
    PROVE  \E m \in Nat, n \in Nat :
             Halves(d, a, SplitArea(a, d, ratio)[1], SplitArea(a, d, ratio)[2], m, n)
<1> DEFINE size == IF d = "h" THEN a.w ELSE a.h
           usable == Most(size - 1, 0)
           slots == (2 * (size + 1) * ratio + Scale) \div (2 * Scale)
           near == Clamp(Most(slots - 1, 0), 1, usable - 1)
           s == SplitArea(a, d, ratio)
<1>1. /\ a.x \in Nat /\ a.y \in Nat /\ a.w \in Nat /\ a.h \in Nat
      /\ a.x + a.w <= U16Max /\ a.y + a.h <= U16Max
  BY DEF Areal, Cells
<1>2. a \in Cells /\ a.x <= U16Max /\ a.y <= U16Max
  BY <1>1 DEF Areal, U16Max
<1>3. Clipped(a) = a
  BY <1>2, ClippedIs
<1>4. size \in Nat
  BY <1>1
<1>5. slots \in Int
  <2> DEFINE n == 2 * (size + 1) * ratio + Scale
             m == 2 * Scale
  <2>1. n \in Int /\ m \in Int /\ m > 0
    <3> HIDE DEF size
    <3> QED
      BY <1>4 DEF Scale
  <2> HIDE DEF n, m
  <2>2. n \div m \in Int
    BY <2>1
  <2>3. QED
    BY <2>2 DEF n, m
<1>6. usable \in Nat /\ (usable >= 2 => size = usable + 1 /\ near \in 1 .. usable - 1)
  <2> HIDE DEF size, slots
  <2> QED
    BY <1>4, <1>5 DEF Most, Clamp, Least
<1>7. s = IF usable < 2
          THEN IF d = "h" THEN <<a, [a EXCEPT !.w = 0]>> ELSE <<a, [a EXCEPT !.h = 0]>>
          ELSE IF d = "h"
          THEN <<[a EXCEPT !.w = near], [a EXCEPT !.x = @ + near + 1, !.w = usable - near]>>
          ELSE <<[a EXCEPT !.h = near], [a EXCEPT !.y = @ + near + 1, !.h = usable - near]>>
  BY <1>3 DEF SplitArea
<1> HIDE DEF s, near, usable, slots
<1> DEFINE b == s[1]
           c == s[2]
<1>8. \E m \in Nat, n \in Nat : Halves(d, a, b, c, m, n)
  <2>1. a = Rect(a.x, a.y, a.w, a.h)
    BY <1>2, RectSet
  <2>2. CASE usable < 2 /\ d = "h"
    <3>1. b = a /\ c = [a EXCEPT !.w = 0]
      BY <1>7, <2>2
    <3>2. c = Rect(a.x, a.y, 0, a.h)
      BY <1>2, <3>1, RectSet
    <3> HIDE DEF b, c
    <3>3. Halves(d, a, b, c, a.w, 0)
      BY <2>1, <2>2, <3>1, <3>2 DEF Halves
    <3>4. QED
      BY <1>1, <3>3
  <2>3. CASE usable < 2 /\ d # "h"
    <3>1. b = a /\ c = [a EXCEPT !.h = 0]
      BY <1>7, <2>3
    <3>2. c = Rect(a.x, a.y, a.w, 0)
      BY <1>2, <3>1, RectSet
    <3> HIDE DEF b, c
    <3>3. Halves(d, a, b, c, a.h, 0)
      BY <2>1, <2>3, <3>1, <3>2 DEF Halves
    <3>4. QED
      BY <1>1, <3>3
  <2>4. CASE usable >= 2 /\ d = "h"
    <3>1. b = [a EXCEPT !.w = near] /\ c = MoveX(a, a.x + near + 1, usable - near)
      BY <1>6, <1>7, <2>4 DEF MoveX
    <3> HIDE DEF b, c
    <3>2. b = Rect(a.x, a.y, near, a.h) /\ c = Rect(a.x + near + 1, a.y, usable - near, a.h)
      <4>1. [a EXCEPT !.w = near] = Rect(a.x, a.y, near, a.h)
        BY <1>2, RectSet
      <4>2. MoveX(a, a.x + near + 1, usable - near) = Rect(a.x + near + 1, a.y, usable - near, a.h)
        BY <1>2, MoveXIs
      <4>3. QED
        BY <3>1, <4>1, <4>2
    <3>3. a.w = usable + 1 /\ near \in 1 .. usable - 1
      BY <1>6, <2>4
    <3>4. near \in Nat /\ usable - near \in Nat /\ near > 0 /\ usable - near > 0 /\ near + 1 + (usable - near) = a.w
      BY <1>1, <1>6, <3>3
    <3>5. Halves(d, a, b, c, near, usable - near)
      BY <2>4, <3>2, <3>4 DEF Halves
    <3>6. QED
      BY <3>4, <3>5
  <2>5. CASE usable >= 2 /\ d # "h"
    <3>1. b = [a EXCEPT !.h = near] /\ c = MoveY(a, a.y + near + 1, usable - near)
      BY <1>6, <1>7, <2>5 DEF MoveY
    <3> HIDE DEF b, c
    <3>2. b = Rect(a.x, a.y, a.w, near) /\ c = Rect(a.x, a.y + near + 1, a.w, usable - near)
      <4>1. [a EXCEPT !.h = near] = Rect(a.x, a.y, a.w, near)
        BY <1>2, RectSet
      <4>2. MoveY(a, a.y + near + 1, usable - near) = Rect(a.x, a.y + near + 1, a.w, usable - near)
        BY <1>2, MoveYIs
      <4>3. QED
        BY <3>1, <4>1, <4>2
    <3>3. a.h = usable + 1 /\ near \in 1 .. usable - 1
      BY <1>6, <2>5
    <3>4. near \in Nat /\ usable - near \in Nat /\ near > 0 /\ usable - near > 0 /\ near + 1 + (usable - near) = a.h
      BY <1>1, <1>6, <3>3
    <3>5. Halves(d, a, b, c, near, usable - near)
      BY <2>5, <3>2, <3>4 DEF Halves
    <3>6. QED
      BY <3>4, <3>5
  <2>6. QED
    BY <1>6, <2>2, <2>3, <2>4, <2>5
<1>9. QED
  BY <1>8 DEF b, c, s

\* The halves of an area, field by field.
LEMMA HalvesAre ==
    ASSUME NEW a, Areal(a), NEW d, NEW b, NEW c, NEW m \in Nat, NEW n \in Nat, Halves(d, a, b, c, m, n)
    PROVE  /\ Areal(b) /\ Areal(c)
           /\ d = "h" => /\ b.x = a.x /\ b.y = a.y /\ b.h = a.h /\ c.y = a.y /\ c.h = a.h
                         /\ \/ c.w = 0 /\ c.x = a.x /\ b.w = a.w
                            \/ c.w > 0 /\ b.w > 0 /\ c.x = a.x + b.w + 1 /\ b.w + 1 + c.w = a.w
           /\ d # "h" => /\ b.x = a.x /\ b.y = a.y /\ b.w = a.w /\ c.x = a.x /\ c.w = a.w
                         /\ \/ c.h = 0 /\ c.y = a.y /\ b.h = a.h
                            \/ c.h > 0 /\ b.h > 0 /\ c.y = a.y + b.h + 1 /\ b.h + 1 + c.h = a.h
<1>1. /\ a.x \in Nat /\ a.y \in Nat /\ a.w \in Nat /\ a.h \in Nat
      /\ a.x + a.w <= U16Max /\ a.y + a.h <= U16Max /\ U16Max \in Nat
  BY DEF Areal, Cells, U16Max
<1> HIDE DEF U16Max
<1>2. CASE d = "h"
  <2>1. (n = 0 /\ m = a.w) \/ (m > 0 /\ n > 0 /\ m + 1 + n = a.w)
    BY <1>2 DEF Halves
  <2> DEFINE k == IF n = 0 THEN a.x ELSE a.x + m + 1
  <2>2. b = Rect(a.x, a.y, m, a.h) /\ c = Rect(k, a.y, n, a.h)
    BY <1>2 DEF Halves
  <2>3. k \in Nat /\ (n = 0 => k = a.x) /\ (n # 0 => k = a.x + m + 1)
    BY <1>1
  <2> HIDE DEF k
  <2>4. /\ b \in Cells /\ b.x = a.x /\ b.y = a.y /\ b.w = m /\ b.h = a.h
        /\ c \in Cells /\ c.x = k /\ c.y = a.y /\ c.w = n /\ c.h = a.h
    BY <1>1, <2>2, <2>3, RectIs
  <2>5. Areal(b) /\ Areal(c)
    BY <1>1, <2>1, <2>3, <2>4 DEF Areal
  <2>6. QED
    BY <1>2, <2>1, <2>3, <2>4, <2>5
<1>3. CASE d # "h"
  <2>1. (n = 0 /\ m = a.h) \/ (m > 0 /\ n > 0 /\ m + 1 + n = a.h)
    BY <1>3 DEF Halves
  <2> DEFINE k == IF n = 0 THEN a.y ELSE a.y + m + 1
  <2>2. b = Rect(a.x, a.y, a.w, m) /\ c = Rect(a.x, k, a.w, n)
    BY <1>3 DEF Halves
  <2>3. k \in Nat /\ (n = 0 => k = a.y) /\ (n # 0 => k = a.y + m + 1)
    BY <1>1
  <2> HIDE DEF k
  <2>4. /\ b \in Cells /\ b.x = a.x /\ b.y = a.y /\ b.w = a.w /\ b.h = m
        /\ c \in Cells /\ c.x = a.x /\ c.y = k /\ c.w = a.w /\ c.h = n
    BY <1>1, <2>2, <2>3, RectIs
  <2>5. Areal(b) /\ Areal(c)
    BY <1>1, <2>1, <2>3, <2>4 DEF Areal
  <2>6. QED
    BY <1>3, <2>1, <2>3, <2>4, <2>5
<1>4. QED
  BY <1>2, <1>3

\* The two areas of a split lie in the area, one before the other.
LEMMA SplitAreaIs ==
    ASSUME NEW a, Areal(a), NEW d \in {"h", "v"}, NEW ratio \in Int
    PROVE  LET s == SplitArea(a, d, ratio) IN
           /\ Areal(s[1]) /\ Areal(s[2])
           /\ Within(s[1], a) /\ Within(s[2], a) /\ Apart(s[1], s[2])
<1> DEFINE b == SplitArea(a, d, ratio)[1]
           c == SplitArea(a, d, ratio)[2]
<1>1. PICK m \in Nat, n \in Nat : Halves(d, a, b, c, m, n)
  BY SplitHalves
<1> HIDE DEF b, c
<1>2. Areal(b) /\ Areal(c)
  BY <1>1, HalvesAre
<1>3. Within(b, a) /\ Within(c, a) /\ Apart(b, c)
  <2>1. /\ a.x \in Nat /\ a.y \in Nat /\ a.w \in Nat /\ a.h \in Nat
        /\ b.x \in Nat /\ b.y \in Nat /\ b.w \in Nat /\ b.h \in Nat
        /\ c.x \in Nat /\ c.y \in Nat /\ c.w \in Nat /\ c.h \in Nat
    BY <1>2 DEF Areal, Cells
  <2>2. CASE d = "h"
    <3>1. /\ b.x = a.x /\ b.y = a.y /\ b.h = a.h /\ c.y = a.y /\ c.h = a.h
          /\ \/ c.w = 0 /\ c.x = a.x /\ b.w = a.w
             \/ c.w > 0 /\ b.w > 0 /\ c.x = a.x + b.w + 1 /\ b.w + 1 + c.w = a.w
      BY <1>1, <2>2, HalvesAre
    <3>2. QED
      BY <2>1, <3>1 DEF Within, Apart
  <2>3. CASE d # "h"
    <3>1. /\ b.x = a.x /\ b.y = a.y /\ b.w = a.w /\ c.x = a.x /\ c.w = a.w
          /\ \/ c.h = 0 /\ c.y = a.y /\ b.h = a.h
             \/ c.h > 0 /\ b.h > 0 /\ c.y = a.y + b.h + 1 /\ b.h + 1 + c.h = a.h
      BY <1>1, <2>3, HalvesAre
    <3>2. QED
      BY <2>1, <3>1 DEF Within, Apart
  <2>4. QED
    BY <2>2, <2>3
<1>4. QED
  BY <1>2, <1>3 DEF b, c

\* The area of a node, given those of the nodes above it.
AreaStep(t, a, r, p) ==
    IF p = <<>> THEN a
    ELSE LET q == Up(p) IN SplitArea(r[q], t[q].dir, t[q].ratio)[IF p[Len(p)] THEN 2 ELSE 1]

AreasOn(t, a, r, D) == r = [p \in D |-> AreaStep(t, a, r, p)]

\* There are such areas for all nodes of a tree, and Areas has them.
LEMMA AreasExist ==
    ASSUME NEW t, IsShape(DOMAIN t), NEW a
    PROVE  AreasOn(t, a, Areas(t, a), DOMAIN t)
<1> DEFINE D == DOMAIN t
           Near(k) == {p \in D : Len(p) <= k}
           T == {k \in Nat : \E r : AreasOn(t, a, r, Near(k))}
<1>1. D \subseteq Paths /\ \A p \in D : p # <<>> => Up(p) \in D
  BY DEF IsShape
<1>2. ASSUME NEW p \in D
      PROVE  Len(p) \in Nat /\ (p # <<>> => Up(p) \in D /\ Len(Up(p)) = Len(p) - 1 /\ Len(p) > 0)
  BY <1>1, UpDown, PathFacts
<1>3. 0 \in T
  <2> DEFINE r == [p \in Near(0) |-> a]
  <2>1. \A p \in Near(0) : p = <<>>
    BY <1>2
  <2>2. \A p \in Near(0) : AreaStep(t, a, r, p) = a
    BY <2>1 DEF AreaStep
  <2> HIDE DEF Near
  <2>3. AreasOn(t, a, r, Near(0))
    BY <2>2 DEF AreasOn
  <2> HIDE DEF r
  <2>4. QED
    BY <2>3
<1>4. ASSUME NEW k \in T
      PROVE  k + 1 \in T
  <2>1. PICK r : AreasOn(t, a, r, Near(k))
    OBVIOUS
  <2> DEFINE v == [p \in Near(k + 1) |-> AreaStep(t, a, r, p)]
  <2>2. ASSUME NEW p \in Near(k)
        PROVE  r[p] = v[p]
    <3>1. p \in Near(k + 1)
      BY <1>2
    <3>2. r[p] = AreaStep(t, a, r, p)
      BY <2>1 DEF AreasOn
    <3>3. v[p] = AreaStep(t, a, r, p)
      BY <3>1
    <3>4. QED
      BY <3>2, <3>3
  <2>3. ASSUME NEW p \in Near(k + 1)
        PROVE  AreaStep(t, a, r, p) = AreaStep(t, a, v, p)
    <3>1. CASE p = <<>>
      BY <3>1 DEF AreaStep
    <3>2. CASE p # <<>>
      <4>1. Up(p) \in Near(k)
        BY <1>2, <3>2
      <4>2. r[Up(p)] = v[Up(p)]
        BY <2>2, <4>1
      <4> HIDE DEF v
      <4>3. QED
        BY <4>2 DEF AreaStep
    <3>3. QED
      BY <3>1, <3>2
  <2>4. AreasOn(t, a, v, Near(k + 1))
    <3> DEFINE A == [p \in Near(k + 1) |-> AreaStep(t, a, r, p)]
               B == [p \in Near(k + 1) |-> AreaStep(t, a, v, p)]
    <3> HIDE DEF v, Near
    <3>1. A = B
      BY <2>3
    <3>2. v = A
      BY DEF v
    <3>3. QED
      BY <3>1, <3>2 DEF AreasOn
  <2> HIDE DEF v, Near
  <2>5. k + 1 \in Nat
    OBVIOUS
  <2>6. QED
    BY <2>4, <2>5
<1>5. T \subseteq Nat /\ \A k \in T : k + 1 \in T
  BY <1>4
<1> HIDE DEF T
<1>6. \A k \in Nat : k \in T
  BY <1>3, <1>5, Induction
<1>7. PICK B \in Nat : \A q \in D : Len(q) <= B
  BY LengthsBounded DEF IsShape
<1>8. Near(B) = D
  BY <1>7
<1>9. \E r : AreasOn(t, a, r, D)
  BY <1>6, <1>7, <1>8 DEF T
<1>10. Areas(t, a) = CHOOSE r : AreasOn(t, a, r, D)
  BY DEF Areas, AreasOn, AreaStep
<1>11. QED
  BY <1>9, <1>10

\* Every area of a plan is a rectangle that fits, and those of the two nodes
\* below a split are what SplitArea makes of the split's own.
LEMMA AreasAre ==
    ASSUME NEW t, IsPlan(t), NEW a, Areal(a)
    PROVE  LET r == Areas(t, a) IN
           /\ r[<<>>] = a
           /\ \A p \in DOMAIN t : Areal(r[p])
           /\ \A q \in Splits(t), e \in BOOLEAN :
                /\ Append(q, e) \in DOMAIN t /\ t[q] \in SplitRec
                /\ r[Append(q, e)] = SplitArea(r[q], t[q].dir, t[q].ratio)[IF e THEN 2 ELSE 1]
<1> DEFINE r == Areas(t, a)
           D == DOMAIN t
           T == {k \in Nat : \A p \in D : Len(p) = k => Areal(r[p])}
<1>1. /\ D \subseteq Paths /\ <<>> \in D
      /\ \A p \in D : p # <<>> => Up(p) \in D
      /\ \A p \in Paths, e \in BOOLEAN : Append(p, e) \in D => \A c \in BOOLEAN : Append(p, c) \in D
  BY ShapeIs DEF IsPlan, IsShape
<1>2. r = [p \in D |-> AreaStep(t, a, r, p)]
  BY AreasExist DEF IsPlan, AreasOn
<1> HIDE DEF r
<1>3. \A p \in D : r[p] = AreaStep(t, a, r, p)
  BY <1>2
<1>4. r[<<>>] = a
  BY <1>1, <1>3 DEF AreaStep
<1>5. ASSUME NEW q \in Splits(t), NEW e \in BOOLEAN
      PROVE  /\ Append(q, e) \in D /\ t[q] \in SplitRec
             /\ r[Append(q, e)] = SplitArea(r[q], t[q].dir, t[q].ratio)[IF e THEN 2 ELSE 1]
  <2>1. q \in Paths /\ Append(q, FALSE) \in D /\ q \in D
    BY <1>1 DEF Splits, Leaves
  <2>2. Append(q, e) \in D /\ t[q] \in SplitRec
    BY <1>1, <2>1 DEF IsPlan
  <2> DEFINE p == Append(q, e)
  <2>3. p # <<>> /\ Up(p) = q /\ p[Len(p)] = e
    <3>1. Len(p) = Len(q) + 1 /\ p[Len(q) + 1] = e
      BY <2>1, DownUp
    <3>2. QED
      BY <2>1, <3>1, DownUp
  <2> HIDE DEF p
  <2>4. AreaStep(t, a, r, p) = SplitArea(r[q], t[q].dir, t[q].ratio)[IF e THEN 2 ELSE 1]
    BY <2>3 DEF AreaStep
  <2>5. p \in D
    BY <2>2 DEF p
  <2>6. r[p] = SplitArea(r[q], t[q].dir, t[q].ratio)[IF e THEN 2 ELSE 1]
    BY <1>3, <2>4, <2>5
  <2>7. QED
    BY <2>2, <2>6 DEF p
<1>6. ASSUME NEW p \in D, p # <<>>
      PROVE  /\ Up(p) \in Splits(t) /\ p[Len(p)] \in BOOLEAN /\ Append(Up(p), p[Len(p)]) = p
             /\ Len(p) \in Nat /\ Len(Up(p)) = Len(p) - 1
  <2>1. p \in Paths
    BY <1>1
  <2>2. /\ Up(p) \in Paths /\ p[Len(p)] \in BOOLEAN /\ Append(Up(p), p[Len(p)]) = p
        /\ Len(p) \in Nat /\ Len(Up(p)) = Len(p) - 1
    BY <1>6, <2>1, UpDown
  <2>3. Up(p) \in D /\ Append(Up(p), FALSE) \in D
    BY <1>1, <1>6, <2>2
  <2>4. QED
    BY <2>2, <2>3 DEF Splits, Leaves
<1>7. 0 \in T
  <2>1. \A p \in D : Len(p) = 0 => p = <<>>
    BY <1>1, PathFacts
  <2>2. QED
    BY <1>4, <2>1
<1>8. ASSUME NEW k \in T
      PROVE  k + 1 \in T
  <2>1. ASSUME NEW p \in D, Len(p) = k + 1
        PROVE  Areal(r[p])
    <3> DEFINE q == Up(p)
               e == p[Len(p)]
    <3>1. p # <<>>
      BY <2>1, PathFacts
    <3>2. q \in Splits(t) /\ e \in BOOLEAN /\ Append(q, e) = p /\ Len(q) = k
      BY <1>6, <2>1, <3>1
    <3> HIDE DEF q, e
    <3>3. Areal(r[q])
      BY <3>2 DEF Splits
    <3>4. /\ t[q] \in SplitRec
          /\ r[p] = SplitArea(r[q], t[q].dir, t[q].ratio)[IF e THEN 2 ELSE 1]
      BY <1>5, <3>2
    <3>5. t[q].dir \in {"h", "v"} /\ t[q].ratio \in Int
      BY <3>4 DEF SplitRec
    <3>6. Areal(SplitArea(r[q], t[q].dir, t[q].ratio)[1]) /\ Areal(SplitArea(r[q], t[q].dir, t[q].ratio)[2])
      BY <3>3, <3>5, SplitAreaIs
    <3>7. QED
      BY <3>2, <3>4, <3>6
  <2>2. k + 1 \in Nat
    OBVIOUS
  <2>3. QED
    BY <2>1, <2>2
<1>9. T \subseteq Nat /\ \A k \in T : k + 1 \in T
  BY <1>8
<1> HIDE DEF T
<1>10. \A k \in Nat : k \in T
  BY <1>7, <1>9, Induction
<1>11. \A p \in D : Areal(r[p])
  BY <1>1, <1>10, PathFacts DEF T
<1>12. QED
  BY <1>4, <1>5, <1>11 DEF r

\* Every pane of the layout has a rectangle.
LEMMA PaneRectsAre ==
    ASSUME NEW t, IsTree(t), NEW a \in Cells, a.x <= U16Max, a.y <= U16Max
    PROVE  /\ DOMAIN PaneRects(t, a) = Ids(t)
           /\ \A i \in Ids(t) : /\ PaneRects(t, a)[i] = Areas(t, Clipped(a))[PathTo(t, i)]
                                /\ Areal(PaneRects(t, a)[i])
<1>1. Areal(Clipped(a))
  BY ClippedIs
<1> DEFINE r == Areas(t, Clipped(a))
<1>2. \A p \in DOMAIN t : Areal(r[p])
  BY <1>1, AreasAre DEF IsTree
<1>3. PaneRects(t, a) = [i \in Ids(t) |-> r[PathTo(t, i)]]
  BY DEF PaneRects
<1>4. \A i \in Ids(t) : PathTo(t, i) \in DOMAIN t
  BY PathToIs DEF Leaves
<1> HIDE DEF r
<1>5. QED
  BY <1>2, <1>3, <1>4 DEF r

\* Moving the focus in a direction finds a pane of the layout, or none.
LEMMA NavigateIs ==
    ASSUME NEW t, IsTree(t), NEW from, NEW nav \in Arrows, NEW a \in Cells, a.x <= U16Max, a.y <= U16Max
    PROVE  Navigate(t, from, nav, a) \in Ids(t) \cup {None}
<1> DEFINE r == PaneRects(t, a)
           near == {i \in DOMAIN r \ {from} : IsAdjacent(r[from], r[i], nav)}
           Far(i) == NavDistance(r[from], r[i], nav)
           closest == {i \in near : \A j \in near : Far(i) <= Far(j)}
<1>1. DOMAIN r = Ids(t) /\ \A i \in Ids(t) : Areal(r[i])
  BY PaneRectsAre
<1>2. Ids(t) \subseteq Nat
  BY PathToIs
<1>3. Navigate(t, from, nav, a) = IF from \notin DOMAIN r \/ near = {} THEN None ELSE SetX!Min(closest)
  BY DEF Navigate, Nearest
<1> HIDE DEF r
<1>4. ASSUME from \in DOMAIN r, near # {}
      PROVE  SetX!Min(closest) \in Ids(t)
  <2>1. near \subseteq Ids(t)
    BY <1>1
  <2>2. ASSUME NEW i \in Ids(t)
        PROVE  Far(i) \in Nat
    <3> DEFINE b == r[from]
               c == r[i]
    <3>1. /\ b.x \in Nat /\ b.y \in Nat /\ b.w \in Nat /\ b.h \in Nat
          /\ c.x \in Nat /\ c.y \in Nat /\ c.w \in Nat /\ c.h \in Nat
      BY <1>1, <1>4 DEF Areal, Cells
    <3> HIDE DEF b, c
    <3>2. NavDistance(b, c, nav) \in Nat
      BY <3>1 DEF NavDistance, Arrows, Most
    <3>3. QED
      BY <3>2 DEF b, c
  <2> HIDE DEF Far, near
  <2> DEFINE S == {Far(i) : i \in near}
  <2>3. S \in SUBSET Nat /\ S # {}
    BY <1>4, <2>1, <2>2
  <2>4. PICK x \in S : \A y \in S : x <= y
    BY <2>3, LeastNumber
  <2>5. PICK i \in near : Far(i) = x
    BY <2>4
  <2>6. closest # {} /\ closest \in SUBSET Nat /\ closest \subseteq Ids(t)
    BY <1>2, <2>1, <2>4, <2>5
  <2> HIDE DEF closest
  <2>7. PICK m \in closest : \A y \in closest : m <= y
    BY <2>6, LeastNumber
  <2>8. SetX!Min(closest) \in closest
    BY <2>7 DEF SetX!Min
  <2>9. QED
    BY <2>6, <2>8
<1> HIDE DEF near, closest
<1>5. QED
  BY <1>3, <1>4

\* What lies in areas that are apart is apart.
LEMMA ApartBelow ==
    ASSUME NEW b, NEW c, NEW d, NEW e, Areal(b), Areal(c), Areal(d), Areal(e),
           Apart(b, c), Within(d, b), Within(e, c)
    PROVE  Apart(d, e)
<1>1. /\ b.x \in Nat /\ b.y \in Nat /\ b.w \in Nat /\ b.h \in Nat
      /\ c.x \in Nat /\ c.y \in Nat /\ c.w \in Nat /\ c.h \in Nat
      /\ d.x \in Nat /\ d.y \in Nat /\ d.w \in Nat /\ d.h \in Nat
      /\ e.x \in Nat /\ e.y \in Nat /\ e.w \in Nat /\ e.h \in Nat
  BY DEF Areal, Cells
<1>2. QED
  BY <1>1 DEF Apart, Within

\* The area of a node holds those of all nodes below it.
LEMMA AreasNest ==
    ASSUME NEW t, IsPlan(t), NEW a, Areal(a), NEW p \in DOMAIN t
    PROVE  \A q \in DOMAIN t : Pre(p, q) => Within(Areas(t, a)[q], Areas(t, a)[p])
<1> DEFINE r == Areas(t, a)
           D == DOMAIN t
           T == {k \in Nat : \A q \in D : Len(q) = k /\ Pre(p, q) => Within(r[q], r[p])}
<1>1. /\ D \subseteq Paths /\ IsShape(D)
      /\ \A q \in D : q # <<>> => Up(q) \in D
      /\ \A q \in D : Areal(r[q])
      /\ \A q \in Splits(t), e \in BOOLEAN :
           /\ t[q] \in SplitRec
           /\ r[Append(q, e)] = SplitArea(r[q], t[q].dir, t[q].ratio)[IF e THEN 2 ELSE 1]
  <2>1. D \subseteq Paths /\ IsShape(D) /\ \A q \in D : q # <<>> => Up(q) \in D
    BY DEF IsPlan, IsShape
  <2>2. \A q \in D : Areal(r[q])
    BY AreasAre
  <2>3. ASSUME NEW q \in Splits(t), NEW e \in BOOLEAN
        PROVE  /\ t[q] \in SplitRec
               /\ r[Append(q, e)] = SplitArea(r[q], t[q].dir, t[q].ratio)[IF e THEN 2 ELSE 1]
    BY AreasAre DEF IsPlan
  <2>4. QED
    BY <2>1, <2>2, <2>3
<1> HIDE DEF r
<1>2. Within(r[p], r[p])
  <2>1. Areal(r[p])
    BY <1>1
  <2>2. r[p].x \in Nat /\ r[p].y \in Nat /\ r[p].w \in Nat /\ r[p].h \in Nat
    BY <2>1 DEF Areal, Cells
  <2>3. QED
    BY <2>2 DEF Within
<1>3. ASSUME NEW q \in D, Pre(p, q), q # p
      PROVE  /\ Up(q) \in Splits(t) /\ Pre(p, Up(q)) /\ Len(q) \in Nat \ {0} /\ Len(Up(q)) = Len(q) - 1
             /\ q[Len(q)] \in BOOLEAN /\ Append(Up(q), q[Len(q)]) = q
  <2>1. q \in Paths /\ p \in Paths
    BY <1>1
  <2>2. q # <<>>
    BY <1>3, <2>1, PathFacts DEF Pre
  <2>3. /\ Up(q) \in Paths /\ Len(q) \in Nat \ {0} /\ Len(Up(q)) = Len(q) - 1
        /\ q[Len(q)] \in BOOLEAN /\ Append(Up(q), q[Len(q)]) = q
    BY <2>1, <2>2, UpDown
  <2>4. Pre(p, Up(q))
    <3> DEFINE u == Up(q)
               e == q[Len(q)]
    <3>1. u \in Paths /\ e \in BOOLEAN /\ Append(u, e) = q
      BY <2>3
    <3> HIDE DEF u, e
    <3>2. Pre(p, Append(u, e)) /\ p # Append(u, e)
      BY <1>3, <3>1
    <3>3. Pre(p, u)
      BY <2>1, <3>1, <3>2, PreDown
    <3>4. QED
      BY <3>3 DEF u
  <2>5. Up(q) \in D /\ Append(Up(q), FALSE) \in D
    BY <1>1, <2>2, <2>3, ShapeIs, ZenonT(40)
  <2>6. QED
    BY <2>3, <2>4, <2>5 DEF Splits, Leaves
<1>4. ASSUME NEW q \in D, Pre(p, q), q # p, Within(r[Up(q)], r[p])
      PROVE  Within(r[q], r[p])
  <2> DEFINE u == Up(q)
             e == q[Len(q)]
  <2>1. u \in Splits(t) /\ e \in BOOLEAN /\ Append(u, e) = q
    BY <1>3, <1>4
  <2>2. Within(r[u], r[p])
    BY <1>4
  <2> HIDE DEF u, e
  <2>3. t[u] \in SplitRec /\ r[q] = SplitArea(r[u], t[u].dir, t[u].ratio)[IF e THEN 2 ELSE 1] /\ u \in D
    BY <1>1, <2>1 DEF Splits
  <2>4. t[u].dir \in {"h", "v"} /\ t[u].ratio \in Int
    BY <2>3 DEF SplitRec
  <2>5. Areal(r[u]) /\ Areal(r[p]) /\ Areal(r[q])
    BY <1>1, <2>3
  <2>6. Within(SplitArea(r[u], t[u].dir, t[u].ratio)[1], r[u]) /\ Within(SplitArea(r[u], t[u].dir, t[u].ratio)[2], r[u])
    BY <2>4, <2>5, SplitAreaIs
  <2>7. Within(r[q], r[u])
    BY <2>1, <2>3, <2>6
  <2>8. /\ r[u].x \in Nat /\ r[u].y \in Nat /\ r[u].w \in Nat /\ r[u].h \in Nat
        /\ r[p].x \in Nat /\ r[p].y \in Nat /\ r[p].w \in Nat /\ r[p].h \in Nat
        /\ r[q].x \in Nat /\ r[q].y \in Nat /\ r[q].w \in Nat /\ r[q].h \in Nat
    BY <2>5 DEF Areal, Cells
  <2>9. QED
    BY <2>2, <2>7, <2>8 DEF Within
<1>5. 0 \in T
  <2>1. ASSUME NEW q \in D, Len(q) = 0, Pre(p, q)
        PROVE  q = p
    BY <1>3, <2>1
  <2>2. QED
    BY <1>2, <2>1
<1>6. ASSUME NEW k \in T
      PROVE  k + 1 \in T
  <2>1. ASSUME NEW q \in D, Len(q) = k + 1, Pre(p, q), q # p
        PROVE  Within(r[q], r[p])
    <3>1. Up(q) \in D /\ Pre(p, Up(q)) /\ Len(Up(q)) = k
      BY <1>3, <2>1 DEF Splits
    <3>2. Within(r[Up(q)], r[p])
      BY <3>1
    <3>3. QED
      BY <1>4, <2>1, <3>2
  <2>2. k + 1 \in Nat
    OBVIOUS
  <2>3. QED
    BY <1>2, <2>1, <2>2
<1>7. T \subseteq Nat /\ \A k \in T : k + 1 \in T
  BY <1>6
<1> HIDE DEF T
<1>8. \A k \in Nat : k \in T
  BY <1>5, <1>7, Induction
<1>9. \A q \in D : Pre(p, q) => Within(r[q], r[p])
  BY <1>1, <1>8, PathFacts DEF T
<1>10. QED
  BY <1>9 DEF r

\* Where the paths of two leaves part, their areas do.
LEMMA BeforeApart ==
    ASSUME NEW t, IsPlan(t), NEW a, Areal(a), NEW p \in DOMAIN t, NEW q \in DOMAIN t, Before(p, q)
    PROVE  Apart(Areas(t, a)[p], Areas(t, a)[q])
<1> DEFINE r == Areas(t, a)
           D == DOMAIN t
<1>1. /\ D \subseteq Paths /\ IsShape(D)
      /\ \A l \in D : Areal(r[l])
      /\ \A l \in Splits(t), e \in BOOLEAN :
           /\ t[l] \in SplitRec
           /\ r[Append(l, e)] = SplitArea(r[l], t[l].dir, t[l].ratio)[IF e THEN 2 ELSE 1]
  <2>1. D \subseteq Paths /\ IsShape(D)
    BY DEF IsPlan, IsShape
  <2>2. \A l \in D : Areal(r[l])
    BY AreasAre
  <2>3. ASSUME NEW l \in Splits(t), NEW e \in BOOLEAN
        PROVE  /\ t[l] \in SplitRec
               /\ r[Append(l, e)] = SplitArea(r[l], t[l].dir, t[l].ratio)[IF e THEN 2 ELSE 1]
    BY AreasAre DEF IsPlan
  <2>4. QED
    BY <2>1, <2>2, <2>3
<1>2. \A l \in D, m \in D : Pre(l, m) => Within(r[m], r[l])
  BY AreasNest
<1> HIDE DEF r
<1>3. PICK k \in DOMAIN p \cap DOMAIN q : ~p[k] /\ q[k] /\ \A j \in 1 .. k - 1 : p[j] = q[j]
  BY DEF Before
<1>4. /\ p \in Paths /\ q \in Paths /\ k \in 1 .. Len(p) /\ k \in 1 .. Len(q)
      /\ Len(p) \in Nat /\ Len(q) \in Nat /\ p[k] = FALSE /\ q[k] = TRUE
  <2>1. p \in Paths /\ q \in Paths
    BY <1>1
  <2>2. k \in 1 .. Len(p) /\ k \in 1 .. Len(q) /\ Len(p) \in Nat /\ Len(q) \in Nat
    BY <1>3, <2>1, PathFacts
  <2>3. p[k] \in BOOLEAN /\ q[k] \in BOOLEAN
    BY <2>1, <2>2, PathFacts
  <2>4. QED
    BY <1>3, <2>1, <2>2, <2>3
<1> DEFINE c == SubSeq(p, 1, k - 1)
<1>5. c \in Paths /\ Len(c) = k - 1 /\ \A j \in 1 .. k - 1 : c[j] = p[j]
  <2>1. \A j \in 1 .. k - 1 : p[j] \in BOOLEAN
    BY <1>4, PathFacts, SMTT(30)
  <2>2. QED
    BY <1>4, <2>1, SubSeqProperties DEF Paths
<1> HIDE DEF c
<1>6. Pre(Append(c, FALSE), p) /\ Pre(Append(c, TRUE), q)
  <2>1. \A e \in BOOLEAN : /\ Append(c, e) \in Paths /\ Len(Append(c, e)) = k /\ Append(c, e)[k] = e
                           /\ \A j \in 1 .. k - 1 : Append(c, e)[j] = c[j]
    BY <1>4, <1>5, DownUp
  <2>2. \A j \in 1 .. k : j = k \/ j \in 1 .. k - 1
    BY <1>4
  <2>3. \A j \in 1 .. k : Append(c, FALSE)[j] = p[j] /\ Append(c, TRUE)[j] = q[j]
    BY <1>3, <1>4, <1>5, <2>1, <2>2
  <2>4. Len(Append(c, FALSE)) = k /\ Len(Append(c, TRUE)) = k /\ k <= Len(p) /\ k <= Len(q)
    <3>1. Len(Append(c, FALSE)) = k
      BY <2>1
    <3>2. Len(Append(c, TRUE)) = k
      BY <2>1
    <3>3. k <= Len(p) /\ k <= Len(q)
      BY <1>4
    <3>4. QED
      BY <3>1, <3>2, <3>3
  <2>5. QED
    BY <2>3, <2>4 DEF Pre
<1>7. Append(c, FALSE) \in D /\ Append(c, TRUE) \in D
  BY <1>1, <1>4, <1>5, <1>6, DownUp, ShapeClosed
<1>8. c \in Splits(t)
  <2>1. c \in D
    BY <1>1, <1>5, <1>7, ShapeIs
  <2>2. QED
    BY <1>7, <2>1 DEF Splits, Leaves
<1> DEFINE s == SplitArea(r[c], t[c].dir, t[c].ratio)
<1>9. r[Append(c, FALSE)] = s[1] /\ r[Append(c, TRUE)] = s[2]
  BY <1>1, <1>8
<1>10. Apart(s[1], s[2])
  <2>1. t[c].dir \in {"h", "v"} /\ t[c].ratio \in Int
    BY <1>1, <1>8 DEF SplitRec
  <2>2. Areal(r[c])
    BY <1>1, <1>8 DEF Splits
  <2>3. QED
    BY <2>1, <2>2, SplitAreaIs
<1> HIDE DEF s
<1>11. Apart(r[p], r[q])
  <2>1. Areal(s[1]) /\ Areal(s[2]) /\ Areal(r[p]) /\ Areal(r[q])
    BY <1>1, <1>7, <1>9
  <2>2. Within(r[p], s[1]) /\ Within(r[q], s[2])
    BY <1>2, <1>6, <1>7, <1>9
  <2>3. QED
    BY <1>10, <2>1, <2>2, ApartBelow
<1>12. QED
  BY <1>11 DEF r

\* The panes of a layout lie in its area and do not overlap.
LEMMA PanesApart ==
    ASSUME NEW t, IsTree(t), NEW a \in Cells, a.x <= U16Max, a.y <= U16Max
    PROVE  LET r == PaneRects(t, a) IN
           /\ \A i \in Ids(t) : Within(r[i], Clipped(a))
           /\ \A i, j \in Ids(t) : i # j => Apart(r[i], r[j])
<1> DEFINE b == Clipped(a)
           r == PaneRects(t, a)
<1>1. Areal(b) /\ IsPlan(t) /\ IsShape(DOMAIN t)
  BY ClippedIs DEF IsTree, IsPlan
<1>2. \A i \in Ids(t) : r[i] = Areas(t, b)[PathTo(t, i)]
  BY PaneRectsAre
<1>3. \A i \in Ids(t) : PathTo(t, i) \in Leaves(t) /\ PathTo(t, i) \in DOMAIN t /\ t[PathTo(t, i)].id = i
  BY PathToIs DEF Leaves
<1> HIDE DEF b, r
<1>4. ASSUME NEW i \in Ids(t)
      PROVE  Within(r[i], b)
  <2>1. <<>> \in DOMAIN t /\ Pre(<<>>, PathTo(t, i)) /\ Areas(t, b)[<<>>] = b
    BY <1>1, <1>3, AreasAre, PathFacts DEF IsShape, Pre
  <2>2. Within(Areas(t, b)[PathTo(t, i)], Areas(t, b)[<<>>])
    BY <1>1, <1>3, <2>1, AreasNest
  <2>3. QED
    BY <1>2, <2>1, <2>2
<1>5. ASSUME NEW i \in Ids(t), NEW j \in Ids(t), i # j
      PROVE  Apart(r[i], r[j])
  <2> DEFINE p == PathTo(t, i)
             q == PathTo(t, j)
  <2>1. p \in Leaves(t) /\ q \in Leaves(t) /\ p # q /\ p \in DOMAIN t /\ q \in DOMAIN t
    BY <1>3, <1>5
  <2>2. r[i] = Areas(t, b)[p] /\ r[j] = Areas(t, b)[q]
    BY <1>2
  <2> HIDE DEF p, q
  <2>3. Before(p, q) \/ Before(q, p)
    BY <1>1, <2>1, BeforeTotal
  <2>4. Apart(r[i], r[j]) \/ Apart(r[j], r[i])
    BY <1>1, <2>1, <2>2, <2>3, BeforeApart
  <2>5. Apart(r[i], r[j]) <=> Apart(r[j], r[i])
    BY DEF Apart
  <2>6. QED
    BY <2>4, <2>5
<1>6. QED
  BY <1>4, <1>5 DEF b, r

-----------------------------------------------------------------------------
(* Tabs.                                                                   *)

\* A sequence without one element.
LEMMA RemoveAtIs ==
    ASSUME NEW s, NEW k, IsSeq(s), k \in 1 .. Len(s)
    PROVE  LET u == SeqX!RemoveAt(s, k) IN
           /\ IsSeq(u) /\ Len(u) = Len(s) - 1
           /\ \A j \in 1 .. Len(u) : \E i \in 1 .. Len(s) : u[j] = s[i]
<1> DEFINE S == {s[i] : i \in DOMAIN s}
           a == SubSeq(s, 1, k - 1)
           b == SubSeq(s, k + 1, Len(s))
           u == a \o b
<1>1. s \in Seq(S)
  BY DEF IsSeq
<1> HIDE DEF S
<1>2. Len(s) \in Nat /\ DOMAIN s = 1 .. Len(s) /\ \A i \in 1 .. Len(s) : s[i] \in S
  BY <1>1, LenProperties, ElementOfSeq
<1>3. a \in Seq(S) /\ Len(a) = k - 1
  <2>1. \A i \in 1 .. k - 1 : s[i] \in S
    BY <1>2
  <2>2. QED
    BY <1>1, <1>2, <2>1, SubSeqProperties
<1>4. b \in Seq(S) /\ Len(b) = Len(s) - k
  <2>1. \A i \in k + 1 .. Len(s) : s[i] \in S
    BY <1>2
  <2>2. Len(b) = IF k + 1 <= Len(s) THEN Len(s) - (k + 1) + 1 ELSE 0
    BY <1>1, <1>2, SubSeqProperties
  <2>3. b \in Seq(S)
    BY <1>1, <1>2, <2>1, SubSeqProperties
  <2> HIDE DEF b
  <2>4. Len(b) = Len(s) - k
    <3> DEFINE n == Len(s)
    <3>1. n \in Nat /\ k \in 1 .. n
      BY <1>2
    <3>2. Len(b) = IF k + 1 <= n THEN n - (k + 1) + 1 ELSE 0
      BY <2>2
    <3> HIDE DEF n
    <3>3. Len(b) = n - k
      BY <3>1, <3>2
    <3>4. QED
      BY <3>3 DEF n
  <2>5. QED
    BY <2>3, <2>4
<1> HIDE DEF a, b
<1>5. u \in Seq(S) /\ Len(u) = Len(s) - 1
  <2>1. u \in Seq(S) /\ Len(u) = Len(a) + Len(b)
    BY <1>3, <1>4, ConcatProperties
  <2>2. QED
    BY <1>2, <1>3, <1>4, <2>1
<1> HIDE DEF u
<1>6. \A j \in 1 .. Len(u) : u[j] \in S
  BY <1>5, ElementOfSeq
<1>7. \A j \in 1 .. Len(u) : \E i \in 1 .. Len(s) : u[j] = s[i]
  BY <1>2, <1>6 DEF S
<1>8. IsSeq(u)
  <2> DEFINE T == {u[i] : i \in DOMAIN u}
             n == Len(u)
  <2>1. DOMAIN u = 1 .. n /\ n \in Nat /\ u \in [DOMAIN u -> S]
    BY <1>5, LenProperties
  <2>2. u \in [1 .. n -> T]
    BY <2>1
  <2> HIDE DEF T, n
  <2>3. u \in Seq(T)
    BY <2>1, <2>2, FunIsSeq
  <2>4. QED
    BY <2>3 DEF IsSeq, T
<1>9. SeqX!RemoveAt(s, k) = u
  BY DEF SeqX!RemoveAt, u, a, b
<1>10. QED
  BY <1>5, <1>7, <1>8, <1>9

\* What is needed of a content area.
Box(a) == a \in Cells /\ a.x <= U16Max /\ a.y <= U16Max

\* The content area of any terminal is one.
LEMMA ContentIs ==
    ASSUME NEW l, NEW trm \in Nat \X Nat, NEW n
    PROVE  Box(Content(l, trm, n))
<1> DEFINE bar == IF l.style = "none" /\ l.tabbar /\ n > 1 THEN 1 ELSE 0
           low == IF l.status THEN 1 ELSE 0
           side == IF l.style = "none" THEN 0 ELSE 1
           rows == Most(Most(trm[2] - bar, 0) - low, 0)
           x == Least(side, trm[1])
           y == Least(1, rows)
           w == Most(trm[1] - 2 * side, 0)
           h == Most(rows - 1 - side, 0)
<1>1. trm[1] \in Nat /\ trm[2] \in Nat /\ bar \in {0, 1} /\ low \in {0, 1} /\ side \in {0, 1}
  OBVIOUS
<1>2. Content(l, trm, n) = Rect(x, y, w, h)
  BY DEF Content
<1> HIDE DEF bar, low, side
<1>3. rows \in Nat
  BY <1>1 DEF Most
<1> HIDE DEF rows
<1>4. x \in Nat /\ y \in Nat /\ w \in Nat /\ h \in Nat /\ x <= U16Max /\ y <= U16Max
  BY <1>1, <1>3 DEF Least, Most, U16Max
<1> HIDE DEF x, y, w, h
<1>5. QED
  BY <1>2, <1>4, RectIs DEF Box

\* A tab: a tree, panes and marks that all have ids below the next one to be
\* given.  Unless it has gone astray its focus is in the layout, and its panes
\* are those of the layout or its last one was closed.
Fields == {"tree", "next", "size", "dead", "active", "zoom", "unfit", "stray"}
Agrees(t) ==
    /\ t.active \in Ids(t.tree)
    /\ DOMAIN t.size = Ids(t.tree) \/ (DOMAIN t.size = {} /\ IsLeaf(t.tree))
GoodTab(t) ==
    /\ DOMAIN t = Fields /\ IsTree(t.tree)
    /\ t.next \in Nat /\ t.active \in 0 .. t.next - 1
    /\ t.zoom = None \/ t.zoom \in 0 .. t.next - 1
    /\ \A i \in DOMAIN t.size \cup Ids(t.tree) : i \in 0 .. t.next - 1
    /\ t.unfit \in BOOLEAN /\ t.stray \in BOOLEAN
    /\ t.stray \/ Agrees(t)

\* Panes have the sizes of their rectangles, unless one is zoomed.
AllFit(t, area) ==
    \A i \in DOMAIN t.size \cap Ids(t.tree) : t.size[i] = DimsOf(PaneRects(t.tree, area)[i])
Fits(t, area) == t.zoom = None => t.unfit \/ AllFit(t, area)

\* An edit leaves a good tab, whose panes fit if they did.
Edits(u, t, area) == GoodTab(u) /\ (Fits(t, area) => Fits(u, area))

\* Resizing changes sizes only, and all panes fit.
LEMMA ResizeAllIs ==
    ASSUME NEW t, DOMAIN t = Fields, IsTree(t.tree), NEW area, Box(area)
    PROVE  LET u == ResizeAll(t, area) IN
           /\ DOMAIN u = Fields /\ u.tree = t.tree /\ u.next = t.next /\ DOMAIN u.size = DOMAIN t.size
           /\ u.dead = t.dead /\ u.active = t.active /\ u.zoom = t.zoom /\ u.stray = t.stray
           /\ u.unfit = FALSE /\ AllFit(u, area)
<1> DEFINE r == PaneRects(t.tree, area)
           S == [i \in DOMAIN t.size |-> IF i \in DOMAIN r THEN DimsOf(r[i]) ELSE t.size[i]]
           u == ResizeAll(t, area)
<1>1. DOMAIN r = Ids(t.tree)
  BY PaneRectsAre DEF Box
<1>2. u = [t EXCEPT !.size = S, !.unfit = FALSE]
  BY DEF ResizeAll
<1> HIDE DEF u
<1>3. DOMAIN S = DOMAIN t.size /\ \A i \in DOMAIN t.size \cap Ids(t.tree) : S[i] = DimsOf(r[i])
  BY <1>1
<1> HIDE DEF S
<1>4. /\ DOMAIN u = Fields /\ u.tree = t.tree /\ u.next = t.next /\ u.size = S
      /\ u.dead = t.dead /\ u.active = t.active /\ u.zoom = t.zoom /\ u.stray = t.stray
      /\ u.unfit = FALSE
  BY <1>2 DEF Fields
<1>5. AllFit(u, area)
  BY <1>3, <1>4 DEF AllFit
<1>6. QED
  BY <1>3, <1>4, <1>5 DEF u

\* So a good tab is still good, and fits.
LEMMA ResizeAllGood ==
    ASSUME NEW t, GoodTab(t), NEW area, Box(area)
    PROVE  GoodTab(ResizeAll(t, area)) /\ Fits(ResizeAll(t, area), area)
<1> DEFINE u == ResizeAll(t, area)
<1>1. /\ DOMAIN u = Fields /\ u.tree = t.tree /\ u.next = t.next /\ DOMAIN u.size = DOMAIN t.size
      /\ u.active = t.active /\ u.zoom = t.zoom /\ u.stray = t.stray
      /\ u.unfit = FALSE /\ AllFit(u, area)
  BY ResizeAllIs DEF GoodTab
<1> HIDE DEF u
<1>2. GoodTab(u) /\ Fits(u, area)
  BY <1>1 DEF GoodTab, Agrees, Fits
<1>3. QED
  BY <1>2 DEF u

\* Giving a zoomed pane the whole area changes its size only.
LEMMA ResizeZoomedIs ==
    ASSUME NEW t, DOMAIN t = Fields, NEW i, NEW area
    PROVE  LET u == ResizeZoomed(t, i, area) IN
           /\ DOMAIN u = Fields /\ u.tree = t.tree /\ u.next = t.next /\ DOMAIN u.size = DOMAIN t.size
           /\ u.dead = t.dead /\ u.active = t.active /\ u.zoom = t.zoom /\ u.stray = t.stray
           /\ u.unfit = t.unfit
           /\ i \in DOMAIN t.size => u.size[i] = DimsOf(area)
           /\ i \notin DOMAIN t.size => u = t
<1>1. CASE i \in DOMAIN t.size
  <2> DEFINE S == [t.size EXCEPT ![i] = DimsOf(area)]
             u == [t EXCEPT !.size = S]
  <2>1. ResizeZoomed(t, i, area) = u
    BY <1>1 DEF ResizeZoomed
  <2>2. DOMAIN S = DOMAIN t.size /\ S[i] = DimsOf(area)
    BY <1>1
  <2> HIDE DEF S
  <2>3. /\ DOMAIN u = Fields /\ u.tree = t.tree /\ u.next = t.next /\ u.size = S
        /\ u.dead = t.dead /\ u.active = t.active /\ u.zoom = t.zoom /\ u.stray = t.stray
        /\ u.unfit = t.unfit
    BY DEF Fields
  <2> HIDE DEF u
  <2>4. QED
    BY <1>1, <2>1, <2>2, <2>3
<1>2. CASE i \notin DOMAIN t.size
  BY <1>2 DEF ResizeZoomed
<1>3. QED
  BY <1>1, <1>2

\* A good tab is still good; while it is zoomed nothing has to fit.
LEMMA ResizeZoomedGood ==
    ASSUME NEW t, GoodTab(t), NEW i, NEW area
    PROVE  /\ GoodTab(ResizeZoomed(t, i, area))
           /\ t.zoom # None \/ i \notin DOMAIN t.size => Edits(ResizeZoomed(t, i, area), t, area)
<1> DEFINE u == ResizeZoomed(t, i, area)
<1>1. /\ DOMAIN u = Fields /\ u.tree = t.tree /\ u.next = t.next /\ DOMAIN u.size = DOMAIN t.size
      /\ u.active = t.active /\ u.zoom = t.zoom /\ u.stray = t.stray /\ u.unfit = t.unfit
      /\ i \notin DOMAIN t.size => u = t
  BY ResizeZoomedIs DEF GoodTab
<1> HIDE DEF u
<1>2. GoodTab(u)
  BY <1>1 DEF GoodTab, Agrees
<1>3. t.zoom # None \/ i \notin DOMAIN t.size => (Fits(t, area) => Fits(u, area))
  BY <1>1 DEF Fits
<1>4. QED
  BY <1>2, <1>3 DEF Edits, u

\* A new arrangement of the same panes, and the resize after it.
LEMMA RearrangedGood ==
    ASSUME NEW t, GoodTab(t), NEW new, IsTree(new), Ids(new) = Ids(t.tree), IsLeaf(new) <=> IsLeaf(t.tree),
           NEW area, Box(area)
    PROVE  Edits(ResizeAll([t EXCEPT !.tree = new], area), t, area)
<1> DEFINE u == [t EXCEPT !.tree = new]
<1>1. /\ DOMAIN u = Fields /\ u.tree = new /\ u.next = t.next /\ u.size = t.size
      /\ u.active = t.active /\ u.zoom = t.zoom /\ u.stray = t.stray /\ u.unfit = t.unfit
  BY DEF GoodTab, Fields
<1> HIDE DEF u
<1>2. GoodTab(u)
  BY <1>1 DEF GoodTab, Agrees
<1>3. QED
  BY <1>2, ResizeAllGood DEF Edits, u

\* An untouched tab.
LEMMA SameGood ==
    ASSUME NEW t, GoodTab(t), NEW area
    PROVE  Edits(t, t, area)
BY DEF Edits

\* Equalize, the resize keys and layout specs.
LEMMA EqualizedGood ==
    ASSUME NEW t, GoodTab(t), NEW area, Box(area)
    PROVE  Edits(Equalized(t, area), t, area)
BY EqualizeIs, RearrangedGood DEF Equalized, GoodTab

\* A resize key moves one separator, or nothing.
LEMMA ResizedGood ==
    ASSUME NEW t, GoodTab(t), NEW nav, NEW area, Box(area)
    PROVE  /\ Edits(Resized(t, nav, area), t, area)
           /\ Resized(t, nav, area).active = t.active
<1> DEFINE new == ResizePane(t.tree, t.active, nav, Delta)
           e == [t EXCEPT !.tree = new]
<1>1. CASE Crumbs(t.tree, t.active, nav) = {}
  BY <1>1 DEF Resized, Edits
<1>2. CASE Crumbs(t.tree, t.active, nav) # {}
  <2>1. Delta \in Int
    BY DEF Delta, Scale
  <2>2. IsTree(t.tree)
    BY DEF GoodTab
  <2>3. IsTree(new) /\ Ids(new) = Ids(t.tree) /\ (IsLeaf(new) <=> IsLeaf(t.tree))
    BY <2>1, <2>2, ResizePaneIs
  <2> HIDE DEF new
  <2>4. Edits(ResizeAll(e, area), t, area)
    BY <2>3, RearrangedGood
  <2>5. DOMAIN e = Fields /\ e.tree = new /\ e.active = t.active
    BY DEF GoodTab, Fields
  <2> HIDE DEF e
  <2>6. ResizeAll(e, area).active = t.active
    BY <2>3, <2>5, ResizeAllIs
  <2>7. Resized(t, nav, area) = ResizeAll(e, area)
    BY <1>2 DEF Resized, e, new
  <2>8. QED
    BY <2>4, <2>6, <2>7
<1>3. QED
  BY <1>1, <1>2

\* A spec that a command selects.
LEMMA ReconfiguredGood ==
    ASSUME NEW t, GoodTab(t), NEW s \in SpecSet, NEW area, Box(area)
    PROVE  Edits(ResizeAll([t EXCEPT !.tree = Reconfigure(t.tree, s)], area), t, area)
<1> DEFINE new == Reconfigure(t.tree, s)
<1>1. IsTree(t.tree)
  BY DEF GoodTab
<1>2. IsTree(new) /\ Ids(new) = Ids(t.tree) /\ (IsLeaf(new) <=> IsLeaf(t.tree))
  BY <1>1, ReconfigureIs
<1> HIDE DEF new
<1>3. Edits(ResizeAll([t EXCEPT !.tree = new], area), t, area)
  BY <1>2, RearrangedGood
<1>4. QED
  BY <1>3 DEF new

\* The focus moves to a pane of the layout, or to a running one.
LEMMA FocusGood ==
    ASSUME NEW t, GoodTab(t), NEW i, i \in Ids(t.tree) \cup DOMAIN t.size, NEW area
    PROVE  Edits(Focus(t, i), t, area) /\ Focus(t, i).active = i
<1> DEFINE u == Focus(t, i)
<1>1. /\ DOMAIN u = Fields /\ u.tree = t.tree /\ u.next = t.next /\ u.size = t.size
      /\ u.active = i /\ u.zoom = t.zoom /\ u.stray = t.stray /\ u.unfit = t.unfit
  BY DEF GoodTab, Fields, Focus
<1> HIDE DEF u
<1>2. ~t.stray => i \in Ids(t.tree)
  BY DEF GoodTab, Agrees
<1>3. i \in 0 .. t.next - 1
  BY DEF GoodTab
<1>4. GoodTab(u)
  BY <1>1, <1>2, <1>3 DEF GoodTab, Agrees
<1>5. Fits(t, area) => Fits(u, area)
  BY <1>1 DEF Fits, AllFit
<1>6. QED
  BY <1>1, <1>4, <1>5 DEF Edits, u

\* The focus moves in a direction.
LEMMA NavigatedGood ==
    ASSUME NEW t, GoodTab(t), NEW nav \in Arrows, NEW area, Box(area)
    PROVE  Edits(Navigated(t, nav, area), t, area)
<1> DEFINE n == Navigate(t.tree, t.active, nav, area)
<1>1. n \in Ids(t.tree) \cup {None}
  BY NavigateIs DEF GoodTab, Box
<1>2. Navigated(t, nav, area) = IF n # None THEN Focus(t, n) ELSE t
  BY DEF Navigated
<1> HIDE DEF n
<1>3. CASE n # None
  BY <1>1, <1>2, <1>3, FocusGood
<1>4. CASE n = None
  BY <1>2, <1>4, SameGood
<1>5. QED
  BY <1>3, <1>4

\* Two panes change places; nothing is resized, and the tab says so.
LEMMA SwapGood ==
    ASSUME NEW t, GoodTab(t), NEW other \in Ids(t.tree), NEW area
    PROVE  Edits(SwapWith(t, other), t, area)
<1>1. CASE other = t.active
  BY <1>1, SameGood DEF SwapWith
<1>2. CASE other # t.active
  <2> DEFINE new == SwapPanes(t.tree, t.active, other)
             u == [t EXCEPT !.tree = new, !.unfit = TRUE]
  <2>1. IsTree(t.tree) /\ t.active \in Nat /\ other \in Nat
    BY DEF GoodTab
  <2>2. /\ IsTree(new) /\ (IsLeaf(new) <=> IsLeaf(t.tree)) /\ Ids(new) \subseteq Ids(t.tree) \cup {t.active, other}
        /\ t.active \in Ids(t.tree) => Ids(new) = Ids(t.tree)
    BY <1>2, <2>1, SwapIs
  <2> HIDE DEF new
  <2>3. /\ DOMAIN u = Fields /\ u.tree = new /\ u.next = t.next /\ u.size = t.size
        /\ u.active = t.active /\ u.zoom = t.zoom /\ u.stray = t.stray /\ u.unfit = TRUE
    BY DEF GoodTab, Fields
  <2>4. SwapWith(t, other) = u
    BY <1>2 DEF SwapWith, new
  <2> HIDE DEF u
  <2>5. \A i \in Ids(new) : i \in 0 .. t.next - 1
    BY <2>2 DEF GoodTab
  <2>6. GoodTab(u)
    BY <2>2, <2>3, <2>5 DEF GoodTab, Agrees
  <2>7. Fits(u, area)
    BY <2>3 DEF Fits
  <2>8. QED
    BY <2>4, <2>6, <2>7 DEF Edits
<1>3. QED
  BY <1>1, <1>2

\* A split gives the new pane the next id.
LEMMA DoSplitGood ==
    ASSUME NEW t, GoodTab(t), NEW i, NEW d \in {"h", "v"}, NEW area, Box(area), NEW spawns
    PROVE  Edits(DoSplit(t, i, d, area, spawns), t, area)
<1> DEFINE go == /\ i \in DOMAIN t.size /\ i \in Ids(t.tree)
                 /\ Cardinality(DOMAIN t.size) < MaxPanes
                 /\ RoomToSplit(PaneRects(t.tree, area)[i], d)
                 /\ spawns
           new == Split(t.tree, i, t.next, d)
           S == [j \in DOMAIN t.size \cup {t.next} |-> IF j = t.next THEN <<1, 1>> ELSE t.size[j]]
           u == [t EXCEPT !.tree = new, !.next = t.next + 1, !.size = S]
<1>1. DoSplit(t, i, d, area, spawns) = IF ~go THEN t ELSE ResizeAll(u, area)
  BY DEF DoSplit
<1>2. CASE ~go
  <2> HIDE DEF go, u
  <2> QED
    BY <1>1, <1>2, SameGood
<1>3. CASE go
  <2>1. i \in DOMAIN t.size /\ i \in Ids(t.tree)
    BY <1>3
  <2>2. IsTree(t.tree) /\ t.next \in Nat /\ t.next \notin Ids(t.tree)
    BY DEF GoodTab
  <2>3. IsTree(new) /\ Ids(new) = Ids(t.tree) \cup {t.next}
    BY <2>1, <2>2, SplitIs
  <2> HIDE DEF new
  <2>4. DOMAIN S = DOMAIN t.size \cup {t.next}
    OBVIOUS
  <2> HIDE DEF S
  <2>5. /\ DOMAIN u = Fields /\ u.tree = new /\ u.next = t.next + 1 /\ u.size = S
        /\ u.active = t.active /\ u.zoom = t.zoom /\ u.stray = t.stray /\ u.unfit = t.unfit
    BY DEF GoodTab, Fields
  <2> HIDE DEF u
  <2>6. u.active \in 0 .. u.next - 1 /\ (u.zoom = None \/ u.zoom \in 0 .. u.next - 1)
    BY <2>5 DEF GoodTab
  <2>7. \A j \in DOMAIN u.size \cup Ids(u.tree) : j \in 0 .. u.next - 1
    BY <2>2, <2>3, <2>4, <2>5 DEF GoodTab
  <2>8. u.stray \/ Agrees(u)
    BY <2>1, <2>3, <2>4, <2>5 DEF GoodTab, Agrees
  <2>9. GoodTab(u)
    BY <2>2, <2>3, <2>5, <2>6, <2>7, <2>8 DEF GoodTab
  <2> HIDE DEF go
  <2>10. QED
    BY <1>1, <1>3, <2>9, ResizeAllGood DEF Edits
<1>4. QED
  BY <1>2, <1>3

\* A pane is closed; its tab keeps its leaf if it was the last.
LEMMA ClosePaneGood ==
    ASSUME NEW t, GoodTab(t), NEW i, NEW area, Box(area)
    PROVE  Edits(ClosePane(t, i, area), t, area)
<1> DEFINE new == IF CountLeaves(t.tree) > 1 /\ i \in Ids(t.tree) THEN Remove(t.tree, i) ELSE t.tree
           S == [j \in DOMAIN t.size \ {i} |-> t.size[j]]
           a == IF t.active = i THEN Head(PaneIds(new)) ELSE t.active
           u == [t EXCEPT !.tree = new, !.dead = @ \ {i}, !.size = S, !.active = a]
<1>1. ClosePane(t, i, area) = ResizeAll(u, area)
  BY DEF ClosePane
<1>2. IsTree(t.tree) /\ IsShape(DOMAIN t.tree)
  BY DEF GoodTab, IsTree, IsPlan
<1>3. /\ IsTree(new) /\ Ids(new) = IF CountLeaves(t.tree) > 1 THEN Ids(t.tree) \ {i} ELSE Ids(t.tree)
      /\ CountLeaves(t.tree) > 1 \/ IsLeaf(new)
  BY <1>2, RemoveIs
<1>4. IsLeaf(t.tree) <=> CountLeaves(t.tree) = 1
  BY <1>2, LeafIsAlone
<1>5. CountLeaves(t.tree) > 1 \/ Ids(t.tree) = {t.tree[<<>>].id}
  <2>1. CountLeaves(t.tree) \in Nat \ {0} /\ Leaves(t.tree) # {} /\ Leaves(t.tree) \subseteq DOMAIN t.tree
    BY <1>2, LeavesCount
  <2>2. ASSUME CountLeaves(t.tree) = 1
        PROVE  Ids(t.tree) = {t.tree[<<>>].id}
    <3>1. DOMAIN t.tree = {<<>>}
      BY <1>4, <2>2 DEF IsLeaf
    <3>2. Leaves(t.tree) = {<<>>}
      BY <2>1, <3>1
    <3>3. QED
      BY <3>2 DEF Ids
  <2>3. QED
    BY <2>1, <2>2
<1> HIDE DEF new
<1>6. Head(PaneIds(new)) \in Ids(new)
  BY <1>3, PaneIdsInIds DEF IsTree, IsPlan
<1>7. a = (IF t.active = i THEN Head(PaneIds(new)) ELSE t.active) /\ DOMAIN S = DOMAIN t.size \ {i}
  OBVIOUS
<1> HIDE DEF S, a
<1>8. /\ DOMAIN u = Fields /\ u.tree = new /\ u.next = t.next /\ u.size = S
      /\ u.active = a /\ u.zoom = t.zoom /\ u.stray = t.stray /\ u.unfit = t.unfit
  BY DEF GoodTab, Fields
<1> HIDE DEF u
<1>9. a \in Ids(new) \/ (a = t.active /\ t.active # i)
  BY <1>6, <1>7
<1>10. \A j \in DOMAIN S \cup Ids(new) : j \in 0 .. t.next - 1
  BY <1>3, <1>7 DEF GoodTab
<1>11. a \in 0 .. t.next - 1
  BY <1>9, <1>10 DEF GoodTab
<1>12. t.stray \/ Agrees(u)
  <2>1. SUFFICES ASSUME Agrees(t)
                 PROVE  Agrees(u)
    BY DEF GoodTab
  <2>2. a \in Ids(new)
    BY <1>3, <1>9, <2>1 DEF Agrees
  <2>3. DOMAIN S = Ids(new) \/ (DOMAIN S = {} /\ IsLeaf(new))
    <3>1. CASE CountLeaves(t.tree) > 1
      BY <1>3, <1>4, <1>7, <2>1, <3>1 DEF Agrees
    <3>2. CASE ~(CountLeaves(t.tree) > 1)
      BY <1>3, <1>5, <1>7, <2>1, <3>2 DEF Agrees
    <3>3. QED
      BY <3>1, <3>2
  <2>4. QED
    BY <1>8, <2>2, <2>3 DEF Agrees
<1>13. GoodTab(u)
  BY <1>3, <1>8, <1>10, <1>11, <1>12 DEF GoodTab
<1>14. QED
  BY <1>1, <1>13, ResizeAllGood DEF Edits

\* A new program in a pane of the layout gets the size of its rectangle.
LEMMA ReplacePaneGood ==
    ASSUME NEW t, GoodTab(t), NEW i \in Ids(t.tree), NEW area
    PROVE  Edits(ReplacePane(t, i, area), t, area)
<1> DEFINE S == [t.size EXCEPT ![i] = DimsOf(PaneRects(t.tree, area)[i])]
           D == t.dead \ {i}
           u == [t EXCEPT !.size[i] = DimsOf(PaneRects(t.tree, area)[i]), !.dead = @ \ {i}]
<1>1. /\ DOMAIN u = Fields /\ u.tree = t.tree /\ u.next = t.next /\ u.size = S
      /\ u.active = t.active /\ u.zoom = t.zoom /\ u.stray = t.stray /\ u.unfit = t.unfit
  BY DEF GoodTab, Fields
<1>2. DOMAIN S = DOMAIN t.size /\ \A j \in DOMAIN t.size : S[j] = IF j = i THEN DimsOf(PaneRects(t.tree, area)[i]) ELSE t.size[j]
  OBVIOUS
<1>3. ReplacePane(t, i, area) = u
  BY DEF ReplacePane
<1> HIDE DEF u, S
<1>4. GoodTab(u)
  BY <1>1, <1>2 DEF GoodTab, Agrees
<1>5. Fits(t, area) => Fits(u, area)
  BY <1>1, <1>2 DEF Fits, AllFit
<1>6. QED
  BY <1>3, <1>4, <1>5 DEF Edits

\* Another pane zoomed, or none: the other parts of a tab do not look at it.
LEMMA ZoomedGood ==
    ASSUME NEW t, GoodTab(t), NEW z, z = None \/ z \in 0 .. t.next - 1
    PROVE  LET u == [t EXCEPT !.zoom = z] IN
           /\ GoodTab(u) /\ u.tree = t.tree /\ u.next = t.next /\ u.size = t.size
           /\ u.dead = t.dead /\ u.active = t.active /\ u.zoom = z /\ u.stray = t.stray /\ u.unfit = t.unfit
<1> DEFINE u == [t EXCEPT !.zoom = z]
<1>1. /\ DOMAIN u = Fields /\ u.tree = t.tree /\ u.next = t.next /\ u.size = t.size
      /\ u.dead = t.dead /\ u.active = t.active /\ u.zoom = z /\ u.stray = t.stray /\ u.unfit = t.unfit
  BY DEF GoodTab, Fields
<1> HIDE DEF u
<1>2. GoodTab(u)
  BY <1>1 DEF GoodTab, Agrees
<1>3. QED
  BY <1>1, <1>2 DEF u

\* Entering zoom makes one pane fill the area; leaving it resizes them all.
LEMMA ToggleZoomGood ==
    ASSUME NEW t, GoodTab(t), NEW i \in 0 .. t.next - 1, NEW area, Box(area)
    PROVE  /\ Edits(ToggleZoom(t, i, area), t, area)
           /\ LET u == ToggleZoom(t, i, area) IN
              u.tree = t.tree /\ DOMAIN u.size = DOMAIN t.size /\ u.next = t.next /\ u.active = t.active
<1>1. CASE t.zoom # None
  <2> DEFINE u == [t EXCEPT !.zoom = None]
  <2>1. /\ GoodTab(u) /\ u.tree = t.tree /\ u.next = t.next /\ u.size = t.size /\ u.active = t.active
    BY ZoomedGood
  <2>2. ToggleZoom(t, i, area) = ResizeAll(u, area)
    BY <1>1 DEF ToggleZoom
  <2> HIDE DEF u
  <2> DEFINE v == ResizeAll(u, area)
  <2>3. GoodTab(v) /\ Fits(v, area)
    BY <2>1, ResizeAllGood
  <2>4. v.tree = t.tree /\ DOMAIN v.size = DOMAIN t.size /\ v.next = t.next /\ v.active = t.active
    BY <2>1, ResizeAllIs, ZenonT(40) DEF GoodTab
  <2> HIDE DEF v
  <2>5. QED
    BY <2>2, <2>3, <2>4 DEF Edits, v
<1>2. CASE t.zoom = None
  <2> DEFINE u == [t EXCEPT !.zoom = i]
  <2>1. /\ GoodTab(u) /\ u.tree = t.tree /\ u.next = t.next /\ u.size = t.size /\ u.active = t.active
        /\ u.zoom = i /\ DOMAIN u = Fields
    BY ZoomedGood DEF GoodTab
  <2>2. ToggleZoom(t, i, area) = ResizeZoomed(u, i, area)
    BY <1>2 DEF ToggleZoom
  <2> HIDE DEF u
  <2> DEFINE v == ResizeZoomed(u, i, area)
  <2>3. GoodTab(v)
    BY <2>1, ResizeZoomedGood
  <2>4. v.tree = t.tree /\ DOMAIN v.size = DOMAIN t.size /\ v.next = t.next /\ v.active = t.active /\ v.zoom = i
    BY <2>1, ResizeZoomedIs
  <2> HIDE DEF v
  <2>5. i # None
    BY NoneAssumption DEF GoodTab
  <2>6. Fits(v, area)
    BY <2>4, <2>5 DEF Fits
  <2>7. QED
    BY <2>2, <2>3, <2>4, <2>6 DEF Edits, v
<1>3. QED
  BY <1>1, <1>2

\* A click or double click in a pane.
LEMMA ClickedGood ==
    ASSUME NEW t, GoodTab(t), NEW i \in DOMAIN t.size, NEW double, NEW area, Box(area)
    PROVE  Edits(Focus(IF double THEN ToggleZoom(t, i, area) ELSE t, i), t, area)
<1>1. CASE double
  <2> DEFINE u == ToggleZoom(t, i, area)
  <2>1. i \in 0 .. t.next - 1
    BY DEF GoodTab
  <2>2. Edits(u, t, area) /\ DOMAIN u.size = DOMAIN t.size
    BY <2>1, ToggleZoomGood
  <2> HIDE DEF u
  <2>3. Edits(Focus(u, i), u, area)
    BY <2>2, FocusGood DEF Edits
  <2>4. Edits(Focus(u, i), t, area)
    BY <2>2, <2>3 DEF Edits
  <2>5. QED
    BY <1>1, <2>4 DEF u
<1>2. CASE ~double
  BY <1>2, FocusGood
<1>3. QED
  BY <1>1, <1>2

\* Zoom on a pane that is gone is given up.
LEMMA HealZoomGood ==
    ASSUME NEW t, GoodTab(t), NEW area, Box(area)
    PROVE  Edits(HealZoom(t, area), t, area) /\ HealZoom(t, area).active = t.active
<1>1. CASE t.zoom \in DOMAIN t.size \cup {None}
  BY <1>1 DEF HealZoom, Edits
<1>2. CASE t.zoom \notin DOMAIN t.size \cup {None}
  <2> DEFINE u == [t EXCEPT !.zoom = None]
  <2>1. GoodTab(u) /\ u.active = t.active
    BY ZoomedGood
  <2>2. HealZoom(t, area) = ResizeAll(u, area)
    BY <1>2 DEF HealZoom
  <2> HIDE DEF u
  <2>3. GoodTab(ResizeAll(u, area)) /\ Fits(ResizeAll(u, area), area)
    BY <2>1, ResizeAllGood
  <2>4. ResizeAll(u, area).active = t.active
    BY <2>1, ResizeAllIs DEF GoodTab
  <2>5. QED
    BY <2>2, <2>3, <2>4 DEF Edits
<1>3. QED
  BY <1>1, <1>2

\* Resizing, and then the zoomed pane.
LEMMA ResizeBothGood ==
    ASSUME NEW t, GoodTab(t), NEW area, Box(area)
    PROVE  LET u == ResizeZoomed(ResizeAll(t, area), t.zoom, area) IN
           /\ GoodTab(u) /\ Fits(u, area) /\ u.active = t.active /\ u.zoom = t.zoom
           /\ DOMAIN u.size = DOMAIN t.size
           /\ t.zoom \in DOMAIN t.size => u.size[t.zoom] = DimsOf(area)
<1> DEFINE v == ResizeAll(t, area)
           u == ResizeZoomed(v, t.zoom, area)
<1>1. GoodTab(v) /\ Fits(v, area) /\ DOMAIN v = Fields
  BY ResizeAllGood DEF GoodTab
<1>2. v.active = t.active /\ v.zoom = t.zoom /\ DOMAIN v.size = DOMAIN t.size
  BY ResizeAllIs DEF GoodTab
<1> HIDE DEF v
<1>3. GoodTab(u) /\ (v.zoom # None \/ t.zoom \notin DOMAIN v.size => Edits(u, v, area))
  BY <1>1, ResizeZoomedGood
<1>4. /\ u.active = t.active /\ u.zoom = t.zoom /\ DOMAIN u.size = DOMAIN t.size
      /\ t.zoom \in DOMAIN t.size => u.size[t.zoom] = DimsOf(area)
  BY <1>1, <1>2, ResizeZoomedIs
<1> HIDE DEF u
<1>5. t.zoom = None => t.zoom \notin DOMAIN t.size
  BY NoneAssumption DEF GoodTab
<1>6. Fits(u, area)
  BY <1>1, <1>2, <1>3, <1>5 DEF Edits
<1>7. QED
  BY <1>3, <1>4, <1>6 DEF u, v

\* A new tab is good, and its panes fit.
LEMMA NewTabGood ==
    ASSUME NEW n \in {1, 2}, NEW area, Box(area)
    PROVE  GoodTab(NewTab(n, area)) /\ Fits(NewTab(n, area), area) /\ NewTab(n, area).zoom = None
<1> DEFINE new == FromGrid(1, n)
           r == PaneRects(new, area)
           S == [i \in 0 .. n - 1 |-> DimsOf(r[i])]
           u == NewTab(n, area)
<1>1. IsTree(new) /\ Ids(new) = 0 .. n - 1
  <2>1. 0 .. 1 - 1 = {0} /\ 0 .. 2 - 1 = {0, 1}
    OBVIOUS
  <2>2. QED
    BY <2>1, NewTreeIs
<1> HIDE DEF new
<1>2. u = [tree |-> new, next |-> n, size |-> S, dead |-> {},
           active |-> 0, zoom |-> None, unfit |-> FALSE, stray |-> FALSE]
  BY DEF NewTab, new
<1>3. DOMAIN S = 0 .. n - 1 /\ \A i \in 0 .. n - 1 : S[i] = DimsOf(r[i])
  OBVIOUS
<1> HIDE DEF u, S, r
<1>4. /\ DOMAIN u = Fields /\ u.tree = new /\ u.next = n /\ u.size = S
      /\ u.active = 0 /\ u.zoom = None /\ u.unfit = FALSE /\ u.stray = FALSE
  BY <1>2 DEF Fields
<1>5. GoodTab(u)
  <2>1. n \in Nat /\ 0 \in 0 .. n - 1
    OBVIOUS
  <2> DEFINE I == 0 .. n - 1
  <2>2. Ids(u.tree) = I /\ DOMAIN u.size = I /\ IsTree(u.tree)
    BY <1>1, <1>3, <1>4
  <2>3. Agrees(u)
    BY <1>4, <2>1, <2>2 DEF Agrees
  <2>4. \A i \in DOMAIN u.size \cup Ids(u.tree) : i \in 0 .. u.next - 1
    BY <1>4, <2>2
  <2>5. u.next \in Nat /\ u.active \in 0 .. u.next - 1
    BY <1>4, <2>1
  <2>6. QED
    BY <1>4, <2>2, <2>3, <2>4, <2>5 DEF GoodTab
<1>6. Fits(u, area)
  BY <1>3, <1>4 DEF Fits, AllFit, r
<1>7. QED
  BY <1>4, <1>5, <1>6 DEF u

-----------------------------------------------------------------------------
(* The invariant of the main loop.                                         *)

\* When a frame is drawn only the focused pane is zoomed, and it has the area.
Zoomed ==
    /\ Tab.zoom \in {None, Tab.active}
    /\ Tab.zoom # None /\ Tab.active \in DOMAIN Tab.size => Tab.size[Tab.active] = DimsOf(Area)

\* A question is asked of the focused pane of the tab on screen, or unsettled.
Settled(m, i, k) == "kind" \in DOMAIN m /\ (m.kind = "close" /\ m.of # None => m.of = i /\ m.tab = k)

TabsOk == IsSeq(tabs) /\ cur \in 1 .. Len(tabs) /\ \A k \in 1 .. Len(tabs) : GoodTab(tabs[k])

BenchInv ==
    /\ TabsOk
    /\ term \in Nat \X Nat
    /\ Fits(Tab, Area)
    /\ Settled(mode, Tab.active, cur)
    /\ phase = "top" => Zoomed

\* What the invariant says of the tab on screen.
LEMMA OnScreen ==
    ASSUME BenchInv
    PROVE  /\ GoodTab(Tab) /\ Fits(Tab, Area) /\ Box(Area) /\ Tab = tabs[cur] /\ IsTree(Tab.tree)
           /\ Tab.active \in 0 .. Tab.next - 1
<1>1. GoodTab(Tab) /\ Fits(Tab, Area) /\ Tab = tabs[cur]
  BY DEF BenchInv, TabsOk, Tab
<1>2. Box(Area)
  BY ContentIs DEF BenchInv, Area
<1>3. QED
  BY <1>1, <1>2 DEF GoodTab

\* One tab edited, the others untouched.
LEMMA Becomes ==
    ASSUME BenchInv, NEW t, GoodTab(t), tabs' = [tabs EXCEPT ![cur] = t], cur' = cur
    PROVE  TabsOk' /\ Len(tabs') = Len(tabs) /\ Tab' = t
<1>1. /\ IsSeq(tabs') /\ Len(tabs') = Len(tabs) /\ tabs'[cur] = t
      /\ \A i \in 1 .. Len(tabs) : i # cur => tabs'[i] = tabs[i]
  <2>1. IsSeq(tabs) /\ cur \in 1 .. Len(tabs)
    BY DEF BenchInv, TabsOk
  <2> DEFINE u == [tabs EXCEPT ![cur] = t]
  <2>2. /\ IsSeq(u) /\ Len(u) = Len(tabs) /\ u[cur] = t
        /\ \A i \in 1 .. Len(tabs) : i # cur => u[i] = tabs[i]
    BY <2>1, IsSeqSet
  <2>3. tabs' = u
    OBVIOUS
  <2> HIDE DEF u
  <2>4. QED
    BY <2>2, <2>3
<1>2. \A k \in 1 .. Len(tabs') : GoodTab(tabs'[k])
  BY <1>1 DEF BenchInv, TabsOk
<1>3. QED
  BY <1>1, <1>2 DEF TabsOk, BenchInv, Tab

\* An event that edits the tab on screen.
LEMMA EventStep ==
    ASSUME BenchInv, NEW t, GoodTab(t), Fits(t, Content(look', term', Len(tabs))),
           tabs' = [tabs EXCEPT ![cur] = t], cur' = cur, term' \in Nat \X Nat, phase' # "top",
           Settled(mode', t.active, cur)
    PROVE  BenchInv'
<1>1. TabsOk' /\ Len(tabs') = Len(tabs) /\ Tab' = t
  BY Becomes
<1>2. Area' = Content(look', term', Len(tabs))
  BY <1>1 DEF Area
<1>3. Fits(Tab', Area') /\ Settled(mode', Tab'.active, cur')
  BY <1>1, <1>2
<1>4. (phase = "top" => Zoomed)'
  OBVIOUS
<1>5. QED
  BY <1>1, <1>3, <1>4 DEF BenchInv

\* The same, where nothing but the tab and the mode counts.
LEMMA QuietStep ==
    ASSUME BenchInv, NEW t, Edits(t, Tab, Area), tabs' = [tabs EXCEPT ![cur] = t],
           UNCHANGED <<cur, look, term>>, phase' # "top", Settled(mode', t.active, cur)
    PROVE  BenchInv'
<1>1. GoodTab(t) /\ Fits(t, Content(look', term', Len(tabs)))
  BY OnScreen DEF Edits, Area
<1>2. term' \in Nat \X Nat
  BY DEF BenchInv
<1>3. QED
  BY <1>1, <1>2, EventStep

\* An event that leaves all tabs alone.
LEMMA StillStep ==
    ASSUME BenchInv, UNCHANGED <<tabs, cur, look, term>>, phase' # "top", Settled(mode', Tab.active, cur)
    PROVE  BenchInv'
<1>1. TabsOk'
  BY DEF BenchInv, TabsOk
<1>2. Tab' = Tab /\ Area' = Area
  BY DEF Tab, Area
<1>3. (phase = "top" => Zoomed)'
  OBVIOUS
<1>4. QED
  BY <1>1, <1>2, <1>3 DEF BenchInv

\* A mode that asks nothing, and the question as it is asked.
LEMMA ModeIs ==
    ASSUME NEW i, NEW k
    PROVE  /\ \A m : m # "close" => Settled([kind |-> m], i, k)
           /\ Settled(Naming, i, k)
           /\ \A b : Settled([kind |-> "rename", buf |-> b], i, k)
           /\ cur = k => Settled(Asking(i), i, k)
           /\ \A m : Settled(m, i, k) => \A j, l : Settled(Unsettled(m), j, l)
<1>1. \A m : [kind |-> m].kind = m /\ "kind" \in DOMAIN [kind |-> m]
  OBVIOUS
<1>2. Naming.kind = "rename" /\ "kind" \in DOMAIN Naming
  BY DEF Naming
<1>3. \A b : [kind |-> "rename", buf |-> b].kind = "rename" /\ "kind" \in DOMAIN [kind |-> "rename", buf |-> b]
  OBVIOUS
<1>4. /\ \A j : "kind" \in DOMAIN Asking(j) /\ Asking(j).of = j /\ Asking(j).tab = cur
  BY DEF Asking
<1>5. ASSUME NEW m, Settled(m, i, k), NEW j, NEW l
      PROVE  Settled(Unsettled(m), j, l)
  <2>1. CASE m.kind = "close"
    <3>1. Unsettled(m) = Asking(None)
      BY <2>1 DEF Unsettled
    <3>2. QED
      BY <1>4, <3>1 DEF Settled
  <2>2. CASE m.kind # "close"
    BY <1>5, <2>2 DEF Unsettled, Settled
  <2>3. QED
    BY <2>1, <2>2
<1>6. QED
  BY <1>1, <1>2, <1>3, <1>4, <1>5 DEF Settled

\* A layout that a command selects is one the proofs are about.
LEMMA SpecsAre == Specs \subseteq SpecSet
BY BenchAssumption DEF SpecSet, Weights

\* Every command is an edit.
LEMMA CommandsEdit ==
    ASSUME BenchInv
    PROVE  \A u \in Commands(Tab) : Edits(u, Tab, Area)
<1>1. GoodTab(Tab) /\ Box(Area) /\ IsTree(Tab.tree)
  BY OnScreen
<1>2. \A d \in {"h", "v"}, ok \in BOOLEAN : Edits(DoSplit(Tab, Tab.active, d, Area, ok), Tab, Area)
  BY <1>1, DoSplitGood
<1>3. \A nav \in Arrows : Edits(Navigated(Tab, nav, Area), Tab, Area) /\ Edits(Resized(Tab, nav, Area), Tab, Area)
  BY <1>1, NavigatedGood, ResizedGood
<1>4. /\ Edits(SwapWith(Tab, PrevPane(Tab.tree, Tab.active)), Tab, Area)
      /\ Edits(SwapWith(Tab, NextPane(Tab.tree, Tab.active)), Tab, Area)
  BY <1>1, NeighboursInIds, SwapGood
<1>5. ASSUME NEW s \in Specs
      PROVE  Edits(ResizeAll([Tab EXCEPT !.tree = Reconfigure(Tab.tree, s)], Area), Tab, Area)
  BY <1>1, SpecsAre, ReconfiguredGood
<1> DEFINE S1 == {DoSplit(Tab, Tab.active, d, Area, ok) : d \in {"h", "v"}, ok \in BOOLEAN}
           S2 == {Navigated(Tab, nav, Area) : nav \in Arrows}
           S3 == {Resized(Tab, nav, Area) : nav \in Arrows}
           S4 == {SwapWith(Tab, PrevPane(Tab.tree, Tab.active)), SwapWith(Tab, NextPane(Tab.tree, Tab.active))}
           S5 == {ResizeAll([Tab EXCEPT !.tree = Reconfigure(Tab.tree, s)], Area) : s \in Specs}
<1>6. \A u \in S1 : Edits(u, Tab, Area)
  BY <1>2
<1>7. \A u \in S2 \cup S3 : Edits(u, Tab, Area)
  BY <1>3
<1>8. \A u \in S4 : Edits(u, Tab, Area)
  BY <1>4
<1>9. \A u \in S5 : Edits(u, Tab, Area)
  BY <1>5
<1>10. Commands(Tab) = S1 \cup S2 \cup S3 \cup S4 \cup S5
  BY DEF Commands
<1> HIDE DEF S1, S2, S3, S4, S5
<1>11. QED
  BY <1>6, <1>7, <1>8, <1>9, <1>10

\* The same of the keys after the prefix.
LEMMA PrefixEditsEdit ==
    ASSUME BenchInv
    PROVE  \A u \in PrefixEdits(Tab) : Edits(u, Tab, Area)
<1>1. GoodTab(Tab) /\ Box(Area) /\ IsTree(Tab.tree) /\ Tab.active \in 0 .. Tab.next - 1
  BY OnScreen
<1>2. \A d \in {"h", "v"}, ok \in BOOLEAN : Edits(DoSplit(Tab, Tab.active, d, Area, ok), Tab, Area)
  BY <1>1, DoSplitGood
<1>3. \A nav \in Arrows : Edits(Navigated(Tab, nav, Area), Tab, Area)
  BY <1>1, NavigatedGood
<1>4. /\ Edits(SwapWith(Tab, PrevPane(Tab.tree, Tab.active)), Tab, Area)
      /\ Edits(SwapWith(Tab, NextPane(Tab.tree, Tab.active)), Tab, Area)
      /\ Edits(Focus(Tab, NextPane(Tab.tree, Tab.active)), Tab, Area)
  BY <1>1, NeighboursInIds, SwapGood, FocusGood
<1>5. Edits(Equalized(Tab, Area), Tab, Area) /\ Edits(ToggleZoom(Tab, Tab.active, Area), Tab, Area)
  BY <1>1, EqualizedGood, ToggleZoomGood
<1>6. \A i \in DOMAIN Tab.size : Edits(Focus(Tab, i), Tab, Area)
  BY <1>1, FocusGood
<1>7. QED
  BY <1>2, <1>3, <1>4, <1>5, <1>6 DEF PrefixEdits

\* The same of bound keys.
LEMMA BoundEditsEdit ==
    ASSUME BenchInv
    PROVE  \A u \in BoundEdits(Tab) : Edits(u, Tab, Area)
<1>1. Edits(Tab, Tab, Area) /\ Edits(Equalized(Tab, Area), Tab, Area)
  BY OnScreen, SameGood, EqualizedGood
<1>2. QED
  BY <1>1, CommandsEdit DEF BoundEdits

\* The same of control requests.
LEMMA IpcEditsEdit ==
    ASSUME BenchInv
    PROVE  \A u \in IpcEdits(Tab) : Edits(u, Tab, Area)
<1>1. GoodTab(Tab) /\ Box(Area) /\ IsTree(Tab.tree)
  BY OnScreen
<1>2. \A i \in DOMAIN Tab.size, d \in {"h", "v"}, ok \in BOOLEAN : Edits(DoSplit(Tab, i, d, Area, ok), Tab, Area)
  BY <1>1, DoSplitGood
<1>3. \A i : Edits(ClosePane(Tab, i, Area), Tab, Area)
  BY <1>1, ClosePaneGood
<1>4. \A i \in DOMAIN Tab.size : Edits(Focus(Tab, i), Tab, Area)
  BY <1>1, FocusGood
<1>5. Edits(Equalized(Tab, Area), Tab, Area)
  BY <1>1, EqualizedGood
<1>6. ASSUME NEW s \in Specs
      PROVE  Edits(ResizeAll([Tab EXCEPT !.tree = Reconfigure(Tab.tree, s)], Area), Tab, Area)
  BY <1>1, SpecsAre, ReconfiguredGood
<1>7. \A i \in Ids(Tab.tree) : Edits(ReplacePane(Tab, i, Area), Tab, Area)
  BY <1>1, ReplacePaneGood
<1> DEFINE S1 == {DoSplit(Tab, i, d, Area, ok) : i \in DOMAIN Tab.size, d \in {"h", "v"}, ok \in BOOLEAN}
           S2 == {ClosePane(Tab, i, Area) : i \in DOMAIN Tab.size \cup Ids(Tab.tree)}
           S3 == {Focus(Tab, i) : i \in DOMAIN Tab.size}
           S4 == {Equalized(Tab, Area)}
           S5 == {ResizeAll([Tab EXCEPT !.tree = Reconfigure(Tab.tree, s)], Area) : s \in Specs}
           S6 == {ReplacePane(Tab, i, Area) : i \in DOMAIN Tab.size \cap Ids(Tab.tree)}
<1>8. \A u \in S1 : Edits(u, Tab, Area)
  BY <1>2
<1>9. \A u \in S2 \cup S3 : Edits(u, Tab, Area)
  BY <1>3, <1>4
<1>10. \A u \in S4 \cup S6 : Edits(u, Tab, Area)
  BY <1>5, <1>7
<1>11. \A u \in S5 : Edits(u, Tab, Area)
  BY <1>6
<1>12. IpcEdits(Tab) = S1 \cup S2 \cup S3 \cup S4 \cup S5 \cup S6
  BY DEF IpcEdits
<1> HIDE DEF S1, S2, S3, S4, S5, S6
<1>13. QED
  BY <1>8, <1>9, <1>10, <1>11, <1>12

-----------------------------------------------------------------------------
(* Every action keeps the invariant.                                       *)

\* Keys that leave the tabs alone: those that open a mode, answer a question
\* that is not about a pane, type a name, or ask for a tab.
LEMMA KeysKeep ==
    ASSUME BenchInv,
           \/ PressPrefix
           \/ \E m \in {"close", "closetab", "quit", "help", "select", "rename", "palette", "resize", "copy"} :
                PrefixMode(m)
           \/ PrefixOther \/ PrefixDetach
           \/ \E a \in TabActions : PrefixTab(a)
           \/ \E yes \in BOOLEAN : ConfirmTab(yes) \/ ConfirmQuit(yes)
           \/ HelpKey \/ RenameKey \/ CopyKey \/ ClientGone
           \/ \E i \in 0 .. MaxId, d \in BOOLEAN : ClickTabBar(i, d)
    PROVE  BenchInv'
<1> DEFINE Fine == Settled(mode', Tab.active, cur)
<1>1. UNCHANGED <<tabs, cur, look, term>> /\ phase' = "events"
  BY DEF PressPrefix, PrefixMode, PrefixOther, PrefixDetach, PrefixTab, ConfirmTab, ConfirmQuit, HelpKey,
         RenameKey, CopyKey, ClientGone, ClickTabBar, Listening, Quiet, Loop
<1>2. Settled(mode, Tab.active, cur)
  BY DEF BenchInv
<1>3. \A m : m # "close" /\ mode' = [kind |-> m] => Fine
  BY ModeIs
<1>4. mode' = mode \/ mode' = Naming \/ mode' = Asking(Tab.active) => Fine
  BY <1>2, ModeIs
<1>5. ASSUME NEW b, mode' = [mode EXCEPT !.buf = b], mode.kind = "rename"
      PROVE  Fine
  <2>1. "kind" \in DOMAIN mode
    BY <1>2 DEF Settled
  <2>2. "kind" \in DOMAIN mode' /\ mode'.kind = "rename"
    BY <1>5, <2>1
  <2>3. QED
    BY <2>2 DEF Settled
<1> HIDE DEF Fine
<1>6. CASE PressPrefix \/ PrefixOther \/ PrefixDetach \/ HelpKey \/ \E a \in TabActions : PrefixTab(a)
  <2>1. mode' = [kind |-> "prefix"] \/ mode' = [kind |-> "normal"]
    BY <1>6 DEF PressPrefix, PrefixOther, PrefixDetach, HelpKey, PrefixTab, To
  <2>2. QED
    BY <1>1, <1>3, <2>1, StillStep DEF Fine
<1>7. ASSUME NEW m \in {"close", "closetab", "quit", "help", "select", "rename", "palette", "resize", "copy"},
             PrefixMode(m)
      PROVE  BenchInv'
  <2>1. mode' = [kind |-> "normal"] \/ mode' = Naming \/ mode' = Asking(Tab.active)
        \/ (m # "close" /\ mode' = [kind |-> m])
    BY <1>7 DEF PrefixMode, To
  <2>2. Fine
    BY <1>3, <1>4, <2>1
  <2>3. QED
    BY <1>1, <2>2, StillStep DEF Fine
<1>8. CASE \E yes \in BOOLEAN : ConfirmTab(yes) \/ ConfirmQuit(yes)
  <2>1. mode' = mode \/ mode' = [kind |-> "normal"]
    BY <1>8 DEF ConfirmTab, ConfirmQuit, To
  <2>2. QED
    BY <1>1, <1>3, <1>4, <2>1, StillStep DEF Fine
<1>9. CASE RenameKey
  <2>1. \/ \E b : mode' = [mode EXCEPT !.buf = b]
        \/ mode' = [kind |-> "normal"]
    BY <1>9 DEF RenameKey, To
  <2>2. mode.kind = "rename"
    BY <1>9 DEF RenameKey, Listening
  <2>3. QED
    BY <1>1, <1>3, <1>5, <2>1, <2>2, StillStep DEF Fine
<1>10. CASE CopyKey \/ ClientGone \/ \E i \in 0 .. MaxId, d \in BOOLEAN : ClickTabBar(i, d)
  <2>1. mode' = mode \/ mode' = [kind |-> "normal"] \/ mode' = Naming
    BY <1>10 DEF CopyKey, ClientGone, ClickTabBar, To
  <2>2. QED
    BY <1>1, <1>3, <1>4, <2>1, StillStep DEF Fine
<1>11. QED
  BY <1>6, <1>7, <1>8, <1>9, <1>10

\* Keys that edit the panes and end their mode.
LEMMA EditKeysKeep ==
    ASSUME BenchInv,
           \/ PrefixEdit
           \/ \E yes \in BOOLEAN : ConfirmClose(yes)
           \/ BoundKey \/ ResizeKey \/ Respawn
           \/ \E n \in 1 .. MaxPanes + 1 : SelectKey(n)
    PROVE  BenchInv'
<1>1. GoodTab(Tab) /\ Box(Area) /\ IsTree(Tab.tree) /\ Edits(Tab, Tab, Area)
  BY OnScreen, SameGood
<1>2. \A t : Settled([kind |-> "normal"], t.active, cur)
  BY ModeIs
<1>3. ASSUME NEW t, Edits(t, Tab, Area), Become(t), UNCHANGED <<phase, cur, look, term>>, phase = "events",
             To("normal") \/ (mode.kind # "close" /\ UNCHANGED mode)
      PROVE  BenchInv'
  <2>1. tabs' = [tabs EXCEPT ![cur] = t]
    BY <1>3 DEF Become
  <2>2. Settled(mode', t.active, cur)
    BY <1>2, <1>3 DEF To, BenchInv, Settled
  <2>3. QED
    BY <1>3, <2>1, <2>2, QuietStep
<1>4. ASSUME UNCHANGED <<tabs, phase, cur, look, term>>, phase = "events",
             To("normal") \/ (mode.kind # "close" /\ UNCHANGED mode)
      PROVE  BenchInv'
  <2>1. Settled(mode', Tab.active, cur)
    BY <1>2, <1>4 DEF To, BenchInv, Settled
  <2>2. QED
    BY <1>4, <2>1, StillStep
<1>5. CASE PrefixEdit
  <2>1. PICK t \in PrefixEdits(Tab) : Become(t)
    BY <1>5 DEF PrefixEdit
  <2>2. UNCHANGED <<phase, cur, look, term>> /\ phase = "events" /\ To("normal")
    BY <1>5 DEF PrefixEdit, Quiet, Loop, Listening
  <2>3. QED
    BY <1>3, <2>1, <2>2, PrefixEditsEdit
<1>6. ASSUME NEW yes \in BOOLEAN, ConfirmClose(yes)
      PROVE  BenchInv'
  <2> DEFINE t == IF yes THEN ClosePane(Tab, Tab.active, Area) ELSE Tab
  <2>1. Become(t) /\ UNCHANGED <<phase, cur, look, term>> /\ phase = "events" /\ To("normal")
    BY <1>6 DEF ConfirmClose, Quiet, Loop, Listening
  <2>2. Edits(t, Tab, Area)
    BY <1>1, ClosePaneGood
  <2> HIDE DEF t
  <2>3. QED
    BY <1>3, <2>1, <2>2
<1>7. CASE BoundKey
  <2>1. UNCHANGED <<phase, cur, look, term>> /\ phase = "events" /\ To("normal")
    BY <1>7 DEF BoundKey, Loop, Listening
  <2>2. (\E t \in BoundEdits(Tab) : Become(t)) \/ UNCHANGED tabs
    BY <1>7 DEF BoundKey
  <2>3. CASE UNCHANGED tabs
    BY <1>4, <2>1, <2>3
  <2>4. CASE \E t \in BoundEdits(Tab) : Become(t)
    <3>1. PICK t \in BoundEdits(Tab) : Become(t)
      BY <2>4
    <3>2. QED
      BY <1>3, <2>1, <3>1, BoundEditsEdit
  <2>5. QED
    BY <2>2, <2>3, <2>4
<1>8. CASE ResizeKey
  <2>1. UNCHANGED <<phase, cur, look, term>> /\ phase = "events" /\ mode.kind = "resize"
    BY <1>8 DEF ResizeKey, Quiet, Loop, Listening
  <2>2. \/ \E nav \in Arrows : Become(Resized(Tab, nav, Area)) /\ UNCHANGED mode
        \/ To("normal") /\ UNCHANGED tabs
    BY <1>8 DEF ResizeKey
  <2>3. CASE To("normal") /\ UNCHANGED tabs
    BY <1>4, <2>1, <2>3
  <2>4. ASSUME NEW nav \in Arrows, Become(Resized(Tab, nav, Area)), UNCHANGED mode
        PROVE  BenchInv'
    <3>1. Edits(Resized(Tab, nav, Area), Tab, Area)
      BY <1>1, ResizedGood
    <3>2. QED
      BY <1>3, <2>1, <2>4, <3>1
  <2>5. QED
    BY <2>2, <2>3, <2>4
<1>9. CASE Respawn
  <2>1. /\ UNCHANGED <<phase, cur, look, term, mode>> /\ phase = "events" /\ mode.kind = "normal"
        /\ Tab.active \in Ids(Tab.tree) /\ Become(ReplacePane(Tab, Tab.active, Area))
    BY <1>9 DEF Respawn, Quiet, Loop, Listening
  <2>2. Edits(ReplacePane(Tab, Tab.active, Area), Tab, Area)
    BY <1>1, <2>1, ReplacePaneGood
  <2>3. QED
    BY <1>3, <2>1, <2>2
<1>10. ASSUME NEW n \in 1 .. MaxPanes + 1, SelectKey(n)
       PROVE  BenchInv'
  <2> DEFINE ids == PaneIds(Tab.tree)
             t == IF n <= Len(ids) /\ ids[n] \in DOMAIN Tab.size THEN Focus(Tab, ids[n]) ELSE Tab
  <2>1. Become(t) /\ UNCHANGED <<phase, cur, look, term>> /\ phase = "events" /\ To("normal")
    BY <1>10 DEF SelectKey, Quiet, Loop, Listening
  <2>2. Edits(t, Tab, Area)
    BY <1>1, FocusGood
  <2> HIDE DEF t
  <2>3. QED
    BY <1>3, <2>1, <2>2
<1>11. QED
  BY <1>5, <1>6, <1>7, <1>8, <1>9, <1>10

\* Clicks; one on a title asks about the pane it gives the focus to.
LEMMA ClicksKeep ==
    ASSUME BenchInv,
           \/ \E i \in 0 .. MaxId, d \in BOOLEAN : ClickPane(i, d)
           \/ \E i \in 0 .. MaxId, split \in {"no", "h", "v"} : ClickTitle(i, split)
    PROVE  BenchInv'
<1>1. GoodTab(Tab) /\ Box(Area) /\ IsTree(Tab.tree) /\ Fits(Tab, Area)
  BY OnScreen
<1>2. ASSUME NEW t, Edits(t, Tab, Area), Become(t), Quiet, phase = "events", mode.kind = "normal", UNCHANGED mode
      PROVE  BenchInv'
  <2>1. tabs' = [tabs EXCEPT ![cur] = t] /\ UNCHANGED <<phase, cur, look, term>>
    BY <1>2 DEF Become, Quiet, Loop
  <2>2. Settled(mode', t.active, cur)
    BY <1>2 DEF BenchInv, Settled
  <2>3. QED
    BY <1>2, <2>1, <2>2, QuietStep
<1>3. ASSUME NEW i, NEW d \in BOOLEAN, ClickPane(i, d)
      PROVE  BenchInv'
  <2> DEFINE t == Focus(IF d THEN ToggleZoom(Tab, i, Area) ELSE Tab, i)
  <2>1. i \in DOMAIN Tab.size /\ Become(t) /\ Quiet /\ phase = "events" /\ mode.kind = "normal" /\ UNCHANGED mode
    BY <1>3 DEF ClickPane, Listening
  <2>2. Edits(t, Tab, Area)
    BY <1>1, <2>1, ClickedGood
  <2> HIDE DEF t
  <2>3. QED
    BY <1>2, <2>1, <2>2
<1>4. ASSUME NEW i, NEW d \in {"h", "v"}, ClickTitle(i, d)
      PROVE  BenchInv'
  <2> DEFINE t == DoSplit(Tab, i, d, Area, TRUE)
  <2>1. Become(t) /\ Quiet /\ phase = "events" /\ mode.kind = "normal" /\ UNCHANGED mode
    BY <1>4 DEF ClickTitle, Listening
  <2>2. Edits(t, Tab, Area)
    BY <1>1, DoSplitGood
  <2> HIDE DEF t
  <2>3. QED
    BY <1>2, <2>1, <2>2
<1>5. ASSUME NEW i, ClickTitle(i, "no")
      PROVE  BenchInv'
  <2> DEFINE f == Focus(Tab, i)
             u == [f EXCEPT !.stray = Tab.stray \/ i \notin Ids(Tab.tree)]
  <2>1. /\ i \in IF Tab.zoom # None THEN {Tab.zoom} ELSE Ids(Tab.tree)
        /\ mode' = Asking(i) /\ Quiet /\ phase = "events"
    BY <1>5 DEF ClickTitle, Listening
  <2>2. i \in 0 .. Tab.next - 1
    BY <1>1, <2>1 DEF GoodTab
  <2>3. /\ DOMAIN f = Fields /\ f.tree = Tab.tree /\ f.next = Tab.next /\ f.size = Tab.size
        /\ f.active = i /\ f.zoom = Tab.zoom /\ f.stray = Tab.stray /\ f.unfit = Tab.unfit
    BY <1>1 DEF GoodTab, Fields, Focus
  <2>4. Become(u)
    BY <1>5, <2>3 DEF ClickTitle
  <2> HIDE DEF f
  <2>5. /\ DOMAIN u = Fields /\ u.tree = Tab.tree /\ u.next = Tab.next /\ u.size = Tab.size
        /\ u.active = i /\ u.zoom = Tab.zoom /\ u.unfit = Tab.unfit
        /\ u.stray = (Tab.stray \/ i \notin Ids(Tab.tree))
    BY <2>3 DEF Fields
  <2> HIDE DEF u
  <2>6. u.stray \in BOOLEAN /\ (u.stray \/ Agrees(u))
    BY <1>1, <2>5 DEF GoodTab, Agrees
  <2>7. GoodTab(u)
    BY <1>1, <2>2, <2>5, <2>6 DEF GoodTab
  <2>8. Edits(u, Tab, Area)
    BY <2>5, <2>7 DEF Edits, Fits, AllFit
  <2>9. tabs' = [tabs EXCEPT ![cur] = u] /\ UNCHANGED <<phase, cur, look, term>>
    BY <2>1, <2>4 DEF Become, Quiet, Loop
  <2>10. Settled(mode', u.active, cur)
    BY <2>1, <2>5, ModeIs
  <2>11. QED
    BY <2>1, <2>8, <2>9, <2>10, QuietStep
<1>6. QED
  BY <1>3, <1>4, <1>5

\* Settings: bars resize the panes, a border style says that they may not fit.
LEMMA SettingsKeep ==
    ASSUME BenchInv, PrefixStatusBar \/ PaletteKey \/ PanelKey
    PROVE  BenchInv'
<1>1. GoodTab(Tab) /\ Fits(Tab, Area) /\ Area = Content(look, term, Len(tabs))
  BY OnScreen DEF Area
<1>2. term \in Nat \X Nat /\ Settled(mode, Tab.active, cur)
  BY DEF BenchInv
<1> DEFINE new == Content(look', term, Len(tabs))
<1>3. Box(new)
  BY <1>2, ContentIs
<1>4. /\ GoodTab(ResizeAll(Tab, new)) /\ Fits(ResizeAll(Tab, new), new)
      /\ ResizeAll(Tab, new).active = Tab.active
  <2> HIDE DEF new
  <2>1. GoodTab(ResizeAll(Tab, new)) /\ Fits(ResizeAll(Tab, new), new)
    BY <1>1, <1>3, ResizeAllGood
  <2>2. ResizeAll(Tab, new).active = Tab.active
    BY <1>1, <1>3, ResizeAllIs DEF GoodTab
  <2>3. QED
    BY <2>1, <2>2
<1>5. ASSUME NEW t, GoodTab(t), Fits(t, new), Become(t), Settled(mode', t.active, cur),
             UNCHANGED <<phase, cur, term>>, phase = "events"
      PROVE  BenchInv'
  <2>1. tabs' = [tabs EXCEPT ![cur] = t] /\ term' \in Nat \X Nat /\ term' = term
    BY <1>2, <1>5 DEF Become
  <2>2. Fits(t, Content(look', term', Len(tabs)))
    BY <1>5, <2>1
  <2> HIDE DEF new
  <2>3. QED
    BY <1>5, <2>1, <2>2, EventStep
<1>6. \A i : To("normal") => Settled(mode', i, cur)
  BY ModeIs DEF To
<1>7. CASE PrefixStatusBar
  <2>1. Become(ResizeAll(Tab, new)) /\ UNCHANGED <<phase, cur, term>> /\ phase = "events" /\ To("normal")
    BY <1>7 DEF PrefixStatusBar, Loop, Listening
  <2> HIDE DEF new
  <2>2. QED
    BY <1>4, <1>5, <1>6, <2>1
<1>8. CASE PaletteKey
  <2>1. UNCHANGED <<phase, cur, term>> /\ phase = "events" /\ To("normal")
    BY <1>8 DEF PaletteKey, Loop, Listening
  <2>2. \/ \E t \in Commands(Tab) \cup {ClosePane(Tab, Tab.active, Area)} : Become(t) /\ UNCHANGED look
        \/ UNCHANGED <<tabs, look>>
        \/ Become(ResizeAll(Tab, new))
    BY <1>8 DEF PaletteKey
  <2>3. CASE UNCHANGED <<tabs, look>>
    BY <1>6, <2>1, <2>3, StillStep
  <2>4. CASE Become(ResizeAll(Tab, new))
    <3> HIDE DEF new
    <3>1. QED
      BY <1>4, <1>5, <1>6, <2>1, <2>4
  <2>5. ASSUME NEW t \in Commands(Tab) \cup {ClosePane(Tab, Tab.active, Area)}, Become(t), UNCHANGED look
        PROVE  BenchInv'
    <3>1. Edits(t, Tab, Area)
      BY OnScreen, CommandsEdit, ClosePaneGood
    <3>2. tabs' = [tabs EXCEPT ![cur] = t] /\ Settled(mode', t.active, cur)
      BY <1>6, <2>1, <2>5 DEF Become
    <3>3. QED
      BY <2>1, <2>5, <3>1, <3>2, QuietStep
  <2>6. QED
    BY <2>2, <2>3, <2>4, <2>5
<1>9. CASE PanelKey
  <2> DEFINE Asked(l) == [Tab EXCEPT !.unfit = Tab.unfit \/ l # look]
             Fitted(l) == ResizeAll(Tab, Content(l, term, Len(tabs)))
             u == Asked(look')
  <2>1. /\ UNCHANGED <<phase, cur, term, mode>> /\ phase = "events"
        /\ Become(ResizeAll(Tab, new)) \/ Become(u)
    <3>1. UNCHANGED <<phase, cur, term, mode>> /\ phase = "events"
      BY <1>9 DEF PanelKey, Loop, Listening
    <3>2. PICK o \in PanelOutcomes(look) :
            /\ look' = o.look
            /\ Become(IF <<o.look.status, o.look.tabbar>> # <<look.status, look.tabbar>>
                      THEN ResizeAll(Tab, Content(o.look, term, Len(tabs)))
                      ELSE [Tab EXCEPT !.unfit = @ \/ o.look # look])
      BY <1>9 DEF PanelKey
    <3>3. Become(Fitted(o.look)) \/ Become(Asked(o.look))
      BY <3>2
    <3> HIDE DEF Fitted, Asked
    <3>4. Become(Fitted(look')) \/ Become(Asked(look'))
      BY <3>2, <3>3
    <3>5. QED
      BY <3>1, <3>4 DEF Fitted
  <2>2. CASE Become(ResizeAll(Tab, new))
    <3> HIDE DEF new
    <3>1. QED
      BY <1>2, <1>4, <1>5, <2>1, <2>2
  <2>3. CASE Become(u)
    <3>1. /\ DOMAIN u = Fields /\ u.tree = Tab.tree /\ u.next = Tab.next /\ u.size = Tab.size
          /\ u.active = Tab.active /\ u.zoom = Tab.zoom /\ u.stray = Tab.stray
          /\ u.unfit = (Tab.unfit \/ look' # look)
      BY <1>1 DEF GoodTab, Fields
    <3> HIDE DEF u
    <3>2. u.unfit \in BOOLEAN
      BY <3>1
    <3>3. GoodTab(u)
      BY <1>1, <3>1, <3>2 DEF GoodTab, Agrees
    <3>4. Fits(u, new)
      <4>1. CASE look' = look
        <5>1. new = Area
          BY <1>1, <4>1
        <5> HIDE DEF new
        <5>2. u.unfit <=> Tab.unfit
          BY <3>1, <4>1
        <5>3. QED
          BY <1>1, <3>1, <5>1, <5>2 DEF Fits, AllFit
      <4>2. CASE look' # look
        BY <3>1, <4>2 DEF Fits
      <4>3. QED
        BY <4>1, <4>2
    <3> HIDE DEF new
    <3>5. QED
      BY <1>2, <1>5, <2>1, <2>3, <3>1, <3>3, <3>4
  <2> HIDE DEF new, u
  <2>4. QED
    BY <2>1, <2>2, <2>3
<1>10. QED
  BY <1>7, <1>8, <1>9

\* The terminal's size has changed, or has not.
LEMMA RescaledGood ==
    ASSUME BenchInv, NEW trm \in Nat \X Nat
    PROVE  LET u == Rescaled(Tab, trm) IN
           GoodTab(u) /\ Fits(u, Content(look, trm, Len(tabs))) /\ u.active = Tab.active
<1> DEFINE a == Content(look, trm, Len(tabs))
           v == ResizeZoomed(ResizeAll(Tab, a), Tab.zoom, a)
<1>1. GoodTab(Tab) /\ Fits(Tab, Area)
  BY OnScreen
<1>2. Rescaled(Tab, trm) = IF trm = term THEN Tab ELSE v
  BY DEF Rescaled
<1>3. trm = term => a = Area
  BY DEF Area
<1>4. Box(a)
  BY ContentIs
<1> HIDE DEF a
<1>5. GoodTab(v) /\ Fits(v, a) /\ v.active = Tab.active
  BY <1>1, <1>4, ResizeBothGood
<1> HIDE DEF v
<1>6. QED
  BY <1>1, <1>2, <1>3, <1>5 DEF a

\* A step of the loop that rescales the tab on screen.
LEMMA LoopsKeep ==
    ASSUME BenchInv, EndBatch \/ Leave \/ Door
    PROVE  BenchInv'
<1>1. term' \in Nat \X Nat
  <2>1. term' \in Terms \cup {term}
    BY DEF EndBatch, Leave, Door
  <2>2. QED
    BY <2>1, BenchAssumption DEF BenchInv
<1> DEFINE u == Rescaled(Tab, term')
<1>2. GoodTab(u) /\ Fits(u, Content(look, term', Len(tabs))) /\ u.active = Tab.active
  BY <1>1, RescaledGood
<1>3. Become(u) /\ UNCHANGED <<cur, look>> /\ phase' # "top"
  BY DEF EndBatch, Leave, Door
<1> HIDE DEF u
<1>4. Settled(mode, Tab.active, cur)
  BY DEF BenchInv
<1>5. Settled(mode', Tab.active, cur)
  <2>1. \/ mode' = mode
        \/ mode' = [kind |-> "normal"]
        \/ mode.kind = "rename" /\ mode' = [mode EXCEPT !.buf = <<"c">>]
    BY DEF EndBatch, Leave, Door, To
  <2>2. CASE mode' = mode \/ mode' = [kind |-> "normal"]
    BY <1>4, <2>2, ModeIs
  <2>3. CASE mode.kind = "rename" /\ mode' = [mode EXCEPT !.buf = <<"c">>]
    <3>1. "kind" \in DOMAIN mode
      BY <1>4 DEF Settled
    <3>2. "kind" \in DOMAIN mode' /\ mode'.kind = "rename"
      BY <2>3, <3>1
    <3>3. QED
      BY <3>2 DEF Settled
  <2>4. QED
    BY <2>1, <2>2, <2>3
<1>6. tabs' = [tabs EXCEPT ![cur] = u]
  BY <1>3 DEF Become
<1>7. Fits(u, Content(look', term', Len(tabs))) /\ Settled(mode', u.active, cur)
  BY <1>2, <1>3, <1>5
<1>8. QED
  BY <1>1, <1>2, <1>3, <1>6, <1>7, EventStep

\* The same of a list that is named.
LEMMA SeqPutIs ==
    ASSUME NEW s, NEW k, NEW v, NEW u, IsSeq(s), k \in DOMAIN s, u = [s EXCEPT ![k] = v]
    PROVE  /\ IsSeq(u) /\ Len(u) = Len(s) /\ u[k] = v /\ \A i \in 1 .. Len(s) : i # k => u[i] = s[i]
           /\ k \in 1 .. Len(s)
<1>1. k \in 1 .. Len(s)
  <2>1. s \in Seq({s[i] : i \in DOMAIN s})
    BY DEF IsSeq
  <2>2. QED
    BY <2>1, LenProperties
<1>2. QED
  BY <1>1, IsSeqSet

\* A list of good tabs.
GoodTabs(all) == IsSeq(all) /\ \A j \in 1 .. Len(all) : GoodTab(all[j])

\* A good tab put into a list of good tabs.
LEMMA PutGood ==
    ASSUME NEW all, GoodTabs(all), NEW k, k \in DOMAIN all, NEW t, GoodTab(t), NEW u, u = [all EXCEPT ![k] = t]
    PROVE  GoodTabs(u) /\ Len(u) = Len(all) /\ u[k] = t /\ k \in 1 .. Len(all)
<1>1. IsSeq(all)
  BY DEF GoodTabs
<1>2. IsSeq(u)
  BY <1>1, SeqPutIs
<1>3. Len(u) = Len(all) /\ u[k] = t
  BY <1>1, SeqPutIs
<1>4. \A i \in 1 .. Len(all) : i # k => u[i] = all[i]
  BY <1>1, SeqPutIs
<1>5. k \in 1 .. Len(all)
  BY <1>1, SeqPutIs
<1>6. \A j \in 1 .. Len(u) : GoodTab(u[j])
  BY <1>3, <1>4 DEF GoodTabs
<1>7. QED
  BY <1>2, <1>3, <1>5, <1>6 DEF GoodTabs

\* Another list of good tabs, one of them on screen.
LEMMA PutKeeps ==
    ASSUME NEW all, GoodTabs(all), NEW k, k \in DOMAIN all,
           NEW t, GoodTab(t), Fits(t, Content(look', term', Len(all))),
           tabs' = [all EXCEPT ![k] = t], cur' = k, term' \in Nat \X Nat,
           phase' # "top", Settled(mode', t.active, k)
    PROVE  BenchInv'
<1>1. GoodTabs(tabs') /\ Len(tabs') = Len(all) /\ tabs'[k] = t /\ k \in 1 .. Len(all)
  <2>1. GoodTabs(tabs')
    BY PutGood
  <2>2. Len(tabs') = Len(all) /\ tabs'[k] = t
    BY PutGood
  <2>3. k \in 1 .. Len(all)
    BY PutGood
  <2>4. QED
    BY <2>1, <2>2, <2>3
<1>2. TabsOk'
  BY <1>1 DEF TabsOk, GoodTabs
<1>3. Tab' = t
  BY <1>1 DEF Tab
<1>4. Area' = Content(look', term', Len(all))
  BY <1>1 DEF Area
<1>5. Fits(Tab', Area') /\ Settled(mode', Tab'.active, cur')
  BY <1>3, <1>4
<1>6. (phase = "top" => Zoomed)'
  OBVIOUS
<1>7. QED
  BY <1>2, <1>5, <1>6 DEF BenchInv

\* A tab comes on screen: its panes are resized.
LEMMA ShowKeeps ==
    ASSUME BenchInv, NEW all, GoodTabs(all), NEW k, k \in 1 .. Len(all),
           Show(all, k), UNCHANGED <<look, term>>, phase' # "top", Settled(mode', all[k].active, k)
    PROVE  BenchInv'
<1> DEFINE a == Content(look, term, Len(all))
           t == ResizeAll(all[k], a)
<1>1. term \in Nat \X Nat
  BY DEF BenchInv
<1>2. Box(a)
  BY <1>1, ContentIs
<1>3. tabs' = [all EXCEPT ![k] = t] /\ cur' = k
  BY DEF Show
<1>4. a = Content(look', term', Len(all))
  OBVIOUS
<1> HIDE DEF a
<1>4a. GoodTab(all[k]) /\ k \in DOMAIN all
  <2>1. IsSeq(all)
    BY DEF GoodTabs
  <2>2. DOMAIN all = 1 .. Len(all)
    <3>1. all \in Seq({all[i] : i \in DOMAIN all})
      BY <2>1 DEF IsSeq
    <3>2. QED
      BY <3>1, LenProperties
  <2>3. QED
    BY <2>2 DEF GoodTabs
<1>5. GoodTab(t) /\ Fits(t, a)
  BY <1>2, <1>4a, ResizeAllGood
<1>6. t.active = all[k].active
  BY <1>2, <1>4a, ResizeAllIs DEF GoodTab
<1> HIDE DEF t
<1>7. term' \in Nat \X Nat /\ Settled(mode', t.active, k) /\ Fits(t, Content(look', term', Len(all)))
  BY <1>1, <1>4, <1>5, <1>6
<1>8. QED
  BY <1>3, <1>5, <1>7, <1>4a, PutKeeps

\* The tabs without the one on screen.
LEMMA WithoutGood ==
    ASSUME BenchInv, Len(tabs) # 1
    PROVE  /\ IsSeq(WithoutTab(cur)) /\ Len(WithoutTab(cur)) = Len(tabs) - 1
           /\ Least(cur, Len(tabs) - 1) \in 1 .. Len(tabs) - 1
           /\ \A j \in 1 .. Len(tabs) - 1 : GoodTab(WithoutTab(cur)[j])
<1>1. IsSeq(tabs) /\ cur \in 1 .. Len(tabs) /\ \A k \in 1 .. Len(tabs) : GoodTab(tabs[k])
  BY DEF BenchInv, TabsOk
<1>2. /\ IsSeq(WithoutTab(cur)) /\ Len(WithoutTab(cur)) = Len(tabs) - 1
      /\ \A j \in 1 .. Len(WithoutTab(cur)) : \E i \in 1 .. Len(tabs) : WithoutTab(cur)[j] = tabs[i]
  BY <1>1, RemoveAtIs DEF WithoutTab
<1>3. Len(tabs) \in Nat
  BY <1>1, IsSeqSet
<1>4. Least(cur, Len(tabs) - 1) \in 1 .. Len(tabs) - 1
  <2> DEFINE n == Len(tabs)
  <2>1. n \in Nat /\ cur \in 1 .. n /\ n # 1
    BY <1>1, <1>3
  <2> HIDE DEF n
  <2>2. Least(cur, n - 1) \in 1 .. n - 1
    BY <2>1 DEF Least
  <2>3. QED
    BY <2>2 DEF n
<1>5. QED
  BY <1>1, <1>2, <1>4

\* The tab action of a batch: a tab is opened, closed or chosen.
LEMMA ActKeeps ==
    ASSUME BenchInv, Act
    PROVE  BenchInv'
<1>1. UNCHANGED <<look, term>>
  BY DEF Act
<1>2. \/ OpenTab \/ CloseTab \/ Gone \/ \E k : SwitchTab(k)
      \/ phase' = "ipc" /\ UNCHANGED <<tabs, cur, mode, cache>>
  BY DEF Act
<1>3. IsSeq(tabs) /\ cur \in 1 .. Len(tabs) /\ (\A k \in 1 .. Len(tabs) : GoodTab(tabs[k]))
      /\ Settled(mode, Tab.active, cur)
  BY DEF BenchInv, TabsOk
<1>3a. GoodTabs(tabs)
  BY <1>3 DEF GoodTabs
<1>4. Len(tabs) \in Nat /\ DOMAIN tabs = 1 .. Len(tabs)
  BY <1>3, IsSeqSet
<1>5. \A i, k : To("normal") => Settled(mode', i, k)
  BY ModeIs DEF To
<1>6. CASE UNCHANGED <<tabs, cur, mode>> /\ phase' # "top"
  BY <1>1, <1>3, <1>6, StillStep
<1>7. CASE Gone
  BY <1>6, <1>7 DEF Gone
<1>8. CASE CloseTab
  <2>1. CASE Len(tabs) = 1
    BY <1>7, <1>8, <2>1 DEF CloseTab
  <2>2. CASE Len(tabs) # 1
    <3> DEFINE all == WithoutTab(cur)
               k == Least(cur, Len(tabs) - 1)
    <3>1. Show(all, k) /\ To("normal") /\ phase' = "ipc"
      BY <1>8, <2>2 DEF CloseTab
    <3>2. IsSeq(all) /\ Len(all) = Len(tabs) - 1 /\ k \in 1 .. Len(all) /\ \A j \in 1 .. Len(all) : GoodTab(all[j])
      BY <2>2, WithoutGood
    <3> HIDE DEF all, k
    <3>3. Settled(mode', all[k].active, k)
      BY <1>5, <3>1
    <3>4. GoodTabs(all)
      BY <3>2 DEF GoodTabs
    <3>5. QED
      BY <1>1, <3>1, <3>2, <3>3, <3>4, ShowKeeps
  <2>3. QED
    BY <2>1, <2>2
<1>9. ASSUME NEW k, SwitchTab(k)
      PROVE  BenchInv'
  <2>1. CASE k = cur \/ k \notin DOMAIN tabs
    BY <1>6, <1>9, <2>1 DEF SwitchTab
  <2>2. CASE ~(k = cur \/ k \notin DOMAIN tabs)
    <3>1. Show(tabs, k) /\ To("normal") /\ phase' = "ipc" /\ k \in 1 .. Len(tabs)
      BY <1>4, <1>9, <2>2 DEF SwitchTab
    <3>2. Settled(mode', tabs[k].active, k)
      BY <1>5, <3>1
    <3>3. QED
      BY <1>1, <1>3a, <3>1, <3>2, ShowKeeps
  <2>3. QED
    BY <2>1, <2>2
<1>10. CASE OpenTab
  <2> DEFINE new == NewTab(1, Content(look, term, Len(tabs) + 1))
             all == Append(tabs, new)
             n == Len(tabs)
  <2>1. phase' = "ipc"
    BY <1>10 DEF OpenTab
  <2>2. CASE Show(all, n + 1) /\ To("normal")
    <3>1. GoodTab(new)
      <4> DEFINE a == Content(look, term, Len(tabs) + 1)
      <4>1. Box(a)
        BY ContentIs DEF BenchInv
      <4> HIDE DEF a
      <4>2. GoodTab(NewTab(1, a))
        BY <4>1, NewTabGood
      <4>3. QED
        BY <4>2 DEF a
    <3> HIDE DEF new
    <3>2. /\ IsSeq(all) /\ Len(all) = n + 1 /\ all[n + 1] = new
          /\ \A i \in 1 .. n : all[i] = tabs[i]
      BY <1>3, IsSeqAppend
    <3> HIDE DEF all
    <3>3. n + 1 \in 1 .. Len(all) /\ \A j \in 1 .. Len(all) : GoodTab(all[j])
      <4>1. n \in Nat
        BY <1>4
      <4>2. \A j \in 1 .. n + 1 : j = n + 1 \/ j \in 1 .. n
        BY <4>1
      <4>3. \A j \in 1 .. n : GoodTab(all[j])
        BY <1>3, <3>2
      <4> HIDE DEF n
      <4>4. n + 1 \in 1 .. Len(all)
        BY <3>2, <4>1
      <4>5. QED
        BY <3>1, <3>2, <4>2, <4>3, <4>4
    <3> HIDE DEF n
    <3>4. Settled(mode', all[n + 1].active, n + 1)
      BY <1>5, <2>2
    <3>5. GoodTabs(all)
      BY <3>2, <3>3 DEF GoodTabs
    <3>6. QED
      BY <1>1, <2>1, <2>2, <3>2, <3>3, <3>4, <3>5, ShowKeeps
  <2>3. CASE Show(tabs, n) /\ mode' = IF cur = n THEN mode ELSE Unsettled(mode)
    <3>1. n \in 1 .. Len(tabs)
      BY <1>3, <1>4
    <3>2. Settled(mode', tabs[n].active, n)
      <4>1. CASE cur = n
        BY <1>3, <2>3, <4>1 DEF Tab
      <4>2. CASE cur # n
        BY <1>3, <2>3, <4>2, ModeIs
      <4>3. QED
        BY <4>1, <4>2
    <3> HIDE DEF n
    <3>3. QED
      BY <1>1, <1>3a, <2>1, <2>3, <3>1, <3>2, ShowKeeps
  <2>4. QED
    BY <1>10, <2>2, <2>3 DEF OpenTab
<1>11. QED
  BY <1>2, <1>6, <1>7, <1>8, <1>9, <1>10

\* A control request; if it moves the focus the question is open again.
LEMMA IpcKeeps ==
    ASSUME BenchInv, Ipc
    PROVE  BenchInv'
<1>1. phase' = "ipc" /\ UNCHANGED <<cur, look, term>>
  BY DEF Ipc
<1>2. Settled(mode, Tab.active, cur)
  BY DEF BenchInv
<1>3. \/ \E t \in IpcEdits(Tab) : Become(t) /\ mode' = IF tabs'[cur].active # Tab.active THEN Unsettled(mode) ELSE mode
      \/ UNCHANGED <<tabs, mode>>
  BY DEF Ipc
<1>4. CASE UNCHANGED <<tabs, mode>>
  BY <1>1, <1>2, <1>4, StillStep
<1>5. ASSUME NEW t \in IpcEdits(Tab), Become(t), mode' = IF tabs'[cur].active # Tab.active THEN Unsettled(mode) ELSE mode
      PROVE  BenchInv'
  <2>1. Edits(t, Tab, Area) /\ tabs' = [tabs EXCEPT ![cur] = t]
    BY <1>5, IpcEditsEdit DEF Become
  <2>2. tabs'[cur] = t
    <3>1. Tab' = t
      BY <1>1, <2>1, Becomes DEF Edits
    <3>2. QED
      BY <1>1, <3>1 DEF Tab
  <2>3. Settled(mode', t.active, cur)
    BY <1>2, <1>5, <2>2, ModeIs
  <2>4. QED
    BY <1>1, <2>1, <2>3, QuietStep
<1>6. QED
  BY <1>3, <1>4, <1>5

\* The invariant holds at first: one tab of two panes.
LEMMA BenchInitKeeps ==
    ASSUME BenchInit
    PROVE  BenchInv
<1>1. term \in Nat \X Nat
  <2>1. \E t \in Terms : \A u \in Terms : t[1] >= u[1]
    BY BenchAssumption
  <2>2. term \in Terms
    BY <2>1 DEF BenchInit
  <2>3. QED
    BY <2>2, BenchAssumption
<1> DEFINE a == Content(look, term, 1)
           t == NewTab(2, a)
<1>2. Box(a)
  BY <1>1, ContentIs
<1>3. tabs = <<t>> /\ cur = 1 /\ mode = [kind |-> "normal"] /\ phase = "events"
  BY DEF BenchInit
<1>4. Area = a
  <2>1. Len(tabs) = 1
    BY <1>3
  <2>2. QED
    BY <2>1 DEF Area
<1> HIDE DEF a
<1>5. GoodTab(t) /\ Fits(t, a)
  BY <1>2, NewTabGood
<1> HIDE DEF t
<1>6. Len(tabs) = 1 /\ tabs[1] = t
  BY <1>3
<1>7. IsSeq(tabs)
  <2>1. DOMAIN tabs = {1} /\ tabs \in Seq({t})
    BY <1>3
  <2>2. {tabs[i] : i \in DOMAIN tabs} = {t}
    BY <1>6, <2>1
  <2>3. QED
    BY <2>1, <2>2 DEF IsSeq
<1>8. TabsOk
  BY <1>3, <1>5, <1>6, <1>7 DEF TabsOk
<1>9. Tab = t
  BY <1>3, <1>6 DEF Tab
<1>10. Settled(mode, Tab.active, cur)
  BY <1>3, ModeIs
<1>11. QED
  BY <1>1, <1>3, <1>4, <1>5, <1>8, <1>9, <1>10 DEF BenchInv

\* The end of a round: zoom follows the focus, and the frame is drawn.
LEMMA DrawKeeps ==
    ASSUME BenchInv, Draw
    PROVE  BenchInv'
<1> DEFINE v == [Tab EXCEPT !.zoom = Tab.active]
           u == ResizeZoomed(v, Tab.active, Area)
           w == IF Tab.zoom = None THEN Tab ELSE u
<1>1. tabs' = [tabs EXCEPT ![cur] = w] /\ cur' = cur /\ look' = look /\ term' = term /\ mode' = mode
  BY DEF Draw, Become
<1>2. GoodTab(Tab) /\ Fits(Tab, Area) /\ Tab.active \in 0 .. Tab.next - 1
  BY OnScreen
<1>3. GoodTab(v) /\ v.size = Tab.size /\ v.active = Tab.active /\ v.zoom = Tab.active /\ DOMAIN v = Fields
  <2>1. GoodTab(v) /\ v.size = Tab.size /\ v.active = Tab.active /\ v.zoom = Tab.active
    BY <1>2, ZoomedGood
  <2>2. QED
    BY <2>1 DEF GoodTab
<1> HIDE DEF v
<1>4. u.active = Tab.active /\ u.zoom = Tab.active /\ DOMAIN u.size = DOMAIN Tab.size
      /\ (Tab.active \in DOMAIN Tab.size => u.size[Tab.active] = DimsOf(Area))
  BY <1>3, ResizeZoomedIs
<1>5. GoodTab(u)
  BY <1>3, ResizeZoomedGood
<1>6. u.zoom # None
  <2>1. Tab.active \in Nat
    BY <1>2 DEF GoodTab
  <2>2. QED
    BY <1>4, <2>1, NoneAssumption
<1> HIDE DEF u
<1>7. /\ GoodTab(w) /\ Fits(w, Area) /\ w.active = Tab.active /\ w.zoom \in {None, w.active}
      /\ w.zoom # None /\ w.active \in DOMAIN w.size => w.size[w.active] = DimsOf(Area)
  <2>1. CASE Tab.zoom = None
    BY <1>2, <2>1
  <2>2. CASE Tab.zoom # None
    BY <1>4, <1>5, <1>6, <2>2 DEF Fits
  <2>3. QED
    BY <2>1, <2>2
<1> HIDE DEF w
<1>8. TabsOk' /\ Len(tabs') = Len(tabs) /\ Tab' = w
  BY <1>1, <1>7, Becomes
<1>9. Area' = Area
  BY <1>1, <1>8 DEF Area
<1>10. Zoomed'
  BY <1>7, <1>8, <1>9 DEF Zoomed
<1>11. Settled(mode', Tab'.active, cur')
  BY <1>1, <1>7, <1>8 DEF BenchInv
<1>12. term' \in Nat \X Nat
  BY <1>1 DEF BenchInv
<1>13. QED
  BY <1>7, <1>8, <1>9, <1>10, <1>11, <1>12 DEF BenchInv

\* A changed configuration: the panes are resized, the zoomed one last.
LEMMA ReloadKeeps ==
    ASSUME BenchInv, Reload
    PROVE  BenchInv'
<1>1. PICK o \in ReloadConfig(look) :
        /\ look' = o.look
        /\ Become(IF o.dirty THEN ResizeZoomed(ResizeAll(Tab, Content(o.look, term, Len(tabs))), Tab.zoom,
                                               Content(o.look, term, Len(tabs)))
                  ELSE Tab)
  BY DEF Reload
<1>2. phase = "top" /\ UNCHANGED <<cur, mode, term>>
  BY DEF Reload
<1>3. o.dirty \/ o.look = look
  <2>1. o = [look |-> look, dirty |-> FALSE] \/ o \in [look : Looks, dirty : {TRUE}]
    BY DEF ReloadConfig
  <2>2. CASE o = [look |-> look, dirty |-> FALSE]
    BY <2>2
  <2>3. CASE o \in [look : Looks, dirty : {TRUE}]
    BY <2>3
  <2>4. QED
    BY <2>1, <2>2, <2>3
<1> DEFINE a == Content(o.look, term, Len(tabs))
           u == ResizeZoomed(ResizeAll(Tab, a), Tab.zoom, a)
           w == IF o.dirty THEN u ELSE Tab
<1>4. tabs' = [tabs EXCEPT ![cur] = w]
  BY <1>1 DEF Become
<1>5. term \in Nat \X Nat /\ Zoomed /\ Settled(mode, Tab.active, cur)
  BY <1>2 DEF BenchInv
<1>6. Box(a)
  BY <1>5, ContentIs
<1>7. o.look = look => a = Area
  BY DEF Area
<1>8. GoodTab(Tab) /\ Fits(Tab, Area)
  BY OnScreen
<1>9. a = Content(look', term', Len(tabs))
  BY <1>1, <1>2
<1> HIDE DEF a
<1>10. /\ GoodTab(u) /\ Fits(u, a) /\ u.active = Tab.active /\ u.zoom = Tab.zoom
       /\ DOMAIN u.size = DOMAIN Tab.size
       /\ Tab.zoom \in DOMAIN Tab.size => u.size[Tab.zoom] = DimsOf(a)
  BY <1>6, <1>8, ResizeBothGood
<1> HIDE DEF u
<1>11. /\ GoodTab(w) /\ Fits(w, a) /\ w.active = Tab.active /\ w.zoom \in {None, w.active}
       /\ w.zoom # None /\ w.active \in DOMAIN w.size => w.size[w.active] = DimsOf(a)
  <2>1. CASE o.dirty
    BY <1>5, <1>10, <2>1 DEF Zoomed
  <2>2. CASE ~o.dirty
    BY <1>3, <1>5, <1>7, <1>8, <2>2 DEF Zoomed
  <2>3. QED
    BY <2>1, <2>2
<1> HIDE DEF w
<1>12. TabsOk' /\ Len(tabs') = Len(tabs) /\ Tab' = w
  BY <1>2, <1>4, <1>11, Becomes
<1>13. Area' = a
  BY <1>9, <1>12 DEF Area
<1>14. Zoomed'
  BY <1>11, <1>12, <1>13 DEF Zoomed
<1>15. Settled(mode', Tab'.active, cur')
  BY <1>2, <1>5, <1>11, <1>12
<1>16. term' \in Nat \X Nat
  BY <1>2, <1>5
<1>17. QED
  BY <1>11, <1>12, <1>13, <1>14, <1>15, <1>16 DEF BenchInv

\* Programs that end leave their panes where they are.
LEMMA DeadGood ==
    ASSUME NEW t, GoodTab(t), NEW die
    PROVE  LET u == [t EXCEPT !.dead = @ \cup die] IN
           GoodTab(u) /\ u.active = t.active /\ \A area : Fits(t, area) => Fits(u, area)
<1> DEFINE u == [t EXCEPT !.dead = @ \cup die]
<1>1. /\ DOMAIN u = Fields /\ u.tree = t.tree /\ u.next = t.next /\ u.size = t.size
      /\ u.active = t.active /\ u.zoom = t.zoom /\ u.stray = t.stray /\ u.unfit = t.unfit
  BY DEF GoodTab, Fields
<1> HIDE DEF u
<1>2. GoodTab(u)
  BY <1>1 DEF GoodTab, Agrees
<1>3. \A area : AllFit(t, area) => AllFit(u, area)
  BY <1>1 DEF AllFit
<1>4. \A area : Fits(t, area) => Fits(u, area)
  BY <1>1, <1>3 DEF Fits
<1>5. QED
  BY <1>1, <1>2, <1>4 DEF u

\* Programs end; a tab without a living one is closed, zoom is repaired.
LEMMA TopKeeps ==
    ASSUME BenchInv, Top
    PROVE  BenchInv'
<1>1. UNCHANGED <<look, term>>
  BY DEF Top
<1>2. term \in Nat \X Nat /\ Settled(mode, Tab.active, cur)
  BY DEF BenchInv
<1>3. CASE Gone
  BY <1>1, <1>2, <1>3, StillStep DEF Gone
<1>4. ASSUME NEW die, phase' = "door", Become(HealZoom([Tab EXCEPT !.dead = @ \cup die], Area)), UNCHANGED <<cur, mode>>
      PROVE  BenchInv'
  <2> DEFINE t == [Tab EXCEPT !.dead = @ \cup die]
             u == HealZoom(t, Area)
  <2>1. GoodTab(Tab) /\ Fits(Tab, Area) /\ Box(Area)
    BY OnScreen
  <2>2. GoodTab(t) /\ t.active = Tab.active /\ Fits(t, Area)
    BY <2>1, DeadGood
  <2> HIDE DEF t
  <2>3. GoodTab(u) /\ Fits(u, Area) /\ u.active = Tab.active
    BY <2>1, <2>2, HealZoomGood DEF Edits
  <2>4. tabs' = [tabs EXCEPT ![cur] = u]
    BY <1>4 DEF Become, t
  <2> HIDE DEF u
  <2>5. Edits(u, Tab, Area) /\ Settled(mode', u.active, cur)
    BY <1>2, <1>4, <2>3 DEF Edits
  <2>6. QED
    BY <1>1, <1>4, <2>4, <2>5, QuietStep
<1> DEFINE k == Least(cur, Len(tabs) - 1)
           all == WithoutTab(cur)
           n == all[k]
           a == Content(look, term, Len(tabs) - 1)
           u == HealZoom(ResizeAll(n, a), a)
<1>5. CASE /\ Len(tabs) # 1 /\ phase' = "door" /\ cur' = k
           /\ tabs' = [all EXCEPT ![k] = u] /\ To("normal")
  <2>1. /\ IsSeq(all) /\ Len(all) = Len(tabs) - 1 /\ k \in 1 .. Len(all)
        /\ \A j \in 1 .. Len(all) : GoodTab(all[j])
    BY <1>5, WithoutGood
  <2>2. Box(a)
    BY <1>2, ContentIs
  <2>3. a = Content(look', term', Len(all))
    BY <1>1, <2>1
  <2> HIDE DEF k, all, a
  <2>4. GoodTabs(all)
    BY <2>1 DEF GoodTabs
  <2>5. k \in DOMAIN all /\ GoodTab(n)
    <3>1. all \in Seq({all[i] : i \in DOMAIN all})
      BY <2>1 DEF IsSeq
    <3>2. DOMAIN all = 1 .. Len(all)
      BY <3>1, LenProperties
    <3>3. QED
      BY <2>1, <3>2
  <2> HIDE DEF n
  <2>6. GoodTab(u) /\ Fits(u, a)
    <3>1. GoodTab(ResizeAll(n, a)) /\ Fits(ResizeAll(n, a), a)
      BY <2>2, <2>5, ResizeAllGood
    <3>2. QED
      BY <2>2, <3>1, HealZoomGood DEF Edits
  <2> HIDE DEF u
  <2>7. Settled(mode', u.active, k)
    BY <1>5, ModeIs DEF To
  <2>8. Fits(u, Content(look', term', Len(all))) /\ term' \in Nat \X Nat /\ phase' # "top"
    BY <1>1, <1>2, <1>5, <2>3, <2>6
  <2>9. QED
    BY <1>5, <2>4, <2>5, <2>6, <2>7, <2>8, PutKeeps
<1>6. PICK die : LET t == [Tab EXCEPT !.dead = @ \cup die] IN
        IF DOMAIN t.size # t.dead
        THEN phase' = "door" /\ Become(HealZoom(t, Area)) /\ UNCHANGED <<cur, mode>>
        ELSE \/ Gone
             \/ /\ Len(tabs) # 1 /\ phase' = "door" /\ cur' = k
                /\ tabs' = [all EXCEPT ![k] = u] /\ To("normal")
  BY DEF Top
<1> HIDE DEF k, all, a, n, u
<1>7. QED
  BY <1>3, <1>4, <1>5, <1>6

\* Every step of a round keeps the invariant.
LEMMA BenchKeeps ==
    ASSUME BenchInv, BenchNext
    PROVE  BenchInv'
<1>1. CASE Opening
  BY <1>1, KeysKeep DEF Opening
<1>2. CASE Event
  <2>1. CASE PrefixEdit \/ BoundKey \/ ResizeKey \/ Respawn
    BY <2>1, EditKeysKeep
  <2>2. CASE PrefixOther \/ PrefixDetach \/ HelpKey \/ RenameKey \/ CopyKey \/ ClientGone
    BY <2>2, KeysKeep
  <2>3. CASE PrefixStatusBar \/ PaletteKey \/ PanelKey
    BY <2>3, SettingsKeep
  <2>4. CASE \E b \in TabActions : PrefixTab(b)
    BY <2>4, KeysKeep
  <2>5. CASE \E yes \in BOOLEAN : ConfirmClose(yes)
    BY <2>5, EditKeysKeep
  <2>6. CASE \E yes \in BOOLEAN : ConfirmTab(yes) \/ ConfirmQuit(yes)
    BY <2>6, KeysKeep
  <2>7. CASE \E n \in 1 .. MaxPanes + 1 : SelectKey(n)
    BY <2>7, EditKeysKeep
  <2>8. CASE \E i \in 0 .. MaxId, d \in BOOLEAN : ClickPane(i, d)
    BY <2>8, ClicksKeep
  <2>9. CASE \E i \in 0 .. MaxId, d \in BOOLEAN : ClickTabBar(i, d)
    BY <2>9, KeysKeep
  <2>10. CASE \E i \in 0 .. MaxId, split \in {"no", "h", "v"} : ClickTitle(i, split)
    BY <2>10, ClicksKeep
  <2>11. QED
    BY <1>2, <2>1, <2>2, <2>3, <2>4, <2>5, <2>6, <2>7, <2>8, <2>9, <2>10 DEF Event
<1>3. CASE Ipc
  BY <1>3, IpcKeeps
<1>4. CASE Reload
  BY <1>4, ReloadKeeps
<1>5. CASE EndBatch \/ Leave \/ Door
  BY <1>5, LoopsKeep
<1>6. CASE Act
  BY <1>6, ActKeeps
<1>7. CASE Draw
  BY <1>7, DrawKeeps
<1>8. CASE Top
  BY <1>8, TopKeeps
<1>9. QED
  BY <1>1, <1>2, <1>3, <1>4, <1>5, <1>6, <1>7, <1>8 DEF BenchNext

\* The inductive invariant of the main loop's tabs and modes: every tab is a
\* good one, the panes of the tab on screen have the sizes of its layout, and
\* an open question is about the focused pane, before and after every step of
\* a round (event handlers, tab actions, control requests and repairs).
THEOREM SpecImpliesBenchInv == Spec => []BenchInv
<1>1. Init => BenchInv
  BY BenchInitKeeps DEF Init
<1>2. BenchInv /\ [Next]_editVars => BenchInv'
  <2> SUFFICES ASSUME BenchInv, [Next]_editVars
               PROVE  BenchInv'
    OBVIOUS
  <2>1. CASE BenchNext
    BY <2>1, BenchKeeps
  <2>2. CASE UNCHANGED benchVars
    BY <2>2 DEF benchVars, BenchInv, TabsOk, Tab, Area, Zoomed
  <2>3. QED
    BY <2>1, <2>2 DEF Next, editVars
<1>3. QED
  BY <1>1, <1>2, PTL DEF Spec

\* "Close this pane?" is answered for the pane that was asked about, whatever
\* other clients, dying panes and tab actions do before the answer.
THEOREM SpecImpliesAnswerIsForAsked == Spec => []AnswerIsForAsked
<1>1. BenchInv => AnswerIsForAsked
  BY DEF BenchInv, Settled, AnswerIsForAsked
<1>2. QED
  BY <1>1, SpecImpliesBenchInv, PTL

\* When a frame is drawn every pane has the size the frame gives it, unless
\* panes were swapped or a border was chosen since the last resize_all.
THEOREM SpecImpliesPanesFit == Spec => []PanesFit
<1>1. BenchInv => PanesFit
  BY DEF BenchInv, Fits, AllFit, Zoomed, PanesFit
<1>2. QED
  BY <1>1, SpecImpliesBenchInv, PTL

\* When a frame is drawn pane map, layout, focus and zoom agree in every tab,
\* but where a title bar was clicked under zoom after its pane was closed.
THEOREM SpecImpliesViewsAgree == Spec => []ViewsAgree
<1>1. BenchInv => ViewsAgree
  <2> SUFFICES ASSUME BenchInv, phase = "top"
               PROVE  /\ \A k \in DOMAIN tabs :
                           \/ tabs[k].stray
                           \/ /\ \/ DOMAIN tabs[k].size = Ids(tabs[k].tree)
                                 \/ DOMAIN tabs[k].size = {} /\ IsLeaf(tabs[k].tree)
                              /\ tabs[k].active \in Ids(tabs[k].tree)
                              /\ \A i \in Ids(tabs[k].tree) : i < tabs[k].next
                      /\ Tab.zoom \in {None, Tab.active}
    BY DEF ViewsAgree
  <2>1. DOMAIN tabs = 1 .. Len(tabs)
    BY IsSeqSet DEF BenchInv, TabsOk
  <2>2. ASSUME NEW k \in DOMAIN tabs
        PROVE  \/ tabs[k].stray
               \/ /\ \/ DOMAIN tabs[k].size = Ids(tabs[k].tree)
                     \/ DOMAIN tabs[k].size = {} /\ IsLeaf(tabs[k].tree)
                  /\ tabs[k].active \in Ids(tabs[k].tree)
                  /\ \A i \in Ids(tabs[k].tree) : i < tabs[k].next
    <3>1. GoodTab(tabs[k])
      BY <2>1, <2>2 DEF BenchInv, TabsOk
    <3>2. \A i \in Ids(tabs[k].tree) : i < tabs[k].next
      BY <3>1 DEF GoodTab
    <3>3. QED
      BY <3>1, <3>2 DEF GoodTab, Agrees
  <2>3. Tab.zoom \in {None, Tab.active}
    BY DEF BenchInv, Zoomed
  <2>4. QED
    BY <2>2, <2>3
<1>2. QED
  BY <1>1, SpecImpliesBenchInv, PTL

-----------------------------------------------------------------------------
(* Tiling.                                                                 *)

\* The separator's cells between the halves of an area.
OnBar(d, a, b, c, x, y) ==
    IF d = "h" THEN c.w > 0 /\ x = b.x + b.w /\ a.y <= y /\ y < a.y + a.h
               ELSE c.h > 0 /\ y = b.y + b.h /\ a.x <= x /\ x < a.x + a.w

\* A cell at the side of an area that is not empty.
OnEdge(a, x, y) ==
    /\ a.w > 0 /\ a.h > 0
    /\ \/ (x = a.x - 1 \/ x = a.x + a.w) /\ a.y <= y /\ y < a.y + a.h
       \/ (y = a.y - 1 \/ y = a.y + a.h) /\ a.x <= x /\ x < a.x + a.w

\* A cell of an area is in one of its halves or on the separator; what is at
\* the side of a half is at the side of the area or on the separator.
LEMMA HalvesTile ==
    ASSUME NEW a, Areal(a), NEW d \in {"h", "v"}, NEW ratio \in Int, NEW x \in Int, NEW y \in Int
    PROVE  LET s == SplitArea(a, d, ratio) IN
           /\ Contains(a, x, y) <=>
                Contains(s[1], x, y) \/ Contains(s[2], x, y) \/ OnBar(d, a, s[1], s[2], x, y)
           /\ OnBar(d, a, s[1], s[2], x, y) => ~Contains(s[1], x, y) /\ ~Contains(s[2], x, y)
           /\ OnEdge(s[1], x, y) => OnEdge(a, x, y) \/ OnBar(d, a, s[1], s[2], x, y)
           /\ OnEdge(s[2], x, y) => OnEdge(a, x, y) \/ OnBar(d, a, s[1], s[2], x, y)
<1> DEFINE b == SplitArea(a, d, ratio)[1]
           c == SplitArea(a, d, ratio)[2]
<1>1. PICK m \in Nat, n \in Nat : Halves(d, a, b, c, m, n)
  BY SplitHalves
<1> HIDE DEF b, c
<1>2. Areal(b) /\ Areal(c)
  BY <1>1, HalvesAre
<1>3. /\ a.x \in Nat /\ a.y \in Nat /\ a.w \in Nat /\ a.h \in Nat
      /\ b.x \in Nat /\ b.y \in Nat /\ b.w \in Nat /\ b.h \in Nat
      /\ c.x \in Nat /\ c.y \in Nat /\ c.w \in Nat /\ c.h \in Nat
  BY <1>2 DEF Areal, Cells
<1> DEFINE Tile == /\ Contains(a, x, y) <=> Contains(b, x, y) \/ Contains(c, x, y) \/ OnBar(d, a, b, c, x, y)
                   /\ OnBar(d, a, b, c, x, y) => ~Contains(b, x, y) /\ ~Contains(c, x, y)
                   /\ OnEdge(b, x, y) => OnEdge(a, x, y) \/ OnBar(d, a, b, c, x, y)
                   /\ OnEdge(c, x, y) => OnEdge(a, x, y) \/ OnBar(d, a, b, c, x, y)
<1>4. ASSUME d = "h" PROVE Tile
  <2>1. /\ b.x = a.x /\ b.y = a.y /\ b.h = a.h /\ c.y = a.y /\ c.h = a.h
        /\ \/ c.w = 0 /\ c.x = a.x /\ b.w = a.w
           \/ c.w > 0 /\ b.w > 0 /\ c.x = a.x + b.w + 1 /\ b.w + 1 + c.w = a.w
    BY <1>1, <1>4, HalvesAre
  <2>2. Contains(a, x, y) => Contains(b, x, y) \/ Contains(c, x, y) \/ OnBar(d, a, b, c, x, y)
    BY <1>3, <1>4, <2>1 DEF Contains, OnBar
  <2>3. Contains(b, x, y) \/ Contains(c, x, y) \/ OnBar(d, a, b, c, x, y) => Contains(a, x, y)
    BY <1>3, <1>4, <2>1 DEF Contains, OnBar
  <2>4. OnBar(d, a, b, c, x, y) => ~Contains(b, x, y) /\ ~Contains(c, x, y)
    BY <1>3, <1>4, <2>1 DEF Contains, OnBar
  <2>5. OnEdge(b, x, y) => OnEdge(a, x, y) \/ OnBar(d, a, b, c, x, y)
    BY <1>3, <1>4, <2>1 DEF OnEdge, OnBar
  <2>6. OnEdge(c, x, y) => OnEdge(a, x, y) \/ OnBar(d, a, b, c, x, y)
    BY <1>3, <1>4, <2>1 DEF OnEdge, OnBar
  <2>7. QED
    BY <2>2, <2>3, <2>4, <2>5, <2>6
<1>5. ASSUME d # "h" PROVE Tile
  <2>1. /\ b.x = a.x /\ b.y = a.y /\ b.w = a.w /\ c.x = a.x /\ c.w = a.w
        /\ \/ c.h = 0 /\ c.y = a.y /\ b.h = a.h
           \/ c.h > 0 /\ b.h > 0 /\ c.y = a.y + b.h + 1 /\ b.h + 1 + c.h = a.h
    BY <1>1, <1>5, HalvesAre
  <2>2. Contains(a, x, y) => Contains(b, x, y) \/ Contains(c, x, y) \/ OnBar(d, a, b, c, x, y)
    BY <1>3, <1>5, <2>1 DEF Contains, OnBar
  <2>3. Contains(b, x, y) \/ Contains(c, x, y) \/ OnBar(d, a, b, c, x, y) => Contains(a, x, y)
    BY <1>3, <1>5, <2>1 DEF Contains, OnBar
  <2>4. OnBar(d, a, b, c, x, y) => ~Contains(b, x, y) /\ ~Contains(c, x, y)
    BY <1>3, <1>5, <2>1 DEF Contains, OnBar
  <2>5. OnEdge(b, x, y) => OnEdge(a, x, y) \/ OnBar(d, a, b, c, x, y)
    BY <1>3, <1>5, <2>1 DEF OnEdge, OnBar
  <2>6. OnEdge(c, x, y) => OnEdge(a, x, y) \/ OnBar(d, a, b, c, x, y)
    BY <1>3, <1>5, <2>1 DEF OnEdge, OnBar
  <2>7. QED
    BY <2>2, <2>3, <2>4, <2>5, <2>6
<1>6. Tile
  BY <1>4, <1>5
<1>7. QED
  BY <1>6 DEF b, c

\* Of two paths one begins with the other, or one is before the other.
LEMMA PathsPart ==
    ASSUME NEW p \in Paths, NEW q \in Paths
    PROVE  Pre(p, q) \/ Pre(q, p) \/ Before(p, q) \/ Before(q, p)
<1>1. /\ Len(p) \in Nat /\ Len(q) \in Nat /\ DOMAIN p = 1 .. Len(p) /\ DOMAIN q = 1 .. Len(q)
      /\ \A k \in 1 .. Len(p) : p[k] \in BOOLEAN
      /\ \A k \in 1 .. Len(q) : q[k] \in BOOLEAN
  BY PathFacts
<1>2. SUFFICES ASSUME ~Pre(p, q) /\ ~Pre(q, p)
               PROVE  Before(p, q) \/ Before(q, p)
  OBVIOUS
<1> DEFINE T == {k \in Nat : k \in 1 .. Len(p) /\ k \in 1 .. Len(q) /\ p[k] # q[k]}
<1>3. T \in SUBSET Nat /\ T # {}
  BY <1>1, <1>2 DEF Pre
<1>4. PICK k \in T : \A j \in T : k <= j
  <2> HIDE DEF T
  <2> QED
    BY <1>3, LeastNumber
<1>5. k \in DOMAIN p \cap DOMAIN q /\ p[k] # q[k] /\ p[k] \in BOOLEAN /\ q[k] \in BOOLEAN
  BY <1>1, <1>4
<1>6. \A j \in 1 .. k - 1 : p[j] = q[j]
  BY <1>1, <1>4
<1>7. QED
  BY <1>5, <1>6 DEF Before

\* No pane has the cell.
Free(t, a, x, y) == \A p \in Leaves(t) : ~Contains(Areas(t, a)[p], x, y)

\* The separator of a split, given the areas.
OnBarOf(t, a, q, x, y) ==
    LET r == Areas(t, a) IN OnBar(t[q].dir, r[q], r[Append(q, FALSE)], r[Append(q, TRUE)], x, y)

\* Two areas apart share no cell.
LEMMA ApartCells ==
    ASSUME NEW a, NEW b, Areal(a), Areal(b), Apart(a, b), NEW x \in Int, NEW y \in Int
    PROVE  ~(Contains(a, x, y) /\ Contains(b, x, y))
<1>1. /\ a.x \in Nat /\ a.y \in Nat /\ a.w \in Nat /\ a.h \in Nat
      /\ b.x \in Nat /\ b.y \in Nat /\ b.w \in Nat /\ b.h \in Nat
  BY DEF Areal, Cells
<1>2. QED
  BY <1>1 DEF Apart, Contains

\* A cell of an area is one of every area around it.
LEMMA WithinCells ==
    ASSUME NEW a, NEW b, Areal(a), Areal(b), Within(a, b), NEW x \in Int, NEW y \in Int, Contains(a, x, y)
    PROVE  Contains(b, x, y)
<1>1. /\ a.x \in Nat /\ a.y \in Nat /\ a.w \in Nat /\ a.h \in Nat
      /\ b.x \in Nat /\ b.y \in Nat /\ b.w \in Nat /\ b.h \in Nat
  BY DEF Areal, Cells
<1>2. QED
  BY <1>1 DEF Within, Contains

\* What is known of a split and the two nodes below it.
LEMMA BelowSplit ==
    ASSUME NEW t, IsPlan(t), NEW a, Areal(a), NEW q \in Splits(t)
    PROVE  /\ q \in DOMAIN t /\ q \in Paths /\ t[q].dir \in {"h", "v"} /\ t[q].ratio \in Int
           /\ Areal(Areas(t, a)[q])
           /\ \A e \in BOOLEAN : /\ Append(q, e) \in DOMAIN t /\ Append(q, e) \in Paths
                                 /\ Areal(Areas(t, a)[Append(q, e)])
           /\ Areas(t, a)[Append(q, FALSE)] = SplitArea(Areas(t, a)[q], t[q].dir, t[q].ratio)[1]
           /\ Areas(t, a)[Append(q, TRUE)] = SplitArea(Areas(t, a)[q], t[q].dir, t[q].ratio)[2]
<1> DEFINE r == Areas(t, a)
<1>1. q \in DOMAIN t /\ DOMAIN t \subseteq Paths
  BY DEF Splits, IsPlan, IsShape
<1>2. t[q] \in SplitRec
  BY DEF IsPlan
<1>3. t[q].dir \in {"h", "v"} /\ t[q].ratio \in Int
  BY <1>2 DEF SplitRec
<1>4. \A p \in DOMAIN t : Areal(r[p])
  BY AreasAre
<1>5. \A e \in BOOLEAN : Append(q, e) \in DOMAIN t
  BY AreasAre
<1> DEFINE s == SplitArea(r[q], t[q].dir, t[q].ratio)
<1>6. \A e \in BOOLEAN : r[Append(q, e)] = s[IF e THEN 2 ELSE 1]
  BY AreasAre
<1> HIDE DEF s
<1>7. r[Append(q, FALSE)] = s[1] /\ r[Append(q, TRUE)] = s[2]
  BY <1>6
<1> HIDE DEF r
<1>8. QED
  BY <1>1, <1>3, <1>4, <1>5, <1>7 DEF r, s

\* What HalvesTile says, of a split and the two nodes below it.
LEMMA SplitTiles ==
    ASSUME NEW t, IsPlan(t), NEW a, Areal(a), NEW q \in Splits(t), NEW x \in Int, NEW y \in Int
    PROVE  LET r == Areas(t, a) IN
           /\ Contains(r[q], x, y) <=>
                Contains(r[Append(q, FALSE)], x, y) \/ Contains(r[Append(q, TRUE)], x, y) \/ OnBarOf(t, a, q, x, y)
           /\ OnBarOf(t, a, q, x, y) =>
                ~Contains(r[Append(q, FALSE)], x, y) /\ ~Contains(r[Append(q, TRUE)], x, y)
           /\ \A e \in BOOLEAN : OnEdge(r[Append(q, e)], x, y) => OnEdge(r[q], x, y) \/ OnBarOf(t, a, q, x, y)
<1> DEFINE A == Areas(t, a)[q]
           b == Areas(t, a)[Append(q, FALSE)]
           c == Areas(t, a)[Append(q, TRUE)]
           d == t[q].dir
           s == SplitArea(A, d, t[q].ratio)
<1>1. Areal(A) /\ d \in {"h", "v"} /\ t[q].ratio \in Int /\ b = s[1] /\ c = s[2]
  BY BelowSplit, ZenonT(40)
<1>2. OnBarOf(t, a, q, x, y) <=> OnBar(d, A, s[1], s[2], x, y)
  BY <1>1 DEF OnBarOf
<1> HIDE DEF A, b, c, d
<1>3. /\ Contains(A, x, y) <=> Contains(s[1], x, y) \/ Contains(s[2], x, y) \/ OnBar(d, A, s[1], s[2], x, y)
      /\ OnBar(d, A, s[1], s[2], x, y) => ~Contains(s[1], x, y) /\ ~Contains(s[2], x, y)
      /\ OnEdge(s[1], x, y) => OnEdge(A, x, y) \/ OnBar(d, A, s[1], s[2], x, y)
      /\ OnEdge(s[2], x, y) => OnEdge(A, x, y) \/ OnBar(d, A, s[1], s[2], x, y)
  BY <1>1, HalvesTile
<1> HIDE DEF s
<1>4. \A e \in BOOLEAN : e = FALSE \/ e = TRUE
  OBVIOUS
<1>5. QED
  BY <1>1, <1>2, <1>3, <1>4 DEF A, b, c

\* The cells of a separator are in no pane.
LEMMA BarFree ==
    ASSUME NEW t, IsPlan(t), NEW a, Areal(a), NEW q \in Splits(t), NEW x \in Int, NEW y \in Int,
           OnBarOf(t, a, q, x, y)
    PROVE  Free(t, a, x, y)
<1> DEFINE r == Areas(t, a)
<1>1. /\ Contains(r[q], x, y) /\ ~Contains(r[Append(q, FALSE)], x, y) /\ ~Contains(r[Append(q, TRUE)], x, y)
  BY SplitTiles
<1>2. SUFFICES ASSUME NEW p \in Leaves(t), Contains(r[p], x, y)
               PROVE  FALSE
  BY DEF Free
<1>3. p \in DOMAIN t /\ p \in Paths /\ q \in DOMAIN t /\ q \in Paths /\ p # q /\ IsShape(DOMAIN t)
  BY DEF Leaves, Splits, IsPlan, IsShape
<1>4. Areal(r[p]) /\ Areal(r[q]) /\ \A e \in BOOLEAN : Append(q, e) \in DOMAIN t /\ Areal(r[Append(q, e)])
  <2>1. \A l \in DOMAIN t : Areal(r[l])
    BY AreasAre
  <2>2. \A e \in BOOLEAN : Append(q, e) \in DOMAIN t
    BY BelowSplit
  <2> HIDE DEF r
  <2>3. QED
    BY <1>3, <2>1, <2>2
<1>5. CASE Pre(q, p)
  <2> DEFINE e == p[Len(q) + 1]
  <2>1. Len(q) < Len(p) /\ Pre(Append(q, e), p)
    BY <1>3, <1>5, PreNext
  <2>2. e \in BOOLEAN
    BY <1>3, <2>1, PathFacts
  <2> HIDE DEF e
  <2>3. Append(q, e) \in DOMAIN t /\ Areal(r[Append(q, e)])
    BY <1>4, <2>2
  <2>4. Within(r[p], r[Append(q, e)])
    BY <1>3, <2>1, <2>3, AreasNest
  <2> HIDE DEF r
  <2>5. Contains(r[Append(q, e)], x, y)
    BY <1>2, <1>4, <2>3, <2>4, WithinCells
  <2>6. QED
    BY <1>1, <2>2, <2>5
<1>6. CASE Pre(p, q)
  BY <1>3, <1>6, LeavesApart
<1>7. CASE Before(p, q)
  <2>1. Apart(r[p], r[q])
    BY <1>3, <1>7, BeforeApart
  <2> HIDE DEF r
  <2>2. QED
    BY <1>1, <1>2, <1>4, <2>1, ApartCells
<1>8. CASE Before(q, p)
  <2>1. Apart(r[q], r[p])
    BY <1>3, <1>8, BeforeApart
  <2> HIDE DEF r
  <2>2. QED
    BY <1>1, <1>2, <1>4, <2>1, ApartCells
<1>9. QED
  BY <1>3, <1>5, <1>6, <1>7, <1>8, PathsPart

\* The cells beside a node's area are in no pane, as far as they are in the
\* content: each belongs to a separator of a node above.
LEMMA EdgeFree ==
    ASSUME NEW t, IsPlan(t), NEW a, Areal(a), NEW x \in Int, NEW y \in Int, Contains(a, x, y),
           NEW q \in DOMAIN t, OnEdge(Areas(t, a)[q], x, y)
    PROVE  Free(t, a, x, y)
<1> DEFINE r == Areas(t, a)
           D == DOMAIN t
           T == {k \in Nat : \A p \in D : Len(p) = k /\ OnEdge(r[p], x, y) => Free(t, a, x, y)}
<1>1. IsShape(D) /\ D \subseteq Paths
  BY DEF IsPlan, IsShape
<1>2. 0 \in T
  <2>1. SUFFICES ASSUME NEW p \in D, Len(p) = 0, OnEdge(r[p], x, y)
                 PROVE  FALSE
    OBVIOUS
  <2>2. p = <<>>
    BY <1>1, <2>1, PathFacts
  <2>3. r[<<>>] = a
    BY AreasAre
  <2> HIDE DEF r
  <2>4. OnEdge(a, x, y)
    BY <2>1, <2>2, <2>3
  <2>5. a.x \in Nat /\ a.y \in Nat /\ a.w \in Nat /\ a.h \in Nat
    BY DEF Areal, Cells
  <2>6. QED
    BY <2>4, <2>5 DEF OnEdge, Contains
<1>3. ASSUME NEW k \in T
      PROVE  k + 1 \in T
  <2>1. SUFFICES ASSUME NEW p \in D, Len(p) = k + 1, OnEdge(r[p], x, y)
                 PROVE  Free(t, a, x, y)
    OBVIOUS
  <2>2. k \in Nat /\ p \in Paths
    BY <1>1
  <2>3. p # <<>>
    BY <2>1, <2>2, PathFacts
  <2> DEFINE u == Up(p)
             e == p[Len(p)]
  <2>4. u \in Paths /\ Len(u) = k /\ e \in BOOLEAN /\ p = Append(u, e)
    BY <2>1, <2>2, <2>3, UpDown
  <2> HIDE DEF u, e
  <2>5. u \in D /\ \A b \in BOOLEAN : Append(u, b) \in D
    BY <1>1, <2>4, ShapeIs
  <2>6. u \in Splits(t)
    BY <2>5 DEF Splits, Leaves
  <2>7. OnEdge(r[u], x, y) \/ OnBarOf(t, a, u, x, y)
    BY <2>1, <2>4, <2>6, SplitTiles
  <2>8. OnEdge(r[u], x, y) => Free(t, a, x, y)
    BY <2>4, <2>5
  <2>9. OnBarOf(t, a, u, x, y) => Free(t, a, x, y)
    BY <2>6, BarFree
  <2>10. QED
    BY <2>7, <2>8, <2>9
<1>4. \A k \in Nat : k \in T
  <2> HIDE DEF T
  <2>1. T \in SUBSET Nat
    BY DEF T
  <2>2. QED
    BY <1>2, <1>3, <2>1, Induction
<1>5. Len(q) \in Nat
  BY <1>1, PathFacts
<1>6. Len(q) \in T
  <2> HIDE DEF T
  <2> QED
    BY <1>4, <1>5
<1>7. QED
  BY <1>6

\* A cell of the content that is in no pane is on the separator of some split.
LEMMA FreeOnBar ==
    ASSUME NEW t, IsPlan(t), NEW a, Areal(a), NEW x \in Int, NEW y \in Int, Contains(a, x, y), Free(t, a, x, y)
    PROVE  \E q \in Splits(t) : OnBarOf(t, a, q, x, y)
<1> DEFINE r == Areas(t, a)
           D == DOMAIN t
           T == {k \in Nat : \E p \in D : Len(p) = k /\ Contains(r[p], x, y)}
<1>1. IsShape(D) /\ D \subseteq Paths /\ IsFiniteSet(D) /\ <<>> \in D
  BY DEF IsPlan, IsShape
<1>2. SUFFICES ASSUME \A q \in Splits(t) : ~OnBarOf(t, a, q, x, y)
               PROVE  FALSE
  OBVIOUS
<1>3. 0 \in T
  <2>1. r[<<>>] = a
    BY AreasAre
  <2> HIDE DEF r
  <2>2. Len(<<>>) = 0
    BY PathFacts
  <2>3. QED
    BY <1>1, <2>1, <2>2
<1>4. ASSUME NEW k \in T
      PROVE  k + 1 \in T
  <2>1. PICK p \in D : Len(p) = k /\ Contains(r[p], x, y)
    OBVIOUS
  <2>2. k \in Nat
    OBVIOUS
  <2>3. p \notin Leaves(t)
    BY <2>1 DEF Free
  <2>4. p \in Splits(t) /\ p \in Paths
    BY <1>1, <2>3 DEF Splits
  <2>5. Contains(r[Append(p, FALSE)], x, y) \/ Contains(r[Append(p, TRUE)], x, y)
    BY <1>2, <2>1, <2>4, SplitTiles
  <2>6. \A e \in BOOLEAN : Append(p, e) \in D
    BY <2>4, BelowSplit
  <2>7. \A e \in BOOLEAN : Len(Append(p, e)) = k + 1
    BY <2>1, <2>4, DownUp
  <2> HIDE DEF r
  <2>8. ASSUME NEW e \in BOOLEAN, Contains(r[Append(p, e)], x, y)
        PROVE  k + 1 \in T
    <3>1. Append(p, e) \in D /\ Len(Append(p, e)) = k + 1
      BY <2>6, <2>7
    <3> HIDE DEF D
    <3>2. k + 1 \in Nat
      BY <2>2
    <3>3. QED
      BY <2>8, <3>1, <3>2
  <2> HIDE DEF T
  <2>9. QED
    BY <2>5, <2>8
<1>5. \A k \in Nat : k \in T
  <2> HIDE DEF T
  <2>1. T \in SUBSET Nat
    BY DEF T
  <2>2. QED
    BY <1>3, <1>4, <2>1, Induction
<1>6. PICK B \in Nat : \A q \in D : Len(q) <= B
  BY <1>1, LengthsBounded
<1>7. B + 1 \in T
  <2> HIDE DEF T
  <2> QED
    BY <1>5, <1>6
<1>8. PICK p \in D : Len(p) = B + 1
  BY <1>7
<1>9. QED
  BY <1>6, <1>8

\* The content with a border around it.
Framed(a, o) ==
    /\ Areal(a) /\ o \in Cells /\ a.x > 0 /\ a.y > 0
    /\ o.x = a.x - 1 /\ o.y = a.y - 1 /\ o.w = a.w + 2 /\ o.h = a.h + 2

\* The line of a split is its separator, one cell longer at either end.
LEMMA LineIs ==
    ASSUME NEW a, NEW o, Framed(a, o), NEW b, Areal(b), Within(b, a), b.w > 0, b.h > 0,
           NEW d \in {"h", "v"}, NEW ratio \in Int
    PROVE  LET s == SplitArea(b, d, ratio) IN
           /\ d = "h" => SepLine(d, b, s, o) =
                           IF s[2].w > 0 THEN {Rect(s[1].x + s[1].w, b.y - 1, 1, b.h + 2)} ELSE {}
           /\ d = "v" => SepLine(d, b, s, o) =
                           IF s[2].h > 0 THEN {Rect(b.x - 1, s[1].y + s[1].h, b.w + 2, 1)} ELSE {}
<1> DEFINE s == SplitArea(b, d, ratio)
           f == s[1]
           g == s[2]
<1>1. PICK m \in Nat, n \in Nat : Halves(d, b, f, g, m, n)
  BY SplitHalves
<1> HIDE DEF f, g, s
<1>2. Areal(f) /\ Areal(g)
  BY <1>1, HalvesAre
<1>3. /\ a.x \in Nat /\ a.y \in Nat /\ a.w \in Nat /\ a.h \in Nat
      /\ o.x \in Nat /\ o.y \in Nat /\ o.w \in Nat /\ o.h \in Nat
      /\ b.x \in Nat /\ b.y \in Nat /\ b.w \in Nat /\ b.h \in Nat
      /\ f.x \in Nat /\ f.y \in Nat /\ f.w \in Nat /\ f.h \in Nat
      /\ g.x \in Nat /\ g.y \in Nat /\ g.w \in Nat /\ g.h \in Nat
  BY <1>2 DEF Framed, Areal, Cells
<1>4. /\ b.x >= a.x /\ b.y >= a.y /\ b.x + b.w <= a.x + a.w /\ b.y + b.h <= a.y + a.h
      /\ o.x = a.x - 1 /\ o.y = a.y - 1 /\ o.w = a.w + 2 /\ o.h = a.h + 2 /\ a.x > 0 /\ a.y > 0
  BY DEF Framed, Within
<1>5. CASE d = "h"
  <2>1. /\ f.x = b.x /\ f.y = b.y /\ f.h = b.h /\ g.y = b.y /\ g.h = b.h
        /\ \/ g.w = 0 /\ g.x = b.x /\ f.w = b.w
           \/ g.w > 0 /\ f.w > 0 /\ g.x = b.x + f.w + 1 /\ f.w + 1 + g.w = b.w
    BY <1>1, <1>5, HalvesAre
  <2> DEFINE y0 == Most(Most(b.y - 1, 0), o.y)
             y1 == Least(b.y + b.h, o.y + o.h - 1)
             n1 == Most(y1 - y0, 0) + 1
  <2>2. y0 = b.y - 1 /\ y1 = b.y + b.h
    BY <1>3, <1>4 DEF Most, Least
  <2>3. n1 = b.h + 2
    BY <1>3, <2>2 DEF Most
  <2>4. g.w > 0 => Contains(o, f.x + f.w, b.y)
    BY <1>3, <1>4, <2>1 DEF Contains
  <2>5. SepLine(d, b, s, o) = IF g.w > 0 /\ Contains(o, f.x + f.w, b.y)
                              THEN {Rect(f.x + f.w, y0, 1, n1)} ELSE {}
    BY <1>5 DEF SepLine, f, g
  <2> HIDE DEF y0, n1
  <2>6. SepLine(d, b, s, o) = IF g.w > 0 THEN {Rect(f.x + f.w, b.y - 1, 1, b.h + 2)} ELSE {}
    BY <2>2, <2>3, <2>4, <2>5
  <2>7. QED
    BY <1>5, <2>6 DEF f, g, s
<1>6. CASE d = "v"
  <2>1. /\ f.x = b.x /\ f.y = b.y /\ f.w = b.w /\ g.x = b.x /\ g.w = b.w
        /\ \/ g.h = 0 /\ g.y = b.y /\ f.h = b.h
           \/ g.h > 0 /\ f.h > 0 /\ g.y = b.y + f.h + 1 /\ f.h + 1 + g.h = b.h
    BY <1>1, <1>6, HalvesAre
  <2> DEFINE x0 == Most(Most(b.x - 1, 0), o.x)
             x1 == Least(b.x + b.w, o.x + o.w - 1)
             n1 == Most(x1 - x0, 0) + 1
  <2>2. x0 = b.x - 1 /\ x1 = b.x + b.w
    BY <1>3, <1>4 DEF Most, Least
  <2>3. n1 = b.w + 2
    BY <1>3, <2>2 DEF Most
  <2>4. g.h > 0 => Contains(o, b.x, f.y + f.h)
    BY <1>3, <1>4, <2>1 DEF Contains
  <2>5. SepLine(d, b, s, o) = IF g.h > 0 /\ Contains(o, b.x, f.y + f.h)
                              THEN {Rect(x0, f.y + f.h, n1, 1)} ELSE {}
    BY <1>6 DEF SepLine, f, g
  <2> HIDE DEF x0, n1
  <2>6. SepLine(d, b, s, o) = IF g.h > 0 THEN {Rect(b.x - 1, f.y + f.h, b.w + 2, 1)} ELSE {}
    BY <2>2, <2>3, <2>4, <2>5
  <2>7. QED
    BY <1>6, <2>6 DEF f, g, s
<1>7. QED
  BY <1>5, <1>6

\* The cells of a rectangle.
LEMMA CellsAre ==
    ASSUME NEW a \in Cells, NEW x \in Int, NEW y \in Int
    PROVE  <<x, y>> \in CellsOf(a) <=> Contains(a, x, y)
<1>1. a.x \in Nat /\ a.y \in Nat /\ a.w \in Nat /\ a.h \in Nat
  BY DEF Cells
<1>2. <<x, y>> \in CellsOf(a) <=> x \in a.x .. a.x + a.w - 1 /\ y \in a.y .. a.y + a.h - 1
  BY DEF CellsOf
<1>3. QED
  BY <1>1, <1>2 DEF Contains

\* The cells of a line are those of the separator and two beside the area.
LEMMA LineCells ==
    ASSUME NEW a, NEW o, Framed(a, o), NEW b, Areal(b), Within(b, a), b.w > 0, b.h > 0,
           NEW d \in {"h", "v"}, NEW ratio \in Int, NEW x \in Int, NEW y \in Int
    PROVE  LET s == SplitArea(b, d, ratio) IN
           /\ \A l \in SepLine(d, b, s, o) :
                <<x, y>> \in CellsOf(l) => OnBar(d, b, s[1], s[2], x, y) \/ OnEdge(b, x, y)
           /\ OnBar(d, b, s[1], s[2], x, y) => \E l \in SepLine(d, b, s, o) : <<x, y>> \in CellsOf(l)
<1> DEFINE s == SplitArea(b, d, ratio)
           f == s[1]
           g == s[2]
           L == SepLine(d, b, s, o)
<1>1. PICK m \in Nat, n \in Nat : Halves(d, b, f, g, m, n)
  BY SplitHalves
<1>2. /\ d = "h" => L = IF g.w > 0 THEN {Rect(f.x + f.w, b.y - 1, 1, b.h + 2)} ELSE {}
      /\ d = "v" => L = IF g.h > 0 THEN {Rect(b.x - 1, f.y + f.h, b.w + 2, 1)} ELSE {}
  BY LineIs
<1> HIDE DEF f, g, s, L
<1>3. Areal(f) /\ Areal(g)
  BY <1>1, HalvesAre
<1>4. /\ b.x \in Nat /\ b.y \in Nat /\ b.w \in Nat /\ b.h \in Nat
      /\ f.x \in Nat /\ f.y \in Nat /\ f.w \in Nat /\ f.h \in Nat
      /\ g.x \in Nat /\ g.y \in Nat /\ g.w \in Nat /\ g.h \in Nat
  BY <1>3 DEF Areal, Cells
<1>5. b.x > 0 /\ b.y > 0
  <2>1. a.x \in Nat /\ a.y \in Nat /\ a.x > 0 /\ a.y > 0 /\ b.x >= a.x /\ b.y >= a.y
    BY DEF Framed, Areal, Cells, Within
  <2>2. QED
    BY <1>4, <2>1
<1>6. CASE d = "h"
  <2>1. /\ f.x = b.x /\ f.w <= b.w /\ (g.w > 0 => f.w < b.w /\ f.w > 0)
    <3>1. /\ f.x = b.x /\ f.y = b.y /\ f.h = b.h /\ g.y = b.y /\ g.h = b.h
          /\ \/ g.w = 0 /\ g.x = b.x /\ f.w = b.w
             \/ g.w > 0 /\ f.w > 0 /\ g.x = b.x + f.w + 1 /\ f.w + 1 + g.w = b.w
      BY <1>1, <1>6, HalvesAre
    <3>2. QED
      BY <1>4, <3>1
  <2> DEFINE l == Rect(f.x + f.w, b.y - 1, 1, b.h + 2)
  <2>2. l \in Cells /\ l.x = f.x + f.w /\ l.y = b.y - 1 /\ l.w = 1 /\ l.h = b.h + 2
    BY <1>4, <1>5, RectIs
  <2> HIDE DEF l
  <2>3. <<x, y>> \in CellsOf(l) <=> Contains(l, x, y)
    BY <2>2, CellsAre
  <2>4. Contains(l, x, y) /\ g.w > 0 => OnBar(d, b, f, g, x, y) \/ OnEdge(b, x, y)
    BY <1>4, <1>6, <2>1, <2>2 DEF Contains, OnBar, OnEdge
  <2>5. OnBar(d, b, f, g, x, y) => Contains(l, x, y) /\ g.w > 0
    BY <1>4, <1>6, <2>1, <2>2 DEF Contains, OnBar
  <2>6. L = IF g.w > 0 THEN {l} ELSE {}
    BY <1>2, <1>6 DEF l
  <2>7. /\ \A k \in L : <<x, y>> \in CellsOf(k) => OnBar(d, b, f, g, x, y) \/ OnEdge(b, x, y)
        /\ OnBar(d, b, f, g, x, y) => \E k \in L : <<x, y>> \in CellsOf(k)
    BY <2>3, <2>4, <2>5, <2>6
  <2>8. QED
    BY <2>7 DEF f, g, s, L
<1>7. CASE d = "v"
  <2>1. /\ f.y = b.y /\ f.h <= b.h /\ (g.h > 0 => f.h < b.h /\ f.h > 0)
    <3>1. /\ f.x = b.x /\ f.y = b.y /\ f.w = b.w /\ g.x = b.x /\ g.w = b.w
          /\ \/ g.h = 0 /\ g.y = b.y /\ f.h = b.h
             \/ g.h > 0 /\ f.h > 0 /\ g.y = b.y + f.h + 1 /\ f.h + 1 + g.h = b.h
      BY <1>1, <1>7, HalvesAre
    <3>2. QED
      BY <1>4, <3>1
  <2> DEFINE l == Rect(b.x - 1, f.y + f.h, b.w + 2, 1)
  <2>2. l \in Cells /\ l.x = b.x - 1 /\ l.y = f.y + f.h /\ l.w = b.w + 2 /\ l.h = 1
    BY <1>4, <1>5, RectIs
  <2> HIDE DEF l
  <2>3. <<x, y>> \in CellsOf(l) <=> Contains(l, x, y)
    BY <2>2, CellsAre
  <2>4. Contains(l, x, y) /\ g.h > 0 => OnBar(d, b, f, g, x, y) \/ OnEdge(b, x, y)
    BY <1>4, <1>7, <2>1, <2>2 DEF Contains, OnBar, OnEdge
  <2>5. OnBar(d, b, f, g, x, y) => Contains(l, x, y) /\ g.h > 0
    BY <1>4, <1>7, <2>1, <2>2 DEF Contains, OnBar
  <2>6. L = IF g.h > 0 THEN {l} ELSE {}
    BY <1>2, <1>7 DEF l
  <2>7. /\ \A k \in L : <<x, y>> \in CellsOf(k) => OnBar(d, b, f, g, x, y) \/ OnEdge(b, x, y)
        /\ OnBar(d, b, f, g, x, y) => \E k \in L : <<x, y>> \in CellsOf(k)
    BY <2>3, <2>4, <2>5, <2>6
  <2>8. QED
    BY <2>7 DEF f, g, s, L
<1>8. QED
  BY <1>6, <1>7

\* The separator lines have exactly the cells of the content in no pane.
LEMMA LinesAre ==
    ASSUME NEW t, IsPlan(t), NEW a, NEW o, Framed(a, o), NEW x \in Int, NEW y \in Int, Contains(a, x, y)
    PROVE  <<x, y>> \in UNION {CellsOf(l) : l \in Separators(t, a, o)} <=> Free(t, a, x, y)
<1> DEFINE r == Areas(t, a)
           S(p) == SplitArea(r[p], t[p].dir, t[p].ratio)
           Line(p) == SepLine(t[p].dir, r[p], S(p), o)
           Drawn(p) == 0 \notin {r[p].w, r[p].h, o.w, o.h}
<1>1. Areal(a) /\ o.w \in Nat \ {0} /\ o.h \in Nat \ {0}
  <2>1. Areal(a) /\ a.w \in Nat /\ a.h \in Nat /\ o.w = a.w + 2 /\ o.h = a.h + 2
    BY DEF Framed, Areal, Cells
  <2>2. QED
    BY <2>1
<1>2. Separators(t, a, o) = UNION {Line(p) : p \in {q \in Splits(t) : Drawn(q)}}
  BY DEF Separators
<1>3. ASSUME NEW p \in Splits(t)
      PROVE  /\ Areal(r[p]) /\ t[p].dir \in {"h", "v"} /\ t[p].ratio \in Int /\ Within(r[p], a) /\ p \in DOMAIN t
             /\ OnBarOf(t, a, p, x, y) <=> OnBar(t[p].dir, r[p], S(p)[1], S(p)[2], x, y)
  <2>1. /\ Areal(r[p]) /\ t[p].dir \in {"h", "v"} /\ t[p].ratio \in Int /\ p \in DOMAIN t /\ p \in Paths
        /\ r[Append(p, FALSE)] = S(p)[1] /\ r[Append(p, TRUE)] = S(p)[2]
    BY <1>1, BelowSplit, ZenonT(40)
  <2>2. OnBarOf(t, a, p, x, y) <=> OnBar(t[p].dir, r[p], S(p)[1], S(p)[2], x, y)
    BY <2>1 DEF OnBarOf
  <2>3. <<>> \in DOMAIN t /\ Pre(<<>>, p)
    BY <2>1, PathFacts DEF IsPlan, IsShape, Pre
  <2>4. r[<<>>] = a
    BY <1>1, AreasAre
  <2>5. Within(r[p], r[<<>>])
    BY <1>1, <2>1, <2>3, AreasNest
  <2> HIDE DEF r, S
  <2>6. QED
    BY <2>1, <2>2, <2>4, <2>5
<1> HIDE DEF r, S
<1>4. ASSUME NEW p \in Splits(t), r[p].w > 0, r[p].h > 0
      PROVE  /\ \A l \in Line(p) : <<x, y>> \in CellsOf(l) => OnBarOf(t, a, p, x, y) \/ OnEdge(r[p], x, y)
             /\ OnBarOf(t, a, p, x, y) => \E l \in Line(p) : <<x, y>> \in CellsOf(l)
  <2> DEFINE b == r[p]
             d == t[p].dir
             ratio == t[p].ratio
  <2>1. /\ Areal(b) /\ d \in {"h", "v"} /\ ratio \in Int /\ Within(b, a) /\ b.w > 0 /\ b.h > 0
        /\ S(p) = SplitArea(b, d, ratio)
    BY <1>3, <1>4 DEF S
  <2> HIDE DEF b, d, ratio
  <2>2. /\ \A l \in SepLine(d, b, S(p), o) :
             <<x, y>> \in CellsOf(l) => OnBar(d, b, S(p)[1], S(p)[2], x, y) \/ OnEdge(b, x, y)
        /\ OnBar(d, b, S(p)[1], S(p)[2], x, y) => \E l \in SepLine(d, b, S(p), o) : <<x, y>> \in CellsOf(l)
    BY <2>1, LineCells, ZenonT(40)
  <2>3. QED
    BY <1>3, <2>2 DEF b, d
<1>5. ASSUME <<x, y>> \in UNION {CellsOf(l) : l \in Separators(t, a, o)}
      PROVE  Free(t, a, x, y)
  <2>1. PICK l \in Separators(t, a, o) : <<x, y>> \in CellsOf(l)
    BY <1>5
  <2>2. PICK p \in Splits(t) : Drawn(p) /\ l \in Line(p)
    BY <1>2, <2>1
  <2>3. r[p].w > 0 /\ r[p].h > 0
    BY <1>3, <2>2 DEF Areal, Cells
  <2>4. OnBarOf(t, a, p, x, y) \/ OnEdge(r[p], x, y)
    BY <1>4, <2>1, <2>2, <2>3
  <2>5. OnBarOf(t, a, p, x, y) => Free(t, a, x, y)
    BY <1>1, BarFree
  <2>6. OnEdge(r[p], x, y) => Free(t, a, x, y)
    BY <1>1, <1>3, EdgeFree DEF r
  <2>7. QED
    BY <2>4, <2>5, <2>6
<1>6. ASSUME Free(t, a, x, y)
      PROVE  <<x, y>> \in UNION {CellsOf(l) : l \in Separators(t, a, o)}
  <2>1. PICK p \in Splits(t) : OnBarOf(t, a, p, x, y)
    BY <1>1, <1>6, FreeOnBar
  <2>2. Contains(r[p], x, y)
    BY <1>1, <2>1, SplitTiles DEF r
  <2>3. r[p].w > 0 /\ r[p].h > 0
    BY <1>3, <2>2 DEF Contains, Areal, Cells
  <2>4. PICK l \in Line(p) : <<x, y>> \in CellsOf(l)
    BY <1>4, <2>1, <2>3
  <2>5. Drawn(p)
    BY <1>1, <1>3, <2>3 DEF Areal, Cells
  <2>6. l \in Separators(t, a, o)
    BY <1>2, <2>4, <2>5
  <2>7. QED
    BY <2>4, <2>6
<1>7. QED
  BY <1>5, <1>6

\* No pane has the cell: said of the panes' rectangles.
LEMMA FreeIs ==
    ASSUME NEW t, IsTree(t), NEW a, Areal(a), NEW x \in Int, NEW y \in Int
    PROVE  Free(t, a, x, y) <=> \A i \in Ids(t) : ~Contains(PaneRects(t, a)[i], x, y)
<1>1. a \in Cells /\ a.x <= U16Max /\ a.y <= U16Max
  <2>1. a \in Cells /\ a.x \in Nat /\ a.y \in Nat /\ a.w \in Nat /\ a.h \in Nat
    BY DEF Areal, Cells
  <2>2. a.x + a.w <= U16Max /\ a.y + a.h <= U16Max
    BY DEF Areal
  <2>3. QED
    BY <2>1, <2>2 DEF U16Max
<1>2. Clipped(a) = a
  BY <1>1, ClippedIs
<1> DEFINE r == Areas(t, a)
           P == PaneRects(t, a)
<1>3. \A i \in Ids(t) : P[i] = r[PathTo(t, i)]
  BY <1>1, <1>2, PaneRectsAre
<1>4. \A i \in Ids(t) : PathTo(t, i) \in Leaves(t)
  BY PathToIs
<1>5. \A p \in Leaves(t) : t[p].id \in Ids(t) /\ PathTo(t, t[p].id) = p
  BY PathToIs
<1>6. Free(t, a, x, y) <=> \A p \in Leaves(t) : ~Contains(r[p], x, y)
  BY DEF Free
<1> HIDE DEF r, P
<1>7. ASSUME \A p \in Leaves(t) : ~Contains(r[p], x, y), NEW i \in Ids(t)
      PROVE  ~Contains(P[i], x, y)
  BY <1>3, <1>4, <1>7
<1>8. ASSUME \A i \in Ids(t) : ~Contains(P[i], x, y), NEW p \in Leaves(t)
      PROVE  ~Contains(r[p], x, y)
  BY <1>3, <1>5, <1>8
<1>9. QED
  BY <1>6, <1>7, <1>8 DEF P

\* A cell of no pane hits no pane.
LEMMA FindNone ==
    ASSUME NEW t, NEW a, NEW x \in Int, NEW y \in Int, Free(t, a, x, y)
    PROVE  FindAt(t, x, y, a) = None
<1>1. {p \in Leaves(t) : Contains(Areas(t, a)[p], x, y)} = {}
  BY DEF Free
<1>2. QED
  BY <1>1 DEF FindAt

\* A cell of a pane hits that pane.
LEMMA FindPane ==
    ASSUME NEW t, IsTree(t), NEW a, Areal(a), NEW x \in Int, NEW y \in Int,
           NEW i \in Ids(t), Contains(PaneRects(t, a)[i], x, y)
    PROVE  FindAt(t, x, y, a) = i
<1>1. a \in Cells /\ a.x <= U16Max /\ a.y <= U16Max
  <2>1. a \in Cells /\ a.x \in Nat /\ a.y \in Nat /\ a.w \in Nat /\ a.h \in Nat
    BY DEF Areal, Cells
  <2>2. a.x + a.w <= U16Max /\ a.y + a.h <= U16Max
    BY DEF Areal
  <2>3. QED
    BY <2>1, <2>2 DEF U16Max
<1>2. Clipped(a) = a
  BY <1>1, ClippedIs
<1> DEFINE r == Areas(t, a)
           P == PaneRects(t, a)
           hits == {p \in Leaves(t) : Contains(r[p], x, y)}
           q == PathTo(t, i)
<1>3. \A j \in Ids(t) : P[j] = r[PathTo(t, j)] /\ Areal(P[j])
  BY <1>1, <1>2, PaneRectsAre
<1>4. \A j, k \in Ids(t) : j # k => Apart(P[j], P[k])
  BY <1>1, PanesApart
<1>5. q \in Leaves(t) /\ t[q].id = i
  BY PathToIs
<1>6. \A p \in Leaves(t) : t[p].id \in Ids(t) /\ PathTo(t, t[p].id) = p
  BY PathToIs
<1>7. FindAt(t, x, y, a) = IF hits = {} THEN None
                           ELSE t[CHOOSE p \in hits : \A o \in hits \ {p} : Before(p, o)].id
  BY DEF FindAt
<1>8. Contains(P[i], x, y)
  OBVIOUS
<1> HIDE DEF r, P
<1>9. q \in hits
  BY <1>3, <1>5, <1>8
<1>10. ASSUME NEW p \in hits
       PROVE  p = q
  <2> DEFINE j == t[p].id
  <2>1. p \in Leaves(t) /\ Contains(r[p], x, y)
    OBVIOUS
  <2>2. j \in Ids(t) /\ PathTo(t, j) = p
    BY <1>6, <2>1
  <2> HIDE DEF j, q
  <2>3. Contains(P[j], x, y) /\ Areal(P[j])
    BY <1>3, <2>1, <2>2
  <2>4. Areal(P[i])
    BY <1>3
  <2>5. ~Apart(P[j], P[i])
    BY <1>8, <2>3, <2>4, ApartCells
  <2>6. j = i
    BY <1>4, <2>2, <2>5
  <2>7. QED
    BY <2>2, <2>6 DEF q
<1> HIDE DEF q
<1>11. hits = {q}
  BY <1>9, <1>10
<1> HIDE DEF hits
<1>12. (CHOOSE p \in hits : \A o \in hits \ {p} : Before(p, o)) = q
  BY <1>11
<1>13. QED
  BY <1>5, <1>7, <1>11, <1>12

\* The content of a terminal with a border, whatever its size.
Sizes == (0 .. U16Max - 2) \X (0 .. U16Max - 2)

\* The area inside the border is a box of u16 cells.
LEMMA InnerIs ==
    ASSUME dim \in Sizes
    PROVE  Areal(Inner) /\ Clipped(Inner) = Inner /\ Framed(Inner, Outer) /\ Inner.x <= U16Max /\ Inner.y <= U16Max
<1>1. dim[1] \in Nat /\ dim[2] \in Nat /\ dim[1] + 2 <= U16Max /\ dim[2] + 2 <= U16Max
  <2>1. dim[1] \in 0 .. U16Max - 2 /\ dim[2] \in 0 .. U16Max - 2
    BY DEF Sizes
  <2>2. U16Max \in Int
    BY DEF U16Max
  <2>3. QED
    BY <2>1, <2>2
<1>2. Inner \in Cells /\ Inner.x = 1 /\ Inner.y = 1 /\ Inner.w = dim[1] /\ Inner.h = dim[2]
  BY <1>1, RectIs DEF Inner
<1>3. /\ Outer \in Cells /\ Outer.x = 0 /\ Outer.y = 0 /\ Outer.w = dim[1] + 2 /\ Outer.h = dim[2] + 2
  BY <1>1, RectIs DEF Outer
<1>4. Areal(Inner) /\ Inner.x <= U16Max /\ Inner.y <= U16Max
  BY <1>1, <1>2 DEF Areal, U16Max
<1>5. Clipped(Inner) = Inner
  BY <1>2, <1>4, ClippedIs
<1>6. Framed(Inner, Outer)
  BY <1>1, <1>2, <1>3, <1>4 DEF Framed
<1>7. QED
  BY <1>4, <1>5, <1>6

\* Any tree tiles the content of any terminal.
LEMMA TreeTiles ==
    ASSUME IsTree(tree), dim \in Sizes
    PROVE  PanesTile
<1> DEFINE r == PaneRects(tree, Inner)
           S == Separators(tree, Clipped(Inner), Outer)
           lines == {c \in UNION {CellsOf(s) : s \in S} : Contains(Inner, c[1], c[2])}
           gaps == CellsOf(Inner) \ UNION {CellsOf(r[i]) : i \in DOMAIN r}
<1>1. /\ Areal(Inner) /\ Clipped(Inner) = Inner /\ Framed(Inner, Outer)
      /\ Inner \in Cells /\ Inner.x <= U16Max /\ Inner.y <= U16Max /\ IsPlan(tree)
  BY InnerIs DEF Areal, IsTree
<1>2. DOMAIN r = Ids(tree) /\ \A i \in Ids(tree) : Areal(r[i]) /\ r[i] \in Cells
  BY <1>1, PaneRectsAre DEF Areal
<1>3. \A i \in Ids(tree) : Within(r[i], Inner)
  BY <1>1, PanesApart
<1>4. \A i, j \in Ids(tree) : i # j => Apart(r[i], r[j])
  BY <1>1, PanesApart
<1>5. /\ Inner.x \in Nat /\ Inner.y \in Nat /\ Inner.w \in Nat /\ Inner.h \in Nat
  BY <1>1 DEF Cells
<1>6. ASSUME NEW x \in Int, NEW y \in Int, Contains(Inner, x, y)
      PROVE  <<x, y>> \in UNION {CellsOf(s) : s \in S} <=> \A i \in Ids(tree) : ~Contains(r[i], x, y)
  <2>1. <<x, y>> \in UNION {CellsOf(s) : s \in S} <=> Free(tree, Inner, x, y)
    BY <1>1, <1>6, LinesAre
  <2>2. Free(tree, Inner, x, y) <=> \A i \in Ids(tree) : ~Contains(r[i], x, y)
    BY <1>1, FreeIs
  <2>3. QED
    BY <2>1, <2>2
<1>7. ASSUME NEW x \in Int, NEW y \in Int
      PROVE  <<x, y>> \in gaps <=> Contains(Inner, x, y) /\ \A i \in Ids(tree) : ~Contains(r[i], x, y)
  <2>1. <<x, y>> \in CellsOf(Inner) <=> Contains(Inner, x, y)
    BY <1>1, CellsAre
  <2>2. \A i \in Ids(tree) : <<x, y>> \in CellsOf(r[i]) <=> Contains(r[i], x, y)
    BY <1>2, CellsAre
  <2> HIDE DEF r
  <2>3. QED
    BY <1>2, <2>1, <2>2
<1>8. lines \subseteq Int \X Int
  <2>1. SUFFICES ASSUME NEW s \in S PROVE CellsOf(s) \subseteq Int \X Int
    OBVIOUS
  <2>2. CellsOf(s) = (s.x .. s.x + s.w - 1) \X (s.y .. s.y + s.h - 1)
    BY DEF CellsOf
  <2>3. \A m, n : m .. n \subseteq Int
    OBVIOUS
  <2>4. QED
    BY <2>2, <2>3
<1>9. gaps \subseteq Int \X Int
  <2>1. CellsOf(Inner) \subseteq Int \X Int
    BY <1>5 DEF CellsOf
  <2>2. QED
    BY <2>1
<1> HIDE DEF r, S, gaps
<1>10. ASSUME NEW c \in Int \X Int
       PROVE  c \in lines <=> c \in gaps
  <2>1. PICK x \in Int, y \in Int : c = <<x, y>>
    OBVIOUS
  <2>2. c[1] = x /\ c[2] = y
    BY <2>1
  <2>3. QED
    BY <1>6, <1>7, <2>1, <2>2
<1>11. lines = gaps
  BY <1>8, <1>9, <1>10
<1> HIDE DEF lines
<1>12. ASSUME NEW c \in lines
       PROVE  FindAt(tree, c[1], c[2], Inner) = None
  <2>1. PICK x \in Int, y \in Int : c = <<x, y>>
    BY <1>8, <1>12
  <2>2. c[1] = x /\ c[2] = y
    BY <2>1
  <2>3. \A i \in Ids(tree) : ~Contains(r[i], x, y)
    BY <1>7, <1>11, <1>12, <2>1
  <2>4. Free(tree, Inner, x, y)
    BY <1>1, <2>3, FreeIs DEF r
  <2>5. QED
    BY <2>2, <2>4, FindNone
<1>13. ASSUME NEW i \in Ids(tree), r[i].w > 0, r[i].h > 0
       PROVE  /\ FindAt(tree, r[i].x, r[i].y, Inner) = i
              /\ FindAt(tree, r[i].x + r[i].w - 1, r[i].y + r[i].h - 1, Inner) = i
  <2>1. /\ r[i].x \in Nat /\ r[i].y \in Nat /\ r[i].w \in Nat /\ r[i].h \in Nat
    BY <1>2 DEF Cells
  <2>2. Contains(r[i], r[i].x, r[i].y) /\ Contains(r[i], r[i].x + r[i].w - 1, r[i].y + r[i].h - 1)
    BY <1>13, <2>1 DEF Contains
  <2>3. ASSUME NEW x \in Int, NEW y \in Int, Contains(r[i], x, y)
        PROVE  FindAt(tree, x, y, Inner) = i
    BY <1>1, <2>3, FindPane DEF r
  <2>4. FindAt(tree, r[i].x, r[i].y, Inner) = i
    BY <2>1, <2>2, <2>3
  <2>5. r[i].x + r[i].w - 1 \in Int /\ r[i].y + r[i].h - 1 \in Int
    BY <2>1
  <2>6. FindAt(tree, r[i].x + r[i].w - 1, r[i].y + r[i].h - 1, Inner) = i
    BY <2>2, <2>3, <2>5
  <2>7. QED
    BY <2>4, <2>6
<1>14. PanesTile <=>
        /\ \A i \in DOMAIN r : Within(r[i], Inner)
        /\ \A i, j \in DOMAIN r : i = j \/ Apart(r[i], r[j])
        /\ lines = gaps
        /\ \A c \in lines : FindAt(tree, c[1], c[2], Inner) = None
        /\ \A i \in DOMAIN r : r[i].w > 0 /\ r[i].h > 0 =>
             /\ FindAt(tree, r[i].x, r[i].y, Inner) = i
             /\ FindAt(tree, r[i].x + r[i].w - 1, r[i].y + r[i].h - 1, Inner) = i
  BY DEF PanesTile, r, S, lines, gaps
<1>15. QED
  BY <1>2, <1>3, <1>4, <1>11, <1>12, <1>13, <1>14

-----------------------------------------------------------------------------
(* The geometry of one tab under everything that changes it (LayoutEdit).  *)

\* A ratio set at any path, the dragged separator's or a stale one.
LEMMA SetRatioIs ==
    ASSUME NEW t, IsTree(t), NEW path, NEW n \in Int
    PROVE  LET u == SetRatioAt(t, path, n) IN IsTree(u) /\ Ids(u) = Ids(t)
<1>1. CASE path \notin Splits(t)
  BY <1>1 DEF SetRatioAt
<1>2. CASE path \in Splits(t)
  <2> DEFINE u == SetRatioAt(t, path, n)
  <2>1. t[path] \in SplitRec /\ path \in DOMAIN t /\ path \notin Leaves(t)
    BY <1>2 DEF IsTree, IsPlan, Splits
  <2>2. ClampRatio(n) \in Int
    BY DEF ClampRatio, Clamp, Least, Most, Scale
  <2>3. u = [t EXCEPT ![path] = [t[path] EXCEPT !.ratio = ClampRatio(n)]]
    BY <1>2 DEF SetRatioAt
  <2>4. DOMAIN u = DOMAIN t /\ \A p \in DOMAIN t \ {path} : u[p] = t[p]
    BY <2>3
  <2>5. u[path] \in SplitRec
    BY <2>1, <2>2, <2>3 DEF SplitRec
  <2> HIDE DEF u
  <2>6. \A p \in Leaves(t) : u[p] = t[p]
    BY <2>1, <2>4 DEF Leaves
  <2>7. \A p \in Splits(t) : u[p] \in SplitRec
    BY <2>4, <2>5 DEF Splits, IsTree, IsPlan
  <2>8. IsTree(u) /\ Ids(u) = Ids(t)
    BY <2>4, <2>6, <2>7, SameLeaves
  <2>9. QED
    BY <2>8 DEF u
<1>3. QED
  BY <1>1, <1>2

\* The splits whose area has a cell lie on one path.
LEMMA OnePath ==
    ASSUME NEW t, IsPlan(t), NEW a, Areal(a), NEW x \in Int, NEW y \in Int,
           NEW p \in Splits(t), NEW q \in Splits(t),
           Contains(Areas(t, a)[p], x, y), Contains(Areas(t, a)[q], x, y)
    PROVE  Pre(p, q) \/ Pre(q, p)
<1> DEFINE r == Areas(t, a)
<1>1. p \in DOMAIN t /\ q \in DOMAIN t /\ p \in Paths /\ q \in Paths
  BY DEF Splits, IsPlan, IsShape
<1>2. \A o \in DOMAIN t : Areal(r[o])
  BY AreasAre
<1> DEFINE b == r[p]
           c == r[q]
<1>3. Areal(b) /\ Areal(c) /\ Contains(b, x, y) /\ Contains(c, x, y)
  BY <1>1, <1>2
<1>4. Before(p, q) => Apart(b, c)
  BY <1>1, BeforeApart
<1>5. Before(q, p) => Apart(c, b)
  BY <1>1, BeforeApart
<1> HIDE DEF b, c, r
<1>6. ~Apart(b, c) /\ ~Apart(c, b)
  BY <1>3, ApartCells
<1>7. QED
  BY <1>1, <1>4, <1>5, <1>6, PathsPart

\* A separator that is hit belongs to a split, and comes with its area.
LEMMA FindSepIs ==
    ASSUME NEW t, IsPlan(t), NEW a, Areal(a), NEW x \in Int, NEW y \in Int,
           FindSepAt(t, x, y, a) # None
    PROVE  Areal(FindSepAt(t, x, y, a).area)
<1> DEFINE r == Areas(t, a)
           hits == {p \in Splits(t) :
                      /\ \A q \in Splits(t) : SeqX!IsPrefix(q, p) => Contains(r[q], x, y)
                      /\ OnSeparator(t[p].dir, SplitArea(r[p], t[p].dir, t[p].ratio), x, y)}
           First(p) == \A q \in hits \ {p} : SeqX!IsPrefix(p, q) \/ Before(p, q)
           hit == CHOOSE p \in hits : First(p)
<1>1. FindSepAt(t, x, y, a) = IF hits = {} THEN None ELSE [path |-> hit, dir |-> t[hit].dir, area |-> r[hit]]
  BY DEF FindSepAt
<1>2. hits # {}
  <2> HIDE DEF hits
  <2> QED
    BY <1>1
<1>3. \A p \in DOMAIN t : Areal(r[p])
  BY AreasAre
<1>4. Splits(t) \subseteq DOMAIN t /\ Splits(t) \subseteq Paths
  BY DEF Splits, IsPlan, IsShape
<1>5. ASSUME NEW p \in hits
      PROVE  p \in Splits(t) /\ p \in Paths /\ Len(p) \in Nat /\ Contains(r[p], x, y)
  <2>1. p \in Splits(t) /\ p \in Paths
    BY <1>4
  <2>2. Len(p) \in Nat /\ SeqX!IsPrefix(p, p)
    BY <2>1, PathFacts, PrefixIs
  <2>3. QED
    BY <2>1, <2>2
<1>6. ASSUME NEW p \in hits, NEW q \in hits
      PROVE  Pre(p, q) \/ Pre(q, p)
  <2>1. p \in Splits(t) /\ q \in Splits(t) /\ Contains(r[p], x, y) /\ Contains(r[q], x, y)
    BY <1>5
  <2>2. QED
    BY <2>1, OnePath
<1> HIDE DEF r, hits
<1> DEFINE T == {n \in Nat : \E p \in hits : Len(p) = n}
<1>7. T \in SUBSET Nat /\ T # {}
  BY <1>2, <1>5
<1>8. PICK n \in T : \A m \in T : n <= m
  <2> HIDE DEF T
  <2> QED
    BY <1>7, LeastNumber
<1>9. PICK p \in hits : Len(p) = n
  OBVIOUS
<1>10. First(p)
  <2>1. SUFFICES ASSUME NEW q \in hits, q # p
                 PROVE  SeqX!IsPrefix(p, q)
    OBVIOUS
  <2>2. p \in Paths /\ q \in Paths /\ Len(p) \in Nat /\ Len(q) \in Nat /\ Len(p) <= Len(q)
    BY <1>5, <1>8, <1>9
  <2>3. Pre(q, p) => p = q
    <3>1. SUFFICES ASSUME Pre(q, p) PROVE p = q
      OBVIOUS
    <3>2. Len(p) = Len(q) /\ \A k \in 1 .. Len(q) : q[k] = p[k]
      BY <2>2, <3>1 DEF Pre
    <3>3. QED
      BY <2>2, <3>2, PathEqual
  <2>4. Pre(p, q)
    BY <1>6, <2>1, <2>3
  <2>5. QED
    BY <2>2, <2>4, PrefixIs DEF Pre
<1>11. hit \in hits
  <2> HIDE DEF First
  <2> QED
    BY <1>9, <1>10
<1> HIDE DEF hit
<1>12. Areal(r[hit])
  BY <1>3, <1>4, <1>5, <1>11
<1>13. QED
  BY <1>1, <1>2, <1>12

\* The ratio of a dragged separator.
LEMMA CalcRatioIs ==
    ASSUME NEW ds, Areal(ds.area), NEW x \in Int, NEW y \in Int
    PROVE  CalcRatio(ds, x, y) \in Int
<1> DEFINE side == IF ds.dir = "h" THEN ds.area.w ELSE ds.area.h
           usable == Most(side - 1, 0)
           at == IF ds.dir = "h" THEN x - ds.area.x ELSE y - ds.area.y
           n == 2 * Most(at, 0) * Scale + usable
           m == 2 * usable
<1>1. ds.area.x \in Nat /\ ds.area.y \in Nat /\ ds.area.w \in Nat /\ ds.area.h \in Nat
  BY DEF Areal, Cells
<1>2. side \in Int /\ at \in Int
  BY <1>1
<1>3. CalcRatio(ds, x, y) = IF usable = 0 THEN Scale \div 2 ELSE ClampRatio(n \div m)
  BY DEF CalcRatio
<1> HIDE DEF side, at
<1>4. usable \in Nat /\ Most(at, 0) \in Int
  BY <1>2 DEF Most
<1> HIDE DEF usable
<1>5. n \in Int /\ m \in Int /\ (usable # 0 => m > 0)
  BY <1>4 DEF Scale
<1> HIDE DEF n, m
<1>6. usable # 0 => n \div m \in Int
  BY <1>5
<1>7. \A k \in Int : ClampRatio(k) \in Int
  BY DEF ClampRatio, Clamp, Least, Most, Scale
<1>8. Scale \div 2 \in Int
  BY DEF Scale
<1>9. QED
  BY <1>3, <1>6, <1>7, <1>8

\* What every step keeps: a tree whose pane ids are below the next one, a
\* size a terminal can have, and a drag that knows a real area.
LayoutInv ==
    /\ IsTree(tree)
    /\ nextId \in Nat
    /\ \A i \in Ids(tree) : i < nextId
    /\ dim \in Sizes
    /\ drag # None => Areal(drag.area)

\* What an edit of the tree has to show.
LEMMA TreeStep ==
    ASSUME LayoutInv, IsTree(tree'), Ids(tree') \subseteq Ids(tree), UNCHANGED <<nextId, dim, drag>>
    PROVE  LayoutInv'
<1>1. \A i \in Ids(tree') : i < nextId
  BY DEF LayoutInv
<1>2. QED
  BY <1>1 DEF LayoutInv

\* A new tab's layout is a single pane, a tree whose size fits u16.
LEMMA LayoutInitKeeps == LayoutInit => LayoutInv
<1> SUFFICES ASSUME LayoutInit PROVE LayoutInv
  OBVIOUS
<1>1. tree = FromGrid(1, 1) /\ nextId = 1 /\ dim = FirstDim /\ drag = None
  BY DEF LayoutInit
<1>2. FirstDim \in Sizes
  BY LayoutAssumption DEF Sizes
<1>3. IsTree(tree) /\ Ids(tree) = {0}
  BY <1>1, NewTreeIs
<1>4. QED
  BY <1>1, <1>2, <1>3 DEF LayoutInv

\* Each edit of a tab keeps the invariant of its layout.
LEMMA LayoutKeeps ==
    ASSUME LayoutInv, LayoutNext
    PROVE  LayoutInv'
<1>1. /\ IsTree(tree) /\ nextId \in Nat /\ (\A i \in Ids(tree) : i < nextId) /\ dim \in Sizes
      /\ Ids(tree) \subseteq Nat /\ (drag # None => Areal(drag.area))
  BY PathToIs DEF LayoutInv
<1>2. ASSUME NEW i \in Ids(tree), NEW d \in {"h", "v"}, EditSplit(i, d)
      PROVE  LayoutInv'
  <2>1. nextId \notin Ids(tree)
    BY <1>1
  <2>2. tree' = Split(tree, i, nextId, d) /\ nextId' = nextId + 1 /\ UNCHANGED <<dim, drag>>
    BY <1>2 DEF EditSplit
  <2>3. IsTree(tree') /\ Ids(tree') = Ids(tree) \cup {nextId}
    BY <1>1, <2>1, <2>2, SplitIs
  <2>4. \A j \in Ids(tree') : j < nextId'
    BY <1>1, <2>2, <2>3
  <2>5. QED
    BY <1>1, <2>2, <2>3, <2>4 DEF LayoutInv
<1>3. ASSUME NEW i \in Ids(tree), EditClose(i)
      PROVE  LayoutInv'
  <2>1. /\ tree' = IF CountLeaves(tree) > 1 /\ i \in Ids(tree) THEN Remove(tree, i) ELSE tree
        /\ CountLeaves(tree) > 1 /\ UNCHANGED <<nextId, dim, drag>>
    BY <1>3 DEF EditClose
  <2>2. IsTree(tree') /\ Ids(tree') = Ids(tree) \ {i}
    BY <1>1, <2>1, RemoveIs
  <2>3. QED
    BY <2>1, <2>2, TreeStep
<1>4. ASSUME NEW i \in Ids(tree), Swap(i)
      PROVE  LayoutInv'
  <2> DEFINE j == NextPane(tree, i)
  <2>1. tree' = SwapPanes(tree, i, j) /\ i # j /\ UNCHANGED <<nextId, dim, drag>>
    BY <1>4 DEF Swap
  <2>2. j \in Ids(tree)
    BY <1>1, NeighboursInIds
  <2> HIDE DEF j
  <2>3. i \in Nat /\ j \in Nat
    BY <1>1, <2>2
  <2>4. IsTree(tree') /\ Ids(tree') = Ids(tree)
    BY <1>1, <2>1, <2>2, <2>3, SwapIs
  <2>5. QED
    BY <2>1, <2>4, TreeStep
<1>5. ASSUME NEW i \in Ids(tree), NEW nav \in Navs, KeyResize(i, nav)
      PROVE  LayoutInv'
  <2>1. tree' = ResizePane(tree, i, nav, ResizeStep) /\ UNCHANGED <<nextId, dim, drag>>
    BY <1>5 DEF KeyResize
  <2>2. ResizeStep \in Int
    BY DEF ResizeStep, Scale
  <2>3. IsTree(tree') /\ Ids(tree') = Ids(tree)
    BY <1>1, <2>1, <2>2, ResizePaneIs
  <2>4. QED
    BY <2>1, <2>3, TreeStep
<1>6. ASSUME EqualizeAll
      PROVE  LayoutInv'
  <2>1. tree' = Equalize(tree) /\ UNCHANGED <<nextId, dim, drag>>
    BY <1>6 DEF EqualizeAll
  <2>2. IsTree(tree') /\ Ids(tree') = Ids(tree)
    BY <1>1, <2>1, EqualizeIs
  <2>3. QED
    BY <2>1, <2>2, TreeStep
<1>7. ASSUME NEW s \in Shapes, SelectLayout(s)
      PROVE  LayoutInv'
  <2>1. tree' = Reconfigure(tree, s) /\ UNCHANGED <<nextId, dim, drag>>
    BY <1>7 DEF SelectLayout
  <2>2. s \in SpecSet
    BY LayoutAssumption DEF SpecSet, Weights
  <2>3. IsTree(tree') /\ Ids(tree') = Ids(tree)
    BY <1>1, <2>1, <2>2, ReconfigureIs
  <2>4. QED
    BY <2>1, <2>3, TreeStep
<1>8. ASSUME NEW d \in Dims, TerminalResize(d)
      PROVE  LayoutInv'
  <2>1. dim' = d /\ drag' = None /\ UNCHANGED <<tree, nextId>>
    BY <1>8 DEF TerminalResize
  <2>2. d \in Sizes
    BY LayoutAssumption DEF Sizes
  <2>3. QED
    BY <1>1, <2>1, <2>2 DEF LayoutInv
<1>9. ASSUME NEW x \in Int, NEW y \in Int, Grab(x, y)
      PROVE  LayoutInv'
  <2>1. drag' = FindSepAt(tree, x, y, Clipped(Inner)) /\ drag' # None /\ UNCHANGED <<tree, nextId, dim>>
    BY <1>9 DEF Grab
  <2>2. Areal(Clipped(Inner)) /\ IsPlan(tree)
    BY <1>1, InnerIs DEF IsTree
  <2>3. Areal(drag'.area)
    BY <2>1, <2>2, FindSepIs
  <2>4. QED
    BY <1>1, <2>1, <2>3 DEF LayoutInv
<1>10. ASSUME NEW x \in Int, NEW y \in Int, DragTo(x, y)
       PROVE  LayoutInv'
  <2>1. tree' = SetRatioAt(tree, drag.path, CalcRatio(drag, x, y)) /\ drag # None /\ UNCHANGED <<nextId, dim, drag>>
    BY <1>10 DEF DragTo
  <2>2. CalcRatio(drag, x, y) \in Int
    BY <1>1, <2>1, CalcRatioIs
  <2>3. IsTree(tree') /\ Ids(tree') = Ids(tree)
    BY <1>1, <2>1, <2>2, SetRatioIs
  <2>4. QED
    BY <2>1, <2>3, TreeStep
<1>11. ASSUME Release
       PROVE  LayoutInv'
  BY <1>1, <1>11 DEF Release, LayoutInv
<1>12. \A m, n : m .. n \subseteq Int
  OBVIOUS
<1>13. QED
  BY <1>2, <1>3, <1>4, <1>5, <1>6, <1>7, <1>8, <1>9, <1>10, <1>11, <1>12 DEF LayoutNext

\* The inductive invariant of a tab's geometry: the layout is a tree and the
\* terminal's size fits u16, after splits, closes, swaps, resizes, layout
\* specs and drags, with a stale drag or a current one.
THEOREM SpecImpliesLayoutInv == Spec => []LayoutInv
<1>1. Init => LayoutInv
  BY LayoutInitKeeps DEF Init
<1>2. LayoutInv /\ [Next]_editVars => LayoutInv'
  <2> SUFFICES ASSUME LayoutInv, [Next]_editVars
               PROVE  LayoutInv'
    OBVIOUS
  <2>1. CASE LayoutNext
    BY <2>1, LayoutKeeps
  <2>2. CASE UNCHANGED layoutVars
    BY <2>2 DEF layoutVars, LayoutInv
  <2>3. QED
    BY <2>1, <2>2 DEF Next, editVars
<1>3. QED
  BY <1>1, <1>2, PTL DEF Spec

\* Whatever edits came before, the panes lie in the content area without
\* overlap, the separator lines fill exactly the cells between them, and a
\* click hits the pane that is drawn under it or, on a line, no pane.
THEOREM SpecImpliesPanesTile == Spec => []PanesTile
<1>1. LayoutInv => PanesTile
  BY TreeTiles DEF LayoutInv
<1>2. QED
  BY <1>1, SpecImpliesLayoutInv, PTL
=============================================================================
