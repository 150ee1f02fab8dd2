-------------------------- MODULE Selection_proofs --------------------------
(***************************************************************************)
(* Induction over the naturals, stated for a set of numbers rather than    *)
(* for a predicate, so that the provers can use it; what it says of        *)
(* recursive functions, of maxima and of Select.                           *)
(***************************************************************************)
EXTENDS Selection, SequenceTheorems, FiniteSetTheorems, WellFoundedInduction, TLAPS

LEMMA NatSetInduction ==
    ASSUME NEW T, 0 \in T, \A n \in Nat : n \in T => n + 1 \in T
    PROVE  Nat \subseteq T
<1> DEFINE R == OpToRel(<, Nat)
           B == Nat \ T
<1>1. SUFFICES ASSUME B # {} PROVE FALSE
  OBVIOUS
<1>2. IsWellFoundedOn(R, Nat)
  BY NatLessThanWellFounded
<1>3. PICK x \in B : \A y \in B : ~(<<y, x>> \in R)
  <2>1. B \subseteq Nat
    OBVIOUS
  <2> HIDE DEF R, B
  <2> QED
    BY <1>1, <1>2, <2>1, WFMin
<1>4. \A y \in B : ~(y < x)
  BY <1>3 DEF OpToRel
<1> QED
  BY <1>4

(* The same up to a bound.                                                 *)
LEMMA IntervalInduction ==
    ASSUME NEW N \in Nat, NEW T, 0 \in T, \A n \in 1..N : n - 1 \in T => n \in T
    PROVE  0..N \subseteq T
<1> DEFINE U == {n \in Nat : n <= N => n \in T}
<1>1. 0 \in U
  OBVIOUS
<1>2. \A n \in Nat : n \in U => n + 1 \in U
  <2> SUFFICES ASSUME NEW n \in Nat, n \in U, n + 1 <= N
               PROVE  n + 1 \in T
    OBVIOUS
  <2>1. n + 1 \in 1..N /\ (n + 1) - 1 = n
    OBVIOUS
  <2> QED
    BY <2>1
<1>3. Nat \subseteq U
  <2> HIDE DEF U
  <2> QED
    BY <1>1, <1>2, NatSetInduction
<1> QED
  BY <1>3

(* A function defined by primitive recursion over an interval exists, so   *)
(* that CHOOSE picks one that satisfies its equation.                      *)
Recurses(f, N, v, step) ==
    f = [n \in 0..N |-> IF n = 0 THEN v ELSE step[n][f[n - 1]]]

LEMMA PrimitiveRecursion ==
    ASSUME NEW N \in Nat, NEW V, NEW v \in V, NEW step \in [1..N -> [V -> V]]
    PROVE  \E f \in [0..N -> V] : Recurses(f, N, v, step)
<1> DEFINE Upto(m, g) == /\ g[0] = v
                         /\ \A n \in 1..m : g[n] = step[n][g[n - 1]]
           Defined(m) == \E g \in [0..m -> V] : Upto(m, g)
           T == {m \in 0..N : Defined(m)}
<1>1. 0 \in T
  <2> DEFINE g == [n \in 0..0 |-> v]
  <2>1. g \in [0..0 -> V] /\ Upto(0, g)
    OBVIOUS
  <2>2. Defined(0)
    BY <2>1
  <2> QED
    BY <2>2
<1>2. ASSUME NEW m \in 1..N, m - 1 \in T
      PROVE  m \in T
  <2>1. PICK g \in [0..(m - 1) -> V] : Upto(m - 1, g)
    BY <1>2
  <2> DEFINE h == [n \in 0..m |-> IF n = m THEN step[m][g[m - 1]] ELSE g[n]]
  <2>2. g[m - 1] \in V /\ step[m][g[m - 1]] \in V
    OBVIOUS
  <2>3. h \in [0..m -> V]
    BY <2>2
  <2>4. Upto(m, h)
    BY <2>1
  <2>5. Defined(m)
    BY <2>3, <2>4
  <2> QED
    BY <2>5
<1>3. PICK g \in [0..N -> V] : Upto(N, g)
  <2>1. 0..N \subseteq T
    <3> HIDE DEF T
    <3> QED
      BY <1>1, <1>2, IntervalInduction
  <2> QED
    BY <2>1
<1>4. Recurses(g, N, v, step)
  BY <1>3 DEF Recurses
<1> QED
  BY <1>4

-----------------------------------------------------------------------------
(* f[n] are the elements of s kept among the first n.                      *)
IsKept(f, s, P) ==
    f = [n \in 0..Len(s) |->
            IF n = 0 THEN <<>>
            ELSE IF n \in P THEN Append(f[n - 1], s[n]) ELSE f[n - 1]]

LEMMA KeptType ==
    ASSUME NEW S, NEW s \in Seq(S), NEW P, NEW f, IsKept(f, s, P)
    PROVE  /\ f \in [0..Len(s) -> Seq(S)]
           /\ f[0] = <<>>
           /\ \A n \in 1..Len(s) :
                 f[n] = IF n \in P THEN Append(f[n - 1], s[n]) ELSE f[n - 1]
<1> DEFINE N == Len(s)
           Typed(n) == f[n] \in Seq(S)
           T == {n \in 0..N : Typed(n)}
<1>1. f[0] = <<>>
  BY DEF IsKept
<1>2. ASSUME NEW n \in 1..N
      PROVE  f[n] = IF n \in P THEN Append(f[n - 1], s[n]) ELSE f[n - 1]
  <2>1. n \in 0..Len(s) /\ n # 0
    OBVIOUS
  <2> QED
    BY <2>1, Zenon DEF IsKept
<1>3. N \in Nat
  OBVIOUS
<1>4. Typed(0)
  BY <1>1
<1>5. ASSUME NEW n \in 1..N, Typed(n - 1)
      PROVE  Typed(n)
  <2>1. s[n] \in S
    OBVIOUS
  <2>2. f[n] = f[n - 1] \/ f[n] = Append(f[n - 1], s[n])
    BY <1>2
  <2>3. Append(f[n - 1], s[n]) \in Seq(S)
    BY <1>5, <2>1
  <2> QED
    BY <1>5, <2>2, <2>3, Zenon
<1>6. 0..N \subseteq T
  <2> HIDE DEF N, Typed
  <2>1. 0 \in T /\ \A n \in 1..N : n - 1 \in T => n \in T
    BY <1>3, <1>4, <1>5
  <2> HIDE DEF T
  <2> QED
    BY <1>3, <2>1, IntervalInduction
<1>7. f \in [0..N -> Seq(S)]
  BY <1>6 DEF IsKept
<1> QED
  BY <1>1, <1>2, <1>7

LEMMA SelectDef ==
    ASSUME NEW S, NEW s \in Seq(S), NEW P
    PROVE  \E f \in [0..Len(s) -> Seq(S)] : IsKept(f, s, P) /\ Select(s, P) = f[Len(s)]
<1> DEFINE N == Len(s)
           V == Seq(S)
           step == [n \in 1..N |-> [v \in V |-> IF n \in P THEN Append(v, s[n]) ELSE v]]
           F == CHOOSE f : IsKept(f, s, P)
<1>1. step \in [1..N -> [V -> V]]
  OBVIOUS
<1>2. N \in Nat /\ <<>> \in V
  OBVIOUS
<1>3. PICK f \in [0..N -> V] : Recurses(f, N, <<>>, step)
  <2> HIDE DEF step, N, V
  <2> QED
    BY <1>1, <1>2, PrimitiveRecursion
<1>4. ASSUME NEW n \in 1..N
      PROVE  step[n][f[n - 1]] = IF n \in P THEN Append(f[n - 1], s[n]) ELSE f[n - 1]
  <2>1. f[n - 1] \in V
    OBVIOUS
  <2> QED
    BY <2>1
<1>5. IsKept(f, s, P)
  <2> HIDE DEF step
  <2> QED
    BY <1>3, <1>4 DEF IsKept, Recurses
<1>6. IsKept(F, s, P)
  BY <1>5
<1>7. F \in [0..Len(s) -> Seq(S)]
  BY <1>6, KeptType
<1> QED
  BY <1>6, <1>7 DEF Select, IsKept

(* r holds the elements of s at the positions P up to n, in their order: e *)
(* says from where each comes.                                             *)
Picks(e, r, s, n, P) ==
    /\ \A i \in 1..Len(r) : e[i] \in 1..n /\ e[i] \in P /\ r[i] = s[e[i]]
    /\ \A i, j \in 1..Len(r) : i < j => e[i] < e[j]
    /\ \A p \in 1..n : p \in P => \E i \in 1..Len(r) : e[i] = p

LEMMA PickStep ==
    ASSUME NEW S, NEW s \in Seq(S), NEW P, NEW n \in 1..Len(s),
           NEW r \in Seq(S), NEW e, Picks(e, r, s, n - 1, P)
    PROVE  \E d : Picks(d, IF n \in P THEN Append(r, s[n]) ELSE r, s, n, P)
<1>1. CASE n \in P
  <2> DEFINE q == Append(r, s[n])
             d == [i \in 1..Len(q) |-> IF i = Len(q) THEN n ELSE e[i]]
  <2>1. /\ Len(q) = Len(r) + 1 /\ q[Len(q)] = s[n]
        /\ \A i \in 1..Len(r) : q[i] = r[i]
    OBVIOUS
  <2>2. d[Len(q)] = n /\ \A i \in 1..Len(r) : d[i] = e[i]
    BY <2>1
  <2>3. \A i \in 1..Len(q) : i \in 1..Len(r) \/ i = Len(q)
    BY <2>1
  <2> HIDE DEF d, q
  <2>4. \A i \in 1..Len(q) : d[i] \in 1..n /\ d[i] \in P /\ q[i] = s[d[i]]
    BY <1>1, <2>1, <2>2, <2>3 DEF Picks
  <2>5. ASSUME NEW i \in 1..Len(q), NEW j \in 1..Len(q), i < j
        PROVE  d[i] < d[j]
    <3>1. i \in 1..Len(r) /\ d[i] = e[i] /\ e[i] \in 1..(n - 1)
      BY <2>1, <2>2, <2>5 DEF Picks
    <3>2. CASE j = Len(q)
      BY <2>2, <3>1, <3>2
    <3>3. CASE j \in 1..Len(r)
      BY <2>2, <2>5, <3>1, <3>3 DEF Picks
    <3> QED
      BY <2>3, <3>2, <3>3
  <2>6. \A p \in 1..n : p \in P => \E i \in 1..Len(q) : d[i] = p
    <3> SUFFICES ASSUME NEW p \in 1..n, p \in P
                 PROVE  \E i \in 1..Len(q) : d[i] = p
      OBVIOUS
    <3>1. CASE p = n
      BY <2>1, <2>2, <3>1
    <3>2. CASE p \in 1..(n - 1)
      BY <2>1, <2>2, <3>2 DEF Picks
    <3> QED
      BY <3>1, <3>2
  <2>7. Picks(d, q, s, n, P)
    BY <2>4, <2>5, <2>6 DEF Picks
  <2> QED
    BY <1>1, <2>7 DEF q
<1>2. CASE n \notin P
  <2>1. \A p \in 1..n : p \in P => p \in 1..(n - 1)
    BY <1>2
  <2>2. \A i \in 1..Len(r) : e[i] \in 1..n /\ e[i] \in P /\ r[i] = s[e[i]]
    BY DEF Picks
  <2>3. Picks(e, r, s, n, P)
    BY <2>1, <2>2 DEF Picks
  <2> QED
    BY <1>2, <2>3
<1> QED
  BY <1>1, <1>2

LEMMA SelectPicks ==
    ASSUME NEW S, NEW s \in Seq(S), NEW P
    PROVE  /\ Select(s, P) \in Seq(S)
           /\ \E e : Picks(e, Select(s, P), s, Len(s), P)
<1>1. PICK f \in [0..Len(s) -> Seq(S)] : IsKept(f, s, P) /\ Select(s, P) = f[Len(s)]
  BY SelectDef
<1> DEFINE N == Len(s)
           Done(n) == \E e : Picks(e, f[n], s, n, P)
           T == {n \in 0..N : Done(n)}
<1>2. N \in Nat
  OBVIOUS
<1>3. Done(0)
  <2>1. f[0] = <<>>
    BY <1>1, KeptType
  <2>2. Picks(<<>>, <<>>, s, 0, P)
    BY DEF Picks
  <2> QED
    BY <2>1, <2>2
<1>4. ASSUME NEW n \in 1..N, Done(n - 1)
      PROVE  Done(n)
  <2>1. PICK e : Picks(e, f[n - 1], s, n - 1, P)
    BY <1>4
  <2>2. f[n] = IF n \in P THEN Append(f[n - 1], s[n]) ELSE f[n - 1]
    BY <1>1, KeptType
  <2>3. f[n - 1] \in Seq(S)
    BY <1>1
  <2> QED
    BY <2>1, <2>2, <2>3, PickStep
<1>5. 0..N \subseteq T
  <2> HIDE DEF N, Done
  <2>1. 0 \in T /\ \A n \in 1..N : n - 1 \in T => n \in T
    BY <1>2, <1>3, <1>4
  <2> HIDE DEF T
  <2> QED
    BY <1>2, <2>1, IntervalInduction
<1>6. Done(N)
  BY <1>2, <1>5
<1> QED
  BY <1>1, <1>6

(* Something is dropped, or all is kept.                                   *)
LEMMA SelectLen ==
    ASSUME NEW S, NEW s \in Seq(S), NEW P
    PROVE  /\ Len(Select(s, P)) <= Len(s)
           /\ (\E p \in 1..Len(s) : p \notin P) => Len(Select(s, P)) < Len(s)
<1>1. PICK f \in [0..Len(s) -> Seq(S)] : IsKept(f, s, P) /\ Select(s, P) = f[Len(s)]
  BY SelectDef
<1> DEFINE N == Len(s)
           Done(n) == /\ Len(f[n]) <= n
                      /\ (\E p \in 1..n : p \notin P) => Len(f[n]) < n
           T == {n \in 0..N : Done(n)}
<1>2. N \in Nat
  OBVIOUS
<1>3. Done(0)
  BY <1>1, KeptType
<1>4. ASSUME NEW n \in 1..N, Done(n - 1)
      PROVE  Done(n)
  <2>1. f[n] = IF n \in P THEN Append(f[n - 1], s[n]) ELSE f[n - 1]
    BY <1>1, KeptType
  <2>2. f[n - 1] \in Seq(S) /\ s[n] \in S
    BY <1>1
  <2>3. Len(f[n]) = IF n \in P THEN Len(f[n - 1]) + 1 ELSE Len(f[n - 1])
    BY <2>1, <2>2
  <2>4. \A p \in 1..n : p = n \/ p \in 1..(n - 1)
    OBVIOUS
  <2> QED
    BY <1>4, <2>2, <2>3, <2>4
<1>5. 0..N \subseteq T
  <2> HIDE DEF N, Done
  <2>1. 0 \in T /\ \A n \in 1..N : n - 1 \in T => n \in T
    BY <1>2, <1>3, <1>4
  <2> HIDE DEF T
  <2> QED
    BY <1>2, <2>1, IntervalInduction
<1>6. Done(N)
  BY <1>2, <1>5
<1> QED
  BY <1>1, <1>6

LEMMA SelectAll ==
    ASSUME NEW S, NEW s \in Seq(S), NEW P, 1..Len(s) \subseteq P
    PROVE  Select(s, P) = s
<1>1. PICK f \in [0..Len(s) -> Seq(S)] : IsKept(f, s, P) /\ Select(s, P) = f[Len(s)]
  BY SelectDef
<1> DEFINE N == Len(s)
           Done(n) == Len(f[n]) = n /\ \A i \in 1..n : f[n][i] = s[i]
           T == {n \in 0..N : Done(n)}
<1>2. N \in Nat
  OBVIOUS
<1>3. Done(0)
  BY <1>1, KeptType
<1>4. ASSUME NEW n \in 1..N, Done(n - 1)
      PROVE  Done(n)
  <2>1. f[n] = Append(f[n - 1], s[n])
    <3>1. f[n] = IF n \in P THEN Append(f[n - 1], s[n]) ELSE f[n - 1]
      BY <1>1, KeptType
    <3>2. n \in P
      OBVIOUS
    <3> QED
      BY <3>1, <3>2
  <2>2. f[n - 1] \in Seq(S) /\ s[n] \in S
    BY <1>1
  <2>3. /\ Len(f[n]) = n /\ f[n][n] = s[n]
        /\ \A i \in 1..(n - 1) : f[n][i] = s[i]
    BY <1>4, <2>1, <2>2
  <2>4. \A i \in 1..n : i = n \/ i \in 1..(n - 1)
    OBVIOUS
  <2> QED
    BY <2>3, <2>4
<1>5. 0..N \subseteq T
  <2> HIDE DEF N, Done
  <2>1. 0 \in T /\ \A n \in 1..N : n - 1 \in T => n \in T
    BY <1>2, <1>3, <1>4
  <2> HIDE DEF T
  <2> QED
    BY <1>2, <2>1, IntervalInduction
<1>6. Done(N)
  BY <1>2, <1>5
<1> QED
  BY <1>1, <1>6, SeqEqual, SelectPicks

LEMMA ConcatAppend ==
    ASSUME NEW S, NEW a \in Seq(S), NEW b \in Seq(S), NEW x \in S
    PROVE  a \o Append(b, x) = Append(a \o b, x)
<1> DEFINE left == a \o Append(b, x)
           right == Append(a \o b, x)
<1>1. left \in Seq(S) /\ right \in Seq(S) /\ Len(left) = Len(right)
  OBVIOUS
<1>2. ASSUME NEW i \in 1..Len(left)
      PROVE  left[i] = right[i]
  BY <1>1
<1> QED
  BY <1>1, <1>2, SeqEqual

(* What is kept in front stays in front.                                   *)
LEMMA SelectFront ==
    ASSUME NEW S, NEW front \in Seq(S), NEW s \in Seq(S), NEW P, NEW Q,
           1..Len(front) \subseteq Q,
           \A k \in 1..Len(s) : Len(front) + k \in Q <=> k \in P
    PROVE  Select(front \o s, Q) = front \o Select(s, P)
<1> DEFINE n == Len(front)
           whole == front \o s
<1>1. /\ n \in Nat /\ Len(s) \in Nat /\ whole \in Seq(S) /\ Len(whole) = n + Len(s)
      /\ \A k \in 1..n : whole[k] = front[k]
      /\ \A k \in 1..Len(s) : whole[n + k] = s[k]
  OBVIOUS
<1> HIDE DEF whole
<1>2. PICK f : /\ f \in [0..Len(whole) -> Seq(S)]
               /\ IsKept(f, whole, Q) /\ Select(whole, Q) = f[Len(whole)]
  <2>1. whole \in Seq(S)
    BY <1>1
  <2> QED
    BY <2>1, SelectDef, Zenon
<1>3. PICK g : /\ g \in [0..Len(s) -> Seq(S)]
               /\ IsKept(g, s, P) /\ Select(s, P) = g[Len(s)]
  BY SelectDef
<1>4. \A k \in 1..Len(whole) :
         f[k] = IF k \in Q THEN Append(f[k - 1], whole[k]) ELSE f[k - 1]
  <2>1. whole \in Seq(S) /\ IsKept(f, whole, Q)
    BY <1>1, <1>2
  <2> QED
    BY <2>1, KeptType
<1>5. \A k \in 1..Len(s) : g[k] = IF k \in P THEN Append(g[k - 1], s[k]) ELSE g[k - 1]
  BY <1>3, KeptType
<1>6. f[0] = <<>> /\ g[0] = <<>>
  <2>1. whole \in Seq(S) /\ IsKept(f, whole, Q) /\ IsKept(g, s, P)
    BY <1>1, <1>2, <1>3
  <2>2. f[0] = <<>>
    BY <2>1, KeptType
  <2>3. g[0] = <<>>
    BY <2>1, KeptType
  <2> QED
    BY <2>2, <2>3
<1>7. f[n] = front
  <2> DEFINE Done(k) == Len(f[k]) = k /\ \A i \in 1..k : f[k][i] = front[i]
             T == {k \in 0..n : Done(k)}
  <2>1. Done(0)
    BY <1>6
  <2>2. ASSUME NEW k \in 1..n, Done(k - 1)
        PROVE  Done(k)
    <3>1. k \in 1..Len(whole) /\ k \in Q /\ k - 1 \in 0..Len(whole)
      <4>1. n \in Nat /\ Len(s) \in Nat /\ Len(whole) = n + Len(s)
        BY <1>1
      <4> HIDE DEF n
      <4>2. k \in 1..Len(whole) /\ k - 1 \in 0..Len(whole)
        BY <4>1
      <4> QED
        BY <4>2 DEF n
    <3>2. f[k] = Append(f[k - 1], whole[k])
      BY <1>4, <3>1
    <3>3. f[k - 1] \in Seq(S) /\ whole[k] \in S
      <4>1. whole[k] = front[k] /\ front[k] \in S
        BY <1>1
      <4> QED
        BY <1>2, <3>1, <4>1
    <3>4. /\ Len(f[k]) = k /\ f[k][k] = whole[k]
          /\ \A i \in 1..(k - 1) : f[k][i] = front[i]
      BY <2>2, <3>2, <3>3
    <3>5. \A i \in 1..k : i = k \/ i \in 1..(k - 1)
      OBVIOUS
    <3> QED
      BY <1>1, <3>4, <3>5
  <2>3. 0..n \subseteq T
    <3> HIDE DEF n, Done
    <3>1. 0 \in T /\ \A k \in 1..n : k - 1 \in T => k \in T
      BY <1>1, <2>1, <2>2
    <3> HIDE DEF T
    <3> QED
      BY <1>1, <3>1, IntervalInduction
  <2>4. Done(n) /\ f[n] \in Seq(S)
    BY <1>1, <1>2, <2>3
  <2> QED
    BY <2>4, SeqEqual
<1>8. f[n + Len(s)] = front \o g[Len(s)]
  <2> DEFINE Done(k) == f[n + k] = front \o g[k]
             T == {k \in 0..Len(s) : Done(k)}
  <2>1. Done(0)
    BY <1>1, <1>6, <1>7
  <2>2. ASSUME NEW k \in 1..Len(s), Done(k - 1)
        PROVE  Done(k)
    <3>1. n + k \in 1..Len(whole) /\ (n + k) - 1 = n + (k - 1)
      BY <1>1
    <3>2. f[n + k] = IF k \in P THEN Append(f[n + (k - 1)], s[k]) ELSE f[n + (k - 1)]
      BY <1>1, <1>4, <3>1
    <3>3. g[k - 1] \in Seq(S) /\ s[k] \in S
      <4>1. k - 1 \in 0..Len(s)
        BY <1>1
      <4>2. g[k - 1] \in Seq(S)
        BY <1>3, <4>1
      <4>3. s[k] \in S
        OBVIOUS
      <4> QED
        BY <4>2, <4>3
    <3>4. front \o Append(g[k - 1], s[k]) = Append(front \o g[k - 1], s[k])
      BY <3>3, ConcatAppend
    <3> QED
      BY <1>5, <2>2, <3>2, <3>4
  <2>3. 0..Len(s) \subseteq T
    <3> HIDE DEF Done
    <3>1. 0 \in T /\ \A k \in 1..Len(s) : k - 1 \in T => k \in T
      BY <1>1, <2>1, <2>2
    <3> HIDE DEF T
    <3> QED
      BY <1>1, <3>1, IntervalInduction
  <2>4. Len(s) \in 0..Len(s)
    BY <1>1
  <2>5. Len(s) \in T
    <3> HIDE DEF T
    <3> QED
      BY <2>3, <2>4
  <2> QED
    BY <2>5
<1> QED
  BY <1>1, <1>2, <1>3, <1>8 DEF whole

-----------------------------------------------------------------------------
(* Finite sets of numbers have a largest and a smallest element.           *)
LEMMA LargestExists ==
    ASSUME NEW N \in Nat, NEW S \in SUBSET (0..N), S # {}
    PROVE  \E x \in S : \A y \in S : x >= y
<1> DEFINE HasMax(n) == \A R \in SUBSET (0..n) : R # {} => \E x \in R : \A y \in R : x >= y
           T == {n \in 0..N : HasMax(n)}
<1>1. HasMax(0)
  <2>1. ASSUME NEW R \in SUBSET (0..0), R # {}
        PROVE  \E x \in R : \A y \in R : x >= y
    <3>1. \A y \in 0..0 : y = 0
      OBVIOUS
    <3>2. PICK x \in R : TRUE
      BY <2>1
    <3> QED
      BY <3>1, <3>2
  <2> QED
    BY <2>1
<1>2. ASSUME NEW n \in 1..N, HasMax(n - 1)
      PROVE  HasMax(n)
  <2> SUFFICES ASSUME NEW R \in SUBSET (0..n), R # {}
               PROVE  \E x \in R : \A y \in R : x >= y
    OBVIOUS
  <2>1. CASE n \in R
    BY <2>1
  <2>2. CASE n \notin R
    <3>1. R \in SUBSET (0..(n - 1))
      BY <2>2
    <3> QED
      BY <1>2, <3>1
  <2> QED
    BY <2>1, <2>2
<1>3. 0..N \subseteq T
  <2> HIDE DEF HasMax
  <2>1. 0 \in T /\ \A n \in 1..N : n - 1 \in T => n \in T
    BY <1>1, <1>2
  <2> HIDE DEF T
  <2> QED
    BY <2>1, IntervalInduction
<1> QED
  BY <1>3

LEMMA SmallestExists ==
    ASSUME NEW N \in Nat, NEW S \in SUBSET (0..N), S # {}
    PROVE  \E x \in S : \A y \in S : x <= y
<1> DEFINE R == {r \in 0..N : N - r \in S}
<1>1. \A x \in S : N - x \in R
  OBVIOUS
<1>2. R \in SUBSET (0..N) /\ R # {}
  BY <1>1
<1>3. PICK r \in R : \A q \in R : r >= q
  BY <1>2, LargestExists
<1>4. N - r \in S /\ r \in 0..N
  OBVIOUS
<1>5. \A y \in S : N - r <= y
  BY <1>1, <1>3, <1>4
<1> QED
  BY <1>4, <1>5

(* Induction over the subsets of a finite set.                             *)
LEMMA SubsetInduction ==
    ASSUME NEW S, IsFiniteSet(S), NEW U,
           \A T \in SUBSET S : (\A x \in T : T \ {x} \in U) => T \in U
    PROVE  SUBSET S \subseteq U
<1> DEFINE Z == {n \in Nat : \A T \in SUBSET S : Cardinality(T) = n => T \in U}
<1>1. \A T \in SUBSET S : IsFiniteSet(T) /\ Cardinality(T) \in Nat
  BY FS_Subset, FS_CardinalityType
<1>2. 0 \in Z
  <2> SUFFICES ASSUME NEW T \in SUBSET S, Cardinality(T) = 0
               PROVE  T \in U
    OBVIOUS
  <2>1. T = {}
    BY <1>1, FS_EmptySet
  <2> QED
    BY <2>1
<1>3. \A n \in Nat : n \in Z => n + 1 \in Z
  <2> SUFFICES ASSUME NEW n \in Nat, n \in Z, NEW T \in SUBSET S, Cardinality(T) = n + 1
               PROVE  T \in U
    OBVIOUS
  <2>1. ASSUME NEW x \in T
        PROVE  T \ {x} \in U
    <3>1. Cardinality(T \ {x}) = n
      BY <1>1, FS_RemoveElement
    <3> QED
      BY <3>1
  <2> QED
    BY <2>1
<1>4. Nat \subseteq Z
  <2> HIDE DEF Z
  <2> QED
    BY <1>2, <1>3, NatSetInduction
<1> QED
  BY <1>1, <1>4

(* A fold of a finite set exists: it takes the elements out one by one, in *)
(* the order of pick, and each changes the value by its step.              *)
FoldsBy(g, S, v, pick, step) ==
    g = [T \in SUBSET S |-> IF T = {} THEN v ELSE step[T][g[T \ {pick[T]}]]]

LEMMA FoldRecursion ==
    ASSUME NEW S, IsFiniteSet(S), NEW V, NEW v \in V,
           NEW step \in [SUBSET S -> [V -> V]],
           NEW pick, \A T \in SUBSET S : T # {} => pick[T] \in T
    PROVE  \E g \in [SUBSET S -> V] : FoldsBy(g, S, v, pick, step)
<1> DEFINE Good(g, n) == \A T \in SUBSET S : Cardinality(T) <= n =>
                g[T] = IF T = {} THEN v ELSE step[T][g[T \ {pick[T]}]]
           Z == {n \in Nat : \E g \in [SUBSET S -> V] : Good(g, n)}
<1>1. \A T \in SUBSET S : IsFiniteSet(T) /\ Cardinality(T) \in Nat /\ Cardinality(T) <= Cardinality(S)
  BY FS_Subset, FS_CardinalityType
<1>2. 0 \in Z
  <2> DEFINE g == [T \in SUBSET S |-> v]
  <2>1. g \in [SUBSET S -> V]
    OBVIOUS
  <2>2. \A T \in SUBSET S : Cardinality(T) <= 0 => T = {}
    BY <1>1, FS_EmptySet
  <2>3. Good(g, 0)
    BY <2>2
  <2> QED
    BY <2>1, <2>3
<1>3. \A n \in Nat : n \in Z => n + 1 \in Z
  <2> SUFFICES ASSUME NEW n \in Nat, n \in Z
               PROVE  n + 1 \in Z
    OBVIOUS
  <2> PICK g \in [SUBSET S -> V] : Good(g, n)
    OBVIOUS
  <2> DEFINE More(T) == step[T][g[T \ {pick[T]}]]
             h == [T \in SUBSET S |-> IF Cardinality(T) = n + 1 THEN More(T) ELSE g[T]]
  <2>1. ASSUME NEW T \in SUBSET S, T # {}
        PROVE  /\ T \ {pick[T]} \in SUBSET S
               /\ Cardinality(T \ {pick[T]}) = Cardinality(T) - 1
               /\ More(T) \in V
    <3>1. pick[T] \in T
      BY <2>1
    <3> QED
      BY <1>1, <3>1, FS_RemoveElement
  <2>2. \A T \in SUBSET S : Cardinality(T) = n + 1 => T # {}
    <3>1. Cardinality({}) = 0 /\ n + 1 # 0
      BY FS_EmptySet
    <3> QED
      BY <3>1, Zenon
  <2> HIDE DEF More
  <2>3. h \in [SUBSET S -> V]
    BY <2>1, <2>2
  <2>4. ASSUME NEW T \in SUBSET S, Cardinality(T) <= n + 1
        PROVE  h[T] = IF T = {} THEN v ELSE step[T][h[T \ {pick[T]}]]
    <3>1. CASE T = {}
      <4>1. Cardinality(T) = 0 /\ n + 1 # 0 /\ 0 <= n
        BY <3>1, FS_EmptySet
      <4>2. h[T] = g[T]
        BY <4>1
      <4>3. g[T] = v
        BY <3>1, <4>1
      <4> QED
        BY <3>1, <4>2, <4>3, Zenon
    <3>2. CASE T # {}
      <4>1. h[T \ {pick[T]}] = g[T \ {pick[T]}]
        BY <1>1, <2>1, <2>4, <3>2
      <4>2. CASE Cardinality(T) = n + 1
        BY <3>2, <4>1, <4>2 DEF More
      <4>3. CASE Cardinality(T) <= n
        BY <3>2, <4>1, <4>3, <1>1
      <4> QED
        BY <1>1, <2>4, <4>2, <4>3
    <3> QED
      BY <3>1, <3>2
  <2>5. Good(h, n + 1)
    BY <2>4
  <2> HIDE DEF Good, h
  <2> QED
    BY <2>3, <2>5
<1>4. Nat \subseteq Z
  <2> HIDE DEF Z
  <2> QED
    BY <1>2, <1>3, NatSetInduction
<1>5. PICK g \in [SUBSET S -> V] : Good(g, Cardinality(S))
  BY <1>4, FS_CardinalityType
<1> DEFINE Value(T) == IF T = {} THEN v ELSE step[T][g[T \ {pick[T]}]]
<1>6. \A T \in SUBSET S : g[T] = Value(T)
  BY <1>1, <1>5
<1>7. g = [T \in SUBSET S |-> Value(T)]
  <2> HIDE DEF Value
  <2> QED
    BY <1>6
<1> QED
  BY <1>7, Zenon DEF FoldsBy
=============================================================================
