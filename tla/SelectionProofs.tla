--------------------------- MODULE SelectionProofs ---------------------------
(***************************************************************************)
(* What selecting from a sequence and flattening a sequence of sequences   *)
(* yield.  Both are recursive; the lemmas say which elements of the        *)
(* argument are where in the result.  Induction is stated with sets, which *)
(* the provers can instantiate.                                            *)
(***************************************************************************)
EXTENDS Selection, SequencesExt, TLAPS, WellFoundedInduction, SequenceTheorems

(* A set of natural numbers has a least element.                           *)
LEMMA LeastNumber ==
  ASSUME NEW T \in SUBSET Nat, T # {}
  PROVE  \E x \in T : \A y \in T : ~(y < x)
<1> DEFINE Below == OpToRel(<, Nat)
<1>1. \A x, y \in Nat : x < y => <<x, y>> \in Below
  BY Zenon DEF OpToRel
<1>2. IsWellFoundedOn(Below, Nat)
  BY NatLessThanWellFounded, Zenon
<1> HIDE DEF Below
<1>3. PICK x \in T : \A y \in T : ~(<<y, x>> \in Below)
  BY <1>2, WFMin, Zenon
<1>4. \A y \in T : ~(y < x)
  BY <1>1, <1>3, Zenon
<1> QED BY <1>4

(* A bounded set of natural numbers has a greatest element.                *)
LEMMA GreatestNumber ==
  ASSUME NEW n \in Nat, NEW T \in SUBSET (0..n), T # {}
  PROVE  \E x \in T : \A y \in T : y <= x
<1> DEFINE U == {k \in Nat : n - k \in T}
<1>1. U # {}
  <2> PICK x \in T : TRUE OBVIOUS
  <2> n - x \in Nat /\ n - (n - x) = x OBVIOUS
  <2> QED OBVIOUS
<1>2. PICK u \in U : \A y \in U : ~(y < u)
  <2> U \in SUBSET Nat OBVIOUS
  <2> HIDE DEF U
  <2> QED BY <1>1, LeastNumber
<1>3. ASSUME NEW y \in T PROVE y <= n - u
  <2> n - y \in U OBVIOUS
  <2> ~(n - y < u) BY <1>2
  <2> QED OBVIOUS
<1> QED BY <1>3

(* Induction, stated with a set: a set that holds 0 and every successor is *)
(* Nat.                                                                    *)
LEMMA Induction ==
  ASSUME NEW S \in SUBSET Nat, 0 \in S, \A n \in S : n + 1 \in S
  PROVE  S = Nat
<1>1. SUFFICES ASSUME Nat \ S # {} PROVE FALSE
  OBVIOUS
<1>2. PICK x \in Nat \ S : \A y \in Nat \ S : ~(y < x)
  BY <1>1, LeastNumber
<1>3. x # 0 /\ x-1 \in Nat /\ x - 1 < x OBVIOUS
<1>4. x - 1 \in S BY <1>2, <1>3
<1>5. x-1+1 \in S BY <1>4
<1> QED BY <1>5, <1>3

(* Induction up to n.                                                      *)
LEMMA UpTo ==
  ASSUME NEW n \in Nat, NEW S \in SUBSET (0..n), 0 \in S,
         \A k \in S : k < n => k + 1 \in S
  PROVE  S = 0..n
<1> DEFINE T == {k \in Nat : k \in S \/ k > n}
<1>1. 0 \in T OBVIOUS
<1>2. ASSUME NEW k \in T PROVE k + 1 \in T
  <2>1. CASE k \in S /\ k < n BY <2>1
  <2>2. CASE ~(k \in S /\ k < n)
    <3> k + 1 > n BY <2>2
    <3> QED OBVIOUS
  <2> QED BY <2>1, <2>2
<1>3. T = Nat
  <2> T \in SUBSET Nat OBVIOUS
  <2> HIDE DEF T
  <2> QED BY <1>1, <1>2, Induction
<1>4. ASSUME NEW k \in 0..n PROVE k \in S
  <2> k \in T BY <1>3
  <2> QED OBVIOUS
<1> QED BY <1>4

(* f is the run of a step function from s0, n steps long.                  *)
Iterates(f, S, s0, step, n) ==
  /\ f \in [0..n -> S]
  /\ f[0] = s0
  /\ \A k \in 1..n : f[k] = step[<<f[k - 1], k>>]

(* A step function has such a run.                                         *)
LEMMA Recursion ==
  ASSUME NEW S, NEW s0 \in S, NEW step \in [S \X Nat -> S], NEW n \in Nat
  PROVE  \E f : Iterates(f, S, s0, step, n)
<1> DEFINE Good(m, f) == f[0] = s0 /\ \A k \in 1..m : f[k] = step[<<f[k - 1], k>>]
           N == {m \in Nat : \E f \in [0..m -> S] : Good(m, f)}
<1>1. 0 \in N
  <2> DEFINE f == [k \in 0..0 |-> s0]
  <2> f \in [0..0 -> S] /\ Good(0, f) OBVIOUS
  <2> QED OBVIOUS
<1>2. ASSUME NEW m \in N PROVE m + 1 \in N
  <2>1. PICK f \in [0..m -> S] : Good(m, f) OBVIOUS
  <2> DEFINE v == step[<<f[m], m + 1>>]
             g == [k \in 0..(m + 1) |-> IF k = m + 1 THEN v ELSE f[k]]
  <2>2. v \in S OBVIOUS
  <2> HIDE DEF v
  <2>3. g \in [0..(m+1) -> S] BY <2>2
  <2>4. g[0] = s0 BY <2>1
  <2>5. ASSUME NEW k \in 1..(m+1) PROVE g[k] = step[<<g[k - 1], k>>]
    <3>1. CASE k = m + 1
      <4> g[k] = v /\ k # 0 /\ g[k-1] = f[m] BY <3>1
      <4> QED BY <3>1 DEF v
    <3>2. CASE k # m + 1
      <4> k \in 1..m /\ k - 1 \in 0..m /\ k-1 # m+1 /\ k - 1 \in 0..(m+1) BY <3>2
      <4> g[k] = f[k] /\ g[k-1] = f[k-1] BY <3>2
      <4> QED BY <2>1
    <3> QED BY <3>1, <3>2
  <2>6. Good(m + 1, g) BY <2>4, <2>5
  <2> HIDE DEF Good, g
  <2> m + 1 \in Nat /\ \E h \in [0..(m + 1) -> S] : Good(m + 1, h) BY <2>3, <2>6
  <2> QED OBVIOUS
<1>3. N = Nat
  <2> N \in SUBSET Nat OBVIOUS
  <2> HIDE DEF N
  <2> QED BY <1>1, <1>2, Induction
<1> QED BY <1>3 DEF Iterates

(* Two runs that step alike are the same.                                  *)
LEMMA SameRecursion ==
  ASSUME NEW n \in Nat, NEW f, NEW h, f[0] = h[0],
         \A k \in 1..n : f[k - 1] = h[k - 1] => f[k] = h[k]
  PROVE  \A k \in 0..n : f[k] = h[k]
<1> DEFINE S == {k \in 0..n : f[k] = h[k]}
<1>1. 0 \in S OBVIOUS
<1>2. ASSUME NEW k \in S, k < n PROVE k + 1 \in S
  <2>1. k + 1 \in 1..n /\ (k + 1) - 1 = k BY <1>2
  <2>2. f[k] = h[k] OBVIOUS
  <2>3. f[k + 1] = h[k + 1] BY <2>1, <2>2
  <2> QED BY <2>1, <2>3
<1>3. S = 0..n
  <2> S \in SUBSET (0..n) OBVIOUS
  <2> HIDE DEF S
  <2> QED BY <1>1, <1>2, UpTo
<1> QED BY <1>3

(* What Kept returns, place by place.                                      *)
KeptUpTo(f, R, s, K) ==
  /\ f \in [0..Len(s) -> Seq(R)]
  /\ Kept(s, K) = f[Len(s)]
  /\ f[0] = <<>>
  /\ \A k \in 1..Len(s) :
       f[k] = IF k \in K THEN Append(f[k - 1], s[k]) ELSE f[k - 1]

(* That recursion defines a function.                                      *)
LEMMA KeptIsRecursive ==
  ASSUME NEW R, NEW s \in Seq(R), NEW K
  PROVE  \E f : KeptUpTo(f, R, s, K)
<1> DEFINE step == [p \in Seq(R) \X Nat |->
                      IF p[2] \in K /\ p[2] \in 1..Len(s)
                      THEN Append(p[1], s[p[2]]) ELSE p[1]]
           Is(g) == g = [k \in 0..Len(s) |->
                          IF k = 0 THEN <<>>
                          ELSE IF k \in K THEN Append(g[k - 1], s[k]) ELSE g[k - 1]]
           h == CHOOSE g : Is(g)
<1>0. Len(s) \in Nat OBVIOUS
<1>1. step \in [Seq(R) \X Nat -> Seq(R)]
  OBVIOUS
<1>2. \A v \in Seq(R), k \in 1..Len(s) :
        step[<<v, k>>] = IF k \in K THEN Append(v, s[k]) ELSE v
  OBVIOUS
<1>3. <<>> \in Seq(R) OBVIOUS
<1> HIDE DEF step
<1>4. PICK f : Iterates(f, Seq(R), <<>>, step, Len(s))
  BY <1>0, <1>1, <1>3, Recursion
<1> USE <1>4 DEF Iterates
<1>5. ASSUME NEW k \in 0..Len(s)
      PROVE  f[k] = IF k = 0 THEN <<>>
                    ELSE IF k \in K THEN Append(f[k - 1], s[k]) ELSE f[k - 1]
  <2>1. CASE k = 0 BY <1>4, <2>1
  <2>2. CASE k # 0
    <3>1. k - 1 \in 0..Len(s) /\ k \in 1..Len(s) BY <2>2
    <3>2. f[k] = step[<<f[k-1], k>>] BY <1>4, <3>1
    <3> QED BY <3>1, <3>2, <1>2, <2>2
  <2> QED BY <2>1, <2>2
<1>6. Is(f)
  BY <1>5
<1>7. Is(h) BY <1>6, Zenon
<1>8. Kept(s, K) = h[Len(s)] BY Zenon DEF Kept
<1> HIDE DEF h
<1>9. ASSUME NEW k \in 0..Len(s)
      PROVE  h[k] = IF k = 0 THEN <<>>
                    ELSE IF k \in K THEN Append(h[k - 1], s[k]) ELSE h[k - 1]
  BY <1>7, Zenon
<1>10. h[0] = <<>> /\ f[0] = <<>> BY <1>5, <1>9
<1>11. \A k \in 1..Len(s) : f[k - 1] = h[k - 1] => f[k] = h[k]
  <2> TAKE k \in 1..Len(s)
  <2> k \in 0..Len(s) /\ k # 0 OBVIOUS
  <2> QED BY <1>5, <1>9
<1>12. f[Len(s)] = h[Len(s)]
  <2>1. f[0] = h[0] BY <1>10
  <2>2. \A k \in 0..Len(s) : f[k] = h[k]
    <3> DEFINE S == {k \in 0..Len(s) : f[k] = h[k]}
    <3>i1. 0 \in S BY <1>0, <2>1
    <3>i2. ASSUME NEW k \in S, k < Len(s) PROVE k + 1 \in S
      <4>1. k + 1 \in 1..Len(s) /\ k + 1 \in 0..Len(s) /\ (k + 1) - 1 = k BY <1>0, <3>i2
      <4>2. f[k] = h[k] OBVIOUS
      <4>3. f[k + 1] = h[k + 1] BY <1>11, <4>1, <4>2
      <4> QED BY <4>1, <4>3
    <3>i3. S = 0..Len(s)
      <4> S \in SUBSET (0..Len(s)) OBVIOUS
      <4> HIDE DEF S
      <4> QED BY <1>0, <3>i1, <3>i2, UpTo
    <3> QED BY <3>i3
  <2> Len(s) \in 0..Len(s) OBVIOUS
  <2> QED BY <2>2
<1>13. \A k \in 1..Len(s) :
         f[k] = IF k \in K THEN Append(f[k - 1], s[k]) ELSE f[k - 1]
  <2> TAKE k \in 1..Len(s)
  <2> k \in 0..Len(s) /\ k # 0 OBVIOUS
  <2> QED BY <1>5
<1> HIDE DEF Is
<1> QED BY <1>8, <1>10, <1>12, <1>13 DEF KeptUpTo

(* Nothing is kept of the empty sequence.                                  *)
LEMMA KeptEmpty == ASSUME NEW K PROVE Kept(<<>>, K) = <<>>
<1>1. <<>> \in Seq({}) /\ Len(<<>>) = 0 OBVIOUS
<1>2. PICK f : KeptUpTo(f, {}, <<>>, K)
  BY <1>1, KeptIsRecursive
<1> QED BY <1>1, <1>2 DEF KeptUpTo

(* What is kept are elements of the sequence.                              *)
LEMMA KeptType ==
  ASSUME NEW R, NEW s \in Seq(R), NEW K PROVE Kept(s, K) \in Seq(R)
<1>1. PICK f : KeptUpTo(f, R, s, K)
  BY KeptIsRecursive
<1>2. Len(s) \in 0..Len(s) OBVIOUS
<1> QED BY <1>1, <1>2 DEF KeptUpTo

(* An element at the end is kept or not.                                   *)
LEMMA KeptAppend ==
  ASSUME NEW R, NEW s \in Seq(R), NEW e \in R, NEW K
  PROVE  Kept(Append(s, e), K) =
           IF Len(s) + 1 \in K THEN Append(Kept(s, K), e) ELSE Kept(s, K)
<1> DEFINE t == Append(s, e)
<1>1. t \in Seq(R) /\ Len(t) = Len(s) + 1 /\ t[Len(s) + 1] = e
      /\ \A k \in 1..Len(s) : t[k] = s[k]
  OBVIOUS
<1> HIDE DEF t
<1>2. PICK f : KeptUpTo(f, R, s, K) BY KeptIsRecursive
<1>3. PICK g : KeptUpTo(g, R, t, K) BY <1>1, KeptIsRecursive
<1>4. \A k \in 1..Len(s) : f[k - 1] = g[k - 1] => f[k] = g[k]
  <2> TAKE k \in 1..Len(s)
  <2>1. k \in 1..Len(t) /\ t[k] = s[k] BY <1>1
  <2>2. f[k] = IF k \in K THEN Append(f[k - 1], s[k]) ELSE f[k - 1]
    BY <1>2 DEF KeptUpTo
  <2>3. g[k] = IF k \in K THEN Append(g[k - 1], s[k]) ELSE g[k - 1]
    BY <1>3, <2>1 DEF KeptUpTo
  <2>4. CASE k \in K BY <2>2, <2>3, <2>4
  <2>5. CASE k \notin K BY <2>2, <2>3, <2>5
  <2> QED BY <2>4, <2>5
<1>5. f[Len(s)] = g[Len(s)]
  <2>1. Len(s) \in Nat /\ Len(s) \in 0..Len(s) OBVIOUS
  <2>2. f[0] = g[0] BY <1>2, <1>3 DEF KeptUpTo
  <2>3. \A k \in 0..Len(s) : f[k] = g[k]
    BY <1>4, <2>1, <2>2, SameRecursion, ZenonT(60)
  <2> QED BY <2>1, <2>3
<1>6. Len(t) \in 1..Len(t) /\ Len(t) - 1 = Len(s) BY <1>1
<1> QED BY <1>1, <1>2, <1>3, <1>5, <1>6 DEF t, KeptUpTo
(* A set of sequences that holds the empty one and is closed under Append  *)
(* holds every sequence.                                                   *)
LEMMA SequenceInduction ==
  ASSUME NEW R, NEW P \in SUBSET Seq(R), <<>> \in P,
         \A s \in P, e \in R : Append(s, e) \in P
  PROVE  P = Seq(R)
<1> DEFINE N == {n \in Nat : \A s \in Seq(R) : Len(s) = n => s \in P}
<1>1. 0 \in N
  <2> \A s \in Seq(R) : Len(s) = 0 => s = <<>> OBVIOUS
  <2> QED OBVIOUS
<1>2. ASSUME NEW n \in N PROVE n + 1 \in N
  <2>1. ASSUME NEW s \in Seq(R), Len(s) = n + 1 PROVE s \in P
    <3>1. s # <<>> BY <2>1
    <3>2. PICK t \in Seq(R), e \in R : s = Append(t, e)
      BY <3>1, SequenceEmptyOrAppend
    <3>3. Len(t) = n BY <2>1, <3>2
    <3>4. t \in P BY <3>3
    <3> QED BY <3>2, <3>4
  <2> QED BY <2>1
<1>3. N = Nat
  <2> N \in SUBSET Nat OBVIOUS
  <2> HIDE DEF N
  <2> QED BY <1>1, <1>2, Induction
<1>4. ASSUME NEW s \in Seq(R) PROVE s \in P
  <2> Len(s) \in N BY <1>3
  <2> QED OBVIOUS
<1> QED BY <1>4

-----------------------------------------------------------------------------
(* What is kept, in terms of the places it comes from: p lists the places  *)
(* of s that are in K, in order.                                           *)
Places(p, s, K) ==
  /\ p \in [1..Len(Kept(s, K)) -> {k \in 1..Len(s) : k \in K}]
  /\ \A i \in 1..Len(Kept(s, K)) : Kept(s, K)[i] = s[p[i]]
  /\ \A i, j \in 1..Len(Kept(s, K)) : i < j => p[i] < p[j]
  /\ \A k \in 1..Len(s) : k \in K => \E i \in 1..Len(Kept(s, K)) : p[i] = k

(* There is such a list of places.                                         *)
LEMMA KeptPlaces ==
  ASSUME NEW R, NEW s \in Seq(R), NEW K
  PROVE  \E p : Places(p, s, K)
<1> DEFINE P == {t \in Seq(R) : \E p : Places(p, t, K)}
<1>1. <<>> \in P
  <2> DEFINE p == [i \in 1..0 |-> 0]
  <2>1. Kept(<<>>, K) = <<>> BY KeptEmpty
  <2>2. Places(p, <<>>, K)
    BY <2>1 DEF Places
  <2> QED BY <2>2
<1>2. ASSUME NEW t \in P, NEW e \in R PROVE Append(t, e) \in P
  <2> DEFINE u == Append(t, e)
             kt == Kept(t, K)
             ku == Kept(u, K)
  <2>1. PICK p : Places(p, t, K) OBVIOUS
  <2>2. u \in Seq(R) /\ Len(u) = Len(t) + 1 /\ u[Len(t) + 1] = e
        /\ \A k \in 1..Len(t) : u[k] = t[k]
    OBVIOUS
  <2>3. kt \in Seq(R) BY KeptType
  <2>4. ku = IF Len(t) + 1 \in K THEN Append(kt, e) ELSE kt
    BY KeptAppend
  <2> HIDE DEF u, kt, ku
  <2>5. CASE Len(t) + 1 \notin K
    <3>1. ku = kt BY <2>4, <2>5
    <3>2. {k \in 1..Len(u) : k \in K} = {k \in 1..Len(t) : k \in K}
      BY <2>2, <2>5
    <3>3. \A k \in 1..Len(u) : k \in K => k \in 1..Len(t)
      BY <2>2, <2>5
    <3>4. \A i \in 1..Len(kt) : p[i] \in 1..Len(t) /\ kt[i] = t[p[i]]
      BY <2>1 DEF Places, kt
    <3>5. \A i \in 1..Len(kt) : kt[i] = u[p[i]]
      BY <2>2, <3>4
    <3>6. Places(p, u, K)
      BY <2>1, <3>1, <3>2, <3>3, <3>5, Zenon DEF Places, kt, ku
    <3> QED BY <2>2, <3>6 DEF u
  <2>6. CASE Len(t) + 1 \in K
    <3> DEFINE m == Len(kt)
               q == [i \in 1..(m + 1) |-> IF i = m + 1 THEN Len(t) + 1 ELSE p[i]]
    <3>1. ku = Append(kt, e) BY <2>4, <2>6
    <3>2. m \in Nat /\ Len(ku) = m + 1 /\ ku[m + 1] = e
          /\ \A i \in 1..m : ku[i] = kt[i]
      BY <2>3, <3>1
    <3>3. /\ p \in [1..m -> {k \in 1..Len(t) : k \in K}]
          /\ \A i \in 1..m : kt[i] = t[p[i]]
          /\ \A i, j \in 1..m : i < j => p[i] < p[j]
          /\ \A k \in 1..Len(t) : k \in K => \E i \in 1..m : p[i] = k
      BY <2>1 DEF Places, kt
    <3> HIDE DEF m
    <3>4. q \in [1..(m + 1) -> {k \in 1..Len(u) : k \in K}]
      BY <2>2, <2>6, <3>2, <3>3
    <3>5. \A i \in 1..m : q[i] = p[i] /\ q[i] \in 1..Len(t)
      BY <3>2, <3>3
    <3>6. q[m + 1] = Len(t) + 1 BY <3>2
    <3> HIDE DEF q
    <3>7. \A i \in 1..(m + 1) : ku[i] = u[q[i]]
      <4> TAKE i \in 1..(m + 1)
      <4>1. CASE i = m + 1 BY <4>1, <2>2, <3>2, <3>6
      <4>2. CASE i # m + 1
        <5>1. i \in 1..m BY <4>2, <3>2
        <5>2. ku[i] = t[p[i]] BY <5>1, <3>2, <3>3
        <5>3. q[i] = p[i] /\ q[i] \in 1..Len(t) BY <5>1, <3>5
        <5>4. u[q[i]] = t[q[i]] BY <5>3, <2>2
        <5> QED BY <5>2, <5>3, <5>4
      <4> QED BY <4>1, <4>2
    <3>8. ASSUME NEW i \in 1..(m + 1), NEW j \in 1..(m + 1), i < j
          PROVE  q[i] < q[j]
      <4>1. i \in 1..m BY <3>8, <3>2
      <4>2. q[i] = p[i] /\ p[i] \in 1..Len(t) BY <4>1, <3>5
      <4>3. CASE j = m + 1 BY <4>2, <4>3, <3>6
      <4>4. CASE j # m + 1
        <5> j \in 1..m BY <4>4, <3>2
        <5> QED BY <3>3, <3>5, <3>8, <4>1
      <4> QED BY <4>3, <4>4
    <3>9. \A k \in 1..Len(u) : k \in K => \E i \in 1..(m + 1) : q[i] = k
      <4> TAKE k \in 1..Len(u)
      <4>1. CASE k = Len(t) + 1 BY <4>1, <3>2, <3>6
      <4>2. CASE k # Len(t) + 1
        <5> k \in 1..Len(t) BY <4>2, <2>2
        <5> QED BY <3>2, <3>3, <3>5, SMTT(30)
      <4> QED BY <4>1, <4>2
    <3>10. Places(q, u, K)
      BY <3>2, <3>4, <3>7, <3>8, <3>9 DEF Places, ku
    <3> QED BY <2>2, <3>10 DEF u
  <2> QED BY <2>5, <2>6
<1>3. P = Seq(R)
  <2> P \in SUBSET Seq(R) OBVIOUS
  <2> HIDE DEF P
  <2> QED BY <1>1, <1>2, SequenceInduction
<1> QED BY <1>3
(* Only the places that the sequence has matter.                           *)
LEMMA KeptSame ==
  ASSUME NEW R, NEW s \in Seq(R), NEW K, NEW L,
         \A k \in 1..Len(s) : k \in K <=> k \in L
  PROVE  Kept(s, K) = Kept(s, L)
<1>1. PICK f : KeptUpTo(f, R, s, K) BY KeptIsRecursive
<1>2. PICK g : KeptUpTo(g, R, s, L) BY KeptIsRecursive
<1>3. \A k \in 1..Len(s) : f[k - 1] = g[k - 1] => f[k] = g[k]
  BY <1>1, <1>2 DEF KeptUpTo
<1>4. Len(s) \in Nat /\ Len(s) \in 0..Len(s) OBVIOUS
<1>5. f[0] = g[0] BY <1>1, <1>2 DEF KeptUpTo
<1>6. \A k \in 0..Len(s) : f[k] = g[k]
  BY <1>3, <1>4, <1>5, SameRecursion, ZenonT(60)
<1> QED BY <1>1, <1>2, <1>4, <1>6 DEF KeptUpTo

(* Every element that is kept comes from a place in K.                     *)
LEMMA KeptFrom ==
  ASSUME NEW R, NEW s \in Seq(R), NEW K
  PROVE  \A i \in 1..Len(Kept(s, K)) :
           \E j \in 1..Len(s) : j \in K /\ Kept(s, K)[i] = s[j]
<1>1. PICK p : Places(p, s, K) BY KeptPlaces
<1> QED BY <1>1 DEF Places

(* If no place is in K, nothing is kept.                                   *)
LEMMA KeptNothing ==
  ASSUME NEW R, NEW s \in Seq(R), NEW K, \A k \in 1..Len(s) : k \notin K
  PROVE  Kept(s, K) = <<>>
<1>1. PICK p : Places(p, s, K) BY KeptPlaces
<1>2. Kept(s, K) \in Seq(R) BY KeptType
<1>3. 1 \notin 1..Len(Kept(s, K)) BY <1>1 DEF Places
<1> QED BY <1>2, <1>3

(* If every place is in K, everything is kept.                             *)
LEMMA KeptEverything ==
  ASSUME NEW R, NEW s \in Seq(R), NEW K, \A k \in 1..Len(s) : k \in K
  PROVE  Kept(s, K) = s
<1> DEFINE P == {t \in Seq(R) : (\A k \in 1..Len(t) : k \in K) => Kept(t, K) = t}
<1>1. <<>> \in P
  <2> <<>> \in Seq(R) OBVIOUS
  <2> QED BY KeptEmpty
<1>2. ASSUME NEW t \in P, NEW e \in R PROVE Append(t, e) \in P
  <2> DEFINE u == Append(t, e)
  <2>1. u \in Seq(R) /\ Len(u) = Len(t) + 1 /\ t \in Seq(R) OBVIOUS
  <2>2. Kept(u, K) = IF Len(t) + 1 \in K THEN Append(Kept(t, K), e) ELSE Kept(t, K)
    BY KeptAppend
  <2> HIDE DEF u
  <2>3. ASSUME \A k \in 1..Len(u) : k \in K PROVE Kept(u, K) = u
    <3>1. Len(t) + 1 \in K /\ \A k \in 1..Len(t) : k \in K BY <2>1, <2>3
    <3>2. Kept(t, K) = t BY <3>1
    <3> QED BY <2>2, <3>1, <3>2 DEF u
  <2> QED BY <2>1, <2>3 DEF u
<1>3. P = Seq(R)
  <2> P \in SUBSET Seq(R) OBVIOUS
  <2> HIDE DEF P
  <2> QED BY <1>1, <1>2, SequenceInduction
<1> QED BY <1>3

(* The places of t in a sequence that starts with n other elements.        *)
After(n, K) == {k \in Nat : n + k \in K}

(* Keeping distributes over concatenation.                                 *)
LEMMA KeptConcat ==
  ASSUME NEW R, NEW s \in Seq(R), NEW t \in Seq(R), NEW K
  PROVE  Kept(s \o t, K) = Kept(s, K) \o Kept(t, After(Len(s), K))
<1> DEFINE A == After(Len(s), K)
           P == {u \in Seq(R) : Kept(s \o u, K) = Kept(s, K) \o Kept(u, A)}
<1>0. Kept(s, K) \in Seq(R) BY KeptType
<1>1. <<>> \in P
  <2>1. Kept(<<>>, A) = <<>> BY KeptEmpty
  <2>2. s \o <<>> = s OBVIOUS
  <2>3. Kept(s, K) \o <<>> = Kept(s, K) BY <1>0
  <2> HIDE DEF A
  <2>4. Kept(s \o <<>>, K) = Kept(s, K) \o Kept(<<>>, A) BY <2>1, <2>2, <2>3, Zenon
  <2>5. <<>> \in Seq(R) OBVIOUS
  <2> QED BY <2>4, <2>5, Zenon
<1>2. ASSUME NEW u \in P, NEW e \in R PROVE Append(u, e) \in P
  <2>1. u \in Seq(R) /\ Kept(s \o u, K) = Kept(s, K) \o Kept(u, A) OBVIOUS
  <2>2. Len(s) + (Len(u) + 1) \in K <=> Len(u) + 1 \in A
    BY DEF After
  <2> HIDE DEF A, P
  <2> DEFINE su == s \o u
             ku == Kept(u, A)
             ks == Kept(s, K)
  <2>3. s \o Append(u, e) = Append(su, e) BY <2>1
  <2>4. su \in Seq(R) /\ Len(su) = Len(s) + Len(u) BY <2>1
  <2>5. ku \in Seq(R) BY <2>1, KeptType
  <2> HIDE DEF su
  <2>6. Kept(Append(su, e), K) =
          IF Len(su) + 1 \in K THEN Append(Kept(su, K), e) ELSE Kept(su, K)
    BY <2>4, KeptAppend
  <2>7. Kept(Append(u, e), A) =
          IF Len(u) + 1 \in A THEN Append(ku, e) ELSE ku
    BY <2>1, KeptAppend
  <2>8. Len(su) + 1 = Len(s) + (Len(u) + 1) BY <2>1, <2>4
  <2>9. Kept(su, K) = ks \o ku BY <2>1 DEF su
  <2> HIDE DEF ku, ks
  <2>10. ks \in Seq(R) BY <1>0 DEF ks
  <2>11. Append(ks \o ku, e) = ks \o Append(ku, e)
    <3>1. <<e>> \in Seq(R) /\ ks \o ku \in Seq(R) BY <2>5, <2>10
    <3>2. Append(ks \o ku, e) = (ks \o ku) \o <<e>> BY <3>1, AppendIsConcat, Zenon
    <3>3. Append(ku, e) = ku \o <<e>> BY <2>5, AppendIsConcat, Zenon
    <3>4. (ks \o ku) \o <<e>> = ks \o (ku \o <<e>>)
      BY <2>5, <2>10, <3>1, ConcatAssociative, SMTT(30)
    <3> QED BY <3>2, <3>3, <3>4, Zenon
  <2>12. Kept(Append(su, e), K) = ks \o Kept(Append(u, e), A)
    BY <2>2, <2>6, <2>7, <2>8, <2>9, <2>11
  <2>13. Append(u, e) \in Seq(R) BY <2>1
  <2> QED BY <2>3, <2>12, <2>13, Zenon DEF P, ks
<1>3. P = Seq(R)
  <2> P \in SUBSET Seq(R) OBVIOUS
  <2> HIDE DEF P
  <2> QED BY <1>1, <1>2, SequenceInduction
<1> QED BY <1>3

(* Keeping one element or none.                                            *)
LEMMA KeptOne ==
  ASSUME NEW e, NEW K
  PROVE  Kept(<<e>>, K) = IF 1 \in K THEN <<e>> ELSE <<>>
<1> DEFINE z == <<>>
<1>1. z \in Seq({e}) /\ Append(z, e) = <<e>> /\ Len(z) = 0
  OBVIOUS
<1>2. Kept(z, K) = <<>> BY KeptEmpty
<1> HIDE DEF z
<1>3. Kept(Append(z, e), K) =
        IF Len(z) + 1 \in K THEN Append(Kept(z, K), e) ELSE Kept(z, K)
  <2> e \in {e} OBVIOUS
  <2> QED BY <1>1, KeptAppend
<1>4. Append(<<>>, e) = <<e>> OBVIOUS
<1> QED BY <1>1, <1>2, <1>3, <1>4
-----------------------------------------------------------------------------
(* FlattenSeq, place by place.                                             *)
FlatUpTo(f, R, s) ==
  /\ f \in [0..Len(s) -> Seq(R)]
  /\ FlattenSeq(s) = f[Len(s)]
  /\ f[0] = <<>>
  /\ \A k \in 1..Len(s) : f[k] = f[k - 1] \o s[k]

(* No sequences are flattened to the empty one.                            *)
LEMMA FlattenEmpty == FlattenSeq(<<>>) = <<>>
  BY DEF FlattenSeq

(* That recursion defines a function.                                      *)
LEMMA FlattenIsRecursive ==
  ASSUME NEW R, NEW s \in Seq(Seq(R))
  PROVE  \E f : FlatUpTo(f, R, s)
<1> DEFINE step == [p \in Seq(R) \X Nat |->
                      IF p[2] \in 1..Len(s) THEN p[1] \o s[p[2]] ELSE p[1]]
           Is(g) == g = [k \in 1..Len(s) |->
                          IF k = 1 THEN s[k] ELSE g[k - 1] \o s[k]]
           h == CHOOSE g : Is(g)
<1>0. Len(s) \in Nat /\ \A k \in 1..Len(s) : s[k] \in Seq(R) OBVIOUS
<1>1. step \in [Seq(R) \X Nat -> Seq(R)]
  OBVIOUS
<1>2. \A v \in Seq(R), k \in 1..Len(s) : step[<<v, k>>] = v \o s[k]
  <2> TAKE v \in Seq(R), k \in 1..Len(s)
  <2> DEFINE q == <<v, k>>
  <2>1. q \in Seq(R) \X Nat /\ q[1] = v /\ q[2] = k OBVIOUS
  <2> HIDE DEF q
  <2>2. step[q] = q[1] \o s[q[2]] BY <2>1
  <2> QED BY <2>1, <2>2 DEF q
<1>3. <<>> \in Seq(R) OBVIOUS
<1> HIDE DEF step
<1>4. PICK f : Iterates(f, Seq(R), <<>>, step, Len(s))
  BY <1>0, <1>1, <1>3, Recursion
<1>5. /\ f \in [0..Len(s) -> Seq(R)]
      /\ f[0] = <<>>
      /\ \A k \in 1..Len(s) : f[k] = f[k - 1] \o s[k]
  BY <1>2, <1>4 DEF Iterates
<1>6. CASE Len(s) = 0
  <2>1. FlattenSeq(s) = f[Len(s)]
    <3> s = <<>> BY <1>6
    <3> QED BY <1>5, <1>6, FlattenEmpty
  <2> QED BY <1>5, <2>1 DEF FlatUpTo
<1>7. CASE Len(s) # 0
  <2> DEFINE g == [k \in 1..Len(s) |-> f[k]]
  <2>1. ASSUME NEW k \in 1..Len(s)
        PROVE  g[k] = IF k = 1 THEN s[k] ELSE g[k - 1] \o s[k]
    <3>1. CASE k = 1
      <4>1. f[k] = f[k - 1] \o s[k] BY <1>5
      <4>2. k - 1 = 0 BY <3>1
      <4>3. f[k] = <<>> \o s[k] BY <4>1, <4>2, <1>5, Zenon
      <4>4. <<>> \o s[k] = s[k] BY <1>0
      <4> QED BY <4>3, <4>4, <3>1
    <3>2. CASE k # 1
      <4> k - 1 \in 1..Len(s) BY <3>2
      <4> QED BY <1>5, <3>2
    <3> QED BY <3>1, <3>2
  <2>2. Is(g) BY <2>1
  <2>3. Is(h) BY <2>2, Zenon
  <2>4. FlattenSeq(s) = h[Len(s)] BY <1>7, Zenon DEF FlattenSeq
  <2> HIDE DEF h
  <2>5. \A k \in 1..Len(s) : h[k] = IF k = 1 THEN s[k] ELSE h[k - 1] \o s[k]
    BY <2>3, Zenon
  <2> HIDE DEF Is
  <2> DEFINE e == [k \in 0..Len(s) |-> IF k = 0 THEN <<>> ELSE h[k]]
  <2>6. f[0] = e[0] BY <1>5
  <2>7. \A k \in 1..Len(s) : f[k - 1] = e[k - 1] => f[k] = e[k]
    <3> TAKE k \in 1..Len(s)
    <3>1. CASE k = 1
      <4>1. f[k] = f[k - 1] \o s[k] BY <1>5
      <4>2. k - 1 = 0 BY <3>1
      <4>3. f[k] = <<>> \o s[k] BY <4>1, <4>2, <1>5, Zenon
      <4>4. <<>> \o s[k] = s[k] BY <1>0
      <4> QED BY <4>3, <4>4, <2>5, <3>1
    <3>2. CASE k # 1
      <4>1. k - 1 \in 1..Len(s) /\ e[k - 1] = h[k - 1] /\ e[k] = h[k] BY <3>2
      <4>2. h[k] = h[k - 1] \o s[k] BY <2>5, <3>2
      <4>3. f[k] = f[k - 1] \o s[k] BY <1>5
      <4> QED BY <4>1, <4>2, <4>3
    <3> QED BY <3>1, <3>2
  <2> HIDE DEF e
  <2>8. \A k \in 0..Len(s) : f[k] = e[k]
    BY <1>0, <2>6, <2>7, SameRecursion, ZenonT(60)
  <2>9. f[Len(s)] = h[Len(s)] BY <1>7, <1>0, <2>8 DEF e
  <2> QED BY <1>5, <2>4, <2>9 DEF FlatUpTo
<1> QED BY <1>6, <1>7

(* Flattening keeps the type of the elements.                              *)
LEMMA FlattenType ==
  ASSUME NEW R, NEW s \in Seq(Seq(R)) PROVE FlattenSeq(s) \in Seq(R)
<1>1. PICK f : FlatUpTo(f, R, s) BY FlattenIsRecursive
<1>2. Len(s) \in 0..Len(s) OBVIOUS
<1> QED BY <1>1, <1>2 DEF FlatUpTo

(* A sequence more is flattened last.                                      *)
LEMMA FlattenAppend ==
  ASSUME NEW R, NEW s \in Seq(Seq(R)), NEW e \in Seq(R)
  PROVE  FlattenSeq(Append(s, e)) = FlattenSeq(s) \o e
<1> DEFINE t == Append(s, e)
<1>1. t \in Seq(Seq(R)) /\ Len(t) = Len(s) + 1 /\ t[Len(s) + 1] = e
      /\ \A k \in 1..Len(s) : t[k] = s[k]
  OBVIOUS
<1> HIDE DEF t
<1>2. PICK f : FlatUpTo(f, R, s) BY FlattenIsRecursive
<1>3. PICK g : FlatUpTo(g, R, t) BY <1>1, FlattenIsRecursive
<1>4. \A k \in 1..Len(s) : f[k - 1] = g[k - 1] => f[k] = g[k]
  <2> TAKE k \in 1..Len(s)
  <2>1. k \in 1..Len(t) /\ t[k] = s[k] BY <1>1
  <2>2. f[k] = f[k - 1] \o s[k] BY <1>2 DEF FlatUpTo
  <2>3. g[k] = g[k - 1] \o s[k] BY <1>3, <2>1 DEF FlatUpTo
  <2> QED BY <2>2, <2>3
<1>5. f[Len(s)] = g[Len(s)]
  <2>1. Len(s) \in Nat /\ Len(s) \in 0..Len(s) OBVIOUS
  <2>2. f[0] = g[0] BY <1>2, <1>3 DEF FlatUpTo
  <2>3. \A k \in 0..Len(s) : f[k] = g[k]
    BY <1>4, <2>1, <2>2, SameRecursion, ZenonT(60)
  <2> QED BY <2>1, <2>3
<1>6. Len(t) \in 1..Len(t) /\ Len(t) - 1 = Len(s) BY <1>1
<1>7. g[Len(t)] = g[Len(s)] \o e BY <1>1, <1>3, <1>6 DEF FlatUpTo
<1>8. FlattenSeq(t) = g[Len(t)] /\ FlattenSeq(s) = f[Len(s)]
  BY <1>2, <1>3 DEF FlatUpTo
<1> QED BY <1>5, <1>7, <1>8 DEF t
(* What is flattened, in terms of where it comes from: the j-th element is *)
(* the b[j]-th of the a[j]-th sequence, and every element of every         *)
(* sequence is there once.                                                 *)
Sources(a, b, s) ==
  LET F == FlattenSeq(s)
  IN  /\ a \in [1..Len(F) -> 1..Len(s)]
      /\ b \in [1..Len(F) -> Nat]
      /\ \A j \in 1..Len(F) : b[j] \in 1..Len(s[a[j]]) /\ F[j] = s[a[j]][b[j]]
      /\ \A i, j \in 1..Len(F) : a[i] = a[j] /\ b[i] = b[j] => i = j
      /\ \A k \in 1..Len(s) : \A l \in 1..Len(s[k]) :
           \E j \in 1..Len(F) : a[j] = k /\ b[j] = l

(* Every flattened sequence has such sources.                              *)
LEMMA FlattenSources ==
  ASSUME NEW R, NEW s \in Seq(Seq(R))
  PROVE  \E a, b : Sources(a, b, s)
<1> DEFINE P == {t \in Seq(Seq(R)) : \E a, b : Sources(a, b, t)}
<1>1. <<>> \in P
  <2> DEFINE a == [j \in 1..0 |-> 0]
  <2>1. Sources(a, a, <<>>) BY FlattenEmpty DEF Sources
  <2>2. <<>> \in Seq(Seq(R)) OBVIOUS
  <2> QED BY <2>1, <2>2
<1>2. ASSUME NEW t \in P, NEW e \in Seq(R) PROVE Append(t, e) \in P
  <2> DEFINE u == Append(t, e)
             F == FlattenSeq(t)
             G == FlattenSeq(u)
             n == Len(F)
  <2>1. PICK a, b : Sources(a, b, t) OBVIOUS
  <2>2. u \in Seq(Seq(R)) /\ Len(u) = Len(t) + 1 /\ u[Len(t) + 1] = e
        /\ \A k \in 1..Len(t) : u[k] = t[k]
    OBVIOUS
  <2>3. F \in Seq(R) /\ n \in Nat BY FlattenType
  <2>4. G = F \o e BY FlattenAppend
  <2> HIDE DEF u
  <2>5. /\ a \in [1..n -> 1..Len(t)]
        /\ b \in [1..n -> Nat]
        /\ \A j \in 1..n : b[j] \in 1..Len(t[a[j]]) /\ F[j] = t[a[j]][b[j]]
        /\ \A i, j \in 1..n : a[i] = a[j] /\ b[i] = b[j] => i = j
        /\ \A k \in 1..Len(t) : \A l \in 1..Len(t[k]) :
             \E j \in 1..n : a[j] = k /\ b[j] = l
    BY <2>1 DEF Sources
  <2> HIDE DEF F, G
  <2>6. /\ Len(G) = n + Len(e)
        /\ \A j \in 1..n : G[j] = F[j]
        /\ \A j \in 1..Len(e) : G[n + j] = e[j]
    BY <2>3, <2>4
  <2> HIDE DEF n
  <2> DEFINE c == [j \in 1..(n + Len(e)) |-> IF j <= n THEN a[j] ELSE Len(t) + 1]
             d == [j \in 1..(n + Len(e)) |-> IF j <= n THEN b[j] ELSE j - n]
  <2>7. c \in [1..Len(G) -> 1..Len(u)] /\ d \in [1..Len(G) -> Nat]
    <3>1. Len(e) \in Nat /\ Len(t) \in Nat OBVIOUS
    <3>2. ASSUME NEW j \in 1..(n + Len(e))
          PROVE  /\ (IF j <= n THEN a[j] ELSE Len(t) + 1) \in 1..Len(u)
                 /\ (IF j <= n THEN b[j] ELSE j - n) \in Nat
      <4>1. CASE j <= n
        <5> j \in 1..n BY <4>1, <2>3
        <5> a[j] \in 1..Len(t) /\ b[j] \in Nat BY <2>5
        <5> QED BY <2>2, <3>1, <4>1
      <4>2. CASE ~(j <= n) BY <2>2, <2>3, <3>1, <4>2
      <4> QED BY <4>1, <4>2
    <3> QED BY <2>6, <3>2
  <2>8. \A j \in 1..n : c[j] = a[j] /\ d[j] = b[j] /\ a[j] \in 1..Len(t)
    BY <2>3, <2>5
  <2>9. \A j \in 1..Len(e) : n + j \in 1..Len(G) /\ c[n + j] = Len(t) + 1 /\ d[n + j] = j
    BY <2>3, <2>6
  <2>10. \A j \in 1..Len(G) : j \in 1..n \/ (j - n \in 1..Len(e) /\ j = n + (j - n))
    BY <2>3, <2>6
  <2>11. \A j \in 1..n : j \in 1..Len(G) BY <2>3, <2>6
  <2> HIDE DEF c, d
  <2>12. ASSUME NEW j \in 1..Len(G)
         PROVE  d[j] \in 1..Len(u[c[j]]) /\ G[j] = u[c[j]][d[j]]
    <3>1. CASE j \in 1..n
      <4> u[c[j]] = t[a[j]] BY <2>2, <2>8, <3>1
      <4> QED BY <2>5, <2>6, <2>8, <3>1
    <3>2. CASE j - n \in 1..Len(e) /\ j = n + (j - n)
      <4> u[c[j]] = e /\ d[j] = j - n BY <2>2, <2>9, <3>2
      <4> QED BY <2>6, <3>2
    <3> QED BY <2>10, <3>1, <3>2
  <2>13. ASSUME NEW i \in 1..Len(G), NEW j \in 1..Len(G), c[i] = c[j], d[i] = d[j]
         PROVE  i = j
    <3>1. CASE i \in 1..n /\ j \in 1..n BY <2>5, <2>8, <2>13, <3>1
    <3>2. CASE i \in 1..n /\ j - n \in 1..Len(e) /\ j = n + (j - n)
      <4> c[i] \in 1..Len(t) /\ c[j] = Len(t) + 1 BY <2>8, <2>9, <3>2
      <4> QED BY <2>13
    <3>3. CASE j \in 1..n /\ i - n \in 1..Len(e) /\ i = n + (i - n)
      <4> c[j] \in 1..Len(t) /\ c[i] = Len(t) + 1 BY <2>8, <2>9, <3>3
      <4> QED BY <2>13
    <3>4. CASE i - n \in 1..Len(e) /\ i = n + (i - n) /\ j - n \in 1..Len(e) /\ j = n + (j - n)
      <4> d[i] = i - n /\ d[j] = j - n BY <2>9, <3>4
      <4> QED BY <2>13, <3>4
    <3> QED BY <2>10, <3>1, <3>2, <3>3, <3>4
  <2>14. ASSUME NEW k \in 1..Len(u), NEW l \in 1..Len(u[k])
         PROVE  \E j \in 1..Len(G) : c[j] = k /\ d[j] = l
    <3>1. CASE k = Len(t) + 1
      <4> l \in 1..Len(e) BY <2>2, <3>1
      <4> QED BY <2>9, <3>1
    <3>2. CASE k # Len(t) + 1
      <4>1. k \in 1..Len(t) /\ u[k] = t[k] BY <2>2, <3>2
      <4>2. PICK j \in 1..n : a[j] = k /\ b[j] = l BY <2>5, <4>1
      <4> QED BY <2>8, <2>11, <4>2
    <3> QED BY <3>1, <3>2
  <2>15. Sources(c, d, u) BY <2>7, <2>12, <2>13, <2>14, Zenon DEF Sources, G
  <2> QED BY <2>2, <2>15 DEF u
<1>3. P = Seq(Seq(R))
  <2> P \in SUBSET Seq(Seq(R)) OBVIOUS
  <2> HIDE DEF P
  <2> QED BY <1>1, <1>2, SequenceInduction
<1> QED BY <1>3

-----------------------------------------------------------------------------
(* Parts of a sequence, and its prefixes.                                  *)

(* A sequence is its first k elements and the others.                      *)
LEMMA SplitAt ==
  ASSUME NEW R, NEW s \in Seq(R), NEW k \in 1..Len(s)
  PROVE  /\ SubSeq(s, 1, k) \in Seq(R) /\ SubSeq(s, k + 1, Len(s)) \in Seq(R)
         /\ s = SubSeq(s, 1, k) \o SubSeq(s, k + 1, Len(s))
         /\ Len(SubSeq(s, 1, k)) = k
         /\ \A j \in 1..k : SubSeq(s, 1, k)[j] = s[j]
<1>1. SubSeq(s, 1, k) \in Seq(R) /\ Len(SubSeq(s, 1, k)) = k
      /\ \A j \in 1..k : SubSeq(s, 1, k)[j] = s[j]
  OBVIOUS
<1>2. SubSeq(s, k + 1, Len(s)) \in Seq(R) /\ Len(SubSeq(s, k + 1, Len(s))) = Len(s) - k
      /\ \A j \in 1..(Len(s) - k) : SubSeq(s, k + 1, Len(s))[j] = s[j + k]
  OBVIOUS
<1> DEFINE a == SubSeq(s, 1, k)
           b == SubSeq(s, k + 1, Len(s))
<1> HIDE DEF a, b
<1>3. a \o b \in Seq(R) /\ Len(a \o b) = Len(s)
  BY <1>1, <1>2 DEF a, b
<1>4. \A j \in 1..Len(s) : (a \o b)[j] = s[j]
  BY <1>1, <1>2 DEF a, b
<1>5. a \o b = s BY <1>3, <1>4, SeqEqual
<1> QED BY <1>1, <1>2, <1>5 DEF a, b

(* The first part of a sequence.                                           *)
LEMMA Prefix ==
  ASSUME NEW R, NEW s \in Seq(R), NEW k \in 0..Len(s)
  PROVE  /\ SubSeq(s, 1, k) \in Seq(R) /\ Len(SubSeq(s, 1, k)) = k
         /\ \A i \in 1..k : SubSeq(s, 1, k)[i] = s[i]
<1>1. Len(s) \in Nat BY LenProperties, Zenon
<1>2. \A i \in 1..Len(s) : s[i] \in R BY ElementOfSeq, Zenon
<1>3. \A i \in 1..k : s[i] \in R BY <1>1, <1>2
<1>4. k \in Int /\ 1 \in Int BY <1>1
<1>5. /\ SubSeq(s, 1, k) \in Seq(R) /\ Len(SubSeq(s, 1, k)) = IF 1 <= k THEN k - 1 + 1 ELSE 0
      /\ \A i \in 1..(k - 1 + 1) : SubSeq(s, 1, k)[i] = s[1 + i - 1]
  BY <1>1, <1>2
<1>6. Len(SubSeq(s, 1, k)) = k BY <1>1, <1>5
<1>7. \A i \in 1..k : SubSeq(s, 1, k)[i] = s[i]
  <2> TAKE i \in 1..k
  <2> i \in 1..(k - 1 + 1) /\ 1 + i - 1 = i BY <1>1
  <2> QED BY <1>5
<1> QED BY <1>5, <1>6, <1>7

(* Two sequences with the same elements are the same.                      *)
LEMMA SamePrefix ==
  ASSUME NEW R, NEW s \in Seq(R), NEW t \in Seq(R), NEW k \in 0..Len(s), k \in 0..Len(t),
         \A i \in 1..k : s[i] = t[i]
  PROVE  SubSeq(s, 1, k) = SubSeq(t, 1, k)
<1> DEFINE a == SubSeq(s, 1, k)
           b == SubSeq(t, 1, k)
<1>1. a \in Seq(R) /\ Len(a) = k /\ \A i \in 1..k : a[i] = s[i] BY Prefix
<1>2. b \in Seq(R) /\ Len(b) = k /\ \A i \in 1..k : b[i] = t[i] BY Prefix
<1>3. \A i \in 1..k : a[i] = b[i] BY <1>1, <1>2
<1> HIDE DEF a, b
<1>4. a = b BY <1>1, <1>2, <1>3, SeqEqual
<1> QED BY <1>4 DEF a, b

(* The first part of a first part.                                         *)
LEMMA PrefixOfPrefix ==
  ASSUME NEW R, NEW s \in Seq(R), NEW k \in 0..Len(s), NEW j \in 0..k
  PROVE  SubSeq(SubSeq(s, 1, k), 1, j) = SubSeq(s, 1, j)
<1> DEFINE t == SubSeq(s, 1, k)
<1>0. Len(s) \in Nat BY LenProperties, Zenon
<1>1. t \in Seq(R) /\ Len(t) = k /\ \A i \in 1..k : t[i] = s[i] BY Prefix
<1> HIDE DEF t
<1>2. j \in 0..Len(t) /\ j \in 0..Len(s) /\ \A i \in 1..j : t[i] = s[i] BY <1>0, <1>1
<1>3. SubSeq(t, 1, j) = SubSeq(s, 1, j) BY <1>1, <1>2, SamePrefix, Zenon
<1> QED BY <1>3 DEF t

(* What follows does not change the first part.                            *)
LEMMA PrefixOfConcat ==
  ASSUME NEW R, NEW s \in Seq(R), NEW t \in Seq(R), NEW k \in 0..Len(s)
  PROVE  SubSeq(s \o t, 1, k) = SubSeq(s, 1, k)
<1>1. /\ s \o t \in Seq(R) /\ Len(s \o t) = Len(s) + Len(t)
      /\ \A i \in 1..Len(s) + Len(t) : (s \o t)[i] = IF i <= Len(s) THEN s[i] ELSE t[i - Len(s)]
  BY ConcatProperties, Zenon
<1>2. Len(s) \in Nat /\ Len(t) \in Nat BY LenProperties, Zenon
<1>3. k \in 0..Len(s \o t) /\ \A i \in 1..k : (s \o t)[i] = s[i] BY <1>1, <1>2
<1> QED BY <1>1, <1>3, SamePrefix, Zenon

(* A part of a sequence.                                                   *)
LEMMA Part ==
  ASSUME NEW R, NEW s \in Seq(R), NEW a \in 1..(Len(s) + 1), NEW e \in (a - 1)..Len(s)
  PROVE  /\ SubSeq(s, a, e) \in Seq(R) /\ Len(SubSeq(s, a, e)) = e - a + 1
         /\ \A i \in 1..(e - a + 1) : SubSeq(s, a, e)[i] = s[a + i - 1]
<1>1. Len(s) \in Nat BY LenProperties, Zenon
<1>2. \A i \in 1..Len(s) : s[i] \in R BY ElementOfSeq, Zenon
<1>3. a \in Nat \ {0} /\ e \in Nat /\ a - 1 <= e /\ e <= Len(s) BY <1>1
<1>4. \A i \in a..e : s[i] \in R BY <1>1, <1>2, <1>3
<1> QED BY <1>3, <1>4

(* The first part of a sequence and the next element.                      *)
LEMMA PrefixGrows ==
  ASSUME NEW R, NEW s \in Seq(R), NEW k \in 1..Len(s)
  PROVE  SubSeq(s, 1, k) = Append(SubSeq(s, 1, k - 1), s[k])
<1> DEFINE A == SubSeq(s, 1, k - 1)
           B == SubSeq(s, 1, k)
<1>0. Len(s) \in Nat BY LenProperties, Zenon
<1>1. k - 1 \in 0..Len(s) /\ k \in 0..Len(s) BY <1>0
<1>2. A \in Seq(R) /\ Len(A) = k - 1 /\ \A i \in 1..(k - 1) : A[i] = s[i] BY <1>1, Prefix
<1>3. B \in Seq(R) /\ Len(B) = k /\ \A i \in 1..k : B[i] = s[i] BY <1>1, Prefix
<1>4. s[k] \in R BY ElementOfSeq, Zenon
<1> HIDE DEF A, B
<1>5. /\ Append(A, s[k]) \in Seq(R) /\ Len(Append(A, s[k])) = Len(A) + 1
      /\ \A i \in 1..Len(A) : Append(A, s[k])[i] = A[i]
      /\ Append(A, s[k])[Len(A) + 1] = s[k]
  BY <1>2, <1>4, AppendProperties
<1>6. \A i \in 1..k : B[i] = Append(A, s[k])[i]
  <2> TAKE i \in 1..k
  <2>1. CASE i = k BY <1>2, <1>3, <1>5, <2>1
  <2>2. CASE i # k
    <3> i \in 1..(k - 1) BY <2>2
    <3> QED BY <1>2, <1>3, <1>5
  <2> QED BY <2>1, <2>2
<1>7. Len(B) = Len(Append(A, s[k])) BY <1>2, <1>3, <1>5
<1>8. B = Append(A, s[k]) BY <1>3, <1>5, <1>6, <1>7, SeqEqual
<1> QED BY <1>8 DEF A, B

(* The first element of a part.                                            *)
LEMMA HeadOfPart ==
  ASSUME NEW R, NEW s \in Seq(R), NEW a \in 1..Len(s), NEW e \in a..Len(s)
  PROVE  SubSeq(s, a, e) = <<s[a]>> \o SubSeq(s, a + 1, e)
<1> DEFINE A == SubSeq(s, a, e)
           B == SubSeq(s, a + 1, e)
           h == <<s[a]>>
           n == e - a
<1>0. Len(s) \in Nat BY LenProperties, Zenon
<1>1. /\ a \in Nat \ {0} /\ e \in Nat /\ n \in Nat /\ a \in 1..(Len(s) + 1) /\ e \in (a - 1)..Len(s)
      /\ a + 1 \in 1..(Len(s) + 1) /\ e \in ((a + 1) - 1)..Len(s)
      /\ e - a + 1 = n + 1 /\ e - (a + 1) + 1 = n
  BY <1>0
<1>2. A \in Seq(R) /\ Len(A) = e - a + 1 /\ \A i \in 1..(e - a + 1) : A[i] = s[a + i - 1]
  BY <1>1, Part
<1>3. /\ B \in Seq(R) /\ Len(B) = e - (a + 1) + 1
      /\ \A i \in 1..(e - (a + 1) + 1) : B[i] = s[(a + 1) + i - 1]
  BY <1>1, Part
<1>4. s[a] \in R BY ElementOfSeq, Zenon
<1>5. h \in Seq(R) /\ Len(h) = 1 /\ h[1] = s[a] BY <1>4
<1> HIDE DEF A, B, h
<1>6. /\ h \o B \in Seq(R) /\ Len(h \o B) = Len(h) + Len(B)
      /\ \A i \in 1..Len(h) + Len(B) : (h \o B)[i] = IF i <= Len(h) THEN h[i] ELSE B[i - Len(h)]
  BY <1>3, <1>5, ConcatProperties, Zenon
<1>7. Len(A) = n + 1 /\ Len(B) = n /\ Len(h \o B) = n + 1 BY <1>1, <1>2, <1>3, <1>5, <1>6
<1>8. \A i \in 1..(n + 1) : A[i] = (h \o B)[i]
  <2> TAKE i \in 1..(n + 1)
  <2>0. i \in 1..Len(h) + Len(B) BY <1>5, <1>7
  <2>a. i \in 1..(e - a + 1) BY <1>1
  <2>b. A[i] = s[a + i - 1] BY <1>2, <2>a
  <2>1. i \in 1..Len(h) + Len(B) /\ A[i] = s[a + i - 1] BY <2>0, <2>b
  <2>2. CASE i = 1
    <3> i <= Len(h) /\ a + i - 1 = a BY <1>1, <1>5, <2>2
    <3> QED BY <1>5, <1>6, <2>1, <2>2
  <2>3. CASE i # 1
    <3>1. ~(i <= Len(h)) /\ i - Len(h) = i - 1 /\ i - 1 \in 1..n BY <1>1, <1>5, <2>3
    <3>2. (h \o B)[i] = B[i - 1] BY <1>6, <2>1, <3>1
    <3>3. i - 1 \in 1..(e - (a + 1) + 1) /\ (a + 1) + (i - 1) - 1 = a + i - 1 BY <1>1, <3>1
    <3>4. B[i - 1] = s[(a + 1) + (i - 1) - 1] BY <1>3, <3>3
    <3> QED BY <2>1, <3>2, <3>3, <3>4
  <2> QED BY <2>2, <2>3
<1>9. A = h \o B BY <1>2, <1>6, <1>7, <1>8, SeqEqual
<1> QED BY <1>9 DEF A, B, h

(* Where a list of three parts has what.                                   *)
LEMMA ThreeParts ==
  ASSUME NEW R, NEW A \in Seq(R), NEW B \in Seq(R), NEW C \in Seq(R)
  PROVE  LET t == (A \o B) \o C
         IN  /\ t \in Seq(R) /\ Len(t) = (Len(A) + Len(B)) + Len(C)
             /\ Len(A) \in Nat /\ Len(B) \in Nat /\ Len(C) \in Nat
             /\ \A i \in 1..Len(A) : t[i] = A[i]
             /\ \A i \in 1..Len(B) : t[Len(A) + i] = B[i]
             /\ \A i \in 1..Len(t) :
                  \/ i \in 1..Len(A) /\ t[i] = A[i]
                  \/ i - Len(A) \in 1..Len(B) /\ t[i] = B[i - Len(A)]
                  \/ i - (Len(A) + Len(B)) \in 1..Len(C) /\ t[i] = C[i - (Len(A) + Len(B))]
<1> DEFINE u == A \o B
           t == u \o C
<1>1. /\ u \in Seq(R) /\ Len(u) = Len(A) + Len(B)
      /\ \A j \in 1..Len(A) + Len(B) : u[j] = IF j <= Len(A) THEN A[j] ELSE B[j - Len(A)]
  BY ConcatProperties, Zenon
<1>2. Len(A) \in Nat /\ Len(B) \in Nat /\ Len(C) \in Nat BY LenProperties, Zenon
<1> HIDE DEF u
<1>3. /\ t \in Seq(R) /\ Len(t) = Len(u) + Len(C)
      /\ \A j \in 1..Len(u) + Len(C) : t[j] = IF j <= Len(u) THEN u[j] ELSE C[j - Len(u)]
  <2> u \in Seq(R) BY <1>1
  <2> QED BY ONLY u \in Seq(R), C \in Seq(R), ConcatProperties, Zenon DEF t
<1> HIDE DEF t
<1>4. \A i \in 1..Len(A) : t[i] = A[i]
  <2> TAKE i \in 1..Len(A)
  <2>1. i \in 1..Len(A) + Len(B) /\ i <= Len(A) /\ i \in 1..Len(u) + Len(C) /\ i <= Len(u)
    BY <1>1, <1>2
  <2> QED BY <1>1, <1>3, <2>1
<1>5. \A i \in 1..Len(B) : t[Len(A) + i] = B[i]
  <2> TAKE i \in 1..Len(B)
  <2>1. /\ Len(A) + i \in 1..Len(A) + Len(B) /\ ~(Len(A) + i <= Len(A)) /\ Len(A) + i - Len(A) = i
        /\ Len(A) + i \in 1..Len(u) + Len(C) /\ Len(A) + i <= Len(u)
    BY <1>1, <1>2
  <2> QED BY <1>1, <1>3, <2>1
<1>6. \A i \in 1..Len(t) :
         \/ i \in 1..Len(A) /\ t[i] = A[i]
         \/ i - Len(A) \in 1..Len(B) /\ t[i] = B[i - Len(A)]
         \/ i - (Len(A) + Len(B)) \in 1..Len(C) /\ t[i] = C[i - (Len(A) + Len(B))]
  <2> TAKE i \in 1..Len(t)
  <2>1. CASE i <= Len(A)
    <3> i \in 1..Len(A) BY <1>1, <1>2, <1>3, <2>1
    <3> QED BY <1>4
  <2>2. CASE ~(i <= Len(A)) /\ i <= Len(A) + Len(B)
    <3> DEFINE j == i - Len(A)
    <3>1. j \in 1..Len(B) /\ i = Len(A) + j BY <1>1, <1>2, <1>3, <2>2
    <3> HIDE DEF j
    <3>2. t[i] = B[j] BY <1>5, <3>1
    <3> QED BY <3>1, <3>2 DEF j
  <2>3. CASE ~(i <= Len(A) + Len(B))
    <3>1. i - (Len(A) + Len(B)) \in 1..Len(C) /\ i \in 1..Len(u) + Len(C) /\ ~(i <= Len(u))
      BY <1>1, <1>2, <1>3, <2>3
    <3>2. t[i] = C[i - Len(u)] BY <1>3, <3>1
    <3> QED BY <1>1, <3>1, <3>2
  <2> QED BY <2>1, <2>2, <2>3, <1>1, <1>2, <1>3
<1> QED BY <1>1, <1>2, <1>3, <1>4, <1>5, <1>6 DEF t, u

=============================================================================
