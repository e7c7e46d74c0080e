------------------------ MODULE RepairWeightProofs ------------------------
(***************************************************************************)
(* Every round leaves less to fix, for every set of files.                 *)
(*                                                                         *)
(* EachRoundLightens takes sums over sequences of any length (FitsTotal,   *)
(* FitsLess), a lemma for the fix of each column (IdLighter to             *)
(* FieldLighter, joined in BodyFixLighter; MetaLighter) and, from the      *)
(* order of the output, an increasing map of its lines to those of the     *)
(* input (OutputLighter).                                                  *)
(***************************************************************************)
EXTENDS RepairProofs

(* Induction from 0. *)
LEMMA FromZero ==
  ASSUME NEW n \in Nat, NEW H, 0 \in H, \A m \in 1..n : m - 1 \in H => m \in H
  PROVE  \A m \in 0..n : m \in H
<1> DEFINE T == {m \in 0..n : m \notin H}
<1>1. SUFFICES ASSUME T # {} PROVE FALSE
  OBVIOUS
<1>2. T \subseteq Nat
  OBVIOUS
<1> HIDE DEF T
<1>3. PICK m \in T : \A y \in T : m <= y
  BY <1>1, <1>2, LeastNat
<1>4. m \in 0..n /\ m \notin H /\ \A y \in 0..n : y \notin H => m <= y
  BY <1>3 DEF T
<1>5. m \in 1..n /\ m - 1 \in 0..n
  BY <1>4
<1> QED
  BY <1>4, <1>5

(* The sums of the first numbers of a sequence. *)
SumsOf(w, n, f) == f = [i \in 0..n |-> IF i = 0 THEN 0 ELSE f[i - 1] + w[i]]

(* The recursive function inside Total exists. *)
LEMMA SumsExist ==
  ASSUME NEW w, NEW n \in Nat
  PROVE  \E f : SumsOf(w, n, f)
<1> DEFINE H == {m \in 0..n : \E f : SumsOf(w, m, f)}
<1>1. 0 \in H
  <2>1. SumsOf(w, 0, [i \in 0..0 |-> 0])
    BY DEF SumsOf
  <2> QED
    BY <2>1
<1>2. ASSUME NEW m \in 1..n, m - 1 \in H PROVE m \in H
  <2>1. PICK f : SumsOf(w, m - 1, f)
    BY <1>2
  <2> DEFINE Then(x, i) == x + w[i]
             g == [i \in 0..m |-> IF i = 0 THEN 0 ELSE Then(f[i - 1], i)]
  <2>2. f = [i \in 0..(m - 1) |-> IF i = 0 THEN 0 ELSE Then(f[i - 1], i)]
    BY <2>1 DEF SumsOf
  <2> HIDE DEF H, Then
  <2>3. \A i \in 0..(m - 1) : g[i] = f[i]
    BY <2>2
  <2>4. g = [i \in 0..m |-> IF i = 0 THEN 0 ELSE Then(g[i - 1], i)]
    <3>1. ASSUME NEW i \in 0..m, i # 0 PROVE f[i - 1] = g[i - 1]
      <4>1. i - 1 \in 0..(m - 1)
        BY <3>1
      <4> QED
        BY <2>3, <4>1
    <3> QED
      BY <3>1
  <2>5. SumsOf(w, m, g)
    BY <2>4, Zenon DEF SumsOf, Then
  <2>6. m \in 0..n
    OBVIOUS
  <2> QED
    BY <2>5, <2>6 DEF H
<1> HIDE DEF H
<1>3. n \in H
  <2>1. \A m \in 0..n : m \in H
    BY <1>1, <1>2, FromZero
  <2> QED
    BY <2>1
<1> QED
  BY <1>3 DEF H

(* What it is, for natural numbers. *)
Sums(w, n, f) ==
  /\ n \in Nat /\ w \in [1..n -> Nat] /\ f \in [0..n -> Nat] /\ f[0] = 0
  /\ \A i \in 1..n : f[i] = f[i - 1] + w[i]

(* Total is its last value. *)
LEMMA TotalSums ==
  ASSUME NEW w \in Seq(Nat)
  PROVE  \E f : Sums(w, Len(w), f) /\ Total(w) = f[Len(w)]
<1>1. PICK n \in Nat : n = Len(w)
  OBVIOUS
<1>2. w \in [1..n -> Nat]
  BY <1>1
<1> DEFINE c == CHOOSE f : SumsOf(w, n, f)
<1>3. Total(w) = c[n]
  BY <1>1 DEF Total, SumsOf
<1>4. SumsOf(w, n, c)
  BY SumsExist
<1> HIDE DEF c
<1>5. c = [i \in 0..n |-> IF i = 0 THEN 0 ELSE c[i - 1] + w[i]]
  BY <1>4 DEF SumsOf
<1>6. c[0] = 0 /\ \A i \in 1..n : c[i] = c[i - 1] + w[i]
  BY <1>5
<1> DEFINE H == {m \in 0..n : c[m] \in Nat}
<1>7. 0 \in H
  BY <1>6
<1>8. \A m \in 1..n : m - 1 \in H => m \in H
  BY <1>2, <1>6
<1>9. \A m \in 0..n : m \in H
  <2> HIDE DEF H
  <2> QED
    BY <1>7, <1>8, FromZero
<1>10. c \in [0..n -> Nat]
  <2>1. \A m \in 0..n : c[m] \in Nat
    BY <1>9
  <2> QED
    BY <1>5, <2>1
<1> QED
  BY <1>1, <1>2, <1>3, <1>6, <1>10 DEF Sums

(* Sums grow. *)
LEMMA SumsGrow ==
  ASSUME NEW w, NEW n, NEW f, Sums(w, n, f), NEW a \in 0..n, NEW b \in 0..n, a <= b
  PROVE  f[a] <= f[b]
<1> /\ n \in Nat /\ w \in [1..n -> Nat] /\ f \in [0..n -> Nat] /\ f[0] = 0
    /\ \A i \in 1..n : f[i] = f[i - 1] + w[i]
  BY DEF Sums
<1> DEFINE H == {m \in 0..n : a <= m => f[a] <= f[m]}
<1>1. 0 \in H
  OBVIOUS
<1>2. ASSUME NEW m \in 1..n, m - 1 \in H PROVE m \in H
  <2>1. CASE a = m
    BY <2>1
  <2>2. CASE a # m /\ a <= m
    <3>1. a <= m - 1 /\ m - 1 \in 0..n
      BY <2>2
    <3>2. f[a] <= f[m - 1] /\ f[m] = f[m - 1] + w[m] /\ w[m] \in Nat /\ f[m - 1] \in Nat /\ f[a] \in Nat
      BY <1>2, <3>1
    <3>3. f[a] <= f[m]
      BY <3>2
    <3> QED
      BY <3>3
  <2> QED
    BY <2>1, <2>2
<1>3. \A m \in 0..n : m \in H
  <2> HIDE DEF H
  <2> QED
    BY <1>1, <1>2, FromZero
<1> QED
  BY <1>3

(* Some of the numbers, in order, or smaller ones. *)
Fits(u, w, g) ==
  /\ u \in Seq(Nat) /\ w \in Seq(Nat) /\ g \in [1..Len(u) -> 1..Len(w)]
  /\ \A i, k \in 1..Len(u) : i < k => g[i] < g[k]
  /\ \A k \in 1..Len(u) : u[k] <= w[g[k]]

(* Their sum is not larger. *)
LEMMA FitsTotal ==
  ASSUME NEW u, NEW w, NEW g, Fits(u, w, g)
  PROVE  Total(u) \in Nat /\ Total(w) \in Nat /\ Total(u) <= Total(w)
<1>1. PICK m \in Nat, n \in Nat : m = Len(u) /\ n = Len(w)
  BY DEF Fits
<1>2. PICK f : Sums(u, m, f) /\ Total(u) = f[m]
  BY <1>1, TotalSums DEF Fits
<1>3. PICK h : Sums(w, n, h) /\ Total(w) = h[n]
  BY <1>1, TotalSums DEF Fits
<1>4. /\ f \in [0..m -> Nat] /\ f[0] = 0 /\ u \in [1..m -> Nat]
      /\ \A i \in 1..m : f[i] = f[i - 1] + u[i]
  BY <1>2 DEF Sums
<1>5. /\ h \in [0..n -> Nat] /\ h[0] = 0 /\ w \in [1..n -> Nat]
      /\ \A i \in 1..n : h[i] = h[i - 1] + w[i]
  BY <1>3 DEF Sums
<1>6. /\ g \in [1..m -> 1..n] /\ \A i, k \in 1..m : i < k => g[i] < g[k]
      /\ \A k \in 1..m : u[k] <= w[g[k]]
  BY <1>1 DEF Fits
<1>7. \A a, b \in 0..n : a <= b => h[a] <= h[b]
  BY <1>3, SumsGrow
<1> DEFINE H == {k \in 0..m : k = 0 \/ f[k] <= h[g[k]]}
<1>8. 0 \in H
  OBVIOUS
<1>9. ASSUME NEW k \in 1..m, k - 1 \in H PROVE k \in H
  <2>1. PICK p \in 1..n : p = g[k]
    BY <1>6
  <2>2. p - 1 \in 0..n /\ h[p] = h[p - 1] + w[p] /\ h[p - 1] \in Nat /\ w[p] \in Nat
    BY <1>5
  <2>3. f[k] = f[k - 1] + u[k] /\ f[k - 1] \in Nat /\ u[k] \in Nat /\ u[k] <= w[p]
    <3>1. f[k] = f[k - 1] + u[k] /\ f[k - 1] \in Nat /\ u[k] \in Nat
      BY <1>4
    <3>2. u[k] <= w[p]
      BY <1>6, <2>1
    <3> QED
      BY ONLY <3>1, <3>2, Zenon
  <2>4. f[k - 1] <= h[p - 1]
    <3>1. CASE k = 1
      BY <1>4, <2>2, <3>1
    <3>2. CASE k # 1
      <4>1. k - 1 \in 1..m /\ k - 1 < k
        BY <3>2
      <4>2. PICK q \in 1..n : q = g[k - 1]
        BY <1>6, <4>1
      <4>3. q < p /\ q \in 0..n
        BY <1>6, <2>1, <4>1, <4>2
      <4>4. q <= p - 1
        BY <4>3
      <4>5. h[q] <= h[p - 1] /\ h[q] \in Nat
        BY <1>5, <1>7, <2>2, <4>3, <4>4
      <4>6. f[k - 1] <= h[q]
        BY <1>9, <4>1, <4>2
      <4> QED
        BY <2>2, <2>3, <4>5, <4>6
    <3> QED
      BY <3>1, <3>2
  <2>5. f[k] <= h[p]
    BY <2>2, <2>3, <2>4
  <2> QED
    BY <2>1, <2>5
<1>10. \A k \in 0..m : k \in H
  <2> HIDE DEF H
  <2> QED
    BY <1>8, <1>9, FromZero
<1>11. f[m] <= h[n]
  <2>1. CASE m = 0
    BY <1>4, <1>5, <2>1
  <2>2. CASE m # 0
    <3>1. m \in 1..m /\ g[m] \in 1..n /\ f[m] <= h[g[m]]
      BY <1>6, <1>10, <2>2
    <3>2. h[g[m]] <= h[n]
      BY <1>7, <3>1
    <3>3. h[g[m]] \in Nat /\ h[n] \in Nat /\ f[m] \in Nat
      BY <1>4, <1>5, <3>1
    <3> QED
      BY <3>1, <3>2, <3>3
  <2> QED
    BY <2>1, <2>2
<1>12. f[m] \in Nat /\ h[n] \in Nat
  BY <1>4, <1>5
<1> QED
  BY <1>2, <1>3, <1>11, <1>12

(* One of the numbers made smaller. *)
LEMMA TotalLess ==
  ASSUME NEW w \in Seq(Nat), NEW p \in 1..Len(w), NEW d \in Nat, d <= w[p]
  PROVE  /\ [w EXCEPT ![p] = @ - d] \in Seq(Nat) /\ Total([w EXCEPT ![p] = @ - d]) \in Nat
         /\ Total(w) \in Nat /\ Total(w) = Total([w EXCEPT ![p] = @ - d]) + d
<1>1. PICK n \in Nat : n = Len(w) /\ p \in 1..n
  OBVIOUS
<1>2. PICK u : u = [w EXCEPT ![p] = @ - d]
  OBVIOUS
<1>3. /\ u \in Seq(Nat) /\ Len(u) = n /\ u[p] = w[p] - d /\ w[p] \in Nat
      /\ \A i \in 1..n : i # p => u[i] = w[i]
  <2>1. w[p] \in Nat /\ w[p] - d \in Nat
    BY <1>1
  <2>2. PICK x \in Nat : x = w[p] - d
    BY <2>1
  <2>3. u = [w EXCEPT ![p] = x]
    BY <1>2, <2>2
  <2> QED
    BY <1>1, <2>1, <2>2, <2>3
<1>4. PICK f : Sums(u, n, f) /\ Total(u) = f[n]
  BY <1>3, TotalSums
<1>5. PICK h : Sums(w, n, h) /\ Total(w) = h[n]
  BY <1>1, TotalSums
<1>6. /\ f \in [0..n -> Nat] /\ f[0] = 0 /\ u \in [1..n -> Nat]
      /\ \A i \in 1..n : f[i] = f[i - 1] + u[i]
  BY <1>4 DEF Sums
<1>7. /\ h \in [0..n -> Nat] /\ h[0] = 0 /\ w \in [1..n -> Nat]
      /\ \A i \in 1..n : h[i] = h[i - 1] + w[i]
  BY <1>5 DEF Sums
<1> DEFINE H == {m \in 0..n : h[m] = f[m] + (IF p <= m THEN d ELSE 0)}
<1>8. 0 \in H
  BY <1>1, <1>6, <1>7
<1>9. ASSUME NEW m \in 1..n, m - 1 \in H PROVE m \in H
  <2>0. m - 1 \in 0..n /\ m \in 1..n
    OBVIOUS
  <2>1. /\ f[m] = f[m - 1] + u[m] /\ h[m] = h[m - 1] + w[m]
        /\ f[m - 1] \in Nat /\ h[m - 1] \in Nat /\ u[m] \in Nat /\ w[m] \in Nat
    <3>1. f[m] = f[m - 1] + u[m] /\ f[m - 1] \in Nat /\ u[m] \in Nat
      BY <1>6, <2>0
    <3>2. h[m] = h[m - 1] + w[m] /\ h[m - 1] \in Nat /\ w[m] \in Nat
      BY <1>7, <2>0
    <3> QED
      BY <3>1, <3>2
  <2>2. h[m - 1] = f[m - 1] + (IF p <= m - 1 THEN d ELSE 0)
    BY <1>9
  <2> HIDE DEF H
  <2>3. PICK x \in Nat, y \in Nat, a \in Nat, b \in Nat :
          x = f[m - 1] /\ y = h[m - 1] /\ a = u[m] /\ b = w[m]
    BY <2>1
  <2>4. f[m] = x + a /\ h[m] = y + b
    BY <2>1, <2>3
  <2>5. y = x + (IF p <= m - 1 THEN d ELSE 0)
    BY <2>2, <2>3
  <2>6. h[m] = f[m] + (IF p <= m THEN d ELSE 0)
    <3>1. CASE m = p
      <4>1. ~(p <= m - 1) /\ p <= m
        BY <1>1, <3>1
      <4>2. a = b - d
        BY <1>3, <2>3, <3>1
      <4>3. y = x
        BY <2>5, <4>1
      <4>4. y + b = (x + a) + d
        BY <4>2, <4>3
      <4>5. (IF p <= m THEN d ELSE 0) = d
        BY <4>1
      <4> QED
        BY <2>4, <4>4, <4>5
    <3>2. CASE m # p
      <4>1. a = b
        BY <1>3, <2>3, <3>2
      <4>2. PICK e \in Nat : e = (IF p <= m THEN d ELSE 0) /\ e = (IF p <= m - 1 THEN d ELSE 0)
        BY <1>1, <3>2
      <4>3. y = x + e
        BY <2>5, <4>2
      <4>4. y + b = (x + a) + e
        BY <4>1, <4>3
      <4> QED
        BY <2>4, <4>2, <4>4
    <3> QED
      BY <3>1, <3>2
  <2>7. m \in 0..n
    OBVIOUS
  <2> QED
    BY <2>6, <2>7 DEF H
<1>10. n \in H
  <2>1. \A m \in 0..n : m \in H
    <3> HIDE DEF H
    <3> QED
      BY <1>8, <1>9, FromZero
  <2> QED
    BY <2>1
<1>11. h[n] = f[n] + d /\ f[n] \in Nat /\ h[n] \in Nat
  <2>1. h[n] = f[n] + (IF p <= n THEN d ELSE 0)
    BY <1>10
  <2>2. p <= n /\ n \in 0..n
    BY <1>1
  <2>3. f[n] \in Nat /\ h[n] \in Nat
    BY <1>6, <1>7, <2>2
  <2> QED
    BY <2>1, <2>2, <2>3
<1> QED
  BY <1>2, <1>3, <1>4, <1>5, <1>11

(* Where one of the numbers is left out, or is smaller by d. *)
LEMMA FitsLess ==
  ASSUME NEW u, NEW w, NEW g, Fits(u, w, g), NEW p \in 1..Len(w), NEW d \in Nat, d <= w[p],
         \A k \in 1..Len(u) : g[k] = p => u[k] + d <= w[p]
  PROVE  Total(u) \in Nat /\ Total(w) \in Nat /\ Total(u) + d <= Total(w)
<1>1. /\ u \in Seq(Nat) /\ w \in Seq(Nat) /\ g \in [1..Len(u) -> 1..Len(w)]
      /\ \A i, k \in 1..Len(u) : i < k => g[i] < g[k]
      /\ \A k \in 1..Len(u) : u[k] <= w[g[k]]
  BY DEF Fits
<1>2. PICK v : v = [w EXCEPT ![p] = @ - d]
  OBVIOUS
<1>3. /\ v \in Seq(Nat) /\ Total(v) \in Nat /\ Total(w) \in Nat /\ Total(w) = Total(v) + d
  BY <1>1, <1>2, TotalLess
<1>4. /\ Len(v) = Len(w) /\ v[p] = w[p] - d /\ w[p] \in Nat
      /\ \A i \in 1..Len(w) : i # p => v[i] = w[i]
  <2>1. w[p] \in Nat
    BY <1>1
  <2>2. PICK x : x = w[p] - d
    OBVIOUS
  <2>3. v = [w EXCEPT ![p] = x]
    BY <1>2, <2>2
  <2> QED
    BY <1>1, <2>1, <2>2, <2>3
<1>5. ASSUME NEW k \in 1..Len(u) PROVE u[k] <= v[g[k]]
  <2>1. u[k] \in Nat /\ g[k] \in 1..Len(w)
    <3>1. u[k] \in Nat
      BY <1>1, ElementOfSeq
    <3>2. g[k] \in 1..Len(w)
      BY <1>1
    <3> QED
      BY <3>1, <3>2
  <2>2. CASE g[k] = p
    BY <1>4, <2>1, <2>2
  <2>3. CASE g[k] # p
    BY <1>1, <1>4, <2>1, <2>3
  <2> QED
    BY <2>2, <2>3
<1>6. Fits(u, v, g)
  BY <1>1, <1>3, <1>4, <1>5 DEF Fits
<1>7. Total(u) \in Nat /\ Total(u) <= Total(v)
  BY <1>6, FitsTotal
<1> QED
  BY <1>3, <1>7

(* The weights of the fields of a column. *)
Weights(wt, s) == [i \in 1..Len(s) |-> wt[s[i]]]

(* They are natural numbers. *)
LEMMA WeightsTyped ==
  ASSUME NEW T, NEW wt \in [T -> Nat], NEW s \in Seq(T)
  PROVE  /\ Weights(wt, s) \in Seq(Nat) /\ Len(Weights(wt, s)) = Len(s)
         /\ \A i \in 1..Len(s) : Weights(wt, s)[i] = wt[s[i]] /\ s[i] \in T /\ wt[s[i]] \in Nat
         /\ Total(Weights(wt, s)) \in Nat
<1>1. PICK n \in Nat : n = Len(s)
  OBVIOUS
<1>2. \A i \in 1..n : s[i] \in T /\ wt[s[i]] \in Nat
  BY <1>1
<1>3. PICK w : w = Weights(wt, s)
  OBVIOUS
<1>4. w = [i \in 1..n |-> wt[s[i]]]
  BY <1>1, <1>3 DEF Weights
<1>5. w \in Seq(Nat) /\ Len(w) = n /\ \A i \in 1..n : w[i] = wt[s[i]]
  BY <1>2, <1>4
<1>6. PICK f : Sums(w, n, f) /\ Total(w) = f[n]
  BY <1>5, TotalSums
<1>7. f[n] \in Nat
  BY <1>6 DEF Sums
<1> QED
  BY <1>1, <1>2, <1>3, <1>5, <1>6, <1>7

(* No field weighs nothing, one field what it weighs, *)
LEMMA WeightOfOne ==
  ASSUME NEW T, NEW wt \in [T -> Nat], NEW x \in T
  PROVE  Total(Weights(wt, <<x>>)) = wt[x] /\ Total(Weights(wt, << >>)) = 0
<1>1. PICK w, z : w = Weights(wt, <<x>>) /\ z = Weights(wt, << >>)
  OBVIOUS
<1>2. w \in Seq(Nat) /\ Len(w) = 1 /\ w[1] = wt[x] /\ wt[x] \in Nat
  <2>0. <<x>> \in Seq(T)
    OBVIOUS
  <2>1. PICK s : s = <<x>>
    OBVIOUS
  <2>2. Len(s) = 1 /\ s[1] = x /\ 1 \in 1..1
    BY <2>1
  <2>3. s \in Seq(T)
    BY <2>0, <2>1
  <2>4. w = Weights(wt, s)
    BY <1>1, <2>1
  <2>5. /\ Weights(wt, s) \in Seq(Nat) /\ Len(Weights(wt, s)) = Len(s)
        /\ \A i \in 1..Len(s) : Weights(wt, s)[i] = wt[s[i]] /\ s[i] \in T /\ wt[s[i]] \in Nat
    BY <2>3, WeightsTyped, Zenon
  <2> QED
    BY <2>2, <2>4, <2>5
<1>3. PICK f : Sums(w, 1, f) /\ Total(w) = f[1]
  BY <1>2, TotalSums
<1>4. f[0] = 0 /\ f[1] = f[1 - 1] + w[1]
  BY <1>3 DEF Sums
<1>5. z \in Seq(Nat) /\ Len(z) = 0
  <2>1. << >> \in Seq(T) /\ Len(<< >>) = 0
    OBVIOUS
  <2> QED
    BY <1>1, <2>1, WeightsTyped, Zenon
<1>6. PICK h : Sums(z, 0, h) /\ Total(z) = h[0]
  BY <1>5, TotalSums
<1>7. h[0] = 0
  BY <1>6 DEF Sums
<1> QED
  BY <1>1, <1>2, <1>3, <1>4, <1>6, <1>7

(* and fields that are kept no more than all, less if one is left out. *)
LEMMA KeptLighter ==
  ASSUME NEW T, NEW wt \in [T -> Nat], NEW s \in Seq(T), NEW kept \in Seq(T),
         NEW K, NEW g, KeptBy(kept, s, K, Len(s), g)
  PROVE  /\ Total(Weights(wt, kept)) \in Nat /\ Total(Weights(wt, s)) \in Nat
         /\ Total(Weights(wt, kept)) <= Total(Weights(wt, s))
         /\ \A p \in 1..Len(s) : p \notin K => Total(Weights(wt, kept)) + wt[s[p]] <= Total(Weights(wt, s))
<1>1. PICK u, w : u = Weights(wt, kept) /\ w = Weights(wt, s)
  OBVIOUS
<1>2. /\ u \in Seq(Nat) /\ Len(u) = Len(kept) /\ Total(u) \in Nat
      /\ \A i \in 1..Len(kept) : u[i] = wt[kept[i]] /\ wt[kept[i]] \in Nat
  BY <1>1, WeightsTyped
<1>3. /\ w \in Seq(Nat) /\ Len(w) = Len(s) /\ Total(w) \in Nat
      /\ \A i \in 1..Len(s) : w[i] = wt[s[i]] /\ wt[s[i]] \in Nat
  BY <1>1, WeightsTyped
<1>4. /\ g \in [1..Len(kept) -> 1..Len(s)]
      /\ \A i, k \in 1..Len(kept) : i < k => g[i] < g[k]
      /\ \A k \in 1..Len(kept) : g[k] \in K /\ kept[k] = s[g[k]]
  BY DEF KeptBy
<1>5. \A k \in 1..Len(kept) : u[k] <= w[g[k]]
  <2>1. ASSUME NEW k \in 1..Len(kept) PROVE u[k] <= w[g[k]]
    <3>1. g[k] \in 1..Len(s) /\ u[k] = wt[s[g[k]]] /\ u[k] \in Nat
      BY <1>2, <1>4
    <3>2. w[g[k]] = u[k]
      BY <1>3, <3>1
    <3> QED
      BY <3>1, <3>2
  <2> QED
    BY <2>1
<1>6. Fits(u, w, g)
  BY <1>2, <1>3, <1>4, <1>5 DEF Fits
<1>7. Total(u) <= Total(w)
  BY <1>6, FitsTotal
<1>8. ASSUME NEW p \in 1..Len(s), p \notin K PROVE Total(u) + wt[s[p]] <= Total(w)
  <2>0. wt[s[p]] \in Nat /\ w[p] = wt[s[p]]
    BY <1>3
  <2>1. PICK d \in Nat : d = wt[s[p]] /\ d <= w[p] /\ p \in 1..Len(w)
    BY <1>3, <2>0
  <2>2. \A k \in 1..Len(u) : g[k] # p
    BY <1>2, <1>4, <1>8
  <2> QED
    BY <1>6, <2>1, <2>2, FitsLess
<1> QED
  BY <1>1, <1>2, <1>3, <1>7, <1>8

(* A column that loses a field heavier than an empty column. *)
LEMMA RemovedLighter ==
  ASSUME NEW T, NEW wt \in [T -> Nat], NEW s \in Seq(T), NEW empty \in T, NEW removed,
         NEW p \in 1..Len(s), p \in removed, wt[empty] < wt[s[p]]
  PROVE  /\ Total(Weights(wt, remove_fields(s, <<empty>>, removed))) \in Nat /\ Total(Weights(wt, s)) \in Nat
         /\ Total(Weights(wt, remove_fields(s, <<empty>>, removed))) < Total(Weights(wt, s))
<1>1. PICK none : none = <<empty>>
  OBVIOUS
<1>2. PICK kept, g : RemovedTo(T, s, none, removed, kept, g)
  BY RemoveFieldsKeeps, Zenon
<1>3. PICK K : K = (1..Len(s)) \ removed
  OBVIOUS
<1>4. /\ kept \in Seq(T) /\ KeptBy(kept, s, K, Len(s), g)
      /\ remove_fields(s, none, removed) = IF kept = << >> THEN none ELSE kept
  BY <1>2, <1>3 DEF RemovedTo
<1>5. wt[empty] \in Nat /\ wt[s[p]] \in Nat /\ p \notin K
  BY <1>3
<1>6. /\ Total(Weights(wt, kept)) \in Nat /\ Total(Weights(wt, s)) \in Nat
      /\ Total(Weights(wt, kept)) + wt[s[p]] <= Total(Weights(wt, s))
  BY <1>4, <1>5, KeptLighter
<1>7. Total(Weights(wt, none)) = wt[empty]
  BY <1>1, WeightOfOne
<1>8. PICK column : column = remove_fields(s, none, removed)
  OBVIOUS
<1>9. CASE column = kept
  BY <1>1, <1>5, <1>6, <1>8, <1>9
<1>10. CASE column = none
  BY <1>1, <1>5, <1>6, <1>7, <1>8, <1>10
<1> QED
  BY <1>4, <1>8, <1>9, <1>10

(* Fields that weigh 1 each. *)
LEMMA TotalOnes ==
  ASSUME NEW w \in Seq(Nat), \A i \in 1..Len(w) : w[i] = 1
  PROVE  Total(w) = Len(w)
<1>1. PICK n \in Nat : n = Len(w)
  OBVIOUS
<1>2. PICK f : Sums(w, n, f) /\ Total(w) = f[n]
  BY <1>1, TotalSums
<1>3. f[0] = 0 /\ \A i \in 1..n : f[i] = f[i - 1] + w[i]
  BY <1>2 DEF Sums
<1> DEFINE H == {m \in 0..n : f[m] = m}
<1>4. 0 \in H
  BY <1>3
<1>5. \A m \in 1..n : m - 1 \in H => m \in H
  BY <1>1, <1>3
<1>6. n \in H
  <2>1. \A m \in 0..n : m \in H
    <3> HIDE DEF H
    <3> QED
      BY <1>4, <1>5, FromZero
  <2> QED
    BY <2>1
<1> QED
  BY <1>1, <1>2, <1>6

(* The weights of the fields of ID, FILTER and FORMAT. *)
IdWt == [id \in Text |-> 1]
FilterWt == [filter \in Text |-> IF filter = "." THEN 1 ELSE 2]
FormatWt == [key \in Keys |-> IF key = "" THEN 1 ELSE 2]
ValueWt == [value \in Values |-> IF IsGiven(value) THEN 1 ELSE 0]
SampleWt == [sample \in Seq(Values) |-> SampleWeight(sample)]

(* They are positive. *)
Positive(wt, T) == wt \in [T -> Nat] /\ \A x \in T : wt[x] >= 1

(* ID, *)
LEMMA IdWeights ==
  ASSUME NEW ids \in Seq(Text)
  PROVE  Positive(IdWt, Text) /\ Len(ids) = Total(Weights(IdWt, ids))
<1>1. Positive(IdWt, Text)
  BY DEF Positive, IdWt
<1>2. PICK T, wt : T = Text /\ wt = IdWt
  OBVIOUS
<1>3. wt \in [T -> Nat] /\ ids \in Seq(T) /\ \A x \in T : wt[x] = 1
  BY <1>2 DEF IdWt
<1>4. PICK w : w = Weights(wt, ids)
  OBVIOUS
<1>5. w \in Seq(Nat) /\ Len(w) = Len(ids) /\ \A i \in 1..Len(ids) : w[i] = wt[ids[i]] /\ ids[i] \in T
  BY <1>3, <1>4, WeightsTyped
<1>6. Total(w) = Len(w)
  BY <1>3, <1>5, TotalOnes
<1> QED
  BY <1>1, <1>2, <1>4, <1>5, <1>6

(* FILTER, *)
LEMMA FilterWeights ==
  ASSUME NEW filter \in Seq(Text)
  PROVE  Positive(FilterWt, Text) /\ FilterWeight(filter) = Total(Weights(FilterWt, filter))
<1>1. Positive(FilterWt, Text)
  BY DEF Positive, FilterWt
<1>2. \A i \in 1..Len(filter) : FilterWt[filter[i]] = IF filter[i] = "." THEN 1 ELSE 2
  <2>1. \A i \in 1..Len(filter) : filter[i] \in Text
    BY ElementOfSeq
  <2> QED
    BY <2>1, Zenon DEF FilterWt
<1>3. [i \in 1..Len(filter) |-> IF filter[i] = "." THEN 1 ELSE 2] = Weights(FilterWt, filter)
  BY <1>2 DEF Weights
<1> QED
  BY <1>1, <1>3, Zenon DEF FilterWeight

(* FORMAT *)
LEMMA FormatWeights ==
  ASSUME NEW format \in Seq(Keys)
  PROVE  Positive(FormatWt, Keys) /\ FormatWeight(format) = Total(Weights(FormatWt, format))
<1>1. Positive(FormatWt, Keys)
  BY DEF Positive, FormatWt
<1>2. \A i \in 1..Len(format) : FormatWt[format[i]] = IF format[i] = "" THEN 1 ELSE 2
  <2>1. \A i \in 1..Len(format) : format[i] \in Keys
    BY ElementOfSeq
  <2> QED
    BY <2>1, Zenon DEF FormatWt
<1>3. [i \in 1..Len(format) |-> IF format[i] = "" THEN 1 ELSE 2] = Weights(FormatWt, format)
  BY <1>2 DEF Weights
<1> QED
  BY <1>1, <1>3, Zenon DEF FormatWeight

(* and the samples. *)
LEMMA SampleWeights ==
  ASSUME NEW sample \in Seq(Values)
  PROVE  ValueWt \in [Values -> Nat] /\ SampleWeight(sample) = Total(Weights(ValueWt, sample))
<1>1. ValueWt \in [Values -> Nat]
  BY DEF ValueWt
<1>2. \A i \in 1..Len(sample) : ValueWt[sample[i]] = IF IsGiven(sample[i]) THEN 1 ELSE 0
  <2>1. \A i \in 1..Len(sample) : sample[i] \in Values
    BY ElementOfSeq
  <2> QED
    BY <2>1, Zenon DEF ValueWt
<1>3. [i \in 1..Len(sample) |-> IF IsGiven(sample[i]) THEN 1 ELSE 0] = Weights(ValueWt, sample)
  BY <1>2 DEF Weights
<1> QED
  BY <1>1, <1>3, Zenon DEF SampleWeight

(* A sample weighs a natural number, an empty one nothing. *)
LEMMA SampleTotal ==
  ASSUME NEW sample \in Seq(Values)
  PROVE  SampleWeight(sample) \in Nat
<1>1. PICK T, wt : T = Values /\ wt = ValueWt
  OBVIOUS
<1>2. sample \in Seq(T) /\ wt \in [T -> Nat] /\ SampleWeight(sample) = Total(Weights(wt, sample))
  BY <1>1, SampleWeights
<1> QED
  BY <1>2, WeightsTyped

(* The column of the samples. *)
LEMMA SamplesWeights ==
  ASSUME NEW samples \in Seq(Seq(Values))
  PROVE  SampleWt \in [Seq(Values) -> Nat] /\ SamplesWeight(samples) = Total(Weights(SampleWt, samples))
<1>1. SampleWt \in [Seq(Values) -> Nat]
  BY SampleTotal DEF SampleWt
<1>2. \A i \in 1..Len(samples) : SampleWt[samples[i]] = SampleWeight(samples[i])
  <2>1. \A i \in 1..Len(samples) : samples[i] \in Seq(Values)
    BY ElementOfSeq
  <2> QED
    BY <2>1, Zenon DEF SampleWt
<1>3. [i \in 1..Len(samples) |-> SampleWeight(samples[i])] = Weights(SampleWt, samples)
  BY <1>2 DEF Weights
<1> QED
  BY <1>1, <1>3, Zenon DEF SamplesWeight

(* A column without its duplicates is lighter. *)
LEMMA DuplicatesLighter ==
  ASSUME NEW T, NEW wt, Positive(wt, T), NEW s \in Seq(T), HasDuplicates(s)
  PROVE  /\ remove_duplicate_strings(s) \in Seq(T)
         /\ Total(Weights(wt, remove_duplicate_strings(s))) < Total(Weights(wt, s))
<1>1. PICK removed : removed = {i \in 1..Len(s) : ~IsFirst(s, i)}
  OBVIOUS
<1>2. remove_duplicate_strings(s) = remove_fields(s, << >>, removed)
  BY <1>1 DEF remove_duplicate_strings
<1>3. PICK kept, g : RemovedTo(T, s, << >>, removed, kept, g)
  BY RemoveFieldsKeeps, Zenon
<1>4. PICK K : K = (1..Len(s)) \ removed
  OBVIOUS
<1>5. /\ kept \in Seq(T) /\ KeptBy(kept, s, K, Len(s), g)
      /\ remove_duplicate_strings(s) = kept
  BY <1>2, <1>3, <1>4 DEF RemovedTo
<1>6. PICK p \in 1..Len(s) : p \notin K
  BY <1>1, <1>4 DEF HasDuplicates
<1>7. wt \in [T -> Nat] /\ \A x \in T : wt[x] >= 1 /\ wt[x] \in Nat
  BY DEF Positive
<1>8. /\ Total(Weights(wt, kept)) \in Nat /\ Total(Weights(wt, s)) \in Nat
      /\ Total(Weights(wt, kept)) + wt[s[p]] <= Total(Weights(wt, s))
  BY <1>5, <1>6, <1>7, KeptLighter
<1>9. s[p] \in T
  OBVIOUS
<1>10. wt[s[p]] \in Nat /\ wt[s[p]] >= 1
  BY <1>7, <1>9
<1> QED
  BY <1>5, <1>8, <1>10

(* What the weight of an INFO field depends on. *)
SamePlace(line, after) ==
  /\ after.position = line.position /\ after.reference = line.reference
  /\ after.alternates = line.alternates

(* A fix leaves it alone. *)
LEMMA InfoWeightSame ==
  ASSUME NEW line, NEW after, SamePlace(line, after), NEW info
  PROVE  InfoColumnWeight(after, info) = InfoColumnWeight(line, info)
<1> USE DEF SamePlace
<1>1. ExpectedEnd(after) = ExpectedEnd(line)
  BY DEF ExpectedEnd
<1>2. \A key : ExpectedTokens(after, key) = ExpectedTokens(line, key)
  BY <1>1, Zenon DEF ExpectedTokens
<1>3. \A field : InfoWeight(after, field) = InfoWeight(line, field)
  <2>1. ASSUME NEW field PROVE InfoWeight(after, field) = InfoWeight(line, field)
    <3>1. PICK tokens : /\ tokens = ExpectedTokens(line, field.key)
                        /\ tokens = ExpectedTokens(after, field.key)
      BY <1>2
    <3>2. \A place \in {line, after} : InfoWeight(place, field)
            = IF field.key = "." THEN 1
              ELSE IF \E token \in tokens : field.parts = << <<token>> >> THEN 2 ELSE 3
      BY <3>1 DEF InfoWeight
    <3> QED
      BY <3>2
  <2> QED
    BY <2>1
<1>4. [i \in 1..Len(info) |-> InfoWeight(after, info[i])] = [i \in 1..Len(info) |-> InfoWeight(line, info[i])]
  BY <1>3, Zenon
<1> QED
  BY <1>4, Zenon DEF InfoColumnWeight

(* The weights of the fields of INFO. *)
InfoWt(line) == [field \in InfoFields |-> InfoWeight(line, field)]

(* It is between 1, for a missing column, and 3. *)
LEMMA InfoFieldWeight ==
  ASSUME NEW line, NEW field
  PROVE  /\ InfoWeight(line, field) \in 1..3
         /\ field.key = "." <=> InfoWeight(line, field) = 1
BY DEF InfoWeight

(* INFO. *)
LEMMA InfoWeights ==
  ASSUME NEW line, NEW info \in Seq(InfoFields)
  PROVE  /\ Positive(InfoWt(line), InfoFields)
         /\ \A x \in InfoFields : InfoWt(line)[x] = InfoWeight(line, x)
         /\ InfoColumnWeight(line, info) = IF info = << >> THEN 2 ELSE Total(Weights(InfoWt(line), info))
<1>1. \A x \in InfoFields : InfoWt(line)[x] = InfoWeight(line, x)
  BY Zenon DEF InfoWt
<1>2. Positive(InfoWt(line), InfoFields)
  <2>1. \A x \in InfoFields : InfoWeight(line, x) \in Nat /\ InfoWeight(line, x) >= 1
    BY InfoFieldWeight
  <2> HIDE DEF InfoFields
  <2> QED
    BY <1>1, <2>1 DEF Positive, InfoWt
<1>3. \A i \in 1..Len(info) : InfoWt(line)[info[i]] = InfoWeight(line, info[i])
  <2>1. \A i \in 1..Len(info) : info[i] \in InfoFields
    BY ElementOfSeq
  <2> QED
    BY <1>1, <2>1, Zenon
<1>4. [i \in 1..Len(info) |-> InfoWeight(line, info[i])] = Weights(InfoWt(line), info)
  BY <1>3 DEF Weights
<1> QED
  BY <1>1, <1>2, <1>4, Zenon DEF InfoColumnWeight

(* Fields of INFO with their weights, as any sequence. *)
InfoTotals(line, T, wt) ==
  /\ T = InfoFields /\ wt = InfoWt(line) /\ wt \in [T -> Nat]
  /\ \A x \in T : wt[x] = InfoWeight(line, x) /\ wt[x] \in 1..3
  /\ \A info \in Seq(T) :
       InfoColumnWeight(line, info) = IF info = << >> THEN 2 ELSE Total(Weights(wt, info))

(* There are such weights for every record. *)
LEMMA InfoTotalsAre ==
  ASSUME NEW line
  PROVE  \E T, wt : InfoTotals(line, T, wt)
<1>1. PICK T, wt : T = InfoFields /\ wt = InfoWt(line)
  OBVIOUS
<1>2. \A info \in Seq(T) :
        /\ Positive(wt, T)
        /\ \A x \in T : wt[x] = InfoWeight(line, x)
        /\ InfoColumnWeight(line, info) = IF info = << >> THEN 2 ELSE Total(Weights(wt, info))
  BY <1>1, InfoWeights, Zenon
<1>3. << >> \in Seq(T)
  OBVIOUS
<1>4. Positive(wt, T) /\ \A x \in T : wt[x] = InfoWeight(line, x)
  BY <1>2, <1>3, Zenon
<1>5. \A x : InfoWeight(line, x) \in 1..3
  BY InfoFieldWeight
<1>6. wt \in [T -> Nat]
  BY <1>4 DEF Positive
<1>7. \A x \in T : wt[x] = InfoWeight(line, x) /\ wt[x] \in 1..3
  BY <1>4, <1>5
<1>8. InfoTotals(line, T, wt)
  BY <1>1, <1>2, <1>6, <1>7, Zenon DEF InfoTotals
<1> QED
  BY <1>8

(* The weights of the columns are natural numbers. *)
LEMMA ColumnsWeigh ==
  ASSUME NEW line \in BodyLines
  PROVE  /\ Len(line.ids) \in Nat /\ FilterWeight(line.filter) \in Nat
         /\ InfoColumnWeight(line, line.info) \in Nat
         /\ FormatWeight(line.format) \in Nat /\ SamplesWeight(line.samples) \in Nat
         /\ BodyWeight(line) \in Nat
<1>1. PICK ids, filter, info, format, samples :
        /\ ids = line.ids /\ filter = line.filter /\ info = line.info
        /\ format = line.format /\ samples = line.samples
  OBVIOUS
<1>2. /\ ids \in Seq(Text) /\ filter \in Seq(Text) /\ info \in Seq(InfoFields)
      /\ format \in Seq(Keys) /\ samples \in Seq(Seq(Values))
  BY <1>1, ColumnTypes
<1>3. Len(ids) \in Nat
  BY <1>2
<1>4. FilterWeight(filter) \in Nat
  <2>1. PICK T, wt : T = Text /\ wt = FilterWt
    OBVIOUS
  <2>2. filter \in Seq(T) /\ wt \in [T -> Nat] /\ FilterWeight(filter) = Total(Weights(wt, filter))
    BY <1>2, <2>1, FilterWeights DEF Positive
  <2> QED
    BY <2>2, WeightsTyped
<1>5. InfoColumnWeight(line, info) \in Nat
  <2>1. PICK T, wt : InfoTotals(line, T, wt)
    BY InfoTotalsAre
  <2>2. /\ info \in Seq(T) /\ wt \in [T -> Nat]
        /\ InfoColumnWeight(line, info) = IF info = << >> THEN 2 ELSE Total(Weights(wt, info))
    BY <1>2, <2>1 DEF InfoTotals
  <2>3. Total(Weights(wt, info)) \in Nat
    BY <2>2, WeightsTyped
  <2> QED
    BY <2>2, <2>3
<1>6. FormatWeight(format) \in Nat
  <2>1. PICK T, wt : T = Keys /\ wt = FormatWt
    OBVIOUS
  <2>2. format \in Seq(T) /\ wt \in [T -> Nat] /\ FormatWeight(format) = Total(Weights(wt, format))
    BY <1>2, <2>1, FormatWeights DEF Positive
  <2> QED
    BY <2>2, WeightsTyped
<1>7. SamplesWeight(samples) \in Nat
  <2>1. PICK T, wt : T = Seq(Values) /\ wt = SampleWt
    OBVIOUS
  <2>2. samples \in Seq(T) /\ wt \in [T -> Nat] /\ SamplesWeight(samples) = Total(Weights(wt, samples))
    BY <1>2, <2>1, SamplesWeights
  <2> QED
    BY <2>2, WeightsTyped
<1>8. BodyWeight(line) = Len(ids) + FilterWeight(filter) + InfoColumnWeight(line, info)
                           + FormatWeight(format) + SamplesWeight(samples)
  BY <1>1, Zenon DEF BodyWeight
<1> QED
  BY <1>1, <1>3, <1>4, <1>5, <1>6, <1>7, <1>8

(* Columns that are the same or lighter, one at least lighter. *)
ColumnsLighter(line, after) ==
  /\ SamePlace(line, after)
  /\ after.ids = line.ids \/ Len(after.ids) < Len(line.ids)
  /\ after.filter = line.filter \/ FilterWeight(after.filter) < FilterWeight(line.filter)
  /\ after.info = line.info \/ InfoColumnWeight(line, after.info) < InfoColumnWeight(line, line.info)
  /\ after.format = line.format \/ FormatWeight(after.format) < FormatWeight(line.format)
  /\ after.samples = line.samples \/ SamplesWeight(after.samples) <= SamplesWeight(line.samples)
  /\ \/ Len(after.ids) < Len(line.ids) \/ FilterWeight(after.filter) < FilterWeight(line.filter)
     \/ InfoColumnWeight(line, after.info) < InfoColumnWeight(line, line.info)
     \/ FormatWeight(after.format) < FormatWeight(line.format)
     \/ SamplesWeight(after.samples) < SamplesWeight(line.samples)

(* The line is lighter. *)
LEMMA LineLighter ==
  ASSUME NEW line \in BodyLines, NEW after \in BodyLines, ColumnsLighter(line, after)
  PROVE  BodyWeight(after) < BodyWeight(line)
<1> USE DEF ColumnsLighter
<1>1. InfoColumnWeight(after, after.info) = InfoColumnWeight(line, after.info)
  BY InfoWeightSame
<1>2. PICK a1, a2, a3, a4, a5 :
        /\ a1 = Len(after.ids) /\ a2 = FilterWeight(after.filter) /\ a3 = InfoColumnWeight(line, after.info)
        /\ a4 = FormatWeight(after.format) /\ a5 = SamplesWeight(after.samples)
  OBVIOUS
<1>3. PICK b1, b2, b3, b4, b5 :
        /\ b1 = Len(line.ids) /\ b2 = FilterWeight(line.filter) /\ b3 = InfoColumnWeight(line, line.info)
        /\ b4 = FormatWeight(line.format) /\ b5 = SamplesWeight(line.samples)
  OBVIOUS
<1>4. a1 \in Nat /\ a2 \in Nat /\ a3 \in Nat /\ a4 \in Nat /\ a5 \in Nat
  BY <1>1, <1>2, ColumnsWeigh
<1>5. b1 \in Nat /\ b2 \in Nat /\ b3 \in Nat /\ b4 \in Nat /\ b5 \in Nat
  BY <1>3, ColumnsWeigh
<1>6. a1 = b1 \/ a1 < b1
  BY <1>2, <1>3, Zenon
<1>7. a2 = b2 \/ a2 < b2
  BY <1>2, <1>3, Zenon
<1>8. a3 = b3 \/ a3 < b3
  BY <1>2, <1>3, Zenon
<1>9. a4 = b4 \/ a4 < b4
  BY <1>2, <1>3, Zenon
<1>10. a5 = b5 \/ a5 <= b5
  BY <1>2, <1>3, Zenon
<1>11. a1 < b1 \/ a2 < b2 \/ a3 < b3 \/ a4 < b4 \/ a5 < b5
  BY <1>2, <1>3, Zenon
<1>12. BodyWeight(after) = a1 + a2 + a3 + a4 + a5
  BY <1>1, <1>2, Zenon DEF BodyWeight
<1>13. BodyWeight(line) = b1 + b2 + b3 + b4 + b5
  BY <1>3, Zenon DEF BodyWeight
<1>14. a1 + a2 + a3 + a4 + a5 < b1 + b2 + b3 + b4 + b5
  BY <1>4, <1>5, <1>6, <1>7, <1>8, <1>9, <1>10, <1>11
<1> QED
  BY <1>12, <1>13, <1>14

(* What a fix makes lighter, if it makes anything else of a line: ID, *)
LEMMA IdLighter ==
  ASSUME NEW line \in BodyLines, NEW e, NEW after, Writes(FixId(line, e), after), HasDuplicates(line.ids),
         after # line
  PROVE  ColumnsLighter(line, after)
<1>1. PICK fixed : fixed = remove_duplicate_strings(line.ids)
  OBVIOUS
<1>2. FixId(line, e) = Write([line EXCEPT !.ids = fixed]) \/ FixId(line, e) = ignore_error(line)
  BY <1>1, Zenon DEF FixId
<1>3. after = [line EXCEPT !.ids = fixed]
  BY <1>2, WritesOne
<1>4. after.ids = fixed /\ SamePlace(line, after) /\ after.filter = line.filter /\ after.info = line.info
      /\ after.format = line.format /\ after.samples = line.samples
  BY <1>3 DEF BodyLines, SamePlace
<1>5. PICK T, wt, ids : T = Text /\ wt = IdWt /\ ids = line.ids
  OBVIOUS
<1>6. ids \in Seq(T) /\ Positive(wt, T) /\ HasDuplicates(ids)
  BY <1>5, ColumnTypes, IdWeights
<1>7. fixed \in Seq(T) /\ Total(Weights(wt, fixed)) < Total(Weights(wt, ids))
  BY <1>1, <1>5, <1>6, DuplicatesLighter, Zenon
<1>8. Len(ids) = Total(Weights(wt, ids)) /\ Len(fixed) = Total(Weights(wt, fixed))
  BY <1>5, <1>6, <1>7, IdWeights, Zenon
<1>9. Len(after.ids) < Len(line.ids)
  BY <1>4, <1>5, <1>7, <1>8
<1> QED
  BY <1>4, <1>9, Zenon DEF ColumnsLighter

(* FILTER, *)
LEMMA FilterLighter ==
  ASSUME NEW line \in BodyLines, NEW e, NEW after, Writes(FixFilter(line, e), after),
         \/ e.error_fix = "DUPLICATE_VALUES" /\ e.field = "" /\ HasDuplicates(line.filter)
         \/ e.error_fix # "DUPLICATE_VALUES" /\ Contains(line.filter, "0"),
         after # line
  PROVE  ColumnsLighter(line, after)
<1>1. PICK T, wt, filter : T = Text /\ wt = FilterWt /\ filter = line.filter
  OBVIOUS
<1>2. filter \in Seq(T) /\ Positive(wt, T)
  BY <1>1, ColumnTypes, FilterWeights
<1>3. SUFFICES ASSUME NEW fixed \in Seq(T), after = [line EXCEPT !.filter = fixed],
                      Total(Weights(wt, fixed)) < Total(Weights(wt, filter))
               PROVE  ColumnsLighter(line, after)
  <2>1. CASE e.error_fix = "DUPLICATE_VALUES" /\ e.field = "" /\ HasDuplicates(filter)
    <3>1. PICK fixed : fixed = remove_duplicate_strings(filter)
      OBVIOUS
    <3>2. FixFilter(line, e) = Write([line EXCEPT !.filter = fixed])
      BY <1>1, <2>1, <3>1 DEF FixFilter
    <3>3. after = [line EXCEPT !.filter = fixed]
      BY <3>2, WritesOne
    <3>4. fixed \in Seq(T) /\ Total(Weights(wt, fixed)) < Total(Weights(wt, filter))
      BY <1>2, <2>1, <3>1, DuplicatesLighter, Zenon
    <3> QED
      BY <1>3, <3>3, <3>4
  <2>2. CASE e.error_fix # "DUPLICATE_VALUES" /\ Contains(filter, "0")
    <3>1. PICK zero, dot : zero = "0" /\ dot = "."
      OBVIOUS
    <3>2. PICK removed : removed = IndexesOf(filter, zero)
      OBVIOUS
    <3>3. PICK fixed : fixed = remove_fields(filter, <<dot>>, removed)
      OBVIOUS
    <3>4. FixFilter(line, e) = Write([line EXCEPT !.filter = fixed]) \/ FixFilter(line, e) = ignore_error(line)
      BY <1>1, <2>2, <3>1, <3>2, <3>3, Zenon DEF FixFilter
    <3>5. after = [line EXCEPT !.filter = fixed]
      BY <3>4, WritesOne
    <3>6. PICK p \in 1..Len(filter) : filter[p] = zero
      BY <2>2, <3>1 DEF Contains
    <3>7. p \in removed
      BY <3>2, <3>6 DEF IndexesOf
    <3>8. dot \in T /\ zero \in T
      <4>1. dot \in T
        BY <1>1, <3>1 DEF Text
      <4>2. filter[p] \in T
        BY ONLY <1>2, p \in 1..Len(filter), ElementOfSeq
      <4> QED
        BY ONLY <3>6, <4>1, <4>2, Zenon
    <3>9. wt[dot] = 1 /\ wt[zero] = 2
      <4>1. zero # "." /\ dot = "."
        BY <3>1
      <4> QED
        BY <1>1, <3>8, <4>1, Zenon DEF FilterWt
    <3>10. wt[dot] < wt[filter[p]] /\ wt \in [T -> Nat]
      <4>1. wt \in [T -> Nat]
        BY <1>2, Zenon DEF Positive
      <4>2. wt[filter[p]] = 2
        BY <3>6, <3>9, Zenon
      <4>3. wt[dot] < wt[filter[p]]
        BY ONLY <3>9, <4>2
      <4> QED
        BY <4>1, <4>3, Zenon
    <3>11. Total(Weights(wt, fixed)) < Total(Weights(wt, filter))
      BY <1>2, <3>3, <3>7, <3>8, <3>10, RemovedLighter
    <3>12. fixed \in Seq(T)
      <4>1. <<dot>> \in Seq(T)
        BY ONLY <3>8
      <4> QED
        BY <1>2, <3>3, <4>1, RemoveFieldsTyped
    <3> QED
      BY <1>3, <3>5, <3>11, <3>12
  <2> QED
    BY <1>1, <2>1, <2>2
<1>4. after.filter = fixed /\ SamePlace(line, after) /\ after.ids = line.ids /\ after.info = line.info
      /\ after.format = line.format /\ after.samples = line.samples
  BY <1>3 DEF BodyLines, SamePlace
<1>5. FilterWeight(filter) = Total(Weights(wt, filter)) /\ FilterWeight(fixed) = Total(Weights(wt, fixed))
  BY <1>1, <1>2, <1>3, FilterWeights, Zenon
<1>6. FilterWeight(after.filter) < FilterWeight(line.filter)
  BY <1>1, <1>3, <1>4, <1>5
<1> QED
  BY <1>4, <1>6, Zenon DEF ColumnsLighter

(* An increasing function onto the indices of a sequence. *)
Onto(m, n, g) ==
  /\ m \in Nat /\ n \in Nat /\ g \in [1..m -> 1..n]
  /\ \A i, k \in 1..m : i < k => g[i] < g[k]
  /\ \A p \in 1..n : \E k \in 1..m : g[k] = p

(* It is the identity, and the sequences are of the same length. *)
LEMMA OntoSame ==
  ASSUME NEW m, NEW n, NEW g, Onto(m, n, g)
  PROVE  m = n /\ \A k \in 1..m : g[k] = k
<1> USE DEF Onto
<1> DEFINE H == {k \in 0..m : \A i \in 1..k : g[i] = i}
<1>1. 0 \in H
  OBVIOUS
<1>2. ASSUME NEW k \in 1..m, k - 1 \in H PROVE k \in H
  <2>1. \A i \in 1..(k - 1) : g[i] = i
    BY <1>2
  <2>2. g[k] \in 1..n
    OBVIOUS
  <2>3. g[k] >= k
    <3>1. CASE k = 1
      BY <2>2, <3>1
    <3>2. CASE k # 1
      <4>1. k - 1 \in 1..(k - 1) /\ k - 1 \in 1..m /\ k - 1 < k
        BY <3>2
      <4>2. g[k - 1] = k - 1 /\ g[k - 1] < g[k]
        BY <2>1, <4>1
      <4> QED
        BY <2>2, <4>2
    <3> QED
      BY <3>1, <3>2
  <2>4. g[k] = k
    <3> SUFFICES ASSUME g[k] # k PROVE FALSE
      OBVIOUS
    <3>1. k < g[k] /\ k \in 1..n
      BY <2>2, <2>3
    <3>2. PICK j \in 1..m : g[j] = k
      BY <3>1
    <3>3. CASE j < k
      <4>1. j \in 1..(k - 1)
        BY <3>3
      <4>2. g[j] = j
        BY <2>1, <4>1
      <4> QED
        BY <3>2, <3>3, <4>2
    <3>4. CASE j = k
      BY <3>2, <3>4
    <3>5. CASE k < j
      <4>1. g[k] < g[j]
        BY <3>5
      <4> QED
        BY <2>2, <3>1, <3>2, <4>1
    <3> QED
      BY <3>3, <3>4, <3>5
  <2>5. \A i \in 1..k : i \in 1..(k - 1) \/ i = k
    OBVIOUS
  <2>6. \A i \in 1..k : g[i] = i
    BY <2>1, <2>4, <2>5
  <2>7. k \in 0..m
    OBVIOUS
  <2> QED
    BY <2>6, <2>7
<1>3. \A k \in 0..m : k \in H
  <2> HIDE DEF H
  <2> QED
    BY <1>1, <1>2, FromZero
<1>4. \A k \in 1..m : g[k] = k
  <2>1. m \in H
    <3>1. m \in 0..m
      OBVIOUS
    <3> QED
      BY ONLY <1>3, <3>1, Zenon
  <2> QED
    BY <2>1
<1>5. m <= n
  <2>1. CASE m = 0
    BY <2>1
  <2>2. CASE m # 0
    <3>1. m \in 1..m
      BY <2>2
    <3>2. g[m] = m /\ g[m] \in 1..n
      BY <1>4, <3>1
    <3> QED
      BY <3>2
  <2> QED
    BY <2>1, <2>2
<1>6. n <= m
  <2>1. CASE n = 0
    BY <2>1
  <2>2. CASE n # 0
    <3>1. n \in 1..n
      BY <2>2
    <3>2. PICK k \in 1..m : g[k] = n
      BY <3>1
    <3> QED
      BY <1>4, <3>2
  <2> QED
    BY <2>1, <2>2
<1> QED
  BY <1>4, <1>5, <1>6

(* Two fields weigh at least 2. *)
LEMMA TwoWeigh ==
  ASSUME NEW w \in Seq(Nat), NEW i \in 1..Len(w), NEW p \in 1..Len(w), i # p, w[i] >= 1, w[p] >= 1
  PROVE  Total(w) \in Nat /\ 2 <= Total(w)
<1>1. PICK u : u = [k \in 1..1 |-> 1]
  OBVIOUS
<1>2. u \in Seq(Nat) /\ Len(u) = 1 /\ u[1] = 1
  BY <1>1
<1>3. Total(u) = 1
  <2>1. \A k \in 1..Len(u) : u[k] = 1
    BY <1>2
  <2> QED
    BY <1>2, <2>1, TotalOnes
<1>4. PICK g : g = [k \in 1..1 |-> i]
  OBVIOUS
<1>5. g \in [1..1 -> 1..Len(w)] /\ g[1] = i
  BY <1>4
<1>6. Fits(u, w, g)
  BY <1>2, <1>5 DEF Fits
<1>7. PICK d \in Nat : d = 1
  OBVIOUS
<1>8. d <= w[p] /\ \A k \in 1..Len(u) : g[k] # p
  BY <1>2, <1>5, <1>7
<1>9. Total(u) \in Nat /\ Total(w) \in Nat /\ Total(u) + d <= Total(w)
  BY <1>6, <1>8, FitsLess
<1> QED
  BY <1>3, <1>7, <1>9

(* Front, again. *)
LEMMA FrontIs ==
  ASSUME NEW S, NEW s \in Seq(S), s # << >>
  PROVE  /\ Front(s) \in Seq(S) /\ Len(Front(s)) = Len(s) - 1 /\ Last(s) = s[Len(s)]
         /\ \A i \in 1..Len(Front(s)) : i \in 1..Len(s) /\ Front(s)[i] = s[i]
<1>1. PICK n \in Nat : n = Len(s) /\ n # 0
  OBVIOUS
<1>2. n - 1 \in Nat /\ \A k \in 1..(n - 1) : k \in 1..n
  BY <1>1
<1>3. \A k \in 1..(n - 1) : s[k] \in S
  BY <1>1, <1>2, ElementOfSeq
<1>4. PICK f : f = Front(s)
  OBVIOUS
<1>5. f = [k \in 1..(n - 1) |-> s[k]]
  BY <1>1, <1>2, <1>4 DEF Front
<1>6. f \in Seq(S) /\ Len(f) = n - 1
  BY <1>2, <1>3, <1>5
<1> QED
  BY <1>1, <1>2, <1>4, <1>5, <1>6 DEF Last

(* What string_split leaves of INFO. *)
LEMMA SplitPrefix ==
  ASSUME NEW info \in Seq(InfoFields), NEW fields, fields = string_split(info)
  PROVE  /\ fields \in Seq(InfoFields) /\ Len(fields) <= Len(info)
         /\ \A i \in 1..Len(fields) : i \in 1..Len(info) /\ fields[i] = info[i]
         /\ fields = info \/ (Len(info) > Len(fields) /\ info[Len(info)] = Flag(""))
<1>1. PICK S, s : S = InfoFields /\ s = info
  OBVIOUS
<1>2. s \in Seq(S)
  BY <1>1
<1>3. CASE fields = s
  BY <1>1, <1>2, <1>3
<1>4. CASE s # << >> /\ fields = Front(s) /\ Last(s) = Flag("")
  <2>1. /\ fields \in Seq(S) /\ Len(fields) = Len(s) - 1 /\ s[Len(s)] = Flag("")
        /\ \A i \in 1..Len(fields) : i \in 1..Len(s) /\ fields[i] = s[i]
    <3>1. s \in Seq(S) /\ s # << >>
      BY <1>2, <1>4, Zenon
    <3>2. /\ Front(s) \in Seq(S) /\ Len(Front(s)) = Len(s) - 1 /\ Last(s) = s[Len(s)]
          /\ \A i \in 1..Len(Front(s)) : i \in 1..Len(s) /\ Front(s)[i] = s[i]
      BY ONLY <3>1, FrontIs, Zenon
    <3> QED
      BY ONLY <1>4, <3>2, Zenon
  <2>2. Len(fields) <= Len(s) /\ Len(s) > Len(fields)
    <3>1. PICK m, n : m = Len(fields) /\ n = Len(s)
      OBVIOUS
    <3>2. n \in Nat
      BY <1>2, <3>1
    <3>3. m = n - 1
      BY <2>1, <3>1, Zenon
    <3>4. m <= n /\ n > m
      BY ONLY <3>2, <3>3
    <3> QED
      BY <3>1, <3>4, Zenon
  <2> QED
    BY <1>1, <2>1, <2>2, Zenon
<1> QED
  BY <1>1, <1>3, <1>4, Zenon DEF string_split

(* Fields that are read past their end are the same or flags. *)
LEMMA PastEndSame ==
  ASSUME NEW before \in Seq(InfoFields), NEW info \in ReadPastEnd(before)
  PROVE  /\ Len(info) = Len(before)
         /\ \A i \in 1..Len(before) : info[i].key = before[i].key /\ (before[i].parts # << >> => info[i] = before[i])
<1> DEFINE flags == {i \in 1..Len(before) : IsFlag(before[i])}
<1>1. PICK h \in [flags -> Garbage] :
        info = [i \in 1..Len(before) |-> IF i \in flags THEN Field(before[i].key, h[i]) ELSE before[i]]
  BY Zenon DEF ReadPastEnd
<1>2. ASSUME NEW i \in 1..Len(before)
      PROVE  info[i].key = before[i].key /\ (before[i].parts # << >> => info[i] = before[i])
  <2>1. info[i] = IF i \in flags THEN Field(before[i].key, h[i]) ELSE before[i]
    BY <1>1
  <2>2. Field(before[i].key, h[i]).key = before[i].key
    BY DEF Field
  <2>3. i \in flags <=> before[i].parts = << >>
    BY DEF IsFlag
  <2> HIDE DEF flags
  <2> QED
    BY <2>1, <2>2, <2>3
<1>3. PICK n \in Nat : n = Len(before)
  OBVIOUS
<1>4. info = [i \in 1..n |-> info[i]]
  BY <1>1, <1>3
<1>5. Len(info) = n
  BY <1>4
<1> QED
  BY <1>2, <1>3, <1>5

(* The first part of a field is no heavier than the field. *)
LEMMA FieldWritten ==
  ASSUME NEW line, NEW field, NEW past, past.key = field.key, field.parts # << >> => past = field
  PROVE  InfoWeight(line, Field(past.key, past.parts[1])) <= InfoWeight(line, field)
<1>1. PICK key, value, written : key = field.key /\ value = past.parts[1] /\ written = Field(past.key, value)
  OBVIOUS
<1>2. written.key = key /\ written.parts = <<value>>
  BY <1>1 DEF Field
<1>3. InfoWeight(line, written) \in 1..3 /\ InfoWeight(line, field) \in 1..3
  BY InfoFieldWeight
<1>4. CASE key = "."
  <2>1. InfoWeight(line, written) = 1
    BY <1>2, <1>4, InfoFieldWeight
  <2> QED
    BY <1>1, <1>3, <2>1
<1>5. CASE key # "." /\ \E token \in ExpectedTokens(line, key) : field.parts = << <<token>> >>
  <2>1. PICK token \in ExpectedTokens(line, key) : field.parts = << <<token>> >>
    BY <1>5
  <2>2. field.parts # << >> /\ field.parts[1] = <<token>>
    BY <2>1
  <2>3. value = <<token>>
    BY <1>1, <2>2
  <2>4. written.parts = << <<token>> >>
    BY <1>2, <2>3
  <2>5. InfoWeight(line, written) = 2
    BY <1>2, <1>5, <2>4 DEF InfoWeight
  <2>6. InfoWeight(line, field) = 2
    BY <1>1, <1>5 DEF InfoWeight
  <2> QED
    BY <1>1, <2>5, <2>6
<1>6. CASE key # "." /\ ~\E token \in ExpectedTokens(line, key) : field.parts = << <<token>> >>
  <2>1. InfoWeight(line, field) = 3
    BY <1>1, <1>6 DEF InfoWeight
  <2> QED
    BY <1>1, <1>3, <2>1
<1> QED
  BY <1>4, <1>5, <1>6

(* A line of which a fix writes another INFO. *)
LEMMA InfoWritten ==
  ASSUME NEW line \in BodyLines, NEW info, NEW after, after = [line EXCEPT !.info = info],
         InfoColumnWeight(line, info) < InfoColumnWeight(line, line.info)
  PROVE  ColumnsLighter(line, after)
<1>1. /\ after.info = info /\ SamePlace(line, after) /\ after.ids = line.ids /\ after.filter = line.filter
      /\ after.format = line.format /\ after.samples = line.samples
  BY DEF BodyLines, SamePlace
<1> QED
  BY <1>1, Zenon DEF ColumnsLighter

(* INFO that is missing weighs 1. *)
LEMMA DotWeight ==
  ASSUME NEW line
  PROVE  InfoColumnWeight(line, <<Dot>>) = 1 /\ InfoWeight(line, Dot) = 1
<1>1. PICK T, wt : InfoTotals(line, T, wt)
  BY InfoTotalsAre
<1>2. PICK dot, info : dot = Dot /\ info = <<dot>>
  OBVIOUS
<1>3. dot.key = "."
  BY <1>2 DEF Dot, Flag
<1>4. InfoWeight(line, dot) = 1
  BY <1>3, InfoFieldWeight
<1>5. dot \in T
  BY <1>1, <1>2, DotTyped DEF InfoTotals
<1>6. wt \in [T -> Nat] /\ wt[dot] = 1
  BY <1>1, <1>4, <1>5 DEF InfoTotals
<1>7. info \in Seq(T) /\ info # << >>
  BY <1>2, <1>5
<1>8. Total(Weights(wt, info)) = 1
  BY <1>2, <1>5, <1>6, WeightOfOne
<1>9. InfoColumnWeight(line, info) = Total(Weights(wt, info))
  BY <1>1, <1>7 DEF InfoTotals
<1> QED
  BY <1>2, <1>4, <1>8, <1>9

(* INFO without a repeated key. *)
LEMMA PairsLighter ==
  ASSUME NEW line, NEW info \in Seq(InfoFields), NEW past \in ReadPastEnd(info), HasDuplicates(KeysOf(info))
  PROVE  InfoColumnWeight(line, remove_duplicate_key_value_pairs(past)) < InfoColumnWeight(line, info)
<1>1. PICK T, wt : InfoTotals(line, T, wt)
  BY InfoTotalsAre
<1>2. /\ T = InfoFields /\ wt \in [T -> Nat]
      /\ \A x \in T : wt[x] = InfoWeight(line, x) /\ wt[x] \in 1..3
  BY <1>1, Zenon DEF InfoTotals
<1>3. PICK s, t : s = info /\ t = past
  OBVIOUS
<1>4. s \in Seq(T) /\ t \in Seq(T) /\ \A i \in 1..Len(t) : t[i].parts # << >>
  BY <1>2, <1>3, PastEndTyped
<1>5. /\ Len(t) = Len(s)
      /\ \A i \in 1..Len(s) : t[i].key = s[i].key /\ (s[i].parts # << >> => t[i] = s[i])
  BY <1>3, PastEndSame
<1>6. PICK p \in 1..Len(s), q \in 1..Len(s) : q < p /\ s[q].key = s[p].key
  <2>1. PICK i \in 1..Len(KeysOf(s)) : ~IsFirst(KeysOf(s), i)
    BY <1>3 DEF HasDuplicates
  <2>2. PICK n \in Nat : n = Len(s)
    BY <1>4
  <2>3. KeysOf(s) = [k \in 1..n |-> s[k].key]
    BY <2>2 DEF KeysOf
  <2>4. Len(KeysOf(s)) = n /\ \A k \in 1..n : KeysOf(s)[k] = s[k].key
    BY <2>3
  <2>5. PICK k \in 1..(i - 1) : KeysOf(s)[k] = KeysOf(s)[i]
    BY <2>1 DEF IsFirst
  <2>6. i \in 1..n /\ k \in 1..n /\ k < i
    BY <2>1, <2>4, <2>5
  <2> QED
    BY <2>2, <2>4, <2>5, <2>6
<1>7. p \notin Staying(t)
  <2>1. PICK n \in Nat : n = Len(t)
    BY <1>4
  <2>2. KeysOf(t) = [k \in 1..n |-> t[k].key]
    BY <2>1 DEF KeysOf
  <2>3. q \in 1..n /\ p \in 1..n /\ q \in 1..(p - 1)
    BY <1>5, <1>6, <2>1
  <2>4. KeysOf(t)[q] = KeysOf(t)[p]
    BY <1>5, <1>6, <2>2, <2>3
  <2>5. ~IsFirst(KeysOf(t), p)
    BY <2>3, <2>4 DEF IsFirst
  <2> QED
    BY <2>5 DEF Staying
<1>8. PICK kept, g : /\ kept \in Seq(T) /\ KeptBy(kept, t, Staying(t), Len(t), g)
                     /\ remove_duplicate_key_value_pairs(t) = PairsOf(kept)
  BY <1>4, KeyValuePairsKept, Zenon
<1>9. PICK w : w = Weights(wt, s)
  OBVIOUS
<1>10. /\ w \in Seq(Nat) /\ Len(w) = Len(s) /\ Len(s) \in Nat
       /\ \A i \in 1..Len(s) : w[i] = wt[s[i]] /\ s[i] \in T /\ wt[s[i]] \in Nat
  <2>1. wt \in [T -> Nat] /\ s \in Seq(T)
    BY <1>2, <1>4, Zenon
  <2>2. /\ Weights(wt, s) \in Seq(Nat) /\ Len(Weights(wt, s)) = Len(s)
        /\ \A i \in 1..Len(s) : Weights(wt, s)[i] = wt[s[i]] /\ s[i] \in T /\ wt[s[i]] \in Nat
    BY ONLY <2>1, WeightsTyped, Zenon
  <2>3. Len(s) \in Nat
    BY ONLY <2>1
  <2> QED
    BY ONLY <1>9, <2>2, <2>3, Zenon
<1>11. \A i \in 1..Len(s) : w[i] = InfoWeight(line, s[i]) /\ w[i] >= 1 /\ w[i] \in Nat
  BY <1>2, <1>10
<1>12. InfoColumnWeight(line, s) = Total(w)
  <2>1. s # << >>
    BY <1>4, <1>6
  <2> QED
    BY <1>1, <1>4, <1>9, <2>1 DEF InfoTotals
<1>13. CASE kept = << >>
  <2>1. InfoColumnWeight(line, remove_duplicate_key_value_pairs(t)) = 1
    BY <1>8, <1>13, DotWeight DEF PairsOf
  <2>2. Total(w) \in Nat /\ 2 <= Total(w)
    <3>1. p \in 1..Len(w) /\ q \in 1..Len(w) /\ q # p /\ w[q] >= 1 /\ w[p] >= 1
      BY <1>6, <1>10, <1>11
    <3> QED
      BY <1>10, <3>1, TwoWeigh
  <2>3. 1 < Total(w)
    BY <2>2
  <2> QED
    BY <1>3, <1>12, <2>1, <2>3
<1>14. CASE kept # << >>
  <2>1. PICK m \in Nat : m = Len(kept) /\ m # 0
    BY <1>8, <1>14
  <2>2. PICK new : new = PairsOf(kept)
    OBVIOUS
  <2>3. new = [k \in 1..m |-> Field(kept[k].key, kept[k].parts[1])]
    BY <1>14, <2>1, <2>2 DEF PairsOf
  <2>4. /\ g \in [1..m -> 1..Len(t)] /\ \A i, k \in 1..m : i < k => g[i] < g[k]
        /\ \A k \in 1..m : g[k] \in Staying(t) /\ kept[k] = t[g[k]]
    BY <1>8, <2>1 DEF KeptBy
  <2>5. new \in Seq(T)
    <3>1. remove_duplicate_key_value_pairs(t) \in Seq(InfoFields)
      BY <1>2, <1>4, KeyValuePairsTyped
    <3> QED
      BY <1>2, <1>8, <2>2, <3>1
  <2>6. PICK u : u = Weights(wt, new)
    OBVIOUS
  <2>7. Len(new) = m
    BY <2>1, <2>3
  <2>8. /\ u \in Seq(Nat) /\ Len(u) = m
        /\ \A i \in 1..m : u[i] = wt[new[i]] /\ new[i] \in T
    <3>1. wt \in [T -> Nat]
      BY <1>2
    <3>2. /\ Weights(wt, new) \in Seq(Nat) /\ Len(Weights(wt, new)) = Len(new)
          /\ \A i \in 1..Len(new) : Weights(wt, new)[i] = wt[new[i]] /\ new[i] \in T /\ wt[new[i]] \in Nat
      BY <2>5, <3>1, WeightsTyped, Zenon
    <3> QED
      BY <2>6, <2>7, <3>2, Zenon
  <2>9. ASSUME NEW k \in 1..m PROVE u[k] <= w[g[k]]
    <3>1. PICK i \in 1..Len(s) : i = g[k]
      BY <1>5, <2>4
    <3>2. new[k] = Field(t[i].key, t[i].parts[1])
      BY <2>3, <2>4, <3>1
    <3>3. u[k] = InfoWeight(line, new[k]) /\ w[i] = InfoWeight(line, s[i])
      BY <1>2, <1>11, <2>8
    <3>4. t[i].key = s[i].key /\ (s[i].parts # << >> => t[i] = s[i])
      BY <1>5
    <3>5. InfoWeight(line, Field(t[i].key, t[i].parts[1])) <= InfoWeight(line, s[i])
      BY <3>4, FieldWritten
    <3> QED
      BY <3>1, <3>2, <3>3, <3>5
  <2>10. Fits(u, w, g)
    BY <1>5, <1>10, <2>4, <2>8, <2>9 DEF Fits
  <2>11. PICK d \in Nat : d = w[p] /\ d >= 1
    BY <1>11
  <2>12. \A k \in 1..Len(u) : g[k] # p
    BY <1>7, <2>4, <2>8
  <2>13. p \in 1..Len(w) /\ d <= w[p]
    BY <1>10, <2>11
  <2>14. Total(u) \in Nat /\ Total(w) \in Nat /\ Total(u) + d <= Total(w)
    BY <2>10, <2>12, <2>13, FitsLess
  <2>15. new # << >>
    BY <2>1, <2>7
  <2>16. InfoColumnWeight(line, new) = Total(u)
    BY <1>1, <2>5, <2>6, <2>15 DEF InfoTotals
  <2>17. Total(u) < Total(w)
    BY <2>11, <2>14
  <2> QED
    BY <1>3, <1>8, <1>12, <2>2, <2>16, <2>17
<1> QED
  BY <1>13, <1>14

(* The fix of repeated keys of INFO. *)
LEMMA DuplicateInfoLighter ==
  ASSUME NEW line \in BodyLines, NEW after, Writes(FixDuplicateInfo(line), after),
         HasDuplicates(KeysOf(line.info))
  PROVE  ColumnsLighter(line, after)
<1>1. PICK o \in FixDuplicateInfo(line) : o.ends = "no" /\ o.written = <<after>>
  BY DEF Writes
<1>2. Ends("crashes").ends = "crashes"
  BY DEF Ends
<1>3. PICK past \in ReadPastEnd(line.info) :
        o = Outcome(<<[line EXCEPT !.info = remove_duplicate_key_value_pairs(past)]>>, 0)
  BY <1>1, <1>2, Zenon DEF FixDuplicateInfo
<1>4. PICK x : x = remove_duplicate_key_value_pairs(past)
  OBVIOUS
<1>5. PICK new : new = [line EXCEPT !.info = x]
  OBVIOUS
<1>6. o = Outcome(<<new>>, 0)
  BY <1>3, <1>4, <1>5
<1>7. Writes(Write(new), after)
  BY <1>1, <1>6, Zenon DEF Writes, Write
<1>8. after = [line EXCEPT !.info = x]
  BY <1>5, <1>7, WritesOne, Zenon
<1>9. InfoColumnWeight(line, x) < InfoColumnWeight(line, line.info)
  BY <1>4, ColumnTypes, PairsLighter
<1> QED
  BY <1>8, <1>9, InfoWritten

(* A field with nothing in it. *)
LEMMA EmptyFieldWeight ==
  ASSUME NEW line
  PROVE  InfoWeight(line, Flag("")) = 3
<1>1. PICK flag : flag = Flag("")
  OBVIOUS
<1>2. flag.key = "" /\ flag.parts = << >>
  BY <1>1 DEF Flag
<1>3. \A token : << <<token>> >> # << >>
  OBVIOUS
<1>4. ~\E token \in ExpectedTokens(line, flag.key) : flag.parts = << <<token>> >>
  BY <1>2, <1>3, Zenon
<1>5. flag.key # "."
  BY <1>2
<1> QED
  BY <1>1, <1>4, <1>5, Zenon DEF InfoWeight

(* What string_split leaves of INFO is no heavier. *)
LEMMA SplitLighter ==
  ASSUME NEW line, NEW T, NEW wt, InfoTotals(line, T, wt), NEW info \in Seq(T),
         NEW fields, fields = string_split(info)
  PROVE  /\ fields \in Seq(T) /\ Total(Weights(wt, fields)) \in Nat /\ Total(Weights(wt, info)) \in Nat
         /\ Total(Weights(wt, fields)) <= Total(Weights(wt, info))
         /\ fields # info => Total(Weights(wt, fields)) + 3 <= Total(Weights(wt, info))
<1>1. /\ T = InfoFields /\ wt \in [T -> Nat]
      /\ \A x \in T : wt[x] = InfoWeight(line, x)
  BY Zenon DEF InfoTotals
<1>2. /\ fields \in Seq(T) /\ Len(fields) <= Len(info)
      /\ \A i \in 1..Len(fields) : i \in 1..Len(info) /\ fields[i] = info[i]
  BY <1>1, SplitPrefix
<1>0. fields = info \/ (Len(info) > Len(fields) /\ info[Len(info)] = Flag(""))
  BY <1>1, SplitPrefix
<1>3. PICK u, w : u = Weights(wt, fields) /\ w = Weights(wt, info)
  OBVIOUS
<1>4. /\ u \in Seq(Nat) /\ Len(u) = Len(fields) /\ Total(u) \in Nat
      /\ \A i \in 1..Len(fields) : u[i] = wt[fields[i]] /\ wt[fields[i]] \in Nat
  <2>1. wt \in [T -> Nat] /\ fields \in Seq(T)
    BY <1>1, <1>2, Zenon
  <2>2. /\ Weights(wt, fields) \in Seq(Nat) /\ Len(Weights(wt, fields)) = Len(fields)
        /\ \A i \in 1..Len(fields) : Weights(wt, fields)[i] = wt[fields[i]] /\ fields[i] \in T
                                        /\ wt[fields[i]] \in Nat
        /\ Total(Weights(wt, fields)) \in Nat
    BY ONLY <2>1, WeightsTyped, Zenon
  <2> QED
    BY <1>3, <2>2, Zenon
<1>5. /\ w \in Seq(Nat) /\ Len(w) = Len(info) /\ Total(w) \in Nat
      /\ \A i \in 1..Len(info) : w[i] = wt[info[i]] /\ wt[info[i]] \in Nat
  <2>1. wt \in [T -> Nat] /\ info \in Seq(T)
    BY <1>1, Zenon
  <2>2. /\ Weights(wt, info) \in Seq(Nat) /\ Len(Weights(wt, info)) = Len(info)
        /\ \A i \in 1..Len(info) : Weights(wt, info)[i] = wt[info[i]] /\ info[i] \in T /\ wt[info[i]] \in Nat
        /\ Total(Weights(wt, info)) \in Nat
    BY ONLY <2>1, WeightsTyped, Zenon
  <2> QED
    BY ONLY <1>3, <2>2, Zenon
<1>6. PICK m \in Nat, n \in Nat : m = Len(fields) /\ n = Len(info)
  BY <1>2
<1>7. PICK g : g = [k \in 1..m |-> k]
  OBVIOUS
<1>8. g \in [1..m -> 1..n] /\ \A k \in 1..m : g[k] = k
  BY <1>2, <1>6, <1>7
<1>9. \A k \in 1..m : u[k] = w[k] /\ u[k] \in Nat
  <2> SUFFICES ASSUME NEW k \in 1..m PROVE u[k] = w[k] /\ u[k] \in Nat
    OBVIOUS
  <2>1. k \in 1..Len(fields) /\ k \in 1..Len(info) /\ fields[k] = info[k]
    BY ONLY <1>2, <1>6, k \in 1..m
  <2> QED
    BY ONLY <1>4, <1>5, <2>1, Zenon
<1>10. Fits(u, w, g)
  <2>1. \A i, k \in 1..m : i < k => g[i] < g[k]
    BY <1>8
  <2>2. \A k \in 1..m : u[k] <= w[g[k]]
    BY <1>8, <1>9
  <2> QED
    BY <1>4, <1>5, <1>6, <1>8, <2>1, <2>2 DEF Fits
<1>11. Total(u) <= Total(w)
  BY <1>10, FitsTotal
<1>12. ASSUME fields # info PROVE Total(u) + 3 <= Total(w)
  <2>0. PICK flag : flag = Flag("") /\ Len(info) > Len(fields) /\ info[Len(info)] = flag
    BY <1>0, <1>12, Zenon
  <2>1. n > m /\ info[n] = flag
    BY <1>6, <2>0, Zenon
  <2>2. n \in 1..n
    BY ONLY n \in Nat, m \in Nat, <2>1
  <2>3. w[n] = 3 /\ n \in 1..Len(w)
    <3>1. InfoWeight(line, flag) = 3
      BY <2>0, EmptyFieldWeight
    <3>2. w[n] = wt[info[n]] /\ n \in 1..Len(w) /\ info[n] \in T
      BY <1>5, <1>6, <2>2, ElementOfSeq
    <3>3. wt[flag] = 3
      BY <1>1, <2>1, <3>1, <3>2, Zenon
    <3> QED
      BY <2>1, <3>2, <3>3, Zenon
  <2>4. \A k \in 1..Len(u) : g[k] # n
    <3>1. Len(u) = m
      BY <1>4, <1>6, Zenon
    <3>2. \A k \in 1..m : k # n
      BY ONLY n \in Nat, m \in Nat, <2>1
    <3> QED
      BY <1>8, <3>1, <3>2, Zenon
  <2>5. PICK d \in Nat : d = 3
    OBVIOUS
  <2>6. d <= w[n]
    BY ONLY <2>3, <2>5
  <2>7. Total(u) + d <= Total(w)
    BY <1>10, <2>3, <2>4, <2>6, FitsLess
  <2> QED
    BY <2>5, <2>7
<1> QED
  BY <1>2, <1>3, <1>4, <1>5, <1>11, <1>12

(* A field whose value is not the expected one. *)
LEMMA WrongIsHeavy ==
  ASSUME NEW line \in BodyLines, NEW e, EndWrong(line, e) \/ SvlenWrong(line, e)
  PROVE  /\ e.field \in {"END", "SVLEN"}
         /\ \E token \in ExpectedTokens(line, e.field) : e.expected_value = <<token>>
         /\ \E i \in 1..Len(line.info) : line.info[i].key = e.field /\ InfoWeight(line, line.info[i]) = 3
<1>1. CASE EndWrong(line, e)
  <2>1. PICK i \in 1..Len(line.info) :
          line.info[i].key = "END" /\ InfoValue(line.info[i]) # <<ExpectedEnd(line)>>
    BY <1>1 DEF EndWrong
  <2>2. e.field = "END" /\ e.expected_value = <<ExpectedEnd(line)>>
    BY <1>1 DEF EndWrong
  <2>3. ExpectedTokens(line, "END") = {ExpectedEnd(line)}
    BY DEF ExpectedTokens
  <2>4. PICK field, x : field = line.info[i] /\ x = ExpectedEnd(line)
    OBVIOUS
  <2>5. field.parts # << <<x>> >>
    <3>1. field.parts = << <<x>> >> => InfoValue(field) = <<x>>
      BY DEF InfoValue
    <3> QED
      BY <2>1, <2>4, <3>1
  <2>6. InfoWeight(line, field) = 3
    <3>1. ~\E token \in ExpectedTokens(line, field.key) : field.parts = << <<token>> >>
      BY <2>1, <2>3, <2>4, <2>5
    <3>2. field.key # "."
      BY <2>1, <2>4
    <3> QED
      BY <3>1, <3>2, Zenon DEF InfoWeight
  <2> QED
    BY <2>1, <2>2, <2>3, <2>4, <2>6
<1>2. CASE SvlenWrong(line, e)
  <2>1. PICK i \in 1..Len(line.info) : line.info[i].key = "SVLEN" /\ SvlenWrongAt(line, InfoValue(line.info[i]), e)
    BY <1>2 DEF SvlenWrong
  <2>2. PICK field, value, alternates : field = line.info[i] /\ value = InfoValue(field) /\ alternates = line.alternates
    OBVIOUS
  <2>3. e.field = "SVLEN" /\ Len(value) = Len(alternates)
    BY <2>1, <2>2 DEF SvlenWrongAt
  <2>4. PICK a \in 1..Len(alternates) : e.expected_value = <<SizeAt(line, a)>> /\ value[a] # SizeAt(line, a)
    BY <2>1, <2>2 DEF SvlenWrongAt
  <2>5. ExpectedTokens(line, "SVLEN") = {SizeAt(line, k) : k \in 1..Len(alternates)}
    <3>1. "SVLEN" # "END"
      OBVIOUS
    <3> QED
      BY <2>2, <3>1, Zenon DEF ExpectedTokens, SizeAt
  <2>6. ~\E token \in ExpectedTokens(line, "SVLEN") : field.parts = << <<token>> >>
    <3> SUFFICES ASSUME NEW b \in 1..Len(alternates), field.parts = << <<SizeAt(line, b)>> >> PROVE FALSE
      BY <2>5
    <3>1. PICK x : x = SizeAt(line, b)
      OBVIOUS
    <3>2. field.parts = << <<x>> >>
      BY <3>1
    <3>3. value = <<x>>
      BY <2>2, <3>2 DEF InfoValue
    <3>4. Len(value) = 1 /\ value[1] = x
      BY <3>3
    <3>5. Len(alternates) = 1
      BY <2>3, <3>4
    <3>6. a = 1 /\ b = 1
      BY <3>5
    <3> QED
      BY <2>4, <3>1, <3>4, <3>6
  <2>7. InfoWeight(line, field) = 3
    <3>1. field.key = "SVLEN"
      BY <2>1, <2>2
    <3>2. field.key # "."
      BY <3>1
    <3> QED
      BY <2>6, <3>1, <3>2, Zenon DEF InfoWeight
  <2>8. SizeAt(line, a) \in ExpectedTokens(line, "SVLEN")
    BY <2>5
  <2> QED
    BY <2>1, <2>2, <2>3, <2>4, <2>7, <2>8
<1> QED
  BY <1>1, <1>2

(* A field with a wrong value, replaced. *)
LEMMA ReplacedLighter ==
  ASSUME NEW line, NEW info \in Seq(InfoFields), NEW key \in {"END", "SVLEN"},
         NEW token \in ExpectedTokens(line, key), NEW p \in 1..Len(info), info[p].key = key,
         InfoWeight(line, info[p]) = 3,
         NEW new \in Seq(InfoFields), new = replace_fields(string_split(info), key, <<token>>)
  PROVE  InfoColumnWeight(line, new) < InfoColumnWeight(line, info)
<1>1. PICK T, wt : InfoTotals(line, T, wt)
  BY InfoTotalsAre
<1>2. /\ T = InfoFields /\ wt \in [T -> Nat]
      /\ \A x \in T : wt[x] = InfoWeight(line, x) /\ wt[x] \in 1..3
  BY <1>1, Zenon DEF InfoTotals
<1>3. PICK s, fields, value : s = info /\ fields = string_split(info) /\ value = <<token>>
  OBVIOUS
<1>4. s \in Seq(T) /\ new \in Seq(T)
  BY <1>2, <1>3
<1>5. /\ fields \in Seq(T) /\ Len(fields) <= Len(s)
      /\ \A i \in 1..Len(fields) : i \in 1..Len(s) /\ fields[i] = s[i]
  <2>1. /\ fields \in Seq(InfoFields) /\ Len(fields) <= Len(info)
        /\ \A i \in 1..Len(fields) : i \in 1..Len(info) /\ fields[i] = info[i]
    BY ONLY info \in Seq(InfoFields), <1>3, SplitPrefix
  <2> QED
    BY ONLY <1>2, <1>3, <2>1, Zenon
<1>6. p \in 1..Len(fields)
  <2>1. info[p].key # ""
    OBVIOUS
  <2> QED
    BY <1>3, <2>1, SplitKeeps
<1>7. PICK m \in Nat, n \in Nat : m = Len(fields) /\ n = Len(s)
  BY <1>4, <1>5
<1>8. new = [k \in 1..m |-> IF fields[k].key = key THEN Field(key, value) ELSE fields[k]]
  BY <1>3, <1>7 DEF replace_fields
<1>9. Len(new) = m
  BY <1>7, <1>8
<1>10. PICK u, w : u = Weights(wt, new) /\ w = Weights(wt, s)
  OBVIOUS
<1>11. wt \in [T -> Nat] /\ new \in Seq(T) /\ s \in Seq(T)
  BY <1>2, <1>4, Zenon
<1>12. /\ u \in Seq(Nat) /\ Len(u) = Len(new)
       /\ \A i \in 1..Len(new) : u[i] = wt[new[i]] /\ new[i] \in T
  <2>1. /\ Weights(wt, new) \in Seq(Nat) /\ Len(Weights(wt, new)) = Len(new)
        /\ \A i \in 1..Len(new) : Weights(wt, new)[i] = wt[new[i]] /\ new[i] \in T /\ wt[new[i]] \in Nat
    BY ONLY <1>11, WeightsTyped, Zenon
  <2> QED
    BY <1>10, <2>1, Zenon
<1>13. /\ w \in Seq(Nat) /\ Len(w) = Len(s)
       /\ \A i \in 1..Len(s) : w[i] = wt[s[i]] /\ s[i] \in T
  <2>1. /\ Weights(wt, s) \in Seq(Nat) /\ Len(Weights(wt, s)) = Len(s)
        /\ \A i \in 1..Len(s) : Weights(wt, s)[i] = wt[s[i]] /\ s[i] \in T /\ wt[s[i]] \in Nat
    BY ONLY <1>11, WeightsTyped, Zenon
  <2> QED
    BY <1>10, <2>1, Zenon
<1>14. PICK right : right = Field(key, value)
  OBVIOUS
<1>15. InfoWeight(line, right) = 2
  <2>1. right.key = key /\ right.parts = <<value>>
    BY <1>14 DEF Field
  <2>2. right.parts = << <<token>> >>
    BY <1>3, <2>1
  <2>3. right.key # "."
    BY <2>1
  <2>4. \E x \in ExpectedTokens(line, right.key) : right.parts = << <<x>> >>
    BY <2>1, <2>2
  <2> QED
    BY <2>3, <2>4, Zenon DEF InfoWeight
<1>16. ASSUME NEW k \in 1..m
       PROVE  /\ u[k] \in Nat /\ w[k] \in Nat /\ u[k] <= w[k]
              /\ k = p => u[k] + 1 <= w[k]
  <2>1. k \in 1..Len(s) /\ fields[k] = s[k] /\ k \in 1..Len(new)
    BY <1>5, <1>7, <1>9
  <2>2. u[k] = InfoWeight(line, new[k]) /\ u[k] \in 1..3
    BY <1>2, <1>12, <2>1
  <2>3. w[k] = InfoWeight(line, s[k]) /\ w[k] \in 1..3
    BY <1>2, <1>13, <2>1
  <2>4. CASE s[k].key = key
    <3>1. new[k] = right
      BY <1>8, <1>14, <2>1, <2>4
    <3>2. u[k] = 2
      BY <1>15, <2>2, <3>1
    <3>3. w[k] # 1
      <4>1. s[k].key # "."
        BY <2>4
      <4> QED
        BY <2>3, <4>1, InfoFieldWeight
    <3>4. k = p => w[k] = 3
      BY <1>3, <2>3
    <3> QED
      BY <2>3, <3>2, <3>3, <3>4
  <2>5. CASE s[k].key # key
    <3>1. new[k] = s[k]
      BY <1>8, <2>1, <2>5
    <3>2. u[k] = w[k]
      BY <2>2, <2>3, <3>1
    <3>3. k # p
      BY <1>3, <2>5
    <3> QED
      BY <2>2, <3>2, <3>3
  <2> QED
    BY <2>4, <2>5
<1>17. PICK g : g = [k \in 1..m |-> k]
  OBVIOUS
<1>18. g \in [1..m -> 1..n] /\ \A k \in 1..m : g[k] = k
  BY <1>5, <1>7, <1>17
<1>19. Fits(u, w, g)
  <2>1. \A i, k \in 1..m : i < k => g[i] < g[k]
    BY <1>18
  <2>2. \A k \in 1..m : u[k] <= w[g[k]]
    BY <1>16, <1>18
  <2> QED
    BY <1>7, <1>9, <1>12, <1>13, <1>18, <2>1, <2>2 DEF Fits
<1>20. PICK d \in Nat : d = 1
  OBVIOUS
<1>21. p \in 1..Len(w) /\ d <= w[p]
  <2>1. p \in 1..m
    BY <1>6, <1>7
  <2>2. u[p] \in Nat /\ w[p] \in Nat /\ u[p] + 1 <= w[p]
    BY <1>16, <2>1
  <2> QED
    BY <1>3, <1>13, <1>20, <2>2
<1>22. \A k \in 1..Len(u) : g[k] = p => u[k] + d <= w[p]
  BY <1>9, <1>12, <1>16, <1>18, <1>20
<1>23. Total(u) \in Nat /\ Total(w) \in Nat /\ Total(u) + d <= Total(w)
  BY <1>19, <1>21, <1>22, FitsLess
<1>24. new # << >> /\ s # << >>
  <2>1. m # 0 /\ n # 0
    BY <1>3, <1>6, <1>7
  <2> QED
    BY <1>4, <1>7, <1>9, <2>1
<1>25. InfoColumnWeight(line, new) = Total(u) /\ InfoColumnWeight(line, s) = Total(w)
  BY <1>1, <1>4, <1>10, <1>24 DEF InfoTotals
<1> QED
  BY <1>3, <1>20, <1>23, <1>25

(* INFO without the fields of a key. *)
LEMMA KeyLighter ==
  ASSUME NEW line, NEW info \in Seq(InfoFields), NEW key, key # ".", key # "",
         NEW p \in 1..Len(info), info[p].key = key,
         NEW fields, fields = string_split(info),
         NEW removed, p \in removed
  PROVE  InfoColumnWeight(line, remove_fields(fields, <<Dot>>, removed)) < InfoColumnWeight(line, info)
<1>1. PICK T, wt : InfoTotals(line, T, wt)
  BY InfoTotalsAre
<1>2. /\ T = InfoFields /\ wt \in [T -> Nat] /\ \A x \in T : wt[x] = InfoWeight(line, x) /\ wt[x] \in 1..3
  BY <1>1, Zenon DEF InfoTotals
<1>3. PICK s, dot : s = info /\ dot = Dot
  OBVIOUS
<1>4. s \in Seq(T) /\ dot \in T /\ fields = string_split(s)
  BY <1>2, <1>3, DotTyped
<1>5. /\ fields \in Seq(T) /\ Total(Weights(wt, fields)) \in Nat /\ Total(Weights(wt, s)) \in Nat
      /\ Total(Weights(wt, fields)) <= Total(Weights(wt, s))
  BY <1>1, <1>4, SplitLighter
<1>6. p \in 1..Len(fields) /\ fields[p] = s[p]
  BY <1>3, SplitKeeps
<1>7. wt[dot] < wt[fields[p]]
  <2>1. PICK field \in T : field = fields[p]
    BY <1>5, <1>6, ElementOfSeq
  <2>2. field.key # "."
    BY <1>3, <1>6, <2>1
  <2>3. InfoWeight(line, field) # 1
    BY <2>2, InfoFieldWeight
  <2>4. wt[field] = InfoWeight(line, field) /\ wt[field] \in 1..3 /\ wt[dot] = InfoWeight(line, dot)
    BY <1>2, <1>4, <2>1, Zenon
  <2>5. InfoWeight(line, dot) = 1
    BY <1>3, DotWeight
  <2>6. wt[dot] < wt[field]
    BY ONLY <2>3, <2>4, <2>5
  <2> QED
    BY <2>1, <2>6
<1>8. PICK new : new = remove_fields(fields, <<dot>>, removed)
  OBVIOUS
<1>9. wt \in [T -> Nat]
  BY <1>2
<1>10. /\ Total(Weights(wt, new)) \in Nat
       /\ Total(Weights(wt, new)) < Total(Weights(wt, fields))
  BY <1>4, <1>5, <1>6, <1>7, <1>8, <1>9, RemovedLighter
<1>11. new \in Seq(T) /\ new # << >>
  <2>1. PICK kept, g : RemovedTo(T, fields, <<dot>>, removed, kept, g)
    BY <1>5, RemoveFieldsKeeps, Zenon
  <2>2. kept \in Seq(T) /\ new = IF kept = << >> THEN <<dot>> ELSE kept
    BY <1>8, <2>1, Zenon DEF RemovedTo
  <2>3. <<dot>> \in Seq(T) /\ <<dot>> # << >>
    BY ONLY <1>4
  <2> QED
    BY <2>2, <2>3
<1>12. s # << >>
  <2>1. p \in 1..Len(s)
    BY <1>3
  <2> QED
    BY ONLY <2>1
<1>13. InfoColumnWeight(line, new) = Total(Weights(wt, new)) /\ InfoColumnWeight(line, s) = Total(Weights(wt, s))
  BY <1>1, <1>4, <1>11, <1>12 DEF InfoTotals
<1>14. Total(Weights(wt, new)) < Total(Weights(wt, s))
  <2>1. PICK x, y, z : x = Total(Weights(wt, new)) /\ y = Total(Weights(wt, fields)) /\ z = Total(Weights(wt, s))
    OBVIOUS
  <2>2. x \in Nat /\ y \in Nat /\ z \in Nat /\ x < y /\ y <= z
    BY ONLY <1>5, <1>10, <2>1, Zenon
  <2>3. x < z
    BY ONLY <2>2
  <2> QED
    BY <2>1, <2>3, Zenon
<1> QED
  BY <1>3, <1>8, <1>13, <1>14

(* All fields are kept where none is removed. *)
LEMMA NoneRemoved ==
  ASSUME NEW T, NEW s \in Seq(T), NEW empty_column
  PROVE  remove_fields(s, empty_column, {}) = IF s = << >> THEN empty_column ELSE s
<1>1. PICK removed : removed = {}
  OBVIOUS
<1>2. PICK kept, g : RemovedTo(T, s, empty_column, removed, kept, g)
  BY RemoveFieldsKeeps, Zenon
<1>3. PICK K : K = (1..Len(s)) \ removed
  OBVIOUS
<1>4. /\ kept \in Seq(T) /\ KeptBy(kept, s, K, Len(s), g)
      /\ remove_fields(s, empty_column, removed) = IF kept = << >> THEN empty_column ELSE kept
  BY <1>2, <1>3 DEF RemovedTo
<1>5. PICK m \in Nat, n \in Nat : m = Len(kept) /\ n = Len(s)
  BY <1>4
<1>6. \A p \in 1..n : p \in K
  BY <1>1, <1>3, <1>5
<1>7. /\ g \in [1..m -> 1..n] /\ \A i, k \in 1..m : i < k => g[i] < g[k]
      /\ \A k \in 1..m : kept[k] = s[g[k]]
      /\ \A p \in 1..n : \E k \in 1..m : g[k] = p
  BY <1>4, <1>5, <1>6 DEF KeptBy
<1>8. m = n /\ \A k \in 1..m : g[k] = k
  <2>1. Onto(m, n, g)
    BY <1>7, Zenon DEF Onto
  <2> QED
    BY ONLY <2>1, OntoSame, Zenon
<1>9. \A k \in 1..n : kept[k] = s[k]
  BY <1>7, <1>8
<1>10. kept = s
  <2>1. kept \in Seq(T) /\ s \in Seq(T)
    BY <1>4
  <2>2. Len(kept) = Len(s) /\ \A k \in 1..Len(s) : kept[k] = s[k]
    BY <1>5, <1>8, <1>9, Zenon
  <2> QED
    BY ONLY <2>1, <2>2, SeqEqual
<1> QED
  BY <1>1, <1>4, <1>10

(* INFO without its last semicolon, or with a dot for nothing. *)
LEMMA SyntacticLighter ==
  ASSUME NEW line, NEW info \in Seq(InfoFields), NEW fields, fields = string_split(info),
         NEW new, new = remove_fields(fields, <<Dot>>, {}), new # info
  PROVE  InfoColumnWeight(line, new) < InfoColumnWeight(line, info)
<1>1. PICK T, wt : InfoTotals(line, T, wt)
  BY InfoTotalsAre
<1>2. T = InfoFields
  BY <1>1, Zenon DEF InfoTotals
<1>3. PICK s, none : s = info /\ none = <<Dot>>
  OBVIOUS
<1>4. s \in Seq(T) /\ fields = string_split(s)
  BY <1>2, <1>3
<1>5. /\ fields \in Seq(T) /\ Total(Weights(wt, fields)) \in Nat /\ Total(Weights(wt, s)) \in Nat
      /\ fields # s => Total(Weights(wt, fields)) + 3 <= Total(Weights(wt, s))
  BY <1>1, <1>4, SplitLighter
<1>6. new = IF fields = << >> THEN none ELSE fields
  BY <1>3, <1>5, NoneRemoved, Zenon
<1>7. InfoColumnWeight(line, none) = 1
  BY <1>3, DotWeight
<1>8. CASE s = << >>
  <2>1. InfoColumnWeight(line, s) = 2
    BY <1>1, <1>4, <1>8 DEF InfoTotals
  <2>2. fields = << >>
    BY <1>4, <1>8, Zenon DEF string_split
  <2> QED
    BY <1>3, <1>6, <1>7, <2>1, <2>2
<1>9. CASE s # << >>
  <2>1. InfoColumnWeight(line, s) = Total(Weights(wt, s))
    BY <1>1, <1>4, <1>9 DEF InfoTotals
  <2>2. fields # s
    BY <1>3, <1>6, <1>9
  <2>3. CASE fields = << >>
    BY <1>3, <1>5, <1>6, <1>7, <2>1, <2>2, <2>3
  <2>4. CASE fields # << >>
    <3>1. InfoColumnWeight(line, fields) = Total(Weights(wt, fields))
      BY <1>1, <1>5, <2>4 DEF InfoTotals
    <3>2. Total(Weights(wt, fields)) < Total(Weights(wt, s))
      BY <1>5, <2>2
    <3> QED
      BY <1>3, <1>6, <2>1, <2>4, <3>1, <3>2, Zenon
  <2> QED
    BY <2>3, <2>4
<1> QED
  BY <1>8, <1>9

(* INFO, *)
LEMMA InfoLighter ==
  ASSUME NEW line \in BodyLines, NEW after \in BodyLines, NEW e, e.error_fix \in ErrorFixes,
         InfoWrong(line, e), Writes(FixInfo(line, e), after), after # line
  PROVE  ColumnsLighter(line, after)
<1>1. PICK info \in Seq(InfoFields) : info = line.info
  BY ColumnTypes
<1>2. PICK fields : fields = string_split(info)
  OBVIOUS
<1>3. CASE e.error_fix = "DUPLICATE_VALUES"
  <2>1. FixInfo(line, e) = FixDuplicateInfo(line)
    BY <1>3 DEF FixInfo
  <2>2. HasDuplicates(KeysOf(line.info))
    BY <1>3 DEF InfoWrong
  <2> QED
    BY <2>1, <2>2, DuplicateInfoLighter
<1>4. CASE e.error_fix = "RECOVERABLE_VALUE"
  <2>1. PICK replaced : replaced = replace_fields(fields, e.field, e.expected_value)
    OBVIOUS
  <2>2. FixInfo(line, e) = {Ends("crashes")} \/ FixInfo(line, e) = Write([line EXCEPT !.info = replaced])
    BY <1>1, <1>2, <1>4, <2>1 DEF FixInfo
  <2>3. after = [line EXCEPT !.info = replaced]
    BY <2>2, WritesOne, EndsWritesNothing
  <2>4. replaced \in Seq(InfoFields)
    <3>1. after.info = replaced
      BY <2>3 DEF BodyLines
    <3> QED
      BY <3>1, ColumnTypes
  <2>5. EndWrong(line, e) \/ SvlenWrong(line, e)
    BY <1>4 DEF InfoWrong
  <2>6. /\ e.field \in {"END", "SVLEN"}
        /\ \E token \in ExpectedTokens(line, e.field) : e.expected_value = <<token>>
        /\ \E i \in 1..Len(info) : info[i].key = e.field /\ InfoWeight(line, info[i]) = 3
    BY <1>1, <2>5, WrongIsHeavy
  <2>7. PICK key, value : key = e.field /\ value = e.expected_value
    OBVIOUS
  <2>8. PICK token \in ExpectedTokens(line, key) : value = <<token>>
    BY <2>6, <2>7
  <2>9. PICK p \in 1..Len(info) : info[p].key = key /\ InfoWeight(line, info[p]) = 3
    BY <2>6, <2>7
  <2>10. key \in {"END", "SVLEN"} /\ replaced = replace_fields(string_split(info), key, <<token>>)
    BY <1>2, <2>1, <2>6, <2>7, <2>8
  <2>11. InfoColumnWeight(line, replaced) < InfoColumnWeight(line, info)
    BY <2>4, <2>9, <2>10, ReplacedLighter
  <2> QED
    BY <1>1, <2>3, <2>11, InfoWritten
<1>5. CASE e.error_fix = "IRRECOVERABLE_VALUE"
  <2>1. PICK ofField : ofField = {i \in 1..Len(fields) : fields[i].key = e.field /\ e.field # ""}
    OBVIOUS
  <2>2. PICK removed : removed = remove_fields(fields, <<Dot>>, ofField)
    OBVIOUS
  <2>3. FixInfo(line, e) = {Ends("crashes")} \/ FixInfo(line, e) = Write([line EXCEPT !.info = removed])
    BY <1>1, <1>2, <1>5, <2>1, <2>2 DEF FixInfo
  <2>4. after = [line EXCEPT !.info = removed]
    BY <2>3, WritesOne, EndsWritesNothing
  <2>5. CASE e.field = ""
    <3>1. ofField = {}
      BY <2>1, <2>5
    <3>2. removed # info
      BY <1>1, <2>4 DEF BodyLines
    <3>3. InfoColumnWeight(line, removed) < InfoColumnWeight(line, info)
      BY <1>2, <2>2, <3>1, <3>2, SyntacticLighter
    <3> QED
      BY <1>1, <2>4, <3>3, InfoWritten
  <2>6. CASE e.field # ""
    <3>1. e.field # "." /\ \E i \in 1..Len(line.info) : line.info[i].key = e.field
      BY <1>5, <2>6 DEF InfoWrong
    <3>2. PICK p \in 1..Len(info) : info[p].key = e.field
      BY <1>1, <3>1
    <3>3. p \in 1..Len(fields) /\ fields[p] = info[p]
      BY <1>2, <2>6, <3>2, SplitKeeps
    <3>4. p \in ofField
      BY <2>1, <2>6, <3>2, <3>3
    <3>5. PICK key : key = e.field /\ key # "." /\ key # "" /\ info[p].key = key
      BY <2>6, <3>1, <3>2
    <3>6. InfoColumnWeight(line, removed) < InfoColumnWeight(line, info)
      BY <1>2, <2>2, <3>4, <3>5, KeyLighter
    <3> QED
      BY <1>1, <2>4, <3>6, InfoWritten
  <2> QED
    BY <2>5, <2>6
<1> QED
  BY <1>3, <1>4, <1>5 DEF ErrorFixes

(* One more number, 0, adds nothing. *)
LEMMA TotalAppendZero ==
  ASSUME NEW w \in Seq(Nat)
  PROVE  Total(Append(w, 0)) = Total(w)
<1>1. PICK n \in Nat : n = Len(w)
  OBVIOUS
<1>2. PICK u, m : u = Append(w, 0) /\ m = n + 1
  OBVIOUS
<1>3. u \in Seq(Nat) /\ Len(u) = m /\ u[m] = 0 /\ \A i \in 1..n : u[i] = w[i]
  BY <1>1, <1>2
<1>4. PICK f : Sums(u, m, f) /\ Total(u) = f[m]
  BY <1>3, TotalSums
<1>5. PICK h : Sums(w, n, h) /\ Total(w) = h[n]
  BY <1>1, TotalSums
<1>6. /\ f \in [0..m -> Nat] /\ f[0] = 0
      /\ \A i \in 1..m : f[i] = f[i - 1] + u[i]
  BY <1>4 DEF Sums
<1>7. /\ h \in [0..n -> Nat] /\ h[0] = 0
      /\ \A i \in 1..n : h[i] = h[i - 1] + w[i]
  BY <1>5 DEF Sums
<1> DEFINE H == {k \in 0..n : f[k] = h[k]}
<1>8. 0 \in H
  BY <1>6, <1>7
<1>9. \A k \in 1..n : k - 1 \in H => k \in H
  <2>1. ASSUME NEW k \in 1..n, k - 1 \in H PROVE k \in H
    <3>1. f[k - 1] = h[k - 1] /\ k \in 0..n
      BY <2>1
    <3>2. k \in 1..m
      BY <1>2
    <3>3. f[k] = f[k - 1] + u[k] /\ h[k] = h[k - 1] + w[k] /\ u[k] = w[k]
      BY <1>3, <1>6, <1>7, <3>2
    <3> QED
      BY <3>1, <3>3
  <2> QED
    BY <2>1
<1>10. f[n] = h[n]
  <2>1. \A k \in 0..n : k \in H
    <3> HIDE DEF H
    <3> QED
      BY <1>8, <1>9, FromZero
  <2> QED
    BY <2>1
<1>11. f[m] = f[n]
  <2>1. m \in 1..m /\ m - 1 = n /\ f[n] \in Nat
    BY <1>2, <1>6
  <2>2. f[m] = f[m - 1] + u[m]
    BY <1>6, <2>1
  <2> QED
    BY <1>3, <2>1, <2>2
<1> QED
  BY <1>2, <1>4, <1>5, <1>10, <1>11

(* Two columns of which each field of one weighs no more than that of the other. *)
Lighter(T, wt, t, s) ==
  /\ wt \in [T -> Nat] /\ s \in Seq(T) /\ t \in Seq(T) /\ Len(t) = Len(s)
  /\ \A i \in 1..Len(s) : wt[t[i]] <= wt[s[i]]

(* It is no heavier, and lighter if one of its fields is. *)
LEMMA EachLighter ==
  ASSUME NEW T, NEW wt, NEW t, NEW s, Lighter(T, wt, t, s)
  PROVE  /\ Total(Weights(wt, t)) \in Nat /\ Total(Weights(wt, s)) \in Nat
         /\ Total(Weights(wt, t)) <= Total(Weights(wt, s))
         /\ \A p \in 1..Len(s) : wt[t[p]] < wt[s[p]] => Total(Weights(wt, t)) < Total(Weights(wt, s))
<1>1. /\ wt \in [T -> Nat] /\ s \in Seq(T) /\ t \in Seq(T) /\ Len(t) = Len(s)
      /\ \A i \in 1..Len(s) : wt[t[i]] <= wt[s[i]]
  BY DEF Lighter
<1>2. PICK u, w : u = Weights(wt, t) /\ w = Weights(wt, s)
  OBVIOUS
<1>3. /\ u \in Seq(Nat) /\ Len(u) = Len(t) /\ Total(u) \in Nat
      /\ \A i \in 1..Len(t) : u[i] = wt[t[i]] /\ wt[t[i]] \in Nat
  <2>1. wt \in [T -> Nat] /\ t \in Seq(T)
    BY <1>1, Zenon
  <2>2. /\ Weights(wt, t) \in Seq(Nat) /\ Len(Weights(wt, t)) = Len(t)
        /\ \A i \in 1..Len(t) : Weights(wt, t)[i] = wt[t[i]] /\ t[i] \in T /\ wt[t[i]] \in Nat
        /\ Total(Weights(wt, t)) \in Nat
    BY ONLY <2>1, WeightsTyped, Zenon
  <2> QED
    BY ONLY <1>2, <2>2, Zenon
<1>4. /\ w \in Seq(Nat) /\ Len(w) = Len(s) /\ Total(w) \in Nat
      /\ \A i \in 1..Len(s) : w[i] = wt[s[i]] /\ wt[s[i]] \in Nat
  BY <1>1, <1>2, WeightsTyped
<1>5. PICK n \in Nat : n = Len(s) /\ n = Len(t) /\ n = Len(u) /\ n = Len(w)
  BY <1>1, <1>3, <1>4
<1>6. PICK g : g = [k \in 1..n |-> k]
  OBVIOUS
<1>7. Fits(u, w, g)
  <2>1. g \in [1..n -> 1..n] /\ \A k \in 1..n : g[k] = k
    BY <1>6
  <2>2. \A i, k \in 1..n : i < k => g[i] < g[k]
    BY <2>1
  <2>3. \A k \in 1..n : u[k] <= w[g[k]]
    BY <1>1, <1>3, <1>4, <1>5, <2>1
  <2> QED
    BY <1>3, <1>4, <1>5, <2>1, <2>2, <2>3 DEF Fits
<1>8. Total(u) <= Total(w)
  BY <1>7, FitsTotal
<1>9. ASSUME NEW p \in 1..Len(s), wt[t[p]] < wt[s[p]] PROVE Total(u) < Total(w)
  <2>1. u[p] \in Nat /\ w[p] \in Nat /\ u[p] < w[p] /\ p \in 1..Len(w)
    BY <1>3, <1>4, <1>5, <1>9
  <2>2. PICK d \in Nat : d = 1 /\ d <= w[p] /\ u[p] + d <= w[p]
    BY <2>1
  <2>3. \A k \in 1..Len(u) : g[k] = p => u[k] + d <= w[p]
    BY <1>5, <1>6, <2>2
  <2>4. Total(u) + d <= Total(w)
    BY <1>7, <2>1, <2>2, <2>3, FitsLess
  <2> QED
    BY <1>3, <1>4, <2>2, <2>4
<1> QED
  BY <1>2, <1>3, <1>4, <1>8, <1>9

(* The column of the samples where each sample is no heavier. *)
LEMMA SamplesLighter ==
  ASSUME NEW samples \in Seq(Seq(Values)), NEW fixed \in Seq(Seq(Values)), Len(fixed) = Len(samples),
         \A s \in 1..Len(samples) : SampleWeight(fixed[s]) <= SampleWeight(samples[s])
  PROVE  /\ SamplesWeight(fixed) \in Nat /\ SamplesWeight(samples) \in Nat
         /\ SamplesWeight(fixed) <= SamplesWeight(samples)
         /\ \A p \in 1..Len(samples) : SampleWeight(fixed[p]) < SampleWeight(samples[p])
              => SamplesWeight(fixed) < SamplesWeight(samples)
<1>1. PICK T, wt : T = Seq(Values) /\ wt = SampleWt
  OBVIOUS
<1>2. /\ wt \in [T -> Nat] /\ SamplesWeight(fixed) = Total(Weights(wt, fixed))
      /\ SamplesWeight(samples) = Total(Weights(wt, samples))
  BY <1>1, SamplesWeights, Zenon
<1>3. \A s \in 1..Len(samples) : wt[fixed[s]] = SampleWeight(fixed[s]) /\ wt[samples[s]] = SampleWeight(samples[s])
  <2>1. \A s \in 1..Len(samples) : fixed[s] \in Seq(Values) /\ samples[s] \in Seq(Values)
    BY ElementOfSeq
  <2> QED
    BY <1>1, <2>1, Zenon DEF SampleWt
<1>4. Lighter(T, wt, fixed, samples)
  BY <1>1, <1>2, <1>3, Zenon DEF Lighter
<1>5. /\ Total(Weights(wt, fixed)) \in Nat /\ Total(Weights(wt, samples)) \in Nat
      /\ Total(Weights(wt, fixed)) <= Total(Weights(wt, samples))
      /\ \A p \in 1..Len(samples) :
           wt[fixed[p]] < wt[samples[p]] => Total(Weights(wt, fixed)) < Total(Weights(wt, samples))
  BY ONLY <1>4, EachLighter, Zenon
<1>6. SamplesWeight(fixed) \in Nat /\ SamplesWeight(samples) \in Nat
      /\ SamplesWeight(fixed) <= SamplesWeight(samples)
  BY ONLY <1>2, <1>5, Zenon
<1>7. ASSUME NEW p \in 1..Len(samples), SampleWeight(fixed[p]) < SampleWeight(samples[p])
      PROVE  SamplesWeight(fixed) < SamplesWeight(samples)
  <2>1. wt[fixed[p]] < wt[samples[p]]
    BY <1>3, <1>7, Zenon
  <2>2. Total(Weights(wt, fixed)) < Total(Weights(wt, samples))
    BY <1>5, <2>1, Zenon
  <2> QED
    BY ONLY <1>2, <2>2, Zenon
<1> QED
  BY <1>6, <1>7

(* An empty sample adds nothing. *)
LEMMA SamplesAppend ==
  ASSUME NEW samples \in Seq(Seq(Values))
  PROVE  SamplesWeight(Append(samples, << >>)) = SamplesWeight(samples)
<1>1. PICK n \in Nat : n = Len(samples)
  OBVIOUS
<1>2. PICK none : none = << >>
  OBVIOUS
<1>3. SampleWeight(none) = 0
  <2>1. PICK T, wt : T = Values /\ wt = ValueWt
    OBVIOUS
  <2>0. none \in Seq(Values)
    BY <1>2
  <2>2. SampleWeight(none) = Total(Weights(wt, << >>)) /\ wt \in [T -> Nat]
    BY <1>2, <2>0, <2>1, SampleWeights, Zenon
  <2>3. PICK x : x \in T
    <3>1. << >> \in Values
      BY DEF Values
    <3> QED
      BY <2>1, <3>1
  <2> QED
    BY <2>2, <2>3, WeightOfOne, Zenon
<1>4. PICK more : more = Append(samples, none)
  OBVIOUS
<1>5. PICK w : w = [s \in 1..n |-> SampleWeight(samples[s])]
  OBVIOUS
<1>6. w \in Seq(Nat) /\ Len(w) = n
  <2>1. \A s \in 1..n : SampleWeight(samples[s]) \in Nat
    BY <1>1, ElementOfSeq, SampleTotal
  <2> QED
    BY <1>5, <2>1
<1>7. [s \in 1..(n + 1) |-> SampleWeight(more[s])] = Append(w, 0)
  <2>1. \A s \in 1..n : more[s] = samples[s]
    BY <1>1, <1>4
  <2>2. more[n + 1] = none
    BY <1>1, <1>4
  <2>3. \A s \in 1..(n + 1) : SampleWeight(more[s]) = IF s = n + 1 THEN 0 ELSE w[s]
    <3>1. ASSUME NEW s \in 1..(n + 1) PROVE SampleWeight(more[s]) = IF s = n + 1 THEN 0 ELSE w[s]
      <4>1. CASE s = n + 1
        BY <1>3, <2>2, <4>1
      <4>2. CASE s # n + 1
        <5>1. s \in 1..n
          BY <4>2
        <5>2. SampleWeight(more[s]) = w[s]
          BY <1>5, <2>1, <5>1
        <5> QED
          BY <4>2, <5>2
      <4> QED
        BY <4>1, <4>2
    <3> QED
      BY <3>1
  <2>4. Append(w, 0) = [s \in 1..(n + 1) |-> IF s = n + 1 THEN 0 ELSE w[s]]
    <3>0. PICK zero \in Nat : zero = 0
      OBVIOUS
    <3>1. PICK u, v : u = Append(w, zero) /\ v = [s \in 1..(n + 1) |-> IF s = n + 1 THEN zero ELSE w[s]]
      OBVIOUS
    <3>2. u \in Seq(Nat) /\ Len(u) = n + 1 /\ u[n + 1] = zero /\ \A s \in 1..n : u[s] = w[s]
      BY <1>6, <3>1
    <3>3. \A s \in 1..(n + 1) : (IF s = n + 1 THEN zero ELSE w[s]) \in Nat
      BY <1>6
    <3>4. v \in Seq(Nat) /\ Len(v) = n + 1
      BY <3>1, <3>3
    <3>5. \A s \in 1..(n + 1) : v[s] = IF s = n + 1 THEN zero ELSE w[s]
      BY <3>1
    <3>6. \A s \in 1..(n + 1) : u[s] = v[s]
      BY <3>2, <3>5
    <3>7. u = v
      BY <3>2, <3>4, <3>6, SeqEqual
    <3> QED
      BY <3>0, <3>1, <3>7
  <2> QED
    BY <2>3, <2>4
<1>8. Len(more) = n + 1
  BY <1>1, <1>4
<1>9. SamplesWeight(more) = Total(Append(w, 0))
  BY <1>7, <1>8, Zenon DEF SamplesWeight
<1>10. SamplesWeight(samples) = Total(w)
  BY <1>1, <1>5, Zenon DEF SamplesWeight
<1> QED
  BY <1>2, <1>4, <1>6, <1>9, <1>10, TotalAppendZero

(* A sample with some of its values. *)
LEMMA KeptSampleLighter ==
  ASSUME NEW sample \in Seq(Values), NEW kept \in Seq(Values), NEW K, NEW g, KeptBy(kept, sample, K, Len(sample), g)
  PROVE  SampleWeight(kept) <= SampleWeight(sample)
<1>1. PICK T, wt : T = Values /\ wt = ValueWt
  OBVIOUS
<1>2. /\ wt \in [T -> Nat] /\ sample \in Seq(T) /\ kept \in Seq(T)
      /\ SampleWeight(sample) = Total(Weights(wt, sample)) /\ SampleWeight(kept) = Total(Weights(wt, kept))
  BY <1>1, SampleWeights, Zenon
<1>3. Total(Weights(wt, kept)) <= Total(Weights(wt, sample))
  BY <1>2, KeptLighter
<1> QED
  BY <1>2, <1>3

(* A sample of which nothing is left weighs nothing. *)
LEMMA MissingWeight ==
  << <<Missing>> >> \in Seq(Values) /\ SampleWeight(<< <<Missing>> >>) = 0
<1>1. PICK value : value = <<Missing>>
  OBVIOUS
<1>2. value \in Values
  BY <1>1 DEF Values, Tokens, Specials
<1>3. ~IsGiven(value)
  BY <1>1 DEF IsGiven
<1>4. PICK T, wt : T = Values /\ wt = ValueWt
  OBVIOUS
<1>5. wt[value] = 0
  BY <1>2, <1>3, <1>4, Zenon DEF ValueWt
<1>6. PICK sample : sample = <<value>>
  OBVIOUS
<1>7. sample \in Seq(Values)
  BY <1>2, <1>6
<1>8. wt \in [T -> Nat] /\ SampleWeight(sample) = Total(Weights(wt, sample))
  BY <1>4, <1>7, SampleWeights, Zenon
<1>9. Total(Weights(wt, <<value>>)) = wt[value]
  BY <1>2, <1>4, <1>8, WeightOfOne, Zenon
<1> QED
  BY <1>1, <1>5, <1>6, <1>7, <1>8, <1>9, Zenon

(* The samples without the values of repeated keys, *)
LEMMA PairsSamplesLighter ==
  ASSUME NEW line \in BodyLines
  PROVE  SamplesWeight(FixedSamples(line)) <= SamplesWeight(line.samples)
<1>1. PICK samples \in Seq(Seq(Values)) : samples = line.samples
  BY ColumnTypes
<1>2. PICK n \in Nat : n = Len(samples)
  OBVIOUS
<1>3. PICK none : none = << <<Missing>> >>
  OBVIOUS
<1>4. none \in Seq(Values) /\ SampleWeight(none) = 0
  BY <1>3, MissingWeight, Zenon
<1> DEFINE Left(s) == FlattenSeq(OptionsOf(line, samples[s]))
           Fixed1(s) == IF Left(s) = << >> THEN none ELSE Left(s)
<1>5. PICK fixed : fixed = [s \in 1..n |-> Fixed1(s)]
  OBVIOUS
<1>6. FixedSamples(line) = fixed
  BY <1>1, <1>2, <1>3, <1>5, Zenon DEF FixedSamples
<1>7. ASSUME NEW s \in 1..n
      PROVE  Fixed1(s) \in Seq(Values) /\ SampleWeight(Fixed1(s)) <= SampleWeight(samples[s])
  <2>1. PICK sample \in Seq(Values) : sample = samples[s]
    BY <1>2, ElementOfSeq
  <2>2. PICK left : left = FlattenSeq(OptionsOf(line, sample))
    OBVIOUS
  <2>3. PICK K : K = {i \in 1..Len(sample) : StaysInFormat(line, i)}
    OBVIOUS
  <2>4. left \in Seq(Values) /\ \E g : KeptBy(left, sample, K, Len(sample), g)
    BY <2>2, <2>3, FormatPairsKept
  <2>5. SampleWeight(left) <= SampleWeight(sample)
    BY <2>4, KeptSampleLighter
  <2>6. SampleWeight(sample) \in Nat
    BY SampleTotal
  <2>7. SampleWeight(none) <= SampleWeight(sample)
    BY <1>4, <2>6
  <2>8. Fixed1(s) = IF left = << >> THEN none ELSE left
    BY <2>1, <2>2
  <2> HIDE DEF Fixed1
  <2>9. CASE left = << >>
    BY <1>4, <2>1, <2>7, <2>8, <2>9
  <2>10. CASE left # << >>
    BY <2>1, <2>4, <2>5, <2>8, <2>10
  <2> QED
    BY <2>9, <2>10
<1> HIDE DEF Fixed1
<1>8. fixed \in Seq(Seq(Values)) /\ Len(fixed) = Len(samples)
  BY <1>2, <1>5, <1>7
<1>9. \A s \in 1..Len(samples) : SampleWeight(fixed[s]) <= SampleWeight(samples[s])
  BY <1>2, <1>5, <1>7
<1>10. SamplesWeight(fixed) <= SamplesWeight(samples)
  BY <1>8, <1>9, SamplesLighter
<1> QED
  BY <1>1, <1>6, <1>10

(* and FORMAT. *)
LEMMA PairsFormatLighter ==
  ASSUME NEW line \in BodyLines, HasDuplicates(line.format)
  PROVE  FormatWeight(FlattenSeq(OptionsOf(line, line.format))) < FormatWeight(line.format)
<1>1. PICK T, wt, s : T = Keys /\ wt = FormatWt /\ s = line.format
  OBVIOUS
<1>2. s \in Seq(T) /\ Positive(wt, T) /\ HasDuplicates(s)
  BY <1>1, ColumnTypes, FormatWeights
<1>3. PICK kept : kept = FlattenSeq(OptionsOf(line, s))
  OBVIOUS
<1>4. PICK K : K = {i \in 1..Len(s) : StaysInFormat(line, i)}
  OBVIOUS
<1>5. kept \in Seq(T) /\ \E g : KeptBy(kept, s, K, Len(s), g)
  BY <1>2, <1>3, <1>4, FormatPairsKept
<1>6. PICK p \in 1..Len(s) : ~IsFirst(s, p)
  BY <1>2 DEF HasDuplicates, IsFirst
<1>7. p \notin K
  BY <1>1, <1>4, <1>6, Zenon DEF StaysInFormat
<1>8. wt \in [T -> Nat] /\ s[p] \in T /\ wt[s[p]] >= 1 /\ wt[s[p]] \in Nat
  <2>1. wt \in [T -> Nat] /\ s[p] \in T
    BY <1>2, ElementOfSeq DEF Positive
  <2> QED
    BY <1>2, <2>1 DEF Positive
<1>9. /\ Total(Weights(wt, kept)) \in Nat /\ Total(Weights(wt, s)) \in Nat
      /\ Total(Weights(wt, kept)) + wt[s[p]] <= Total(Weights(wt, s))
  BY <1>2, <1>5, <1>7, <1>8, KeptLighter
<1>10. Total(Weights(wt, kept)) < Total(Weights(wt, s))
  BY <1>8, <1>9
<1>11. FormatWeight(kept) = Total(Weights(wt, kept)) /\ FormatWeight(s) = Total(Weights(wt, s))
  BY <1>1, <1>2, <1>5, FormatWeights, Zenon
<1> QED
  BY <1>1, <1>3, <1>10, <1>11

(* A line of which a fix writes another FORMAT and other samples. *)
LEMMA FormatWritten ==
  ASSUME NEW line \in BodyLines, NEW format, NEW samples, NEW after,
         after = [line EXCEPT !.format = format, !.samples = samples],
         FormatWeight(format) < FormatWeight(line.format), SamplesWeight(samples) <= SamplesWeight(line.samples)
  PROVE  ColumnsLighter(line, after)
<1>1. /\ after.info = line.info /\ SamePlace(line, after) /\ after.ids = line.ids /\ after.filter = line.filter
      /\ after.format = format /\ after.samples = samples
  BY DEF BodyLines, SamePlace
<1> QED
  BY <1>1, Zenon DEF ColumnsLighter

(* FORMAT, *)
LEMMA FormatLighter ==
  ASSUME NEW line \in BodyLines, NEW e, NEW after, Writes(FixFormat(line, e), after),
         e.error_fix = "DUPLICATE_VALUES" => HasDuplicates(line.format), after # line
  PROVE  ColumnsLighter(line, after)
<1>1. CASE e.error_fix # "DUPLICATE_VALUES"
  <2>1. FixFormat(line, e) = ignore_error(line)
    BY <1>1 DEF FixFormat
  <2> QED
    BY <2>1, WritesOne
<1>2. CASE e.error_fix = "DUPLICATE_VALUES"
  <2>1. PICK format, samples : format = FlattenSeq(OptionsOf(line, line.format)) /\ samples = FixedSamples(line)
    OBVIOUS
  <2>2. FixFormat(line, e) = remove_duplicate_format_sample_pairs(line)
    BY <1>2, Zenon DEF FixFormat
  <2>3. FixFormat(line, e) = {Ends("throws")}
         \/ FixFormat(line, e) = Write([line EXCEPT !.format = format, !.samples = samples])
    BY <2>1, <2>2, FormatPairs, Zenon
  <2>4. after = [line EXCEPT !.format = format, !.samples = samples]
    BY <2>3, WritesOne, EndsWritesNothing
  <2>5. FormatWeight(format) < FormatWeight(line.format) /\ SamplesWeight(samples) <= SamplesWeight(line.samples)
    BY <1>2, <2>1, PairsFormatLighter, PairsSamplesLighter, Zenon
  <2> QED
    BY <2>4, <2>5, FormatWritten
<1> QED
  BY <1>1, <1>2

(* A genotype that is put as missing makes its sample no heavier, and lighter if it was given. *)
LEMMA GenotypeWeight ==
  ASSUME NEW before, NEW after, NEW repeat, GenotypeMissing(before, after, repeat), after \in Seq(Values)
  PROVE  /\ SampleWeight(after) <= SampleWeight(before)
         /\ GenotypeWrongIn(before) => SampleWeight(after) < SampleWeight(before)
<1> USE DEF GenotypeMissing
<1>1. PICK missing : missing = [k \in 1..repeat |-> Missing]
  OBVIOUS
<1>2. PICK T, wt : T = Values /\ wt = ValueWt
  OBVIOUS
<1>3. before \in Seq(T) /\ Len(before) \in Nat /\ Len(before) # 0 /\ after \in Seq(T)
  BY <1>2
<1>4. after = [before EXCEPT ![1] = missing]
  BY <1>1
<1>5. /\ Len(after) = Len(before) /\ after[1] = missing /\ 1 \in 1..Len(before)
      /\ \A i \in 1..Len(before) : i # 1 => after[i] = before[i]
  BY <1>3, <1>4
<1>6. ~IsGiven(missing)
  <2>1. Len(missing) = repeat /\ \A i \in 1..repeat : missing[i] = Missing
    BY <1>1
  <2> QED
    BY <2>1, Zenon DEF IsGiven
<1>7. missing \in T
  BY <1>3, <1>5, ElementOfSeq
<1>8. wt[missing] = 0
  BY <1>2, <1>6, <1>7, Zenon DEF ValueWt
<1>9. wt \in [T -> Nat] /\ SampleWeight(after) = Total(Weights(wt, after)) /\ SampleWeight(before) = Total(Weights(wt, before))
  BY <1>2, <1>3, SampleWeights, Zenon
<1>10. \A i \in 1..Len(before) : wt[after[i]] <= wt[before[i]]
  <2>1. ASSUME NEW i \in 1..Len(before) PROVE wt[after[i]] <= wt[before[i]]
    <3>1. before[i] \in T
      BY <1>3, ElementOfSeq
    <3>2. wt[before[i]] \in Nat
      BY <1>9, <3>1
    <3>3. after[i] = missing \/ after[i] = before[i]
      BY <1>5
    <3>4. PICK x \in Nat : x = wt[before[i]]
      BY <3>2
    <3>5. wt[after[i]] = 0 \/ wt[after[i]] = x
      BY <1>8, <3>3, <3>4, Zenon
    <3>6. wt[after[i]] <= x
      BY ONLY <3>5, x \in Nat
    <3> QED
      BY <3>4, <3>6
  <2> QED
    BY <2>1
<1>11. Lighter(T, wt, after, before)
  BY <1>3, <1>5, <1>9, <1>10, Zenon DEF Lighter
<1>12. /\ Total(Weights(wt, after)) <= Total(Weights(wt, before))
       /\ \A p \in 1..Len(before) : wt[after[p]] < wt[before[p]]
            => Total(Weights(wt, after)) < Total(Weights(wt, before))
  BY ONLY <1>11, EachLighter, Zenon
<1>13. GenotypeWrongIn(before) => wt[after[1]] < wt[before[1]]
  <2> SUFFICES ASSUME GenotypeWrongIn(before) PROVE wt[after[1]] < wt[before[1]]
    OBVIOUS
  <2>1. IsGiven(before[1])
    BY Zenon DEF GenotypeWrongIn, IsGiven
  <2>2. before[1] \in T
    BY <1>3, <1>5, ElementOfSeq
  <2>3. wt[before[1]] = 1
    BY <1>2, <2>1, <2>2, Zenon DEF ValueWt
  <2> QED
    BY <1>5, <1>8, <2>3
<1> QED
  BY <1>5, <1>9, <1>12, <1>13, Zenon

(* A line of which a fix writes other samples. *)
LEMMA SamplesWritten ==
  ASSUME NEW line \in BodyLines, NEW samples, NEW after, after = [line EXCEPT !.samples = samples],
         SamplesWeight(samples) < SamplesWeight(line.samples),
         SamplesWeight(samples) <= SamplesWeight(line.samples)
  PROVE  ColumnsLighter(line, after)
<1>1. /\ after.info = line.info /\ SamePlace(line, after) /\ after.ids = line.ids /\ after.filter = line.filter
      /\ after.format = line.format /\ after.samples = samples
  BY DEF BodyLines, SamePlace
<1> QED
  BY <1>1, Zenon DEF ColumnsLighter

(* The genotypes, *)
LEMMA GenotypeLighter ==
  ASSUME NEW line \in BodyLines, NEW e, e.field_cardinality \in Int, NEW after \in BodyLines,
         Writes(fix_format_gt(line, e), after), after # line,
         NEW wrong \in 1..Len(line.samples), GenotypeWrongIn(line.samples[wrong])
  PROVE  ColumnsLighter(line, after)
<1>1. PICK repeat : repeat = IF e.field_cardinality <= -1 THEN 1 ELSE e.field_cardinality
  OBVIOUS
<1>2. repeat \in Nat
  BY <1>1
<1>3. PICK missing : missing = [k \in 1..repeat |-> Missing]
  OBVIOUS
<1>4. PICK samples : samples = [x \in 1..Len(line.samples) |-> [line.samples[x] EXCEPT ![1] = missing]]
  OBVIOUS
<1>5. PICK new : new = [line EXCEPT !.samples = samples]
  OBVIOUS
<1>6. \/ fix_format_gt(line, e) \in {{Ends("crashes")}, ignore_error(line)}
      \/ ~Contains(line.samples, << >>) /\ fix_format_gt(line, e) = Write(new)
  BY <1>1, <1>3, <1>4, <1>5 DEF fix_format_gt
<1>7. after = new /\ ~Contains(line.samples, << >>)
  BY <1>6, WritesOne, EndsWritesNothing
<1>8. after.samples = samples
  BY <1>5, <1>7 DEF BodyLines
<1>9. PICK before \in Seq(Seq(Values)) : before = line.samples
  BY ColumnTypes
<1>10. samples \in Seq(Seq(Values))
  BY <1>8, ColumnTypes
<1>11. PICK n \in Nat : n = Len(before)
  OBVIOUS
<1>12. Len(samples) = n
  BY <1>4, <1>9, <1>11
<1>13. ASSUME NEW s \in 1..n
       PROVE  /\ SampleWeight(samples[s]) <= SampleWeight(before[s])
              /\ GenotypeWrongIn(before[s]) => SampleWeight(samples[s]) < SampleWeight(before[s])
  <2>1. samples[s] = [before[s] EXCEPT ![1] = missing]
    BY <1>4, <1>9, <1>11
  <2>2. before[s] \in Seq(Values) /\ samples[s] \in Seq(Values)
    BY <1>10, <1>11, <1>12, ElementOfSeq
  <2>3. before[s] # << >>
    BY <1>7, <1>9, <1>11 DEF Contains
  <2>4. GenotypeMissing(before[s], samples[s], repeat)
    BY <1>2, <1>3, <2>1, <2>2, <2>3, Zenon DEF GenotypeMissing
  <2> QED
    BY <2>2, <2>4, GenotypeWeight, Zenon
<1>14. \A s \in 1..Len(before) : SampleWeight(samples[s]) <= SampleWeight(before[s])
  BY <1>11, <1>13
<1>15. wrong \in 1..Len(before) /\ SampleWeight(samples[wrong]) < SampleWeight(before[wrong])
  BY <1>9, <1>11, <1>13
<1>16. Len(samples) = Len(before)
  BY <1>11, <1>12
<1>17. SamplesWeight(samples) < SamplesWeight(before) /\ SamplesWeight(samples) <= SamplesWeight(before)
  BY <1>10, <1>14, <1>15, <1>16, SamplesLighter
<1> QED
  BY <1>5, <1>7, <1>9, <1>17, SamplesWritten

(* The samples without the value of a key, up to the first that is too short. *)
TakenFrom(samples, p, stop) ==
  [s \in 1..Len(samples) |-> IF s < stop THEN RemoveAt(samples[s], p) ELSE samples[s]]

(* They are no heavier. *)
LEMMA TakenLighter ==
  ASSUME NEW samples \in Seq(Seq(Values)), NEW p \in Nat, NEW stop,
         \A s \in 1..Len(samples) : s < stop => p \in 1..Len(samples[s])
  PROVE  /\ TakenFrom(samples, p, stop) \in Seq(Seq(Values))
         /\ SamplesWeight(TakenFrom(samples, p, stop)) <= SamplesWeight(samples)
<1>1. PICK n \in Nat : n = Len(samples)
  OBVIOUS
<1> DEFINE Fixed1(s) == IF s < stop THEN RemoveAt(samples[s], p) ELSE samples[s]
<1>2. PICK fixed : fixed = [s \in 1..n |-> Fixed1(s)]
  OBVIOUS
<1>3. TakenFrom(samples, p, stop) = fixed
  BY <1>1, <1>2, Zenon DEF TakenFrom
<1>4. ASSUME NEW s \in 1..n
      PROVE  Fixed1(s) \in Seq(Values) /\ SampleWeight(Fixed1(s)) <= SampleWeight(samples[s])
  <2>1. PICK sample \in Seq(Values) : sample = samples[s]
    BY <1>1, ElementOfSeq
  <2>2. CASE s < stop
    <3>1. p \in 1..Len(sample)
      BY <1>1, <2>1, <2>2
    <3>2. PICK left, K : left = RemoveAt(sample, p) /\ K = (1..Len(sample)) \ {p}
      OBVIOUS
    <3>3. left \in Seq(Values) /\ \E g : KeptBy(left, sample, K, Len(sample), g)
      BY <3>1, <3>2, RemoveAtKept
    <3>4. SampleWeight(left) <= SampleWeight(sample)
      BY <3>3, KeptSampleLighter
    <3>5. Fixed1(s) = left
      BY <2>1, <2>2, <3>2
    <3> HIDE DEF Fixed1
    <3> QED
      BY <2>1, <3>3, <3>4, <3>5
  <2>3. CASE ~(s < stop)
    <3>1. Fixed1(s) = sample
      BY <2>1, <2>3
    <3>2. SampleWeight(sample) \in Nat
      BY SampleTotal
    <3> HIDE DEF Fixed1
    <3>3. SampleWeight(sample) <= SampleWeight(sample)
      BY <3>2
    <3> QED
      BY <2>1, <3>1, <3>3, Zenon
  <2> QED
    BY <2>2, <2>3
<1> HIDE DEF Fixed1
<1>5. fixed \in Seq(Seq(Values)) /\ Len(fixed) = Len(samples)
  BY <1>1, <1>2, <1>4
<1>6. \A s \in 1..Len(samples) : SampleWeight(fixed[s]) <= SampleWeight(samples[s])
  BY <1>1, <1>2, <1>4
<1> QED
  BY <1>3, <1>5, <1>6, SamplesLighter

(* The loop ends at the first sample that is too short: those before it have the value. *)
StopAt(samples, p) ==
  LET short == {s \in 1..Len(samples) : Len(samples[s]) < p}
  IN  IF short = {} THEN Len(samples) + 1 ELSE Min(short)

(* Those are long enough for the value to be taken out. *)
LEMMA StopsAtShort ==
  ASSUME NEW samples \in Seq(Seq(Values)), NEW p \in Nat \ {0}, NEW stop, stop = StopAt(samples, p)
  PROVE  \A s \in 1..Len(samples) : s < stop => p \in 1..Len(samples[s])
<1>1. PICK m \in Nat : m = Len(samples)
  OBVIOUS
<1>2. PICK S : S = {x \in 1..m : Len(samples[x]) < p}
  OBVIOUS
<1>3. stop = IF S = {} THEN m + 1 ELSE Min(S)
  BY <1>1, <1>2, Zenon DEF StopAt
<1>4. S \subseteq 1..m
  BY <1>2
<1>5. S # {} => Min(S) \in S /\ \A y \in S : Min(S) <= y
  BY <1>4, MinIndex
<1>6. ASSUME NEW s \in 1..m, s < stop PROVE p \in 1..Len(samples[s])
  <2>1. s \notin S
    <3>1. SUFFICES ASSUME s \in S PROVE FALSE
      OBVIOUS
    <3>2. stop <= s /\ stop \in 1..m
      BY <1>3, <1>4, <1>5, <3>1
    <3> QED
      BY <1>6, <3>2
  <2>2. samples[s] \in Seq(Values)
    BY <1>1, ElementOfSeq
  <2>3. Len(samples[s]) \in Nat
    BY <2>2
  <2>4. ~(Len(samples[s]) < p)
    BY <1>2, <2>1
  <2> QED
    BY <2>3, <2>4
<1> QED
  BY <1>1, <1>6

(* The last place of a key. *)
LEMMA LastIndex ==
  ASSUME NEW T, NEW s \in Seq(T), NEW indexes, indexes \subseteq 1..Len(s), NEW p \in indexes
  PROVE  Max(indexes) \in Nat \ {0}
<1>1. PICK n \in Nat : n = Len(s)
  OBVIOUS
<1>2. indexes \subseteq 1..n /\ indexes # {}
  BY <1>1
<1>3. Max(indexes) \in indexes
  BY <1>2, MaxIndex
<1>4. Max(indexes) \in 1..n
  BY <1>2, <1>3, Zenon
<1>5. \A x \in 1..n : x \in Nat \ {0}
  OBVIOUS
<1> QED
  BY <1>4, <1>5, Zenon

(* The other keys of the samples, *)
LEMMA FieldLighter ==
  ASSUME NEW line \in BodyLines, NEW e, NEW after, Writes(remove_format(line, e), after),
         e.field # "", e.field \in ToSet(line.format)
  PROVE  ColumnsLighter(line, after)
<1> DEFINE indexes == IndexesOf(line.format, e.field)
           field_index == Max(indexes)
           n     == Len(line.samples)
           short == {s \in 1..n : Len(line.samples[s]) < field_index}
           stop  == IF short = {} THEN n + 1 ELSE Min(short)
           fixed == [s \in 1..n |-> IF s < stop THEN RemoveAt(line.samples[s], field_index)
                                                 ELSE line.samples[s]]
           format == remove_fields(line.format, <<"">>, indexes)
           samples == IF stop = n THEN Append(fixed, << >>) ELSE fixed
           ignored == IF short = {} THEN 0 ELSE 1
<1>1. remove_format(line, e)
        = IF indexes = {} THEN ignore_error(line)
          ELSE {Outcome(<<[line EXCEPT !.format = format, !.samples = samples]>>, ignored)}
  BY Zenon DEF remove_format
<1>2. PICK T, wt, empty, before : T = Keys /\ wt = FormatWt /\ empty = "" /\ before = line.format
  OBVIOUS
<1>3. PICK idx : idx = indexes
  OBVIOUS
<1>4. before \in Seq(T) /\ idx = {i \in 1..Len(before) : before[i] = e.field}
  BY <1>2, <1>3, ColumnTypes DEF IndexesOf
<1>5. PICK p \in 1..Len(before) : before[p] = e.field
  <2>1. e.field \in {before[i] : i \in DOMAIN before}
    BY <1>2, Zenon DEF ToSet
  <2>2. DOMAIN before = 1..Len(before)
    BY ONLY <1>4
  <2> QED
    BY <2>1, <2>2, Zenon
<1>6. p \in idx
  BY <1>4, <1>5
<1>7. PICK old \in Seq(Seq(Values)) : old = line.samples
  BY ColumnTypes
<1>8. PICK last : last = field_index
  OBVIOUS
<1>9. PICK to : to = stop
  OBVIOUS
<1>10. fixed = TakenFrom(old, last, to)
  <2> HIDE DEF stop, field_index
  <2> QED
    BY <1>7, <1>8, <1>9, Zenon DEF TakenFrom
<1>11. last \in Nat \ {0}
  <2>1. last = Max(idx)
    BY <1>3, <1>8, Zenon
  <2>2. idx \subseteq 1..Len(before)
    BY <1>4
  <2>3. Max(idx) \in Nat \ {0}
    BY ONLY <1>4, <1>6, <2>2, LastIndex
  <2> QED
    BY ONLY <2>1, <2>3, Zenon
<1>12. to = StopAt(old, last)
  BY <1>7, <1>8, <1>9, Zenon DEF StopAt
<1>13. \A s \in 1..Len(old) : s < to => last \in 1..Len(old[s])
  BY ONLY <1>11, <1>12, old \in Seq(Seq(Values)), StopsAtShort
<1>14. PICK taken : taken = TakenFrom(old, last, to)
  OBVIOUS
<1>15. taken \in Seq(Seq(Values)) /\ SamplesWeight(taken) <= SamplesWeight(old)
  <2>1. last \in Nat
    BY ONLY <1>11
  <2> QED
    BY <1>13, <1>14, <2>1, TakenLighter
<1>16. PICK smps : smps = samples
  OBVIOUS
<1>17. SamplesWeight(smps) <= SamplesWeight(old)
  <2>1. smps = taken \/ smps = Append(taken, << >>)
    <3> HIDE DEF fixed, stop
    <3> QED
      BY <1>10, <1>14, <1>16, Zenon
  <2>2. SamplesWeight(Append(taken, << >>)) = SamplesWeight(taken)
    BY <1>15, SamplesAppend, Zenon
  <2> QED
    BY ONLY <1>15, <2>1, <2>2, Zenon
<1>18. PICK cols : cols = format
  OBVIOUS
<1>19. FormatWeight(cols) < FormatWeight(before)
  <2>1. cols = remove_fields(before, <<empty>>, idx)
    <3> HIDE DEF indexes
    <3> QED
      BY <1>2, <1>3, <1>18, Zenon
  <2>2. wt \in [T -> Nat] /\ empty \in T /\ before[p] \in T
    <3>1. wt \in [T -> Nat]
      BY <1>2, <1>4, FormatWeights, Zenon DEF Positive
    <3>2. empty \in T
      BY <1>2, KeyNames
    <3>3. before[p] \in T
      BY <1>4, ElementOfSeq
    <3> QED
      BY <3>1, <3>2, <3>3
  <2>3. wt[empty] = 1 /\ wt[before[p]] = 2
    BY <1>2, <1>5, <2>2, Zenon DEF FormatWt
  <2>4. wt[empty] < wt[before[p]]
    BY ONLY <2>3
  <2>5. Total(Weights(wt, cols)) < Total(Weights(wt, before))
    BY ONLY <1>4, <1>6, <2>1, <2>2, <2>4, p \in 1..Len(before), RemovedLighter
  <2>6. cols \in Seq(T)
    <3>1. <<empty>> \in Seq(T)
      BY ONLY <2>2
    <3> QED
      BY <1>4, <2>1, <3>1, RemoveFieldsTyped
  <2>7. FormatWeight(cols) = Total(Weights(wt, cols)) /\ FormatWeight(before) = Total(Weights(wt, before))
    BY <1>2, <1>4, <2>6, FormatWeights, Zenon
  <2> QED
    BY ONLY <2>5, <2>7, Zenon
<1>20. PICK new : new = [line EXCEPT !.format = cols, !.samples = smps]
  OBVIOUS
<1>21. after = new
  <2>1. PICK count : count = ignored
    OBVIOUS
  <2> HIDE DEF indexes, format, samples, ignored
  <2>2. idx # {}
    BY <1>6
  <2>3. remove_format(line, e) = {Outcome(<<new>>, count)}
    BY <1>1, <1>3, <1>16, <1>18, <1>20, <2>1, <2>2, Zenon
  <2> QED
    BY <2>3, WritesOutcome, Zenon
<1> HIDE DEF indexes, format, samples, ignored
<1> QED
  BY <1>2, <1>7, <1>17, <1>19, <1>20, <1>21, FormatWritten

(* A fix of a record that writes another line makes it lighter. *)
LEMMA BodyFixLighter ==
  ASSUME NEW line \in BodyLines, NEW e \in BodyErrors, Concerns(line, e), FixesOne(line, e),
         NEW after \in BodyLines, Writes(fix(line, e), after), after # line
  PROVE  ColumnsLighter(line, after)
<1>2. /\ e.type \notin {"MetaSectionError", "DuplicationError"}
      /\ e.error_fix \in ErrorFixes /\ e.field_cardinality \in Int
  BY DEF BodyErrors, Errors
<1>3. CASE e.type = "IdBodyError"
  <2>1. Writes(FixId(line, e), after)
    BY <1>3 DEF fix
  <2>2. HasDuplicates(line.ids)
    BY <1>3 DEF Concerns
  <2> QED
    BY <2>1, <2>2, IdLighter
<1>4. CASE e.type = "FilterBodyError"
  <2>1. Writes(FixFilter(line, e), after)
    BY <1>4 DEF fix
  <2>2. \/ e.error_fix = "DUPLICATE_VALUES" /\ e.field = "" /\ HasDuplicates(line.filter)
        \/ e.error_fix # "DUPLICATE_VALUES" /\ Contains(line.filter, "0")
    BY <1>4 DEF Concerns
  <2> QED
    BY <2>1, <2>2, FilterLighter
<1>5. CASE e.type = "InfoBodyError"
  <2>1. Writes(FixInfo(line, e), after)
    BY <1>5 DEF fix
  <2>2. InfoWrong(line, e)
    BY <1>5 DEF Concerns
  <2> QED
    BY <1>2, <2>1, <2>2, InfoLighter
<1>6. CASE e.type = "FormatBodyError"
  <2>1. Writes(FixFormat(line, e), after)
    BY <1>6 DEF fix
  <2>2. e.error_fix = "DUPLICATE_VALUES" => HasDuplicates(line.format)
    BY <1>6 DEF Concerns
  <2> QED
    BY <2>1, <2>2, FormatLighter
<1>7. CASE e.type = "SamplesFieldBodyError"
  <2>1. fix(line, e) = FixSamplesField(line, e)
    BY <1>7 DEF fix
  <2>2. line.format = << >> \/ line.samples # << >>
    BY <1>7 DEF FixesOne
  <2>3. \/ fix(line, e) = ignore_error(line)
        \/ e.field = "GT" /\ fix(line, e) = fix_format_gt(line, e)
        \/ e.field # "GT" /\ fix(line, e) = remove_format(line, e)
    BY <2>1, <2>2, Zenon DEF FixSamplesField
  <2>4. FieldWrong(line, e)
    BY <1>7 DEF Concerns
  <2>5. CASE fix(line, e) = ignore_error(line)
    BY <2>5, WritesOne
  <2>6. CASE e.field = "GT" /\ fix(line, e) = fix_format_gt(line, e)
    <3>1. PICK s \in 1..Len(line.samples) : GenotypeWrongIn(line.samples[s])
      BY <2>4, <2>6 DEF FieldWrong
    <3> QED
      BY <1>2, <2>6, <3>1, GenotypeLighter
  <2>7. CASE e.field # "GT" /\ fix(line, e) = remove_format(line, e)
    <3>1. e.field # "" /\ e.field \in ToSet(line.format)
      BY <2>4, <2>7 DEF FieldWrong
    <3> QED
      BY <2>7, <3>1, FieldLighter
  <2> QED
    BY <2>3, <2>5, <2>6, <2>7
<1>8. CASE e.type \notin {"IdBodyError", "FilterBodyError", "InfoBodyError", "FormatBodyError",
                         "SamplesFieldBodyError"}
  <2>1. fix(line, e) = ignore_error(line)
    BY <1>2, <1>8 DEF fix
  <2> QED
    BY <2>1, WritesOne
<1> QED
  BY <1>3, <1>4, <1>5, <1>6, <1>7, <1>8

(* The weight of a meta entry is that of its Number and that of its Type. *)
NumberPart(v, line) == IF line.Number = MetaTags(v, line)[line.id].Number THEN 0 ELSE 1
TypePart(v, line) == IF line.Type = MetaTags(v, line)[line.id].Type THEN 0 ELSE 1

(* Each is 0 or 1. *)
LEMMA MetaParts ==
  ASSUME NEW v, NEW line
  PROVE  /\ MetaWeight(v, line) \in Nat /\ NumberPart(v, line) \in {0, 1} /\ TypePart(v, line) \in {0, 1}
         /\ line.id \in DOMAIN MetaTags(v, line) => MetaWeight(v, line) = NumberPart(v, line) + TypePart(v, line)
<1>1. MetaWeight(v, line) = IF line.id \notin DOMAIN MetaTags(v, line) THEN 0
                            ELSE NumberPart(v, line) + TypePart(v, line)
  BY Zenon DEF MetaWeight, MetaTags, NumberPart, TypePart
<1>2. NumberPart(v, line) \in {0, 1} /\ TypePart(v, line) \in {0, 1}
  BY DEF NumberPart, TypePart
<1> QED
  BY <1>1, <1>2

(* A fix of a meta entry. *)
LEMMA MetaLighter ==
  ASSUME NEW v, NEW line \in MetaLines, NEW e, MetaError(v, line) = <<e>>,
         NEW after, Writes(FixMeta(line, e), after), after # line
  PROVE  MetaWeight(v, after) < MetaWeight(v, line)
<1>2. MetaWrong(v, line, e)
  BY MetaThrows
<1>4. e.error_fix = "RECOVERABLE_VALUE"
  <2>1. e.error_fix = "IRRECOVERABLE_VALUE" => FixMeta(line, e) = ignore_error(line)
    BY DEF FixMeta
  <2> QED
    BY <1>2, <2>1, WritesOne DEF MetaWrong
<1>5. CASE e.field = "Number"
  <2>1. PICK number : number = e.expected_value[1]
    OBVIOUS
  <2>2. after = [line EXCEPT !.Number = number]
    <3>1. FixMeta(line, e) = Write([line EXCEPT !.Number = number])
      BY <1>4, <1>5, <2>1 DEF FixMeta
    <3> QED
      BY <3>1, WritesOne
  <2>3. after.Number = number /\ after.Type = line.Type /\ after.id = line.id /\ after.column = line.column
    BY <2>2 DEF MetaLines
  <2>4. MetaTags(v, after) = MetaTags(v, line)
    BY <2>3 DEF MetaTags
  <2>5. NumberWrong(v, line) /\ number = MetaTags(v, line)[line.id].Number
    BY <1>2, <1>4, <1>5, <2>1 DEF MetaWrong
  <2>6. NumberPart(v, after) = 0
    BY <2>3, <2>4, <2>5, Zenon DEF NumberPart
  <2>7. TypePart(v, after) = TypePart(v, line)
    BY <2>3, <2>4, Zenon DEF TypePart
  <2>8. NumberPart(v, line) = 1 /\ line.id \in DOMAIN MetaTags(v, line)
    BY <2>5 DEF NumberWrong, NumberPart
  <2>9. after.id \in DOMAIN MetaTags(v, after)
    BY <2>3, <2>4, <2>8, Zenon
  <2>10. MetaWeight(v, line) = 1 + TypePart(v, line) /\ MetaWeight(v, after) = 0 + TypePart(v, line)
    BY <2>6, <2>7, <2>8, <2>9, MetaParts, Zenon
  <2>11. TypePart(v, line) \in {0, 1}
    BY MetaParts
  <2> QED
    BY ONLY <2>10, <2>11
<1>6. CASE e.field = "Type"
  <2>1. PICK type : type = e.expected_type
    OBVIOUS
  <2>2. after = [line EXCEPT !.Type = type]
    <3>1. FixMeta(line, e) = Write([line EXCEPT !.Type = type])
      BY <1>4, <1>6, <2>1 DEF FixMeta
    <3> QED
      BY <3>1, WritesOne
  <2>3. after.Type = type /\ after.Number = line.Number /\ after.id = line.id /\ after.column = line.column
    BY <2>2 DEF MetaLines
  <2>4. MetaTags(v, after) = MetaTags(v, line)
    BY <2>3 DEF MetaTags
  <2>5. TypeWrong(v, line) /\ type = MetaTags(v, line)[line.id].Type
    BY <1>2, <1>4, <1>6, <2>1 DEF MetaWrong
  <2>6. TypePart(v, after) = 0
    BY <2>3, <2>4, <2>5, Zenon DEF TypePart
  <2>7. NumberPart(v, after) = NumberPart(v, line)
    BY <2>3, <2>4, Zenon DEF NumberPart
  <2>8. TypePart(v, line) = 1 /\ line.id \in DOMAIN MetaTags(v, line)
    BY <2>5 DEF TypeWrong, TypePart
  <2>9. after.id \in DOMAIN MetaTags(v, after)
    BY <2>3, <2>4, <2>8, Zenon
  <2>10. MetaWeight(v, line) = NumberPart(v, line) + 1 /\ MetaWeight(v, after) = NumberPart(v, line) + 0
    BY <2>6, <2>7, <2>8, <2>9, MetaParts, Zenon
  <2>11. NumberPart(v, line) \in {0, 1}
    BY MetaParts
  <2> QED
    BY ONLY <2>10, <2>11
<1> QED
  BY <1>2, <1>4, <1>5, <1>6 DEF MetaWrong

(* Every line weighs something. *)
LEMMA LineWeighs ==
  ASSUME NEW v, NEW line \in Lines
  PROVE  /\ LineWeight(v, line) \in Nat /\ LineWeight(v, line) >= 1
         /\ line.kind = "body" => line \in BodyLines /\ LineWeight(v, line) = 1 + BodyWeight(line)
         /\ line.kind = "meta" => line \in MetaLines /\ LineWeight(v, line) = 1 + MetaWeight(v, line)
<1>1. line.kind = "body" => line \in BodyLines
  BY DEF Lines, MetaLines, HeaderLines
<1>2. line.kind = "meta" => line \in MetaLines
  BY DEF Lines, BodyLines, HeaderLines
<1>3. CASE line.kind = "body"
  <2>1. LineWeight(v, line) = 1 + BodyWeight(line)
    BY <1>3 DEF LineWeight
  <2>2. BodyWeight(line) \in Nat
    BY <1>1, <1>3, ColumnsWeigh
  <2>3. LineWeight(v, line) \in Nat /\ LineWeight(v, line) >= 1
    BY ONLY <2>1, <2>2
  <2> QED
    BY <1>1, <1>3, <2>1, <2>3
<1>4. CASE line.kind = "meta"
  <2>1. LineWeight(v, line) = 1 + MetaWeight(v, line)
    BY <1>4 DEF LineWeight
  <2>2. MetaWeight(v, line) \in Nat
    BY MetaParts
  <2>3. LineWeight(v, line) \in Nat /\ LineWeight(v, line) >= 1
    BY ONLY <2>1, <2>2
  <2> QED
    BY <1>2, <1>4, <2>1, <2>3
<1>5. CASE line.kind # "body" /\ line.kind # "meta"
  <2>1. LineWeight(v, line) = 1
    BY <1>5 DEF LineWeight
  <2>2. LineWeight(v, line) \in Nat /\ LineWeight(v, line) >= 1
    BY ONLY <2>1
  <2> QED
    BY <1>5, <2>2
<1> QED
  BY <1>3, <1>4, <1>5

(* A line that a fix writes has the kind of the line before. *)
LEMMA FixedKeepsKind ==
  ASSUME NEW line \in BodyLines \cup MetaLines, NEW e, e.type # "DuplicationError", FixesOne(line, e),
         NEW after, Writes(fix(line, e), after)
  PROVE  after.kind = line.kind
<1>1. PICK o \in fix(line, e) : o.ends = "no" /\ o.written = <<after>>
  BY DEF Writes
<1>2. IsOneLine(line, o)
  BY <1>1, FixIsOneLine, Zenon DEF FixesOne
<1>3. PICK new : o.written = <<new>> /\ SameVariants(line, new)
  BY <1>1, <1>2 DEF IsOneLine
<1>4. new = after
  BY <1>1, <1>3
<1>5. "kind" \in DOMAIN line
  BY DEF BodyLines, MetaLines
<1>6. new["kind"] = line["kind"]
  BY <1>3, <1>5 DEF SameVariants
<1> QED
  BY <1>4, <1>6

(***************************************************************************)
(* A fix that writes another line makes it lighter.                        *)
(***************************************************************************)
LEMMA FixLightens ==
  ASSUME NEW v, NEW lines \in Seq(Lines), NEW at \in 1..Len(lines), NEW e, LineError(v, lines, at) = <<e>>,
         NEW after \in Lines, Writes(fix(lines[at], e), after), after # lines[at]
  PROVE  LineWeight(v, after) < LineWeight(v, lines[at])
<1>1. FixesOne(lines[at], e)
  <2>0. LineError(v, lines, at) # << >>
    OBVIOUS
  <2>1. PICK x : LineError(v, lines, at) = <<x>> /\ FixesOne(lines[at], x)
    BY <2>0, LineErrorIsOne, Zenon
  <2>2. x = e
    BY <2>1
  <2> QED
    BY <2>1, <2>2
<1>2. \/ lines[at] \in MetaLines /\ e \in MetaErrors
      \/ lines[at] \in BodyLines /\ e \in BodyErrors
  BY LineErrorTyped
<1>3. PICK line \in Lines : line = lines[at]
  BY ElementOfSeq
<1>4. e.type # "DuplicationError"
  BY <1>2 DEF MetaErrors, BodyErrors
<1>5. after.kind = line.kind
  <2>1. line \in BodyLines \cup MetaLines /\ FixesOne(line, e) /\ Writes(fix(line, e), after)
    BY <1>1, <1>2, <1>3
  <2> QED
    BY <1>4, <2>1, FixedKeepsKind
<1>6. CASE line \in MetaLines /\ e \in MetaErrors
  <2>1. line.kind = "meta" /\ e.type = "MetaSectionError"
    BY <1>6 DEF MetaLines, MetaErrors
  <2>2. MetaError(v, line) = <<e>>
    BY <1>3, <2>1 DEF LineError
  <2>3. Writes(FixMeta(line, e), after)
    BY <1>3, <2>1 DEF fix
  <2>4. MetaWeight(v, after) < MetaWeight(v, line)
    BY <1>3, <1>6, <2>2, <2>3, MetaLighter
  <2>5. MetaWeight(v, after) \in Nat /\ MetaWeight(v, line) \in Nat
    BY MetaParts
  <2>6. LineWeight(v, after) = 1 + MetaWeight(v, after) /\ LineWeight(v, line) = 1 + MetaWeight(v, line)
    BY <1>5, <2>1, LineWeighs
  <2>7. LineWeight(v, after) < LineWeight(v, line)
    BY ONLY <2>4, <2>5, <2>6
  <2> QED
    BY <1>3, <2>7
<1>7. CASE line \in BodyLines /\ e \in BodyErrors
  <2>1. line.kind = "body"
    BY <1>7 DEF BodyLines
  <2>2. BodyError(SourceOf(v, lines), line) = <<e>>
    BY <1>3, <2>1 DEF LineError
  <2>3. after \in BodyLines
    BY <1>5, <2>1, LineWeighs
  <2>4. KnownSource(SourceOf(v, lines))
    BY SourceIsKnown
  <2>5. Concerns(line, e)
    BY <1>7, <2>2, <2>4, BodyErrorConcerns
  <2>6. Writes(fix(line, e), after) /\ FixesOne(line, e) /\ after # line
    BY <1>1, <1>3
  <2>7. ColumnsLighter(line, after)
    BY <1>7, <2>3, <2>5, <2>6, BodyFixLighter
  <2>8. BodyWeight(after) < BodyWeight(line)
    BY <1>7, <2>3, <2>7, LineLighter
  <2>9. BodyWeight(after) \in Nat /\ BodyWeight(line) \in Nat
    BY <1>7, <2>3, ColumnsWeigh
  <2>10. LineWeight(v, after) = 1 + BodyWeight(after) /\ LineWeight(v, line) = 1 + BodyWeight(line)
    BY <1>5, <2>1, LineWeighs
  <2>11. LineWeight(v, after) < LineWeight(v, line)
    BY ONLY <2>8, <2>9, <2>10
  <2> QED
    BY <1>3, <2>11
<1> QED
  BY <1>2, <1>3, <1>6, <1>7

(* A line of the output is that of the input, or lighter. *)
LEMMA OutputLineLighter ==
  ASSUME FixesInv, OutputInOrder, NEW k \in 1..Len(output)
  PROVE  /\ output[k].at \in 1..Len(input) /\ output[k].line \in Lines
         /\ \/ output[k].line = input[output[k].at]
            \/ LineWeight(version, output[k].line) < LineWeight(version, input[output[k].at])
<1>1. output \in Seq(OutputItems) /\ input \in Seq(Lines)
  BY DEF FixesInv
<1>2. output[k] \in OutputItems
  BY <1>1, ElementOfSeq, Zenon
<1>3. PICK at, after : at = output[k].at /\ after = output[k].line
  OBVIOUS
<1>4. at \in 1..Len(input) /\ after \in Lines
  BY <1>2, <1>3 DEF OutputItems
<1>5. CASE ~HasErrors(at)
  <2>1. output[k].line = input[output[k].at]
    BY <1>3, <1>5, Zenon DEF OutputInOrder
  <2> QED
    BY <1>3, <1>4, <2>1
<1>6. CASE HasErrors(at)
  <2>1. PICK i \in 1..Len(errors) : errors[i].line = at
    BY <1>6 DEF HasErrors
  <2>2. errors \in Seq(ReportItems(version, input)) /\ FixedBy(input[at], errors[i].error, after)
    BY <1>3, <2>1 DEF FixesInv
  <2>3. PICK x \in ReportItems(version, input) : x = errors[i]
    BY <2>2, ElementOfSeq, Zenon
  <2>4. PICK e : e = x.error
    OBVIOUS
  <2>5. e = DuplicateError \/ LineError(version, input, at) = <<e>>
    BY <1>1, <1>4, <2>1, <2>3, <2>4 DEF ReportItems
  <2>6. Writes(fix(input[at], e), after)
    BY <2>2, <2>3, <2>4, Zenon DEF FixedBy, Writes
  <2>7. e # DuplicateError
    <3>1. SUFFICES ASSUME e = DuplicateError PROVE FALSE
      OBVIOUS
    <3>2. DuplicateError.type = "DuplicationError"
      BY DEF DuplicateError, Irrecoverable, Error
    <3>3. fix(input[at], e) = {Outcome(<< >>, 0)}
      BY <3>1, <3>2 DEF fix
    <3>4. Outcome(<< >>, 0).written = <<after>>
      BY <2>6, <3>3 DEF Writes
    <3> QED
      BY <3>4 DEF Outcome
  <2>8. LineError(version, input, at) = <<e>>
    BY <2>5, <2>7
  <2>9. PICK lines, v : lines = input /\ v = version
    OBVIOUS
  <2>10. /\ lines \in Seq(Lines) /\ at \in 1..Len(lines) /\ LineError(v, lines, at) = <<e>>
         /\ Writes(fix(lines[at], e), after)
    BY <1>1, <1>4, <2>6, <2>8, <2>9
  <2>11. after # lines[at] => LineWeight(v, after) < LineWeight(v, lines[at])
    BY <1>4, <2>10, FixLightens
  <2> QED
    BY <1>3, <1>4, <2>9, <2>11
<1> QED
  BY <1>5, <1>6

(* The weights of the lines of a file. *)
LineWeightsOf(v, lines) == [at \in 1..Len(lines) |-> LineWeight(v, lines[at])]

(* Their sum is the weight of the file. *)
LEMMA LineWeights ==
  ASSUME NEW v, NEW lines \in Seq(Lines), NEW w, w = LineWeightsOf(v, lines)
  PROVE  /\ w \in Seq(Nat) /\ Len(w) = Len(lines) /\ Weight(v, lines) = Total(w)
         /\ \A at \in 1..Len(lines) : w[at] = LineWeight(v, lines[at]) /\ w[at] \in Nat /\ w[at] >= 1
<1>1. PICK n \in Nat : n = Len(lines)
  OBVIOUS
<1>2. \A at \in 1..n : LineWeight(v, lines[at]) \in Nat /\ LineWeight(v, lines[at]) >= 1
  <2>1. ASSUME NEW at \in 1..n
        PROVE  LineWeight(v, lines[at]) \in Nat /\ LineWeight(v, lines[at]) >= 1
    <3>1. PICK line \in Lines : line = lines[at]
      BY <1>1, ElementOfSeq
    <3>2. LineWeight(v, line) \in Nat /\ LineWeight(v, line) >= 1
      BY LineWeighs
    <3> QED
      BY <3>1, <3>2
  <2> QED
    BY <2>1
<1>3. w = [at \in 1..n |-> LineWeight(v, lines[at])]
  BY <1>1 DEF LineWeightsOf
<1>4. w \in Seq(Nat) /\ Len(w) = n
  BY <1>2, <1>3
<1>5. Weight(v, lines) = Total(w)
  BY Zenon DEF Weight, LineWeightsOf
<1> QED
  BY <1>1, <1>2, <1>3, <1>4, <1>5

(* The lines of a file, some left out and some lighter. *)
LinesFrom(v, new, old, g) ==
  /\ new \in Seq(Lines) /\ old \in Seq(Lines) /\ g \in [1..Len(new) -> 1..Len(old)]
  /\ \A i, k \in 1..Len(new) : i < k => g[i] < g[k]
  /\ \A k \in 1..Len(new) : new[k] = old[g[k]] \/ LineWeight(v, new[k]) < LineWeight(v, old[g[k]])

(***************************************************************************)
(* The file is lighter if it is not the same: a line that is left out      *)
(* weighs something, and where all are there one of them is lighter.       *)
(***************************************************************************)
LEMMA LinesLighter ==
  ASSUME NEW v, NEW new, NEW old, NEW g, LinesFrom(v, new, old, g), new # old
  PROVE  Weight(v, new) < Weight(v, old)
<1>1. PICK u, w : u = LineWeightsOf(v, new) /\ w = LineWeightsOf(v, old)
  OBVIOUS
<1>2. new \in Seq(Lines) /\ old \in Seq(Lines)
  BY DEF LinesFrom
<1>3. /\ u \in Seq(Nat) /\ Len(u) = Len(new) /\ Weight(v, new) = Total(u)
      /\ \A k \in 1..Len(new) : u[k] = LineWeight(v, new[k]) /\ u[k] \in Nat
  BY <1>1, <1>2, LineWeights, Zenon
<1>4. /\ w \in Seq(Nat) /\ Len(w) = Len(old) /\ Weight(v, old) = Total(w)
      /\ \A k \in 1..Len(old) : w[k] = LineWeight(v, old[k]) /\ w[k] \in Nat /\ w[k] >= 1
  BY <1>1, <1>2, LineWeights, Zenon
<1>5. PICK m \in Nat, n \in Nat : m = Len(new) /\ n = Len(old)
  BY <1>2
<1>6. /\ g \in [1..m -> 1..n] /\ \A i, k \in 1..m : i < k => g[i] < g[k]
      /\ \A k \in 1..m : new[k] = old[g[k]] \/ LineWeight(v, new[k]) < LineWeight(v, old[g[k]])
  BY <1>5, Zenon DEF LinesFrom
<1>7. \A k \in 1..m : g[k] \in 1..n /\ u[k] <= w[g[k]] /\ (new[k] # old[g[k]] => u[k] < w[g[k]])
  <2>1. ASSUME NEW k \in 1..m
        PROVE  g[k] \in 1..n /\ u[k] <= w[g[k]] /\ (new[k] # old[g[k]] => u[k] < w[g[k]])
    <3>1. g[k] \in 1..n
      BY <1>6
    <3>2. PICK p \in 1..n : p = g[k]
      BY <3>1
    <3>3. u[k] = LineWeight(v, new[k]) /\ u[k] \in Nat /\ w[p] = LineWeight(v, old[p]) /\ w[p] \in Nat
      BY <1>3, <1>4, <1>5
    <3>4. new[k] = old[p] \/ u[k] < w[p]
      BY <1>6, <3>2, <3>3
    <3>5. new[k] = old[p] => u[k] = w[p]
      BY <3>3, Zenon
    <3>6. u[k] <= w[p] /\ (new[k] # old[p] => u[k] < w[p])
      BY <3>3, <3>4, <3>5
    <3> QED
      BY <3>2, <3>6
  <2> QED
    BY <2>1
<1>8. Fits(u, w, g)
  BY <1>3, <1>4, <1>5, <1>6, <1>7 DEF Fits
<1>9. \E p \in 1..n : \A k \in 1..m : g[k] = p => u[k] + 1 <= w[p]
  <2>1. CASE \E p \in 1..n : \A k \in 1..m : g[k] # p
    BY <2>1
  <2>2. CASE \A p \in 1..n : \E k \in 1..m : g[k] = p
    <3>1. Onto(m, n, g)
      BY <1>6, <2>2, Zenon DEF Onto
    <3>2. m = n /\ \A k \in 1..m : g[k] = k
      BY ONLY <3>1, OntoSame, Zenon
    <3>3. PICK k \in 1..m : new[k] # old[k]
      <4>1. SUFFICES ASSUME \A k \in 1..m : new[k] = old[k] PROVE FALSE
        OBVIOUS
      <4>2. Len(new) = Len(old) /\ \A k \in 1..Len(new) : new[k] = old[k]
        BY <1>5, <3>2, <4>1, Zenon
      <4>3. new = old
        BY ONLY <1>2, <4>2, SeqEqual
      <4> QED
        BY <4>3
    <3>4. u[k] < w[k] /\ k \in 1..n
      BY <1>7, <3>2, <3>3
    <3>5. u[k] \in Nat /\ w[k] \in Nat
      BY <1>3, <1>4, <1>5, <3>4
    <3>6. u[k] + 1 <= w[k]
      BY <3>4, <3>5
    <3>7. \A i \in 1..m : g[i] = k => i = k
      BY <3>2
    <3> QED
      BY <3>4, <3>6, <3>7
  <2> QED
    BY <2>1, <2>2
<1>10. PICK p \in 1..n : \A k \in 1..m : g[k] = p => u[k] + 1 <= w[p]
  BY <1>9
<1>11. PICK d \in Nat : d = 1
  OBVIOUS
<1>12. p \in 1..Len(w) /\ d <= w[p] /\ \A k \in 1..Len(u) : g[k] = p => u[k] + d <= w[p]
  BY <1>3, <1>4, <1>5, <1>10, <1>11
<1>13. Total(u) \in Nat /\ Total(w) \in Nat /\ Total(u) + d <= Total(w)
  BY <1>8, <1>12, FitsLess
<1>14. Total(u) < Total(w)
  BY <1>11, <1>13
<1> QED
  BY <1>3, <1>4, <1>14

(* The output of the debugulator is lighter than its input, or the same. *)
LEMMA OutputLighter ==
  ASSUME FixesInv, OutputInOrder, OutputLines # input
  PROVE  Weight(version, OutputLines) < Weight(version, input)
<1>1. PICK v, new, old : v = version /\ new = OutputLines /\ old = input
  OBVIOUS
<1>2. PICK out : out = output
  OBVIOUS
<1>3. /\ new \in Seq(Lines) /\ Len(out) \in Nat /\ Len(new) = Len(out)
      /\ \A k \in 1..Len(out) : new[k] = out[k].line
  BY <1>1, <1>2, OutputTyped
<1>4. old \in Seq(Lines)
  BY <1>1 DEF FixesInv
<1>5. \A k \in 1..Len(out) :
        /\ out[k].at \in 1..Len(old)
        /\ out[k].line = old[out[k].at] \/ LineWeight(v, out[k].line) < LineWeight(v, old[out[k].at])
  BY <1>1, <1>2, OutputLineLighter
<1>6. \A i, k \in 1..Len(out) : i < k => out[i].at < out[k].at
  BY <1>2, Zenon DEF OutputInOrder
<1>7. PICK g : g = [k \in 1..Len(out) |-> out[k].at]
  OBVIOUS
<1>8. g \in [1..Len(new) -> 1..Len(old)] /\ \A k \in 1..Len(new) : g[k] = out[k].at
  BY <1>3, <1>5, <1>7
<1>9. \A i, k \in 1..Len(new) : i < k => g[i] < g[k]
  BY <1>3, <1>6, <1>8
<1>10. \A k \in 1..Len(new) : new[k] = old[g[k]] \/ LineWeight(v, new[k]) < LineWeight(v, old[g[k]])
  BY <1>3, <1>5, <1>8
<1>11. LinesFrom(v, new, old, g)
  BY <1>3, <1>4, <1>8, <1>9, <1>10, Zenon DEF LinesFrom
<1>12. Weight(v, new) < Weight(v, old)
  BY <1>1, <1>11, LinesLighter
<1> QED
  BY <1>1, <1>12

(* What a file weighs is a natural number. *)
LEMMA WeightIsNatural ==
  ASSUME NEW v, NEW lines \in Seq(Lines)
  PROVE  Weight(v, lines) \in Nat
<1>1. PICK w : w = LineWeightsOf(v, lines)
  OBVIOUS
<1>2. w \in Seq(Nat) /\ Weight(v, lines) = Total(w)
  BY <1>1, LineWeights, Zenon
<1>3. PICK f : Sums(w, Len(w), f) /\ Total(w) = f[Len(w)]
  BY <1>2, TotalSums
<1>4. f[Len(w)] \in Nat
  BY <1>3 DEF Sums
<1> QED
  BY <1>2, <1>3, <1>4

(* The debugulator reads the file that was validated. *)
ReadsFile == stage = "fix" => input = file

(* That is an invariant. *)
LEMMA ReadsFileInvariant == RepairSpec => []ReadsFile
<1>1. RepairInit => ReadsFile
  BY DEF RepairInit, ReadsFile
<1>2. ReadsFile /\ [RepairNext]_repairVars => ReadsFile'
  <2> SUFFICES ASSUME ReadsFile, [RepairNext]_repairVars PROVE ReadsFile'
    OBVIOUS
  <2>1. CASE Validate
    BY <2>1 DEF Validate, Start, ReadsFile
  <2>2. CASE DebugulatorStep
    <3>1. FixVcfFile /\ UNCHANGED <<version, file, stage>>
      BY <2>2 DEF DebugulatorStep
    <3>2. UNCHANGED input
      BY <3>1 DEF FixVcfFile, Advance, CopyLine, FixError, TooShort, EndOfReport, ReturnIgnored
    <3> QED
      BY <3>1, <3>2 DEF ReadsFile
  <2>3. CASE NextRound
    BY <2>3 DEF NextRound, ReadsFile
  <2>4. CASE ValidatorFails \/ DebugulatorFails
    BY <2>4 DEF ValidatorFails, DebugulatorFails, ReadsFile
  <2>5. CASE UNCHANGED repairVars
    BY <2>5 DEF repairVars, debugulatorVars, ReadsFile
  <2> QED
    BY <2>1, <2>2, <2>3, <2>4, <2>5 DEF RepairNext
<1> QED
  BY <1>1, <1>2, PTL DEF RepairSpec

(* A step that changes the file makes it lighter. *)
LEMMA StepLightens ==
  ASSUME FixesInv, OutputInOrder, ReadsFile, [RepairNext]_repairVars, file' # file
  PROVE  Weight(version, file') < Weight(version, file)
<1>1. NextRound
  <2>1. ~UNCHANGED file
    OBVIOUS
  <2> QED
    BY <2>1 DEF RepairNext, Validate, ValidatorFails, DebugulatorStep, DebugulatorFails, repairVars
<1>2. stage = "fix" /\ OutputLines # input /\ file' = OutputLines
  BY <1>1 DEF NextRound
<1>3. input = file
  BY <1>2 DEF ReadsFile
<1> QED
  BY <1>2, <1>3, OutputLighter

(***************************************************************************)
(* EachRoundLightens, for any files: no fix undoes another one.  A round   *)
(* of the two programs that changes a file leaves less of it to fix.       *)
(***************************************************************************)
THEOREM RoundsLighten == RepairSpec => EachRoundLightens
<1>1. FixesInv /\ OutputInOrder /\ ReadsFile /\ [RepairNext]_repairVars
        => [file' # file => Weight(version, file') < Weight(version, file)]_repairVars
  BY StepLightens
<1> QED
  BY <1>1, FixesInvariant, OutputStaysInOrder, ReadsFileInvariant, PTL DEF RepairSpec, EachRoundLightens

(***************************************************************************)
(* The weight of every file, in every round, is a natural number: it does  *)
(* not become less for ever.                                               *)
(***************************************************************************)
THEOREM WeightStaysNatural == RepairSpec => [](Weight(version, file) \in Nat)
<1>1. FixesInv => Weight(version, file) \in Nat
  BY WeightIsNatural DEF FixesInv
<1> QED
  BY <1>1, FixesInvariant, PTL
=============================================================================
