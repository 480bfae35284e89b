---------------------------- MODULE ScriptsProofs ----------------------------
(* The scripts beside the model: what Reconcile and GoldenSuite promise, for   *)
(* every bound, input and world.                                              *)
(*                                                                            *)
(* Both models pick subsequences and fold over sequences, so the module       *)
(* starts with what those operators do.  Induction on lengths is taken from   *)
(* the well-foundedness of < on Nat.  Then the inductive invariant of each    *)
(* specification, a lemma per action, and the theorems.                       *)
EXTENDS Reconcile, GoldenSuite, TLAPS, FiniteSetTheorems, WellFoundedInduction

(****************************************************************************)
(* Sequences, folds and subsequences.                                         *)
(****************************************************************************)

LEMMA SetInduction ==
    ASSUME NEW A, A \subseteq Nat, 0 \in A, \A n \in A : n + 1 \in A
    PROVE  A = Nat
  <1> SUFFICES ASSUME NEW a \in Nat \ A PROVE FALSE
    OBVIOUS
  <1> DEFINE T == Nat \ A
  <1>1. IsWellFoundedOn(OpToRel(<, Nat), Nat)
    BY NatLessThanWellFounded
  <1>2. PICK x \in T : \A y \in T : ~(<<y, x>> \in OpToRel(<, Nat))
    BY <1>1, WFMin
  <1>3. x \in Nat /\ x # 0
    BY <1>2
  <1>4. x - 1 \in Nat /\ <<x - 1, x>> \in OpToRel(<, Nat)
    BY <1>3 DEF OpToRel
  <1>5. x - 1 \in A
    BY <1>2, <1>4
  <1>6. (x - 1) + 1 \in A
    BY <1>5
  <1>7. (x - 1) + 1 = x
    BY <1>3
  <1> QED BY <1>2, <1>6, <1>7

(* ------------------------------------------------------------------------ *)
(* Folds of a sequence.                                                       *)

LEMMA MaxOfFinite ==
    ASSUME NEW n \in Nat, NEW X \in SUBSET (1..n), X # {}
    PROVE  Max(X) \in X /\ \A y \in X : Max(X) >= y
  <1> DEFINE A == {k \in Nat : \A Y \in SUBSET (1..k) : Y # {} => \E x \in Y : \A y \in Y : x >= y}
  <1>1. 0 \in A
    <2>1. 1..0 = {}
      OBVIOUS
    <2> QED BY <2>1
  <1>2. ASSUME NEW k \in A PROVE k + 1 \in A
    <2>1. ASSUME NEW Y \in SUBSET (1..(k + 1)), Y # {} PROVE \E x \in Y : \A y \in Y : x >= y
      <3>1. CASE k + 1 \in Y
        BY <3>1
      <3>2. CASE k + 1 \notin Y
        <4>1. Y \in SUBSET (1..k)
          BY <3>2
        <4> QED BY <4>1, <2>1, <1>2
      <3> QED BY <3>1, <3>2
    <2> QED BY <2>1
  <1>3. A = Nat
    <2> HIDE DEF A
    <2>1. A \subseteq Nat
      BY DEF A
    <2> QED BY <1>1, <1>2, <2>1, SetInduction
  <1>4. \E x \in X : \A y \in X : x >= y
    BY <1>3
  <1> QED BY <1>4 DEF Max

(* What a fold of step over the indices D is, at every set of them: the       *)
(* function a MapThenFoldSet is written as, of values V.                      *)
Folds(base, step, D, h) ==
    h = [X \in SUBSET D |-> IF X = {} THEN base ELSE step[<<h[X \ {Max(X)}], Max(X)>>]]

LEMMA FoldExists ==
    ASSUME NEW n \in Nat, NEW V, NEW base \in V, NEW step \in [V \X (1..n) -> V]
    PROVE  \E h : h \in [SUBSET (1..n) -> V] /\ Folds(base, step, 1..n, h)
  <1> DEFINE D(k) == {X \in SUBSET (1..n) : Cardinality(X) <= k}
             Is(k, f) == /\ f \in [D(k) -> V]
                         /\ f = [X \in D(k) |-> IF X = {} THEN base ELSE step[<<f[X \ {Max(X)}], Max(X)>>]]
             A == {k \in Nat : \E f : Is(k, f)}
  <1>0. \A X \in SUBSET (1..n) : IsFiniteSet(X) /\ Cardinality(X) \in Nat /\ (Cardinality(X) = 0 <=> X = {})
    <2>1. IsFiniteSet(1..n)
      BY FS_Interval
    <2>2. \A X \in SUBSET (1..n) : IsFiniteSet(X)
      BY <2>1, FS_Subset
    <2> QED BY <2>2, FS_CardinalityType, FS_EmptySet
  <1>a. ASSUME NEW X \in SUBSET (1..n), X # {}
        PROVE  Max(X) \in 1..n /\ X \ {Max(X)} \in SUBSET (1..n) /\ Cardinality(X \ {Max(X)}) = Cardinality(X) - 1
    BY <1>0, <1>a, MaxOfFinite, FS_RemoveElement
  <1>1. 0 \in A
    <2>1. D(0) = {{}}
      BY <1>0
    <2>2. Is(0, [X \in D(0) |-> base])
      BY <2>1
    <2> QED BY <2>2
  <1>2. ASSUME NEW k \in A PROVE k + 1 \in A
    <2>1. PICK f : Is(k, f)
      OBVIOUS
    <2> DEFINE g == [X \in D(k + 1) |-> IF X \in D(k) THEN f[X] ELSE step[<<f[X \ {Max(X)}], Max(X)>>]]
    <2>0. D(k) \subseteq D(k + 1) /\ {} \in D(k) /\ k \in Nat
      BY <1>0, FS_EmptySet
    <2>2. ASSUME NEW X \in D(k + 1), X # {} PROVE X \ {Max(X)} \in D(k) /\ Max(X) \in 1..n
      <3>1. X \in SUBSET (1..n) /\ Cardinality(X) <= k + 1
        BY <2>2
      <3>2. X \ {Max(X)} \in SUBSET (1..n) /\ Cardinality(X \ {Max(X)}) = Cardinality(X) - 1 /\ Max(X) \in 1..n
        BY <2>2, <3>1, <1>a
      <3>3. Cardinality(X \ {Max(X)}) <= k
        BY <3>1, <3>2, <2>0, <1>0
      <3> QED BY <3>2, <3>3
    <2>3. \A X \in D(k) : g[X] = f[X]
      BY <2>0
    <2>4. ASSUME NEW X \in D(k + 1)
          PROVE  g[X] \in V /\ g[X] = IF X = {} THEN base ELSE step[<<g[X \ {Max(X)}], Max(X)>>]
      <3>1. CASE X = {}
        <4>1. f[X] = base
          BY <3>1, <2>0, <2>1
        <4> QED BY <3>1, <4>1, <2>0, <2>3
      <3>2. CASE X # {} /\ X \in D(k)
        <4>1. f[X] = step[<<f[X \ {Max(X)}], Max(X)>>] /\ f[X] \in V
          BY <3>2, <2>1
        <4>2. g[X] = f[X] /\ g[X \ {Max(X)}] = f[X \ {Max(X)}]
          BY <3>2, <2>2, <2>3
        <4> HIDE DEF g
        <4> QED BY <3>2, <4>1, <4>2
      <3>3. CASE X # {} /\ X \notin D(k)
        <4>1. g[X] = step[<<f[X \ {Max(X)}], Max(X)>>]
          BY <3>3
        <4>2. X \ {Max(X)} \in D(k) /\ Max(X) \in 1..n
          BY <3>3, <2>2
        <4>3. f[X \ {Max(X)}] \in V /\ g[X \ {Max(X)}] = f[X \ {Max(X)}]
          BY <4>2, <2>1, <2>3
        <4> HIDE DEF g, D
        <4> QED BY <3>3, <4>1, <4>2, <4>3
      <3> QED BY <3>1, <3>2, <3>3
    <2>5. g = [X \in D(k + 1) |-> g[X]]
      OBVIOUS
    <2> HIDE DEF g, D
    <2>6. g \in [D(k + 1) -> V]
      BY <2>4, <2>5
    <2>7. g = [X \in D(k + 1) |-> IF X = {} THEN base ELSE step[<<g[X \ {Max(X)}], Max(X)>>]]
      <3>1. \A X \in D(k + 1) : g[X] = IF X = {} THEN base ELSE step[<<g[X \ {Max(X)}], Max(X)>>]
        BY <2>4
      <3> DEFINE of(X) == IF X = {} THEN base ELSE step[<<g[X \ {Max(X)}], Max(X)>>]
      <3>2. \A X \in D(k + 1) : g[X] = of(X)
        BY <3>1
      <3> HIDE DEF of
      <3>3. g = [X \in D(k + 1) |-> of(X)]
        BY <3>2, <2>5
      <3> QED BY <3>3 DEF of
    <2>8. Is(k + 1, g)
      BY <2>6, <2>7
    <2> HIDE DEF Is
    <2> QED BY <2>8, <2>0
  <1>3. A = Nat
    <2> HIDE DEF A
    <2>1. A \subseteq Nat
      BY DEF A
    <2> QED BY <1>1, <1>2, <2>1, SetInduction
  <1>4. D(n) = SUBSET (1..n)
    <2>1. Cardinality(1..n) = IF 1 > n THEN 0 ELSE n - 1 + 1
      BY FS_Interval
    <2>2. Cardinality(1..n) = n /\ IsFiniteSet(1..n)
      BY <2>1, FS_Interval
    <2>3. ASSUME NEW X \in SUBSET (1..n) PROVE Cardinality(X) <= n
      <3>1. Cardinality(X) <= Cardinality(1..n)
        BY <2>2, FS_Subset
      <3> QED BY <3>1, <2>2
    <2> QED BY <2>3
  <1>5. PICK f : Is(n, f)
    BY <1>3
  <1> HIDE DEF D
  <1> QED BY <1>4, <1>5 DEF Folds

LEMMA NoPrefix == 1..0 = {}
  OBVIOUS

LEMMA Prefix ==
    ASSUME NEW n \in Nat, NEW i \in 1..n
    PROVE  /\ 1..i \in SUBSET (1..n) /\ 1..i # {}
           /\ Max(1..i) = i /\ (1..i) \ {i} = 1..(i - 1)
  <1>0. i \in Nat /\ 1 <= i /\ i <= n
    OBVIOUS
  <1>1. 1..i \in SUBSET (1..n) /\ i \in 1..i
    BY <1>0
  <1>2. Max(1..i) = i
    <2>1. Max(1..i) \in 1..i /\ \A y \in 1..i : Max(1..i) >= y
      BY <1>1, MaxOfFinite
    <2> QED BY <2>1, <1>1
  <1>3. (1..i) \ {i} = 1..(i - 1)
    <2>1. ASSUME NEW x PROVE x \in (1..i) \ {i} <=> x \in 1..(i - 1)
      BY <1>0
    <2> QED BY <2>1
  <1> QED BY <1>1, <1>2, <1>3

(* ------------------------------------------------------------------------ *)
(* Within.                                                                    *)

Picking(s, S, V) == [v \in V \X (1..Len(s)) |-> IF s[v[2]] \in S THEN Append(v[1], s[v[2]]) ELSE v[1]]
PickFold(s, S, D, h) ==
    h = [X \in SUBSET D |->
            IF X = {} THEN <<>>
            ELSE IF s[Max(X)] \in S THEN Append(h[X \ {Max(X)}], s[Max(X)]) ELSE h[X \ {Max(X)}]]

LEMMA WithinFold ==
    ASSUME NEW s, NEW S
    PROVE  Within(s, S) = (CHOOSE h : PickFold(s, S, DOMAIN s, h))[DOMAIN s]
  BY DEF Within, FoldLeft, MapThenFoldSet, PickFold

LEMMA PickFoldExists ==
    ASSUME NEW T, NEW s \in Seq(T), NEW S
    PROVE  \E h : PickFold(s, S, DOMAIN s, h)
  <1> DEFINE n == Len(s)
             V == Seq(T)
             step == Picking(s, S, V)
  <1>1. n \in Nat /\ DOMAIN s = 1..n /\ \A i \in 1..n : s[i] \in T
    OBVIOUS
  <1>2. step \in [V \X (1..n) -> V]
    BY <1>1 DEF Picking
  <1>3. <<>> \in V
    OBVIOUS
  <1>4. \A v \in V, i \in 1..n : step[<<v, i>>] = IF s[i] \in S THEN Append(v, s[i]) ELSE v
    BY DEF Picking
  <1> HIDE DEF step, V, n
  <1>5. PICK h : h \in [SUBSET (1..n) -> V] /\ Folds(<<>>, step, 1..n, h)
    BY <1>1, <1>2, <1>3, FoldExists
  <1> DEFINE of(X) == IF X = {} THEN <<>>
                      ELSE IF s[Max(X)] \in S THEN Append(h[X \ {Max(X)}], s[Max(X)]) ELSE h[X \ {Max(X)}]
  <1>6. ASSUME NEW X \in SUBSET (1..n) PROVE h[X] = of(X)
    <2>1. CASE X = {}
      BY <2>1, <1>5 DEF Folds
    <2>2. CASE X # {}
      <3>1. Max(X) \in 1..n /\ X \ {Max(X)} \in SUBSET (1..n)
        BY <1>1, <2>2, MaxOfFinite
      <3>2. h[X] = step[<<h[X \ {Max(X)}], Max(X)>>]
        BY <2>2, <1>5 DEF Folds
      <3>3. h[X \ {Max(X)}] \in V
        BY <3>1, <1>5
      <3>4. step[<<h[X \ {Max(X)}], Max(X)>>] =
              IF s[Max(X)] \in S THEN Append(h[X \ {Max(X)}], s[Max(X)]) ELSE h[X \ {Max(X)}]
        BY <1>4, <3>1, <3>3
      <3> QED BY <2>2, <3>2, <3>4
    <2> QED BY <2>1, <2>2
  <1> HIDE DEF of
  <1>7. h = [X \in SUBSET (1..n) |-> of(X)]
    BY <1>5, <1>6
  <1>8. PickFold(s, S, DOMAIN s, h)
    BY <1>1, <1>7 DEF PickFold, of
  <1> QED BY <1>8

(* What has been picked of s when its first i elements have been seen.        *)
Picks(s, S, f) ==
    /\ DOMAIN f = 0..Len(s)
    /\ f[0] = <<>>
    /\ \A i \in 1..Len(s) : f[i] = IF s[i] \in S THEN Append(f[i - 1], s[i]) ELSE f[i - 1]

LEMMA WithinPicks ==
    ASSUME NEW T, NEW s \in Seq(T), NEW S
    PROVE  \E f : Picks(s, S, f) /\ Within(s, S) = f[Len(s)]
  <1> DEFINE n == Len(s)
             h == CHOOSE h : PickFold(s, S, DOMAIN s, h)
             f == [i \in 0..n |-> h[1..i]]
  <1>1. n \in Nat /\ DOMAIN s = 1..n
    OBVIOUS
  <1>2. PickFold(s, S, 1..n, h)
    BY <1>1, PickFoldExists
  <1>3. Within(s, S) = h[1..n]
    BY <1>1, WithinFold
  <1> HIDE DEF h, n
  <1>4. f[0] = <<>>
    <2>1. h[1..0] = <<>>
      <3>1. {} \in SUBSET (1..n)
        OBVIOUS
      <3> QED BY <1>2, <3>1, NoPrefix DEF PickFold
    <2> QED BY <2>1, <1>1
  <1>5. ASSUME NEW i \in 1..n
        PROVE  f[i] = IF s[i] \in S THEN Append(f[i - 1], s[i]) ELSE f[i - 1]
    <2>1. /\ 1..i \in SUBSET (1..n) /\ 1..i # {}
          /\ Max(1..i) = i /\ (1..i) \ {Max(1..i)} = 1..(i - 1)
      BY <1>1, Prefix
    <2>2. h[1..i] = IF s[Max(1..i)] \in S THEN Append(h[(1..i) \ {Max(1..i)}], s[Max(1..i)])
                                          ELSE h[(1..i) \ {Max(1..i)}]
      BY <2>1, <1>2 DEF PickFold
    <2>3. f[i] = h[1..i] /\ f[i - 1] = h[1..(i - 1)]
      BY <1>1
    <2> HIDE DEF f
    <2> QED BY <2>1, <2>2, <2>3
  <1>6. f[n] = h[1..n] /\ DOMAIN f = 0..n
    BY <1>1
  <1> HIDE DEF f
  <1>7. Picks(s, S, f)
    BY <1>4, <1>5, <1>6 DEF Picks, n
  <1> QED BY <1>3, <1>6, <1>7 DEF n

LEMMA SequenceInduction ==
    ASSUME NEW T, NEW A, A \subseteq Seq(T), <<>> \in A, \A s \in A, x \in T : Append(s, x) \in A
    PROVE  A = Seq(T)
  <1> DEFINE B == {n \in Nat : \A s \in Seq(T) : Len(s) = n => s \in A}
  <1>1. 0 \in B
    <2>1. ASSUME NEW s \in Seq(T), Len(s) = 0 PROVE s = <<>>
      BY <2>1
    <2> QED BY <2>1
  <1>2. ASSUME NEW n \in B PROVE n + 1 \in B
    <2>1. ASSUME NEW s \in Seq(T), Len(s) = n + 1 PROVE s \in A
      <3> DEFINE r == [i \in 1..n |-> s[i]]
      <3>1. r \in Seq(T) /\ Len(r) = n /\ s[n + 1] \in T
        BY <2>1
      <3>2. s = Append(r, s[n + 1])
        BY <2>1
      <3> HIDE DEF r
      <3>3. r \in A
        BY <3>1
      <3> QED BY <3>1, <3>2, <3>3
    <2> QED BY <2>1
  <1>3. B = Nat
    <2> HIDE DEF B
    <2>1. B \subseteq Nat
      BY DEF B
    <2> QED BY <1>1, <1>2, <2>1, SetInduction
  <1>4. ASSUME NEW s \in Seq(T) PROVE s \in A
    <2>1. Len(s) \in B
      BY <1>3
    <2> QED BY <2>1
  <1> QED BY <1>4

LEMMA WithinNothing == ASSUME NEW S PROVE Within(<<>>, S) = <<>>
  <1>1. <<>> \in Seq({}) /\ Len(<<>>) = 0
    OBVIOUS
  <1>2. PICK f : Picks(<<>>, S, f) /\ Within(<<>>, S) = f[Len(<<>>)]
    BY <1>1, WithinPicks
  <1> QED BY <1>1, <1>2 DEF Picks

LEMMA WithinAppend ==
    ASSUME NEW T, NEW s \in Seq(T), NEW x \in T, NEW S
    PROVE  Within(Append(s, x), S) = IF x \in S THEN Append(Within(s, S), x) ELSE Within(s, S)
  <1> DEFINE n == Len(s)
             u == Append(s, x)
  <1>1. n \in Nat /\ u \in Seq(T) /\ Len(u) = n + 1 /\ u[n + 1] = x /\ \A i \in 1..n : u[i] = s[i]
    OBVIOUS
  <1> HIDE DEF u
  <1>2. PICK f : Picks(s, S, f) /\ Within(s, S) = f[n]
    BY WithinPicks
  <1>3. PICK g : Picks(u, S, g) /\ Within(u, S) = g[n + 1]
    BY <1>1, WithinPicks
  <1> HIDE DEF n
  <1> DEFINE A == {i \in Nat : i <= n => f[i] = g[i]}
  <1>4. 0 \in A
    BY <1>2, <1>3 DEF Picks
  <1>5. ASSUME NEW i \in A PROVE i + 1 \in A
    <2>1. CASE i + 1 <= n
      <3>1. i + 1 \in 1..n /\ i + 1 \in 1..Len(u) /\ (i + 1) - 1 = i /\ f[i] = g[i]
        BY <1>1, <2>1
      <3>2. f[i + 1] = IF s[i + 1] \in S THEN Append(f[i], s[i + 1]) ELSE f[i]
        BY <1>2, <3>1 DEF Picks, n
      <3>3. g[i + 1] = IF u[i + 1] \in S THEN Append(g[i], u[i + 1]) ELSE g[i]
        BY <1>3, <3>1 DEF Picks
      <3> QED BY <1>1, <3>1, <3>2, <3>3
    <2>2. CASE ~(i + 1 <= n)
      BY <2>2
    <2> QED BY <2>1, <2>2
  <1>6. A = Nat
    <2> HIDE DEF A
    <2>1. A \subseteq Nat
      BY DEF A
    <2> QED BY <1>4, <1>5, <2>1, SetInduction
  <1>7. f[n] = g[n]
    BY <1>1, <1>6
  <1>8. g[n + 1] = IF x \in S THEN Append(g[n], x) ELSE g[n]
    <2>1. n + 1 \in 1..Len(u) /\ (n + 1) - 1 = n
      BY <1>1
    <2> QED BY <1>1, <1>3, <2>1 DEF Picks
  <1> QED BY <1>2, <1>3, <1>7, <1>8 DEF u

LEMMA NoElements == ToSet(<<>>) = {}
  BY DEF ToSet

LEMMA Elements ==
    ASSUME NEW T, NEW s \in Seq(T)
    PROVE  ToSet(s) \subseteq T
  BY DEF ToSet

LEMMA OwnElements ==
    ASSUME NEW T, NEW s \in Seq(T)
    PROVE  s \in Seq(ToSet(s))
  BY DEF ToSet

LEMMA AppendElements ==
    ASSUME NEW T, NEW s \in Seq(T), NEW x \in T
    PROVE  ToSet(Append(s, x)) = ToSet(s) \cup {x}
  <1>1. /\ Len(Append(s, x)) = Len(s) + 1 /\ Append(s, x)[Len(s) + 1] = x
        /\ \A i \in 1..Len(s) : Append(s, x)[i] = s[i]
        /\ DOMAIN Append(s, x) = 1..(Len(s) + 1) /\ DOMAIN s = 1..Len(s) /\ Len(s) \in Nat
    OBVIOUS
  <1>2. 1..(Len(s) + 1) = 1..Len(s) \cup {Len(s) + 1}
    BY <1>1
  <1> QED BY <1>1, <1>2 DEF ToSet

LEMMA ConcatElements ==
    ASSUME NEW T, NEW s \in Seq(T), NEW u \in Seq(T)
    PROVE  ToSet(s \o u) = ToSet(s) \cup ToSet(u)
  <1>1. /\ DOMAIN (s \o u) = 1..(Len(s) + Len(u)) /\ DOMAIN s = 1..Len(s) /\ DOMAIN u = 1..Len(u)
        /\ Len(s) \in Nat /\ Len(u) \in Nat
        /\ \A i \in 1..Len(s) : (s \o u)[i] = s[i]
        /\ \A i \in 1..Len(u) : (s \o u)[Len(s) + i] = u[i]
    OBVIOUS
  <1>2. ASSUME NEW i \in 1..(Len(s) + Len(u)) PROVE (s \o u)[i] \in ToSet(s) \cup ToSet(u)
    <2>1. CASE i <= Len(s)
      BY <1>1, <2>1 DEF ToSet
    <2>2. CASE i > Len(s)
      <3>1. i - Len(s) \in 1..Len(u) /\ Len(s) + (i - Len(s)) = i
        BY <1>1, <2>2
      <3> QED BY <1>1, <3>1 DEF ToSet
    <2> QED BY <1>1, <2>1, <2>2
  <1>3. \A i \in 1..Len(s) : i \in 1..(Len(s) + Len(u))
    BY <1>1
  <1>4. \A i \in 1..Len(u) : Len(s) + i \in 1..(Len(s) + Len(u))
    BY <1>1
  <1>5. ToSet(s) \subseteq ToSet(s \o u)
    BY <1>1, <1>3 DEF ToSet
  <1>6. ToSet(u) \subseteq ToSet(s \o u)
    BY <1>1, <1>4 DEF ToSet
  <1>7. ToSet(s \o u) \subseteq ToSet(s) \cup ToSet(u)
    <2>1. \A x \in ToSet(s \o u) : \E i \in 1..(Len(s) + Len(u)) : x = (s \o u)[i]
      BY <1>1 DEF ToSet
    <2> QED BY <1>2, <2>1
  <1> QED BY <1>5, <1>6, <1>7

LEMMA Same ==
    ASSUME NEW T, NEW s \in Seq(T), NEW t \in Seq(T), Len(s) = Len(t), \A i \in 1..Len(s) : s[i] = t[i]
    PROVE  s = t
  <1>1. s = [i \in 1..Len(s) |-> s[i]] /\ t = [i \in 1..Len(t) |-> t[i]]
    OBVIOUS
  <1> QED BY <1>1

LEMMA ConcatNothing ==
    ASSUME NEW T, NEW s \in Seq(T)
    PROVE  s \o <<>> = s
  <1>1. <<>> \in Seq(T) /\ Len(<<>>) = 0
    OBVIOUS
  <1>2. s \o <<>> \in Seq(T) /\ Len(s \o <<>>) = Len(s)
    BY <1>1
  <1>3. \A i \in 1..Len(s) : (s \o <<>>)[i] = s[i]
    BY <1>1
  <1> QED BY <1>2, <1>3, Same

Associates(s, r, x) == s \o Append(r, x) = Append(s \o r, x)

LEMMA ConcatAppend ==
    ASSUME NEW T, NEW s \in Seq(T), NEW r \in Seq(T), NEW x \in T
    PROVE  Associates(s, r, x)
  <1> DEFINE u == s \o Append(r, x)
             w == Append(s \o r, x)
  <1>1. u \in Seq(T) /\ w \in Seq(T) /\ Len(u) = Len(s) + Len(r) + 1 /\ Len(w) = Len(s) + Len(r) + 1
    OBVIOUS
  <1>2. ASSUME NEW i \in 1..(Len(s) + Len(r) + 1) PROVE u[i] = w[i]
    <2>1. CASE i <= Len(s)
      BY <2>1
    <2>2. CASE i > Len(s) /\ i <= Len(s) + Len(r)
      <3>1. w[i] = (s \o r)[i] /\ (s \o r)[i] = r[i - Len(s)]
        BY <2>2
      <3>2. u[i] = Append(r, x)[i - Len(s)] /\ Append(r, x)[i - Len(s)] = r[i - Len(s)]
        BY <2>2
      <3> QED BY <3>1, <3>2
    <2>3. CASE i = Len(s) + Len(r) + 1
      <3>1. w[i] = x
        BY <2>3
      <3>2. u[i] = Append(r, x)[Len(r) + 1]
        BY <2>3
      <3> QED BY <3>1, <3>2
    <2> QED BY <2>1, <2>2, <2>3
  <1> HIDE DEF u, w
  <1>3. u = w
    BY <1>1, <1>2, Same
  <1> QED BY <1>3, Zenon DEF u, w, Associates

LEMMA Beginning ==
    ASSUME NEW T, NEW s \in Seq(T), NEW n \in 0..Len(s)
    PROVE  SubSeq(s, 1, n) \in Seq(T) /\ ToSet(SubSeq(s, 1, n)) \subseteq ToSet(s)
  <1>1. n \in Nat /\ n <= Len(s) /\ Len(s) \in Nat
    OBVIOUS
  <1>2. SubSeq(s, 1, n) \in Seq(T) /\ Len(SubSeq(s, 1, n)) = n
    BY <1>1
  <1>3. \A i \in 1..n : SubSeq(s, 1, n)[i] = s[i] /\ i \in DOMAIN s
    BY <1>1
  <1>4. DOMAIN SubSeq(s, 1, n) = 1..n
    BY <1>2
  <1> HIDE DEF ToSet
  <1>5. ToSet(SubSeq(s, 1, n)) \subseteq ToSet(s)
    BY <1>3, <1>4 DEF ToSet
  <1> QED BY <1>2, <1>5

LEMMA WithinIs ==
    ASSUME NEW T, NEW s \in Seq(T), NEW S
    PROVE  Within(s, S) \in Seq(T) /\ ToSet(Within(s, S)) = ToSet(s) \cap S
  <1> DEFINE A == {r \in Seq(T) : Within(r, S) \in Seq(T) /\ ToSet(Within(r, S)) = ToSet(r) \cap S}
  <1>1. <<>> \in A
    <2>1. <<>> \in Seq(T)
      OBVIOUS
    <2> QED BY <2>1, WithinNothing, NoElements
  <1>2. ASSUME NEW r \in A, NEW x \in T PROVE Append(r, x) \in A
    <2>1. /\ Within(r, S) \in Seq(T) /\ r \in Seq(T) /\ ToSet(Within(r, S)) = ToSet(r) \cap S
          /\ Append(r, x) \in Seq(T)
      OBVIOUS
    <2>2. Within(Append(r, x), S) = IF x \in S THEN Append(Within(r, S), x) ELSE Within(r, S)
      BY <2>1, WithinAppend
    <2>3. ToSet(Append(r, x)) = ToSet(r) \cup {x} /\ ToSet(Append(Within(r, S), x)) = ToSet(Within(r, S)) \cup {x}
      BY <2>1, AppendElements
    <2> DEFINE w == Within(Append(r, x), S)
    <2>4. CASE x \in S
      <3>1. w = Append(Within(r, S), x)
        BY <2>2, <2>4
      <3>2. w \in Seq(T)
        BY <2>1, <3>1
      <3>3. ToSet(w) = ToSet(Append(r, x)) \cap S
        <4>1. ToSet(w) = ToSet(Within(r, S)) \cup {x}
          BY <2>3, <3>1
        <4> HIDE DEF w
        <4> QED BY <2>1, <2>3, <2>4, <4>1
      <3> HIDE DEF w
      <3>4. Append(r, x) \in {q \in Seq(T) : Within(q, S) \in Seq(T) /\ ToSet(Within(q, S)) = ToSet(q) \cap S}
        BY <2>1, <3>2, <3>3, Zenon DEF w
      <3> QED BY <3>4, Zenon
    <2>5. CASE x \notin S
      BY <2>1, <2>2, <2>3, <2>5
    <2> QED BY <2>4, <2>5
  <1>3. A = Seq(T)
    <2> HIDE DEF A
    <2>1. A \subseteq Seq(T)
      BY DEF A
    <2> QED BY <1>1, <1>2, <2>1, SequenceInduction
  <1> QED BY <1>3

LEMMA WithinConcat ==
    ASSUME NEW T, NEW s \in Seq(T), NEW u \in Seq(T), NEW S
    PROVE  Within(s \o u, S) = Within(s, S) \o Within(u, S)
  <1> DEFINE A == {r \in Seq(T) : Within(s \o r, S) = Within(s, S) \o Within(r, S)}
  <1>0. Within(s, S) \in Seq(T)
    BY WithinIs
  <1>1. <<>> \in A
    <2>1. s \o <<>> = s /\ Within(s, S) \o <<>> = Within(s, S)
      BY <1>0, ConcatNothing
    <2>2. Within(<<>>, S) = <<>> /\ <<>> \in Seq(T)
      BY WithinNothing
    <2> QED BY <2>1, <2>2
  <1>2. ASSUME NEW r \in A, NEW x \in T PROVE Append(r, x) \in A
    <2>0. r \in Seq(T) /\ Append(r, x) \in Seq(T) /\ s \o r \in Seq(T)
      OBVIOUS
    <2>1. Within(r, S) \in Seq(T)
      BY <2>0, WithinIs
    <2>2. s \o Append(r, x) = Append(s \o r, x)
      <3>1. Associates(s, r, x)
        BY <2>0, ConcatAppend
      <3> QED BY <3>1, Zenon DEF Associates
    <2>3. Within(Append(s \o r, x), S) = IF x \in S THEN Append(Within(s \o r, S), x) ELSE Within(s \o r, S)
      <3> DEFINE q == s \o r
      <3>1. q \in Seq(T)
        BY <2>0
      <3> HIDE DEF q
      <3>2. Within(Append(q, x), S) = IF x \in S THEN Append(Within(q, S), x) ELSE Within(q, S)
        BY <3>1, WithinAppend
      <3> QED BY <3>2, Zenon DEF q
    <2>4. Within(Append(r, x), S) = IF x \in S THEN Append(Within(r, S), x) ELSE Within(r, S)
      BY <2>0, WithinAppend
    <2>5. Append(Within(s, S) \o Within(r, S), x) = Within(s, S) \o Append(Within(r, S), x)
      <3>1. Associates(Within(s, S), Within(r, S), x)
        BY <1>0, <2>1, ConcatAppend
      <3> QED BY <3>1, Zenon DEF Associates
    <2>6. Within(s \o r, S) = Within(s, S) \o Within(r, S)
      BY <2>0
    <2>7. Within(s \o Append(r, x), S) = Within(s, S) \o Within(Append(r, x), S)
      BY <2>2, <2>3, <2>4, <2>5, <2>6
    <2> QED BY <2>0, <2>7
  <1>3. A = Seq(T)
    <2> HIDE DEF A
    <2>1. A \subseteq Seq(T)
      BY DEF A
    <2> QED BY <1>1, <1>2, <2>1, SequenceInduction
  <1> QED BY <1>3

(* Two sequences that have the same picks at the same places.                 *)
Alike(s, S, t, R) ==
    /\ Len(s) = Len(t)
    /\ \A i \in 1..Len(s) : (s[i] \in S <=> t[i] \in R) /\ (s[i] \in S => s[i] = t[i])

LEMMA Unsnoc ==
    ASSUME NEW T, NEW t \in Seq(T), NEW n \in Nat, Len(t) = n + 1
    PROVE  \E v \in Seq(T), y \in T : t = Append(v, y) /\ Len(v) = n
  <1> DEFINE v == [i \in 1..n |-> t[i]]
  <1>1. v \in Seq(T) /\ Len(v) = n /\ t[n + 1] \in T
    OBVIOUS
  <1>2. t = Append(v, t[n + 1])
    OBVIOUS
  <1> HIDE DEF v
  <1> QED BY <1>1, <1>2

LEMMA WithinAlike ==
    ASSUME NEW T, NEW s \in Seq(T), NEW t \in Seq(T), NEW S, NEW R, Alike(s, S, t, R)
    PROVE  Within(s, S) = Within(t, R)
  <1> DEFINE A == {r \in Seq(T) : \A v \in Seq(T) : Alike(r, S, v, R) => Within(r, S) = Within(v, R)}
  <1>1. <<>> \in A
    <2>1. ASSUME NEW v \in Seq(T), Alike(<<>>, S, v, R) PROVE Within(<<>>, S) = Within(v, R)
      <3>1. v = <<>>
        BY <2>1 DEF Alike
      <3> QED BY <3>1, WithinNothing
    <2> QED BY <2>1
  <1>2. ASSUME NEW r \in A, NEW x \in T PROVE Append(r, x) \in A
    <2>1. ASSUME NEW w \in Seq(T), Alike(Append(r, x), S, w, R) PROVE Within(Append(r, x), S) = Within(w, R)
      <3>1. r \in Seq(T) /\ Len(r) \in Nat /\ Len(w) = Len(r) + 1
        BY <2>1 DEF Alike
      <3>2. PICK v \in Seq(T), y \in T : w = Append(v, y) /\ Len(v) = Len(r)
        <4> DEFINE n == Len(r)
        <4>1. n \in Nat /\ Len(w) = n + 1
          BY <3>1
        <4> HIDE DEF n, A
        <4>2. \E v \in Seq(T), y \in T : w = Append(v, y) /\ Len(v) = n
          BY <4>1, Unsnoc
        <4> QED BY <4>2 DEF n
      <3>3. /\ \A i \in 1..Len(r) : Append(r, x)[i] = r[i] /\ Append(v, y)[i] = v[i]
            /\ Append(r, x)[Len(r) + 1] = x /\ Append(v, y)[Len(r) + 1] = y
            /\ \A i \in 1..Len(r) : i \in 1..Len(Append(r, x))
            /\ Len(r) + 1 \in 1..Len(Append(r, x))
        BY <3>1, <3>2
      <3>4. Alike(r, S, v, R) /\ (x \in S <=> y \in R) /\ (x \in S => x = y)
        BY <2>1, <3>2, <3>3 DEF Alike
      <3>5. Within(r, S) = Within(v, R)
        BY <3>4
      <3>6. Within(Append(r, x), S) = IF x \in S THEN Append(Within(r, S), x) ELSE Within(r, S)
        BY <3>1, WithinAppend
      <3>7. Within(Append(v, y), R) = IF y \in R THEN Append(Within(v, R), y) ELSE Within(v, R)
        BY WithinAppend
      <3> QED BY <3>2, <3>4, <3>5, <3>6, <3>7
    <2>2. Append(r, x) \in Seq(T)
      OBVIOUS
    <2> QED BY <2>1, <2>2
  <1>3. A = Seq(T)
    <2> HIDE DEF A
    <2>1. A \subseteq Seq(T)
      BY DEF A
    <2> QED BY <1>1, <1>2, <2>1, SequenceInduction
  <1> QED BY <1>3

(* What is picked twice is what both picks have.                              *)
LEMMA WithinTwice ==
    ASSUME NEW T, NEW s \in Seq(T), NEW S, NEW R
    PROVE  Within(Within(s, S), R) = Within(s, S \cap R)
  <1> DEFINE A == {r \in Seq(T) : Within(Within(r, S), R) = Within(r, S \cap R)}
  <1>1. <<>> \in A
    BY WithinNothing
  <1>2. ASSUME NEW r \in A, NEW x \in T PROVE Append(r, x) \in A
    <2>0. r \in Seq(T) /\ Append(r, x) \in Seq(T)
      OBVIOUS
    <2> DEFINE w == Within(r, S)
    <2>1. w \in Seq(T)
      BY <2>0, WithinIs
    <2>2. Within(Append(r, x), S) = IF x \in S THEN Append(Within(r, S), x) ELSE Within(r, S)
      BY <2>0, WithinAppend
    <2>3. Within(Append(r, x), S \cap R) =
            IF x \in S \cap R THEN Append(Within(r, S \cap R), x) ELSE Within(r, S \cap R)
      BY <2>0, WithinAppend
    <2>4. Within(Append(w, x), R) = IF x \in R THEN Append(Within(w, R), x) ELSE Within(w, R)
      <3> HIDE DEF w
      <3> QED BY <2>1, WithinAppend
    <2>5. CASE x \in S
      <3>1. CASE x \in R
        BY <2>0, <2>2, <2>3, <2>4, <2>5, <3>1, Zenon
      <3>2. CASE x \notin R
        BY <2>0, <2>2, <2>3, <2>4, <2>5, <3>2, Zenon
      <3> QED BY <3>1, <3>2
    <2>6. CASE x \notin S
      BY <2>0, <2>2, <2>3, <2>6
    <2> QED BY <2>5, <2>6
  <1>3. A = Seq(T)
    <2> HIDE DEF A
    <2>1. A \subseteq Seq(T)
      BY DEF A
    <2> QED BY <1>1, <1>2, <2>1, SequenceInduction
  <1> QED BY <1>3

LEMMA WithinAllOrNone ==
    ASSUME NEW T, NEW s \in Seq(T), NEW S
    PROVE  /\ ToSet(s) \subseteq S => Within(s, S) = s
           /\ ToSet(s) \cap S = {} => Within(s, S) = <<>>
  <1> DEFINE A == {r \in Seq(T) : /\ ToSet(r) \subseteq S => Within(r, S) = r
                                  /\ ToSet(r) \cap S = {} => Within(r, S) = <<>>}
  <1>1. <<>> \in A
    BY WithinNothing
  <1>2. ASSUME NEW r \in A, NEW x \in T PROVE Append(r, x) \in A
    <2>0. r \in Seq(T) /\ Append(r, x) \in Seq(T)
      OBVIOUS
    <2>1. Within(Append(r, x), S) = IF x \in S THEN Append(Within(r, S), x) ELSE Within(r, S)
      BY <2>0, WithinAppend
    <2>2. ToSet(Append(r, x)) = ToSet(r) \cup {x}
      BY <2>0, AppendElements
    <2> QED BY <2>0, <2>1, <2>2
  <1>3. A = Seq(T)
    <2> HIDE DEF A
    <2>1. A \subseteq Seq(T)
      BY DEF A
    <2> QED BY <1>1, <1>2, <2>1, SequenceInduction
  <1> QED BY <1>3

(****************************************************************************)
(* Reconcile: the inductive invariant and the ledger.                         *)
(****************************************************************************)

IntakeRead == intake \in [Rows -> [of : Nat \ {0}, table : BOOLEAN]]
HasFiles == DOMAIN files = Rows /\ \A r \in Rows : DOMAIN files[r] = FileNames

(* The files of a check of version v, and of the reading of its statement.    *)
CheckedOf(f, v) ==
    /\ f["run"] # NoFile /\ f["run"].of = v /\ f["run"].verdict \in Verdicts \ {"noted"}
    /\ f["fit"] # NoFile /\ f["fit"].of = v /\ f["fit"].verdict \in Verdicts \ {"noted"}
    /\ \A p \in Parts : f[p] # NoFile => f[p].of = v /\ f[p].verdict \in Verdicts \cup {"unusable"}
    /\ Ran(f) => f["csv"] # NoFile

ComparedOf(f, row) ==
    f["csv"] # NoFile /\ f["answer"].ran =>
        IF row.table THEN f["comparison"] # NoFile /\ f["comparison"].of = row.of
                     ELSE f["diff"] # NoFile /\ f["diff"].of = row.of

RowHolds(p, row, f) ==
    /\ p \in {"checked", "asked", "compared", "graded"} => CheckedOf(f, row.of)
    /\ p \in {"asked", "compared", "graded"} => f["answer"].ran \in BOOLEAN
    /\ p \in {"compared", "graded"} => ComparedOf(f, row)
    /\ p = "graded" => f["ledger"] = Ledger(f, f["answer"].ran)

(* A record, as MatchIsMeasured has it.                                       *)
RecordHolds(rec) ==
    /\ rec.row \in Rows
    /\ \A x \in rec.ledger.parts : x.part # "values" => x.of = rec.of
    /\ rec.status = "match" =>
         /\ rec.ledger # NoFile
         /\ {x.part : x \in rec.ledger.parts} = Parts \cup {"run", "fit"}
         /\ \A x \in rec.ledger.parts :
               x.verdict = "confirmed" \/ (x.part \in Parts /\ x.verdict = "noted")
         /\ (rec.compared.by = "comparison" <=> rec.table) => rec.compared.of = rec.of

(* A record is of the row as it was taken up last, or of an earlier wording.  *)
RecordStands(rec, row, p, f) ==
    /\ rec.of \in Nat /\ rec.of <= row.of
    /\ rec.of = row.of => p = "away" /\ f["ledger"] = rec.ledger

PageHolds == page # NoFile => \E words \in BOOLEAN : page.stamp = Digest(page.items, words)

ReconcileInv ==
    /\ IntakeRead /\ HasFiles /\ DOMAIN phase = Rows
    /\ lines \in Seq(ToSet(lines))
    /\ \A r \in Rows : RowHolds(phase[r], intake[r], files[r])
    /\ \A rec \in ToSet(lines) :
          RecordHolds(rec) /\ RecordStands(rec, intake[rec.row], phase[rec.row], files[rec.row])
    /\ PageHolds

(* ------------------------------------------------------------------------ *)
(* The grades of a ledger.                                                    *)

LEMMA Ranks ==
    \A v \in Verdicts : Rank(v) \in Int /\ -1 <= Rank(v) /\ Rank(v) <= 3 /\ (Rank(v) <= 0 => v \in {"noted", "confirmed"})
  BY DEF Verdicts, Rank

LEMMA WorstOfGraded ==
    ASSUME NEW parts, parts # {}, \A x \in parts : x.verdict \in Verdicts
    PROVE  Worst(parts) \in parts /\ \A y \in parts : Rank(Worst(parts).verdict) >= Rank(y.verdict)
  <1>1. \A x \in parts : Rank(x.verdict) \in Int /\ -1 <= Rank(x.verdict) /\ Rank(x.verdict) <= 3
    BY Ranks
  <1>2. \E x \in parts : \A y \in parts : Rank(x.verdict) >= Rank(y.verdict)
    <2>1. CASE \E x \in parts : Rank(x.verdict) = 3
      BY <1>1, <2>1
    <2>2. CASE (\A x \in parts : Rank(x.verdict) < 3) /\ \E x \in parts : Rank(x.verdict) = 2
      BY <1>1, <2>2
    <2>3. CASE (\A x \in parts : Rank(x.verdict) < 2) /\ \E x \in parts : Rank(x.verdict) = 1
      BY <1>1, <2>3
    <2>4. CASE (\A x \in parts : Rank(x.verdict) < 1) /\ \E x \in parts : Rank(x.verdict) = 0
      BY <1>1, <2>4
    <2>5. CASE \A x \in parts : Rank(x.verdict) < 0
      BY <1>1, <2>5
    <2> QED BY <1>1, <2>1, <2>2, <2>3, <2>4, <2>5
  <1> QED BY <1>2, Zenon DEF Worst

LEMMA PartsOfHas ==
    ASSUME NEW f, NEW ran, NEW x
    PROVE  x \in PartsOf(f, ran) <=>
              x = RunPart(f) \/ (\E p \in Parts \cup {"fit"} : x \in PartOf(f, p, Ran(f))) \/ x \in ValuePairs(f, ran)
  <1>1. x \in OwnParts(f) <=> \E p \in Parts : x \in PartOf(f, p, Ran(f))
    BY DEF OwnParts
  <1>2. x \in PartsOf(f, ran) <=>
          x = RunPart(f) \/ x \in PartOf(f, "fit", Ran(f)) \/ x \in OwnParts(f) \/ x \in ValuePairs(f, ran)
    BY DEF PartsOf
  <1> QED BY <1>1, <1>2

LEMMA LedgerIs ==
    ASSUME NEW f, NEW ran
    PROVE  Ledger(f, ran) = [parts |-> PartsOf(f, ran), verdict |-> Worst(PartsOf(f, ran)).verdict]
  BY Zenon DEF Ledger

(* A ledger is no grade of the ledger that was there.                         *)
LEMMA LedgerSame ==
    ASSUME NEW f, NEW g, NEW ran, \A n \in FileNames \ {"ledger"} : f[n] = g[n]
    PROVE  Ledger(f, ran) = Ledger(g, ran)
  <1>1. /\ f["run"] = g["run"] /\ f["comparison"] = g["comparison"]
        /\ \A p \in Parts \cup {"fit"} : f[p] = g[p]
    BY DEF FileNames, OwnFiles, Parts
  <1>2. Ran(f) = Ran(g) /\ RunPart(f) = RunPart(g)
    BY <1>1 DEF Ran, RunPart
  <1>3. \A p \in Parts \cup {"fit"} : PartOf(f, p, Ran(f)) = PartOf(g, p, Ran(g))
    BY <1>1, <1>2, Zenon DEF PartOf
  <1>4. ValuePairs(f, ran) = ValuePairs(g, ran)
    BY <1>1, Zenon DEF ValuePairs
  <1>5. {PartOf(f, p, Ran(f)) : p \in Parts} = {PartOf(g, p, Ran(g)) : p \in Parts}
    BY <1>3
  <1>6. PartsOf(f, ran) = PartsOf(g, ran)
    BY <1>2, <1>3, <1>4, <1>5, Zenon DEF PartsOf, OwnParts
  <1> QED BY <1>6, LedgerIs

LEMMA PartsAreOfTheCheck ==
    ASSUME NEW f, NEW v \in Nat \ {0}, NEW ran \in BOOLEAN, CheckedOf(f, v)
    PROVE  /\ \A x \in PartsOf(f, ran) : x.verdict \in Verdicts
           /\ \A x \in PartsOf(f, ran) : x.part # "values" => x.of = v
  <1>1. f["run"] # NoFile /\ f["run"].of = v /\ f["run"].verdict \in Verdicts
        /\ f["fit"] # NoFile /\ f["fit"].of = v /\ f["fit"].verdict \in Verdicts
        /\ \A p \in Parts : f[p] # NoFile => f[p].of = v /\ f[p].verdict \in Verdicts \cup {"unusable"}
    BY DEF CheckedOf
  <1>2. RunPart(f).verdict \in Verdicts /\ RunPart(f).of = v
    BY <1>1 DEF RunPart
  <1>3. ASSUME NEW p \in Parts \cup {"fit"}, NEW x \in PartOf(f, p, Ran(f)) PROVE x.verdict \in Verdicts /\ x.of = v
    <2>1. CASE f[p] # NoFile /\ f[p].verdict # "unusable"
      <3>1. x = [part |-> p, of |-> f[p].of, verdict |-> f[p].verdict]
        BY <1>3, <2>1 DEF PartOf
      <3>2. f[p].of = v /\ f[p].verdict \in Verdicts
        BY <1>1, <2>1
      <3> QED BY <3>1, <3>2
    <2>2. CASE ~(f[p] # NoFile /\ f[p].verdict # "unusable")
      <3>1. x = [part |-> p, of |-> f["run"].of, verdict |-> "unresolved"]
        BY <1>3, <2>2, Zenon DEF PartOf
      <3> QED BY <1>1, <3>1 DEF Verdicts
    <2> QED BY <2>1, <2>2
  <1>4. ASSUME NEW x \in ValuePairs(f, ran) PROVE x.verdict \in Verdicts /\ x.part = "values"
    <2>1. x = [part |-> "values", of |-> f["comparison"].of, verdict |-> "unresolved"]
      BY <1>4, Zenon DEF ValuePairs
    <2> QED BY <2>1 DEF Verdicts
  <1>5. ASSUME NEW x \in PartsOf(f, ran)
        PROVE  x = RunPart(f) \/ (\E p \in Parts \cup {"fit"} : x \in PartOf(f, p, Ran(f))) \/ x \in ValuePairs(f, ran)
    BY <1>5, PartsOfHas
  <1> QED BY <1>2, <1>3, <1>4, <1>5, Zenon

(* A ledger that grades everything confirmed has measured everything.         *)
LEMMA ConfirmedIsMeasured ==
    ASSUME NEW f, NEW v \in Nat \ {0}, NEW ran \in BOOLEAN, CheckedOf(f, v), Ledger(f, ran).verdict = "confirmed"
    PROVE  /\ Ran(f)
           /\ {x.part : x \in PartsOf(f, ran)} = Parts \cup {"run", "fit"}
           /\ \A x \in PartsOf(f, ran) : x.verdict = "confirmed" \/ (x.part \in Parts /\ x.verdict = "noted")
  <1> DEFINE parts == PartsOf(f, ran)
  <1>1. /\ f["run"] # NoFile /\ f["run"].verdict \in Verdicts \ {"noted"}
        /\ f["fit"] # NoFile /\ f["fit"].verdict \in Verdicts \ {"noted"}
    BY DEF CheckedOf
  <1>2. \A x \in parts : x.verdict \in Verdicts
    BY PartsAreOfTheCheck
  <1>3. RunPart(f) \in parts
    BY Zenon DEF PartsOf
  <1>4. Ledger(f, ran).verdict = Worst(parts).verdict
    BY LedgerIs
  <1>5. \A p \in Parts : PartOf(f, p, Ran(f)) \subseteq parts
    BY PartsOfHas
  <1>6. PartOf(f, "fit", Ran(f)) \subseteq parts /\ ValuePairs(f, ran) \subseteq parts
    BY PartsOfHas
  <1>7. ASSUME NEW x \in parts
        PROVE  x = RunPart(f) \/ (\E p \in Parts \cup {"fit"} : x \in PartOf(f, p, Ran(f))) \/ x \in ValuePairs(f, ran)
    BY <1>7, PartsOfHas
  <1> HIDE DEF parts
  <1>8. \A x \in parts : x.verdict \in {"noted", "confirmed"}
    <2>1. \A y \in parts : Rank(Worst(parts).verdict) >= Rank(y.verdict)
      BY <1>2, <1>3, WorstOfGraded
    <2>2. Rank(Worst(parts).verdict) = 0
      BY <1>4 DEF Rank
    <2> QED BY <1>2, <2>1, <2>2, Ranks
  <1>9. Ran(f) /\ RunPart(f).part = "run" /\ RunPart(f).verdict = "confirmed"
    <2>1. RunPart(f).verdict = f["run"].verdict /\ RunPart(f).part = "run"
      BY <1>1 DEF RunPart
    <2> QED BY <1>1, <1>3, <1>8, <2>1 DEF Ran
  <1>10. ASSUME NEW p \in Parts \cup {"fit"}
         PROVE  \E x \in PartOf(f, p, Ran(f)) : x.part = p
    <2>1. CASE f[p] # NoFile /\ f[p].verdict # "unusable"
      BY <2>1 DEF PartOf
    <2>2. CASE ~(f[p] # NoFile /\ f[p].verdict # "unusable")
      <3>1. PartOf(f, p, Ran(f)) = {[part |-> p, of |-> f["run"].of, verdict |-> "unresolved"]}
        BY <1>9, <2>2, Zenon DEF PartOf
      <3> QED BY <3>1
    <2> QED BY <2>1, <2>2
  <1>11. ASSUME NEW p \in Parts \cup {"fit"}, NEW x \in PartOf(f, p, Ran(f)) PROVE x.part = p
    <2>1. CASE f[p] # NoFile /\ f[p].verdict # "unusable"
      BY <1>11, <2>1 DEF PartOf
    <2>2. CASE ~(f[p] # NoFile /\ f[p].verdict # "unusable")
      <3>1. x = [part |-> p, of |-> f["run"].of, verdict |-> "unresolved"]
        BY <1>11, <2>2, Zenon DEF PartOf
      <3> QED BY <3>1
    <2> QED BY <2>1, <2>2
  <1>12. ValuePairs(f, ran) = {}
    <2>1. ASSUME NEW x \in ValuePairs(f, ran) PROVE FALSE
      <3>1. x = [part |-> "values", of |-> f["comparison"].of, verdict |-> "unresolved"]
        BY <2>1, Zenon DEF ValuePairs
      <3> QED BY <1>6, <1>8, <2>1, <3>1
    <2> QED BY <2>1
  <1>13. ASSUME NEW x \in PartOf(f, "fit", Ran(f)) PROVE x.verdict = "confirmed"
    <2>1. CASE f["fit"].verdict # "unusable"
      <3>1. x = [part |-> "fit", of |-> f["fit"].of, verdict |-> f["fit"].verdict]
        BY <1>1, <1>13, <2>1 DEF PartOf
      <3> QED BY <1>1, <1>6, <1>8, <1>13, <3>1
    <2>2. CASE f["fit"].verdict = "unusable"
      BY <1>1, <2>2 DEF Verdicts
    <2> QED BY <2>1, <2>2
  <1>14. \A x \in parts : x = RunPart(f) \/ \E p \in Parts \cup {"fit"} : x \in PartOf(f, p, Ran(f))
    BY <1>7, <1>12
  <1>15. {x.part : x \in parts} = Parts \cup {"run", "fit"}
    <2>1. ASSUME NEW x \in parts PROVE x.part \in Parts \cup {"run", "fit"}
      BY <1>9, <1>11, <1>14
    <2>2. ASSUME NEW p \in Parts \cup {"run", "fit"} PROVE \E x \in parts : x.part = p
      <3>1. CASE p = "run"
        BY <1>3, <1>9, <3>1
      <3>2. CASE p \in Parts \cup {"fit"}
        BY <1>5, <1>6, <1>10, <3>2
      <3> QED BY <3>1, <3>2
    <2> QED BY <2>1, <2>2
  <1>16. \A x \in parts : x.verdict = "confirmed" \/ (x.part \in Parts /\ x.verdict = "noted")
    <2>1. ASSUME NEW x \in parts PROVE x.verdict = "confirmed" \/ (x.part \in Parts /\ x.verdict = "noted")
      <3>1. CASE x = RunPart(f)
        BY <1>9, <3>1
      <3>2. CASE \E p \in Parts : x \in PartOf(f, p, Ran(f))
        BY <1>8, <1>11, <3>2
      <3>3. CASE x \in PartOf(f, "fit", Ran(f))
        BY <1>13, <3>3
      <3> QED BY <1>14, <3>1, <3>2, <3>3
    <2> QED BY <2>1
  <1> QED BY <1>9, <1>15, <1>16 DEF parts

(****************************************************************************)
(* Reconcile: the steps of a statement's check.                               *)
(****************************************************************************)

LEMMA RecordIsMeasured ==
    ASSUME NEW r \in Rows, NEW row \in [of : Nat \ {0}, table : BOOLEAN], NEW f, RowHolds("graded", row, f)
    PROVE  /\ RecordHolds(RecordOf(r, row, f))
           /\ RecordOf(r, row, f).row = r /\ RecordOf(r, row, f).of = row.of
           /\ RecordOf(r, row, f).ledger = f["ledger"]
  <1> DEFINE ran == f["answer"].ran
             ledger == f["ledger"]
             compared == IF f["answer"].ran THEN Compared(f) ELSE [by |-> "nothing", of |-> 0, match |-> "none"]
             verdict == IF f["ledger"] = NoFile THEN "no ledger" ELSE f["ledger"].verdict
             status == RowStatus(compared.match, verdict)
             rec == RecordOf(r, row, f)
  <1>1. CheckedOf(f, row.of) /\ ran \in BOOLEAN /\ ComparedOf(f, row) /\ ledger = Ledger(f, ran)
    BY DEF RowHolds
  <1>2. row.of \in Nat \ {0} /\ row.table \in BOOLEAN
    OBVIOUS
  <1>3. ledger.parts = PartsOf(f, ran) /\ ledger.verdict = Worst(PartsOf(f, ran)).verdict /\ ledger # NoFile
    <2>1. ledger = [parts |-> PartsOf(f, ran), verdict |-> Worst(PartsOf(f, ran)).verdict]
      BY <1>1, LedgerIs
    <2> HIDE DEF ledger
    <2> QED BY <2>1 DEF NoFile
  <1>4. rec = [row |-> r, of |-> row.of, table |-> row.table, compared |-> compared,
               ledger |-> f["ledger"], status |-> status]
    BY Zenon DEF RecordOf
  <1>5. /\ rec.row = r /\ rec.of = row.of /\ rec.table = row.table /\ rec.compared = compared
        /\ rec.ledger = ledger /\ rec.status = status
    <2> HIDE DEF compared, status, rec
    <2> QED BY <1>4
  <1>6. \A x \in ledger.parts : x.part # "values" => x.of = row.of
    BY <1>1, <1>2, <1>3, PartsAreOfTheCheck
  <1>7. ledger.verdict \in Verdicts
    <2>1. \A x \in PartsOf(f, ran) : x.verdict \in Verdicts
      BY <1>1, <1>2, PartsAreOfTheCheck
    <2>2. RunPart(f) \in PartsOf(f, ran)
      BY PartsOfHas
    <2>3. Worst(PartsOf(f, ran)) \in PartsOf(f, ran)
      BY <2>1, <2>2, WorstOfGraded
    <2> QED BY <1>3, <2>1, <2>3
  <1>8. compared.match \in {"none", "yes", "no"}
    BY DEF Compared
  <1>9. compared.match = "yes" => /\ ran /\ compared = Compared(f)
    OBVIOUS
  <1>10. status = "match" => compared.match = "yes" /\ ledger.verdict = "confirmed"
    <2>1. verdict = ledger.verdict
      BY <1>3
    <2> HIDE DEF compared, verdict, ledger
    <2>2. verdict \in Verdicts
      BY <1>7, <2>1
    <2> QED BY <1>8, <2>1, <2>2 DEF RowStatus, Verdicts
  <1>11. ASSUME status = "match"
         PROVE  /\ {x.part : x \in ledger.parts} = Parts \cup {"run", "fit"}
                /\ \A x \in ledger.parts : x.verdict = "confirmed" \/ (x.part \in Parts /\ x.verdict = "noted")
                /\ (compared.by = "comparison" <=> row.table) => compared.of = row.of
    <2>1. Ledger(f, ran).verdict = "confirmed" /\ ran /\ compared = Compared(f) /\ Compared(f).match = "yes"
      BY <1>1, <1>9, <1>10, <1>11
    <2>2. /\ Ran(f)
          /\ {x.part : x \in PartsOf(f, ran)} = Parts \cup {"run", "fit"}
          /\ \A x \in PartsOf(f, ran) : x.verdict = "confirmed" \/ (x.part \in Parts /\ x.verdict = "noted")
      BY <1>1, <1>2, <2>1, ConfirmedIsMeasured
    <2>3. f["csv"] # NoFile
      BY <1>1, <2>2 DEF CheckedOf
    <2>4. IF row.table THEN f["comparison"] # NoFile /\ f["comparison"].of = row.of
                       ELSE f["diff"] # NoFile /\ f["diff"].of = row.of
      BY <1>1, <2>1, <2>3 DEF ComparedOf
    <2>5. (Compared(f).by = "comparison" <=> row.table) => Compared(f).of = row.of
      <3>1. CASE f["comparison"] # NoFile
        <4>1. Compared(f).by = "comparison" /\ Compared(f).of = f["comparison"].of
          BY <3>1 DEF Compared
        <4> QED BY <2>4, <4>1
      <3>2. CASE f["comparison"] = NoFile /\ f["diff"] # NoFile
        <4>1. Compared(f).by = "diff" /\ Compared(f).of = f["diff"].of
          BY <3>2 DEF Compared
        <4> QED BY <1>2, <2>4, <4>1
      <3>3. CASE f["comparison"] = NoFile /\ f["diff"] = NoFile
        BY <2>1, <3>3 DEF Compared
      <3> QED BY <3>1, <3>2, <3>3
    <2> QED BY <1>3, <2>1, <2>2, <2>5
  <1>12. RecordHolds(rec)
    <2> HIDE DEF rec, ledger, compared, status
    <2> QED BY <1>3, <1>5, <1>6, <1>11, Zenon DEF RecordHolds
  <1> QED BY <1>5, <1>12

(* ------------------------------------------------------------------------ *)
(* The steps.                                                                 *)

(* The files of row r become g, and no other row's files change.              *)
Leaves(r, g) ==
    /\ DOMAIN files' = Rows /\ DOMAIN g = FileNames /\ files'[r] = g
    /\ \A q \in Rows \ {r} : files'[q] = files[q]
Puts(r, n, x) == files' = [files EXCEPT ![r][n] = x]

LEMMA LeavesAll ==
    ASSUME ReconcileInv, NEW r \in Rows, NEW g, DOMAIN g = FileNames, files' = [files EXCEPT ![r] = g]
    PROVE  Leaves(r, g)
  BY DEF ReconcileInv, HasFiles, Leaves

LEMMA FilesStep ==
    ASSUME ReconcileInv, NEW r \in Rows, NEW g, Leaves(r, g),
           UNCHANGED <<intake, lines, page>>, DOMAIN phase' = Rows, phase[r] # "away",
           \A q \in Rows \ {r} : phase'[q] \in {phase[q], "away"}, RowHolds(phase'[r], intake[r], g)
    PROVE  ReconcileInv'
  <1>1. IntakeRead' /\ PageHolds' /\ lines' \in Seq(ToSet(lines'))
    BY DEF ReconcileInv, IntakeRead, PageHolds
  <1>2. HasFiles' /\ files'[r] = g /\ \A q \in Rows \ {r} : files'[q] = files[q]
    BY DEF ReconcileInv, HasFiles, Leaves
  <1>3. ASSUME NEW q \in Rows PROVE RowHolds(phase'[q], intake'[q], files'[q])
    <2>1. CASE q = r
      BY <1>2, <2>1
    <2>2. CASE q # r /\ phase'[q] = phase[q]
      BY <1>2, <2>2 DEF ReconcileInv
    <2>3. CASE phase'[q] = "away"
      BY <2>3 DEF RowHolds
    <2> QED BY <2>1, <2>2, <2>3
  <1>4. ASSUME NEW rec \in ToSet(lines')
        PROVE  RecordHolds(rec) /\ RecordStands(rec, intake'[rec.row], phase'[rec.row], files'[rec.row])
    <2>1. RecordHolds(rec) /\ RecordStands(rec, intake[rec.row], phase[rec.row], files[rec.row])
      BY DEF ReconcileInv
    <2>2. rec.row \in Rows
      BY <2>1 DEF RecordHolds
    <2>3. CASE rec.row = r
      BY <2>1, <2>3 DEF RecordStands
    <2>4. CASE rec.row # r
      BY <1>2, <2>1, <2>2, <2>4 DEF RecordStands
    <2> QED BY <2>1, <2>3, <2>4
  <1> QED BY <1>1, <1>2, <1>3, <1>4, Zenon DEF ReconcileInv

LEMMA WroteAll ==
    ASSUME NEW f, NEW v \in Nat \ {0}, NEW o, o["run"] \in Verdicts \ {"noted"}, o["fit"] \in Verdicts \ {"noted"},
           \A p \in Parts : o[p] \in Verdicts \cup {"unusable"}
    PROVE  /\ DOMAIN Wrote(f, v, o, Len(Written)) = FileNames
           /\ CheckedOf([Wrote(f, v, o, Len(Written)) EXCEPT !["fit"] = [of |-> v, verdict |-> o["fit"]]], v)
  <1> DEFINE w == Wrote(f, v, o, Len(Written))
             g == [w EXCEPT !["fit"] = [of |-> v, verdict |-> o["fit"]]]
  <1>1. {Written[i] : i \in 1..Len(Written)} = Parts \cup {"run"}
    <2>1. /\ Len(Written) = 5 /\ Written[1] = "prepare" /\ Written[2] = "run" /\ Written[3] = "receipt"
          /\ Written[4] = "probes" /\ Written[5] = "judge"
      BY DEF Written
    <2>2. \A i \in 1..5 : i = 1 \/ i = 2 \/ i = 3 \/ i = 4 \/ i = 5
      OBVIOUS
    <2>3. 1 \in 1..5 /\ 2 \in 1..5 /\ 3 \in 1..5 /\ 4 \in 1..5 /\ 5 \in 1..5
      OBVIOUS
    <2> QED BY <2>1, <2>2, <2>3 DEF Parts
  <1> DEFINE at(x) == IF x \in Parts \cup {"run"} THEN [of |-> v, verdict |-> o[x]]
                      ELSE IF x = "csv" /\ "run" \in Parts \cup {"run"} /\ o["run"] = "confirmed" THEN [of |-> v]
                      ELSE Clear(f)[x]
  <1>2. w = [x \in FileNames |-> at(x)]
    BY <1>1, Zenon DEF Wrote
  <1>3. DOMAIN w = FileNames /\ \A x \in FileNames : w[x] = at(x)
    <2> HIDE DEF w, at
    <2> QED BY <1>2
  <1>4. \A x \in Parts \cup {"run"} : w[x] = [of |-> v, verdict |-> o[x]]
    <2> HIDE DEF w
    <2> QED BY <1>3 DEF FileNames, OwnFiles
  <1>5. o["run"] = "confirmed" => w["csv"] = [of |-> v]
    <2> HIDE DEF w
    <2> QED BY <1>3 DEF FileNames, OwnFiles, Parts
  <1> HIDE DEF w, at
  <1>6. /\ g["fit"] = [of |-> v, verdict |-> o["fit"]] /\ g["csv"] = w["csv"]
        /\ \A x \in Parts \cup {"run"} : g[x] = [of |-> v, verdict |-> o[x]]
    BY <1>3, <1>4 DEF FileNames, OwnFiles, Parts
  <1> HIDE DEF g
  <1>7. CheckedOf(g, v)
    <2>0. g["run"] = [of |-> v, verdict |-> o["run"]]
      BY <1>6
    <2>1. g["run"] # NoFile /\ g["run"].of = v /\ g["run"].verdict = o["run"]
      BY <2>0 DEF NoFile
    <2>2. g["fit"] # NoFile /\ g["fit"].of = v /\ g["fit"].verdict = o["fit"]
      BY <1>6 DEF NoFile
    <2>3. ASSUME NEW p \in Parts PROVE g[p].of = v /\ g[p].verdict = o[p]
      <3>1. g[p] = [of |-> v, verdict |-> o[p]]
        BY <1>6
      <3> QED BY <3>1
    <2>4. Ran(g) => g["csv"] # NoFile
      BY <1>5, <1>6, <2>1 DEF Ran, NoFile
    <2> QED BY <2>1, <2>2, <2>3, <2>4 DEF CheckedOf
  <1> QED BY <1>3, <1>7 DEF g, w

LEMMA EndedEarly ==
    ASSUME NEW f, NEW v \in Nat \ {0}, NEW o, o["gate"] \in Verdicts \ {"noted", "confirmed"},
           o["fit"] \in Verdicts \ {"noted"}
    PROVE  CheckedOf([Ended(f, v, o["gate"]) EXCEPT !["fit"] = [of |-> v, verdict |-> o["fit"]]], v)
  <1> DEFINE g == [Ended(f, v, o["gate"]) EXCEPT !["fit"] = [of |-> v, verdict |-> o["fit"]]]
  <1>1. /\ g["fit"] = [of |-> v, verdict |-> o["fit"]] /\ g["run"] = [of |-> v, verdict |-> o["gate"]]
        /\ \A p \in Parts : g[p] = NoFile
    BY DEF Ended, Clear, FileNames, OwnFiles, Parts
  <1> HIDE DEF g
  <1>2. g["run"] # NoFile /\ g["run"].of = v /\ g["run"].verdict = o["gate"]
    BY <1>1 DEF NoFile
  <1>3. g["fit"] # NoFile /\ g["fit"].of = v /\ g["fit"].verdict = o["fit"]
    BY <1>1 DEF NoFile
  <1>4. ~Ran(g)
    BY <1>2 DEF Ran
  <1>5. CheckedOf(g, v)
    BY <1>1, <1>2, <1>3, <1>4 DEF CheckedOf
  <1> QED BY <1>5 DEF g

LEMMA Domains ==
    ASSUME NEW f, NEW v, NEW o, NEW n, NEW x
    PROVE  DOMAIN Ended(f, v, x) = FileNames /\ DOMAIN Wrote(f, v, o, n) = FileNames
  BY DEF Ended, Clear, Wrote

LEMMA CheckStep ==
    ASSUME ReconcileInv, NEW r \in Rows, Check(r)
    PROVE  ReconcileInv'
  <1> DEFINE v == intake[r].of
  <1>1. v \in Nat \ {0}
    BY DEF ReconcileInv, IntakeRead
  <1>2. PICK o \in Outcomes[r] :
          LET checked == IF o["gate"] = "passed" THEN Wrote(files[r], v, o, Len(Written))
                                                 ELSE Ended(files[r], v, o["gate"])
          IN files' = [files EXCEPT ![r] = [checked EXCEPT !["fit"] = [of |-> v, verdict |-> o["fit"]]]]
    BY Zenon DEF Check
  <1>3. /\ o["gate"] \in {"passed"} \cup (Verdicts \ {"noted", "confirmed"})
        /\ o["run"] \in Verdicts \ {"noted"} /\ o["fit"] \in Verdicts \ {"noted"}
        /\ \A p \in Parts : o[p] \in Verdicts \cup {"unusable"}
    BY OutcomesAssumption, Zenon
  <1> DEFINE checked == IF o["gate"] = "passed" THEN Wrote(files[r], v, o, Len(Written))
                                                ELSE Ended(files[r], v, o["gate"])
             g == [checked EXCEPT !["fit"] = [of |-> v, verdict |-> o["fit"]]]
  <1>4. CheckedOf(g, v) /\ DOMAIN g = FileNames
    <2>1. DOMAIN checked = FileNames
      BY Domains
    <2>2. CASE o["gate"] = "passed"
      <3>1. CheckedOf([Wrote(files[r], v, o, Len(Written)) EXCEPT !["fit"] = [of |-> v, verdict |-> o["fit"]]], v)
        BY <1>1, <1>3, WroteAll
      <3> QED BY <2>1, <2>2, <3>1
    <2>3. CASE o["gate"] # "passed"
      <3>1. CheckedOf([Ended(files[r], v, o["gate"]) EXCEPT !["fit"] = [of |-> v, verdict |-> o["fit"]]], v)
        BY <1>1, <1>3, <2>3, EndedEarly
      <3> QED BY <2>1, <2>3, <3>1
    <2> QED BY <2>2, <2>3
  <1>5. files' = [files EXCEPT ![r] = g]
    BY <1>2, Zenon
  <1> HIDE DEF g, checked
  <1>6. /\ phase[r] = "todo" /\ phase' = [phase EXCEPT ![r] = "checked"] /\ UNCHANGED <<intake, lines, page>>
        /\ DOMAIN phase = Rows
    BY DEF Check, Holds, ReconcileInv
  <1>7. phase'[r] = "checked" /\ DOMAIN phase' = Rows /\ \A q \in Rows \ {r} : phase'[q] = phase[q]
    BY <1>6
  <1>8. RowHolds(phase'[r], intake[r], g)
    BY <1>4, <1>7 DEF RowHolds
  <1>9. Leaves(r, g)
    BY <1>4, <1>5, LeavesAll
  <1> QED BY <1>6, <1>7, <1>8, <1>9, FilesStep

LEMMA CheckStopsStep ==
    ASSUME ReconcileInv, NEW r \in Rows, CheckStops(r)
    PROVE  ReconcileInv'
  <1>1. PICK g : files' = [files EXCEPT ![r] = g] /\ DOMAIN g = FileNames
    <2>1. CASE files' = [files EXCEPT ![r] = Ended(files[r], intake[r].of, "unresolved")]
      BY <2>1, Domains
    <2>2. CASE \E o \in Outcomes[r], n \in 0..Len(Written) :
                  files' = [files EXCEPT ![r] = Wrote(files[r], intake[r].of, o, n)]
      <3>1. PICK o \in Outcomes[r], n \in 0..Len(Written) : files' = [files EXCEPT ![r] = Wrote(files[r], intake[r].of, o, n)]
        BY <2>2
      <3> DEFINE w == Wrote(files[r], intake[r].of, o, n)
      <3>2. DOMAIN w = FileNames /\ files' = [files EXCEPT ![r] = w]
        BY <3>1, Domains
      <3> HIDE DEF w
      <3> QED BY <3>2
    <2> QED BY <2>1, <2>2 DEF CheckStops
  <1>2. phase[r] = "todo" /\ phase' = AllAway /\ UNCHANGED <<intake, lines, page>>
    BY DEF CheckStops, Holds
  <1>3. DOMAIN phase' = Rows /\ \A q \in Rows : phase'[q] = "away"
    BY <1>2 DEF AllAway
  <1>4. RowHolds(phase'[r], intake[r], g)
    BY <1>3 DEF RowHolds
  <1>5. Leaves(r, g)
    BY <1>1, LeavesAll
  <1> QED BY <1>2, <1>3, <1>4, <1>5, FilesStep

LEMMA Put ==
    ASSUME ReconcileInv, NEW r \in Rows, NEW n \in FileNames, NEW x, Puts(r, n, x)
    PROVE  \E g : Leaves(r, g) /\ g[n] = x /\ \A m \in FileNames \ {n} : g[m] = files[r][m]
  <1> DEFINE g == [files[r] EXCEPT ![n] = x]
  <1>1. DOMAIN files[r] = FileNames /\ DOMAIN files = Rows
    BY DEF ReconcileInv, HasFiles
  <1>2. files' = [files EXCEPT ![r] = g]
    BY DEF Puts
  <1>3. DOMAIN g = FileNames /\ g[n] = x /\ \A m \in FileNames \ {n} : g[m] = files[r][m]
    BY <1>1
  <1> HIDE DEF g
  <1>4. Leaves(r, g)
    BY <1>2, <1>3, LeavesAll
  <1> QED BY <1>3, <1>4

LEMMA CheckedStays ==
    ASSUME NEW f, NEW g, NEW v, CheckedOf(f, v), NEW n \in {"answer", "comparison", "diff", "ledger"},
           \A m \in FileNames \ {n} : g[m] = f[m]
    PROVE  CheckedOf(g, v)
  <1>1. g["run"] = f["run"] /\ g["fit"] = f["fit"] /\ g["csv"] = f["csv"] /\ \A p \in Parts : g[p] = f[p]
    BY DEF FileNames, OwnFiles, Parts
  <1>2. Ran(g) = Ran(f)
    BY <1>1 DEF Ran
  <1> QED BY <1>1, <1>2 DEF CheckedOf

LEMMA AskStep ==
    ASSUME ReconcileInv, NEW r \in Rows, Ask(r)
    PROVE  ReconcileInv'
  <1>1. PICK ran \in BOOLEAN : files' = [files EXCEPT ![r]["answer"] = [of |-> intake[r].of, ran |-> ran]]
    BY DEF Ask
  <1> DEFINE x == [of |-> intake[r].of, ran |-> ran]
  <1>2. x.ran = ran
    OBVIOUS
  <1>3. Puts(r, "answer", x) /\ "answer" \in FileNames
    BY <1>1 DEF FileNames, Puts
  <1> HIDE DEF x
  <1>4. PICK g : Leaves(r, g) /\ g["answer"] = x /\ \A m \in FileNames \ {"answer"} : g[m] = files[r][m]
    BY <1>3, Put
  <1>5. /\ phase[r] = "checked" /\ phase' = [phase EXCEPT ![r] = "asked"] /\ UNCHANGED <<intake, lines, page>>
        /\ DOMAIN phase = Rows
    BY DEF Ask, Holds, ReconcileInv
  <1>6. phase'[r] = "asked" /\ DOMAIN phase' = Rows /\ \A q \in Rows \ {r} : phase'[q] = phase[q]
    BY <1>5
  <1>7. CheckedOf(files[r], intake[r].of)
    BY <1>5 DEF ReconcileInv, RowHolds
  <1>8. CheckedOf(g, intake[r].of)
    BY <1>4, <1>7, CheckedStays
  <1>9. RowHolds(phase'[r], intake[r], g)
    BY <1>2, <1>4, <1>6, <1>8 DEF RowHolds
  <1> QED BY <1>4, <1>5, <1>6, <1>9, FilesStep

LEMMA CompareStep ==
    ASSUME ReconcileInv, NEW r \in Rows, Compare(r)
    PROVE  ReconcileInv'
  <1> DEFINE n == IF intake[r].table THEN "comparison" ELSE "diff"
             both == files[r]["csv"] # NoFile /\ files[r]["answer"].ran
  <1>1. /\ phase[r] = "asked" /\ phase' = [phase EXCEPT ![r] = "compared"] /\ UNCHANGED <<intake, lines, page>>
        /\ DOMAIN phase = Rows
    BY DEF Compare, Holds, ReconcileInv
  <1>2. phase'[r] = "compared" /\ DOMAIN phase' = Rows /\ \A q \in Rows \ {r} : phase'[q] = phase[q]
    BY <1>1
  <1>3. CheckedOf(files[r], intake[r].of) /\ files[r]["answer"].ran \in BOOLEAN
    BY <1>1 DEF ReconcileInv, RowHolds
  <1>4. intake[r].of \in Nat \ {0} /\ DOMAIN files[r] = FileNames /\ DOMAIN files = Rows
    BY DEF ReconcileInv, IntakeRead, HasFiles
  <1>5. CASE both
    <2>1. PICK result : files' = [files EXCEPT ![r][n] = [of |-> intake[r].of, result |-> result]]
      BY <1>5 DEF Compare
    <2> DEFINE x == [of |-> intake[r].of, result |-> result]
    <2>2. x.of = intake[r].of /\ x # NoFile
      BY <1>4 DEF NoFile
    <2>3. Puts(r, n, x) /\ n \in FileNames /\ n \in {"answer", "comparison", "diff", "ledger"}
      BY <2>1 DEF FileNames, Puts
    <2> HIDE DEF x
    <2>4. n = (IF intake[r].table THEN "comparison" ELSE "diff") /\ n # "answer"
      OBVIOUS
    <2> HIDE DEF n
    <2>5. PICK g : Leaves(r, g) /\ g[n] = x /\ \A m \in FileNames \ {n} : g[m] = files[r][m]
      BY <2>3, Put
    <2>6. CheckedOf(g, intake[r].of)
      BY <1>3, <2>3, <2>5, CheckedStays
    <2>7. g["answer"] = files[r]["answer"]
      BY <2>4, <2>5 DEF FileNames
    <2>8. ComparedOf(g, intake[r])
      BY <2>2, <2>4, <2>5 DEF ComparedOf
    <2>9. RowHolds(phase'[r], intake[r], g)
      BY <1>2, <1>3, <2>6, <2>7, <2>8 DEF RowHolds
    <2> QED BY <1>1, <1>2, <2>5, <2>9, FilesStep
  <1>6. CASE ~both
    <2>1. files' = files
      BY <1>6 DEF Compare
    <2>2. Leaves(r, files[r])
      BY <1>4, <2>1 DEF Leaves
    <2>3. ComparedOf(files[r], intake[r])
      BY <1>6 DEF ComparedOf
    <2>4. RowHolds(phase'[r], intake[r], files[r])
      BY <1>2, <1>3, <2>3 DEF RowHolds
    <2> QED BY <1>1, <1>2, <1>4, <2>2, <2>4, FilesStep
  <1> QED BY <1>5, <1>6

LEMMA GradeStep ==
    ASSUME ReconcileInv, NEW r \in Rows, Grade(r)
    PROVE  ReconcileInv'
  <1> DEFINE x == Ledger(files[r], files[r]["answer"].ran)
  <1>1. /\ phase[r] = "compared" /\ phase' = [phase EXCEPT ![r] = "graded"] /\ UNCHANGED <<intake, lines, page>>
        /\ DOMAIN phase = Rows
    BY DEF Grade, Holds, ReconcileInv
  <1>2. phase'[r] = "graded" /\ DOMAIN phase' = Rows /\ \A q \in Rows \ {r} : phase'[q] = phase[q]
    BY <1>1
  <1>3. /\ CheckedOf(files[r], intake[r].of) /\ files[r]["answer"].ran \in BOOLEAN
        /\ ComparedOf(files[r], intake[r])
    BY <1>1 DEF ReconcileInv, RowHolds
  <1>4. Puts(r, "ledger", x) /\ "ledger" \in FileNames
    BY DEF Grade, FileNames, Puts
  <1>5. x = Ledger(files[r], files[r]["answer"].ran)
    OBVIOUS
  <1> HIDE DEF x
  <1>6. PICK g : Leaves(r, g) /\ g["ledger"] = x /\ \A m \in FileNames \ {"ledger"} : g[m] = files[r][m]
    BY <1>4, Put
  <1>7. CheckedOf(g, intake[r].of)
    BY <1>3, <1>6, CheckedStays
  <1>8. /\ g["answer"] = files[r]["answer"] /\ g["csv"] = files[r]["csv"]
        /\ g["comparison"] = files[r]["comparison"] /\ g["diff"] = files[r]["diff"]
    BY <1>6 DEF FileNames, OwnFiles
  <1>9. ComparedOf(g, intake[r])
    BY <1>3, <1>8 DEF ComparedOf
  <1>10. Ledger(g, g["answer"].ran) = x
    BY <1>5, <1>6, <1>8, LedgerSame
  <1>11. RowHolds(phase'[r], intake[r], g)
    BY <1>2, <1>3, <1>6, <1>7, <1>8, <1>9, <1>10 DEF RowHolds
  <1> QED BY <1>1, <1>2, <1>6, <1>11, FilesStep

(****************************************************************************)
(* Reconcile: the rest of the steps, and the theorems.                        *)
(****************************************************************************)

(* The records another row's write keeps.                                     *)
LEMMA OthersKept ==
    ASSUME ReconcileInv, NEW r \in Rows
    PROVE  /\ Kept(r) \in Seq(ToSet(lines))
           /\ ToSet(Kept(r)) = {rec \in ToSet(lines) : rec.row # r}
  <1> DEFINE others == {rec \in ToSet(lines) : rec.row # r}
  <1>1. lines \in Seq(ToSet(lines))
    BY DEF ReconcileInv
  <1>2. Kept(r) = Within(lines, others)
    BY DEF Kept, Others
  <1> HIDE DEF others
  <1>3. Kept(r) \in Seq(ToSet(lines)) /\ ToSet(Kept(r)) = ToSet(lines) \cap others
    BY <1>1, <1>2, WithinIs
  <1> QED BY <1>3 DEF others

LEMMA RecordStep ==
    ASSUME ReconcileInv, NEW r \in Rows, Record(r)
    PROVE  ReconcileInv'
  <1> DEFINE new == RecordOf(r, intake[r], files[r])
             T == ToSet(lines) \cup {new}
  <1>1. /\ phase[r] = "graded" /\ phase' = [phase EXCEPT ![r] = "away"] /\ UNCHANGED <<intake, files, page>>
        /\ DOMAIN phase = Rows /\ lines' = Append(Kept(r), new)
    BY DEF Record, Holds, ReconcileInv
  <1>2. phase'[r] = "away" /\ DOMAIN phase' = Rows /\ \A q \in Rows \ {r} : phase'[q] = phase[q]
    BY <1>1
  <1>3. IntakeRead' /\ HasFiles' /\ PageHolds'
    BY <1>1 DEF ReconcileInv, IntakeRead, HasFiles, PageHolds
  <1>4. /\ RecordHolds(new) /\ new.row = r /\ new.of = intake[r].of /\ new.ledger = files[r]["ledger"]
        /\ intake[r].of \in Nat
    <2>1. intake[r] \in [of : Nat \ {0}, table : BOOLEAN]
      BY DEF ReconcileInv, IntakeRead
    <2>2. RowHolds("graded", intake[r], files[r])
      BY <1>1 DEF ReconcileInv
    <2> QED BY <2>1, <2>2, RecordIsMeasured
  <1> HIDE DEF new
  <1>5. Kept(r) \in Seq(ToSet(lines)) /\ ToSet(Kept(r)) = {rec \in ToSet(lines) : rec.row # r}
    BY OthersKept
  <1>6. Kept(r) \in Seq(T) /\ new \in T
    BY <1>5
  <1> HIDE DEF T
  <1>7. lines' \in Seq(T) /\ ToSet(lines') = ToSet(Kept(r)) \cup {new}
    BY <1>1, <1>6, AppendElements
  <1>8. lines' \in Seq(ToSet(lines'))
    BY <1>7, OwnElements
  <1>9. ASSUME NEW q \in Rows PROVE RowHolds(phase'[q], intake'[q], files'[q])
    <2>1. CASE q = r
      BY <1>2, <2>1 DEF RowHolds
    <2>2. CASE q # r
      BY <1>1, <1>2, <2>2 DEF ReconcileInv
    <2> QED BY <2>1, <2>2
  <1>10. ASSUME NEW rec \in ToSet(lines')
         PROVE  RecordHolds(rec) /\ RecordStands(rec, intake'[rec.row], phase'[rec.row], files'[rec.row])
    <2>1. CASE rec = new
      BY <1>1, <1>2, <1>4, <2>1 DEF RecordStands
    <2>2. CASE rec \in ToSet(lines) /\ rec.row # r
      <3>1. RecordHolds(rec) /\ RecordStands(rec, intake[rec.row], phase[rec.row], files[rec.row])
        BY <2>2 DEF ReconcileInv
      <3>2. rec.row \in Rows \ {r}
        BY <2>2, <3>1 DEF RecordHolds
      <3> QED BY <1>1, <1>2, <3>1, <3>2
    <2> QED BY <1>5, <1>7, <2>1, <2>2
  <1> QED BY <1>2, <1>3, <1>8, <1>9, <1>10, Zenon DEF ReconcileInv

(* The session is with no row, and what is on disk loses records at most.     *)
LEMMA StopStep ==
    ASSUME ReconcileInv, phase' = AllAway, UNCHANGED <<intake, files, page>>,
           lines' \in Seq(ToSet(lines)), ToSet(lines') \subseteq ToSet(lines)
    PROVE  ReconcileInv'
  <1>1. IntakeRead' /\ HasFiles' /\ PageHolds'
    BY DEF ReconcileInv, IntakeRead, HasFiles, PageHolds
  <1>2. DOMAIN phase' = Rows /\ \A q \in Rows : phase'[q] = "away"
    BY DEF AllAway
  <1>3. lines' \in Seq(ToSet(lines'))
    BY OwnElements
  <1>4. \A q \in Rows : RowHolds(phase'[q], intake'[q], files'[q])
    BY <1>2 DEF RowHolds
  <1>5. ASSUME NEW rec \in ToSet(lines')
        PROVE  RecordHolds(rec) /\ RecordStands(rec, intake'[rec.row], phase'[rec.row], files'[rec.row])
    <2>1. RecordHolds(rec) /\ RecordStands(rec, intake[rec.row], phase[rec.row], files[rec.row])
      BY DEF ReconcileInv
    <2> QED BY <1>2, <2>1 DEF RecordStands, RecordHolds
  <1> QED BY <1>1, <1>2, <1>3, <1>4, <1>5, Zenon DEF ReconcileInv

LEMMA RecordStopsStep ==
    ASSUME ReconcileInv, NEW r \in Rows, RecordStops(r)
    PROVE  ReconcileInv'
  <1>1. PICK n \in 0..Len(Kept(r)) : lines' = SubSeq(Kept(r), 1, n)
    BY DEF RecordStops
  <1>2. Kept(r) \in Seq(ToSet(lines)) /\ ToSet(Kept(r)) \subseteq ToSet(lines)
    BY OthersKept
  <1>3. lines' \in Seq(ToSet(lines)) /\ ToSet(lines') \subseteq ToSet(Kept(r))
    BY <1>1, <1>2, Beginning
  <1>4. phase' = AllAway /\ UNCHANGED <<intake, files, page>>
    BY DEF RecordStops
  <1> QED BY <1>2, <1>3, <1>4, StopStep

LEMMA NextChunkStep ==
    ASSUME ReconcileInv, NextChunk
    PROVE  ReconcileInv'
  <1>1. phase' = [r \in Rows |-> IF r \in NextRows THEN "todo" ELSE "away"] /\ UNCHANGED <<intake, files, lines, page>>
    BY DEF NextChunk
  <1>2. IntakeRead' /\ HasFiles' /\ PageHolds' /\ lines' \in Seq(ToSet(lines'))
    BY <1>1 DEF ReconcileInv, IntakeRead, HasFiles, PageHolds
  <1>3. DOMAIN phase' = Rows /\ \A q \in Rows : phase'[q] \in {"todo", "away"} /\ (q \notin NextRows => phase'[q] = "away")
    BY <1>1
  <1>4. \A q \in Rows : RowHolds(phase'[q], intake'[q], files'[q])
    BY <1>3 DEF RowHolds
  <1>5. ASSUME NEW rec \in ToSet(lines')
        PROVE  RecordHolds(rec) /\ RecordStands(rec, intake'[rec.row], phase'[rec.row], files'[rec.row])
    <2>1. RecordHolds(rec) /\ RecordStands(rec, intake[rec.row], phase[rec.row], files[rec.row])
      BY <1>1 DEF ReconcileInv
    <2>2. rec.row \in Rows /\ rec.row \notin NextRows
      BY <1>1, <2>1 DEF RecordHolds, NextRows, Remaining, DoneRows
    <2> QED BY <1>1, <1>3, <2>1, <2>2 DEF RecordStands
  <1> QED BY <1>2, <1>3, <1>4, <1>5, Zenon DEF ReconcileInv

LEMMA RewordStep ==
    ASSUME ReconcileInv, NEW r \in Rows, Reword(r)
    PROVE  ReconcileInv'
  <1>1. PICK table \in Tables[r] : intake' = [intake EXCEPT ![r] = [of |-> intake[r].of + 1, table |-> table]]
    BY DEF Reword
  <1>2. table \in BOOLEAN
    BY TablesAssumption
  <1>3. /\ phase' = [phase EXCEPT ![r] = "todo"] /\ UNCHANGED <<files, lines, page>>
        /\ DOMAIN phase = Rows /\ intake \in [Rows -> [of : Nat \ {0}, table : BOOLEAN]]
    BY DEF Reword, ReconcileInv, IntakeRead
  <1>4. phase'[r] = "todo" /\ DOMAIN phase' = Rows /\ \A q \in Rows \ {r} : phase'[q] = phase[q]
    BY <1>3
  <1>5. intake[r].of \in Nat \ {0}
    BY <1>3
  <1>6. [of |-> intake[r].of + 1, table |-> table] \in [of : Nat \ {0}, table : BOOLEAN]
    BY <1>2, <1>5
  <1>7. /\ IntakeRead' /\ intake'[r].of = intake[r].of + 1
        /\ \A q \in Rows \ {r} : intake'[q] = intake[q]
    BY <1>1, <1>3, <1>6 DEF IntakeRead
  <1>8. HasFiles' /\ PageHolds' /\ lines' \in Seq(ToSet(lines'))
    BY <1>3 DEF ReconcileInv, HasFiles, PageHolds
  <1>9. ASSUME NEW q \in Rows PROVE RowHolds(phase'[q], intake'[q], files'[q])
    <2>1. CASE q = r
      BY <1>4, <2>1 DEF RowHolds
    <2>2. CASE q # r
      BY <1>3, <1>4, <1>7, <2>2 DEF ReconcileInv
    <2> QED BY <2>1, <2>2
  <1>10. ASSUME NEW rec \in ToSet(lines')
         PROVE  RecordHolds(rec) /\ RecordStands(rec, intake'[rec.row], phase'[rec.row], files'[rec.row])
    <2>1. RecordHolds(rec) /\ RecordStands(rec, intake[rec.row], phase[rec.row], files[rec.row])
      BY <1>3 DEF ReconcileInv
    <2>2. rec.row \in Rows
      BY <2>1 DEF RecordHolds
    <2>3. CASE rec.row = r
      BY <1>5, <1>7, <2>1, <2>3 DEF RecordStands
    <2>4. CASE rec.row # r
      BY <1>3, <1>4, <1>7, <2>1, <2>2, <2>4
    <2> QED BY <2>3, <2>4
  <1> QED BY <1>4, <1>7, <1>8, <1>9, <1>10, Zenon DEF ReconcileInv

LEMMA RenderStep ==
    ASSUME ReconcileInv, Render
    PROVE  ReconcileInv'
  <1>1. PICK words \in BOOLEAN : page' = [items |-> ReportItems, stamp |-> Digest(ReportItems, words)]
    BY DEF Render
  <1>2. UNCHANGED <<intake, files, lines, phase>>
    BY DEF Render
  <1>3. page'.items = ReportItems /\ page'.stamp = Digest(ReportItems, words)
    BY <1>1
  <1>4. PageHolds'
    BY <1>3 DEF PageHolds, Digest
  <1> QED BY <1>2, <1>4 DEF ReconcileInv, IntakeRead, HasFiles

LEMMA ReconcileStutter ==
    ASSUME ReconcileInv, UNCHANGED <<intake, files, lines, page, phase>>
    PROVE  ReconcileInv'
  BY DEF ReconcileInv, IntakeRead, HasFiles, PageHolds

LEMMA ReconcileStart == Init => ReconcileInv
  <1> SUFFICES ASSUME Init PROVE ReconcileInv
    OBVIOUS
  <1>1. PICK table \in [Rows -> BOOLEAN] : intake = [r \in Rows |-> [of |-> 1, table |-> table[r]]]
    BY DEF Init
  <1>2. IntakeRead
    BY <1>1 DEF IntakeRead
  <1>3. HasFiles /\ DOMAIN phase = Rows /\ PageHolds
    BY DEF Init, HasFiles, NoFiles, PageHolds
  <1>4. lines \in Seq(ToSet(lines)) /\ ToSet(lines) = {}
    BY NoElements DEF Init
  <1>5. \A r \in Rows : RowHolds(phase[r], intake[r], files[r])
    BY DEF Init, RowHolds
  <1> QED BY <1>2, <1>3, <1>4, <1>5 DEF ReconcileInv

LEMMA ReconcileStep == ReconcileInv /\ [Next]_vars => ReconcileInv'
  <1> SUFFICES ASSUME ReconcileInv, [Next]_vars PROVE ReconcileInv'
    OBVIOUS
  <1>1. CASE NextChunk
    BY <1>1, NextChunkStep
  <1>2. CASE Mend
    BY <1>2, ReconcileStutter DEF Mend
  <1>3. CASE Stop
    <2>1. lines \in Seq(ToSet(lines))
      BY DEF ReconcileInv
    <2> QED BY <1>3, <2>1, StopStep DEF Stop
  <1>4. CASE Render
    BY <1>4, RenderStep
  <1>5. ASSUME NEW r \in Rows, Reword(r) PROVE ReconcileInv'
    BY <1>5, RewordStep
  <1>6. ASSUME NEW r \in Rows, Check(r) PROVE ReconcileInv'
    BY <1>6, CheckStep
  <1>7. ASSUME NEW r \in Rows, CheckStops(r) PROVE ReconcileInv'
    BY <1>7, CheckStopsStep
  <1>8. ASSUME NEW r \in Rows, Ask(r) PROVE ReconcileInv'
    BY <1>8, AskStep
  <1>9. ASSUME NEW r \in Rows, Compare(r) PROVE ReconcileInv'
    BY <1>9, CompareStep
  <1>10. ASSUME NEW r \in Rows, Grade(r) PROVE ReconcileInv'
    BY <1>10, GradeStep
  <1>11. ASSUME NEW r \in Rows, Record(r) PROVE ReconcileInv'
    BY <1>11, RecordStep
  <1>12. ASSUME NEW r \in Rows, RecordStops(r) PROVE ReconcileInv'
    BY <1>12, RecordStopsStep
  <1>13. CASE UNCHANGED vars
    BY <1>13, ReconcileStutter DEF vars
  <1> QED BY <1>1, <1>2, <1>3, <1>4, <1>5, <1>6, <1>7, <1>8, <1>9, <1>10, <1>11, <1>12, <1>13, Zenon DEF Next

LEMMA ReconcileInvariant == Spec => []ReconcileInv
  <1> QED BY ReconcileStart, ReconcileStep, PTL DEF Spec

(* A record grades only what was measured of its own statement, and is a      *)
(* match only when every part was measured and none fell short, whatever      *)
(* rewordings, unfinished checks and torn writes came before it               *)
(* (reconcile.py, checked and record).                                        *)
THEOREM MatchesAreMeasured == Spec => []MatchIsMeasured
  <1>1. ReconcileInv => MatchIsMeasured
    BY DEF ReconcileInv, MatchIsMeasured, RecordHolds
  <1> QED BY <1>1, ReconcileInvariant, PTL

(* While check-run accepts the page and the checkpoint is not empty, the rows *)
(* the page offers to keep are the rows the parser would keep, but for those  *)
(* taken up again and not yet recorded (reconcile.py, check_run).              *)
THEOREM PageAndParserAgree == Spec => []OffersAgree
  <1>1. ASSUME ReconcileInv, CheckRun, lines # <<>> PROVE OffersAgree
    <2> DEFINE offered == {item.rec.row : item \in {i \in page.items : i.keep}}
               midway == {r \in DoneRows : phase[r] # "away" \/ \E rec \in ToSet(lines) : rec.row = r /\ rec.of # intake[r].of}
    <2>1. page # NoFile /\ page.stamp = Digest(ReportItems, FALSE)
      BY <1>1 DEF CheckRun, Stamped
    <2>2. page.items = ReportItems
      <3>1. PICK words \in BOOLEAN : page.stamp = Digest(page.items, words)
        BY <1>1, <2>1 DEF ReconcileInv, PageHolds
      <3>2. <<page.items, words>> = <<ReportItems, FALSE>>
        BY <2>1, <3>1, Zenon DEF Digest
      <3> QED BY <3>2
    <2>3. \A r : r \in offered <=> \E rec \in ToSet(lines) : rec.row = r /\ KeepAllowed(rec)
      <3> DEFINE item(rec) == [rec |-> rec, keep |-> KeepAllowed(rec),
                               sample |-> <<files[rec.row]["csv"], files[rec.row]["answer"]>>]
      <3>1. ReportItems = {item(rec) : rec \in ToSet(lines)}
        BY Zenon DEF ReportItems
      <3>2. \A rec : item(rec).rec = rec /\ (item(rec).keep <=> KeepAllowed(rec))
        <4> DEFINE k(rec) == KeepAllowed(rec)
        <4> HIDE DEF k
        <4> QED OBVIOUS
      <3> HIDE DEF item
      <3> QED BY <2>2, <3>1, <3>2
    <2>4. Keepable \subseteq offered
      <3>1. ASSUME NEW r \in Keepable PROVE r \in offered
        <4>1. PICK rec \in ToSet(lines) : rec.row = r /\ rec.status = "match" /\ ~rec.table
          BY DEF Keepable
        <4>2. RecordHolds(rec)
          BY <1>1 DEF ReconcileInv
        <4>3. FitConfirmed(rec.ledger)
          BY <4>1, <4>2 DEF RecordHolds, FitConfirmed, Parts
        <4> QED BY <2>3, <4>1, <4>3 DEF KeepAllowed
      <3> QED BY <3>1
    <2>5. offered \subseteq Keepable \cup midway
      <3>1. ASSUME NEW r \in offered, r \notin midway PROVE r \in Keepable
        <4>1. PICK rec \in ToSet(lines) : rec.row = r /\ KeepAllowed(rec)
          BY <2>3
        <4>2. RecordHolds(rec) /\ RecordStands(rec, intake[r], phase[r], files[r])
          BY <1>1, <4>1 DEF ReconcileInv
        <4>3. r \in DoneRows
          BY <4>1 DEF DoneRows
        <4>4. phase[r] = "away" /\ rec.of = intake[r].of
          BY <3>1, <4>1, <4>3
        <4>5. files[r]["ledger"] = rec.ledger
          BY <4>2, <4>4 DEF RecordStands
        <4> QED BY <4>1, <4>2, <4>5 DEF Keepable, KeepAllowed, RecordHolds
      <3> QED BY <3>1
    <2> HIDE DEF offered, midway
    <2>6. Keepable \subseteq offered /\ offered \subseteq Keepable \cup midway
      BY <2>4, <2>5
    <2> QED BY <2>6 DEF OffersAgree, offered, midway
  <1>2. ReconcileInv => OffersAgree
    BY <1>1 DEF OffersAgree
  <1> QED BY <1>2, ReconcileInvariant, PTL

(****************************************************************************)
(* Golden datasets: what a load keeps and an edit makes.                      *)
(****************************************************************************)

(* What Load keeps of the set X of indices of s.                              *)
Keeps(v, c) == IF Valid(c) /\ c.id \notin IdsOf(v) THEN Append(v, c) ELSE v
LoadFold(s, D, h) ==
    h = [X \in SUBSET D |-> IF X = {} THEN <<>> ELSE Keeps(h[X \ {Max(X)}], s[Max(X)])]

LEMMA LoadIsFold ==
    ASSUME NEW s
    PROVE  Load(s) = (CHOOSE h : LoadFold(s, DOMAIN s, h))[DOMAIN s]
  BY DEF Load, FoldLeft, MapThenFoldSet, LoadFold, Keeps

LEMMA LoadFoldExists ==
    ASSUME NEW T, NEW s \in Seq(T)
    PROVE  \E h : LoadFold(s, DOMAIN s, h)
  <1> DEFINE n == Len(s)
             V == Seq(T)
             step == [v \in V \X (1..n) |-> Keeps(v[1], s[v[2]])]
  <1>1. n \in Nat /\ DOMAIN s = 1..n /\ \A i \in 1..n : s[i] \in T
    OBVIOUS
  <1>2. \A v \in V, c \in T : Keeps(v, c) \in V
    BY DEF Keeps
  <1>3. <<>> \in V
    OBVIOUS
  <1>4. step \in [V \X (1..n) -> V] /\ \A v \in V, i \in 1..n : step[<<v, i>>] = Keeps(v, s[i])
    <2> HIDE DEF V, n
    <2> QED BY <1>1, <1>2
  <1> HIDE DEF step, V, n
  <1>5. PICK h : h \in [SUBSET (1..n) -> V] /\ Folds(<<>>, step, 1..n, h)
    BY <1>1, <1>3, <1>4, FoldExists
  <1> DEFINE of(X) == IF X = {} THEN <<>> ELSE Keeps(h[X \ {Max(X)}], s[Max(X)])
  <1>6. ASSUME NEW X \in SUBSET (1..n) PROVE h[X] = of(X)
    <2>1. CASE X = {}
      BY <2>1, <1>5 DEF Folds
    <2>2. CASE X # {}
      <3>1. Max(X) \in 1..n /\ X \ {Max(X)} \in SUBSET (1..n)
        BY <1>1, <2>2, MaxOfFinite
      <3>2. h[X] = step[<<h[X \ {Max(X)}], Max(X)>>]
        BY <2>2, <1>5 DEF Folds
      <3>3. h[X \ {Max(X)}] \in V
        BY <3>1, <1>5
      <3>4. step[<<h[X \ {Max(X)}], Max(X)>>] = Keeps(h[X \ {Max(X)}], s[Max(X)])
        BY <1>4, <3>1, <3>3
      <3> QED BY <2>2, <3>2, <3>4
    <2> QED BY <2>1, <2>2
  <1> HIDE DEF of
  <1>7. h = [X \in SUBSET (1..n) |-> of(X)]
    BY <1>5, <1>6
  <1>8. LoadFold(s, DOMAIN s, h)
    BY <1>1, <1>7 DEF LoadFold, of
  <1> QED BY <1>8

(* A case is kept for having validated and no namesake before it.             *)
LEMMA LoadIs ==
    ASSUME NEW T, NEW s \in Seq(T)
    PROVE  /\ Load(s) \in Seq(T)
           /\ ToSet(Load(s)) \subseteq ToSet(s)
           /\ \A c \in ToSet(Load(s)) : Valid(c)
  <1> DEFINE n == Len(s)
             h == CHOOSE h : LoadFold(s, DOMAIN s, h)
             Fine(v) == v \in Seq(T) /\ ToSet(v) \subseteq ToSet(s) /\ \A c \in ToSet(v) : Valid(c)
             A == {i \in Nat : i <= n => Fine(h[1..i])}
  <1>1. n \in Nat /\ DOMAIN s = 1..n /\ \A i \in 1..n : s[i] \in T /\ s[i] \in ToSet(s)
    BY DEF ToSet
  <1>2. LoadFold(s, 1..n, h)
    BY <1>1, LoadFoldExists
  <1>3. Load(s) = h[1..n]
    BY <1>1, LoadIsFold
  <1> HIDE DEF h, n
  <1>4. 0 \in A
    <2>1. h[1..0] = <<>>
      <3>1. {} \in SUBSET (1..n)
        OBVIOUS
      <3> QED BY <1>2, <3>1, NoPrefix DEF LoadFold
    <2>2. <<>> \in Seq(T) /\ ToSet(<<>>) = {}
      BY NoElements
    <2>3. Fine(h[1..0])
      <3> DEFINE none == <<>>
      <3>1. none \in Seq(T) /\ ToSet(none) = {} /\ h[1..0] = none
        BY <2>1, <2>2
      <3> HIDE DEF none
      <3> QED BY <3>1
    <2> HIDE DEF Fine
    <2> QED BY <2>3
  <1>5. ASSUME NEW i \in A PROVE i + 1 \in A
    <2> SUFFICES ASSUME i + 1 <= n PROVE Fine(h[1..(i + 1)])
      OBVIOUS
    <2> DEFINE v == h[1..i]
               c == s[i + 1]
    <2>0. i \in Nat /\ i + 1 \in 1..n /\ (i + 1) - 1 = i /\ Fine(v)
      BY <1>1
    <2>1. /\ 1..(i + 1) \in SUBSET (1..n) /\ 1..(i + 1) # {}
          /\ Max(1..(i + 1)) = i + 1 /\ (1..(i + 1)) \ {Max(1..(i + 1))} = 1..i
      BY <1>1, <2>0, Prefix
    <2>2. h[1..(i + 1)] = Keeps(v, c)
      BY <2>1, <1>2 DEF LoadFold
    <2>3. c \in T /\ c \in ToSet(s)
      BY <1>1, <2>0
    <2>4. v \in Seq(T) /\ ToSet(v) \subseteq ToSet(s) /\ \A x \in ToSet(v) : Valid(x)
      BY <2>0
    <2> HIDE DEF v, c
    <2>5. CASE Valid(c) /\ c.id \notin IdsOf(v)
      <3>1. h[1..(i + 1)] = Append(v, c)
        BY <2>2, <2>5 DEF Keeps
      <3>2. ToSet(Append(v, c)) = ToSet(v) \cup {c}
        BY <2>3, <2>4, AppendElements
      <3>3. Append(v, c) \in Seq(T)
        BY <2>3, <2>4
      <3> DEFINE w == Append(v, c)
      <3> HIDE DEF w
      <3>4. w \in Seq(T) /\ ToSet(w) = ToSet(v) \cup {c} /\ h[1..(i + 1)] = w
        BY <3>1, <3>2, <3>3 DEF w
      <3> QED BY <2>3, <2>4, <2>5, <3>4
    <2>6. CASE ~(Valid(c) /\ c.id \notin IdsOf(v))
      BY <2>2, <2>4, <2>6 DEF Keeps
    <2> QED BY <2>5, <2>6
  <1>6. A = Nat
    <2> HIDE DEF A
    <2>1. A \subseteq Nat
      BY DEF A
    <2> QED BY <1>4, <1>5, <2>1, SetInduction
  <1>7. Fine(h[1..n])
    BY <1>1, <1>6
  <1> QED BY <1>3, <1>7

(* What a queue makes of a case, action by action.                            *)
MutateFold(b, s, D, h) ==
    h = [X \in SUBSET D |-> IF X = {} THEN b ELSE Mutate(h[X \ {Max(X)}], s[Max(X)])]

LEMMA EditIsFold ==
    ASSUME NEW b, NEW s
    PROVE  FoldLeft(Mutate, b, s) = (CHOOSE h : MutateFold(b, s, DOMAIN s, h))[DOMAIN s]
  BY DEF FoldLeft, MapThenFoldSet, MutateFold

(* What may become of case b under actions of values W: its id and its key    *)
(* are never touched.                                                         *)
Editions(b, W) ==
    [id : {b.id}, query : {b.query} \cup W, sql : {b.sql}, confirmed : BOOLEAN, match : {b.match} \cup W,
     bounds : BOOLEAN, tags : SUBSET (b.tags \cup W)]
Doable(op) == op.op \in {"tag", "untag", "match", "question", "withdraw"}

LEMMA MutateIs ==
    ASSUME NEW b, NEW W, NEW c \in Editions(b, W), NEW op, Doable(op), op.value \in W
    PROVE  /\ Mutate(c, op) \in Editions(b, W)
           /\ Mutate(c, op).confirmed => c.confirmed /\ op.op # "withdraw"
  <1>1. /\ c = [id |-> c.id, query |-> c.query, sql |-> c.sql, confirmed |-> c.confirmed, match |-> c.match,
                bounds |-> c.bounds, tags |-> c.tags]
        /\ c.id = b.id /\ c.sql = b.sql /\ c.query \in {b.query} \cup W /\ c.match \in {b.match} \cup W
        /\ c.confirmed \in BOOLEAN /\ c.bounds \in BOOLEAN /\ c.tags \subseteq b.tags \cup W
    BY DEF Editions
  <1>2. CASE op.op = "withdraw"
    BY <1>1, <1>2 DEF Mutate, Editions
  <1>3. CASE op.op = "tag"
    BY <1>1, <1>3 DEF Mutate, Touch, Editions
  <1>4. CASE op.op = "untag"
    BY <1>1, <1>4 DEF Mutate, Touch, Editions
  <1>5. CASE op.op = "match"
    BY <1>1, <1>5 DEF Mutate, Touch, Editions
  <1>6. CASE op.op = "question"
    BY <1>1, <1>6 DEF Mutate, Touch, Editions
  <1> QED BY <1>2, <1>3, <1>4, <1>5, <1>6 DEF Doable

LEMMA MutateFoldExists ==
    ASSUME NEW b, IsCase(b), NEW T, NEW s \in Seq(T), \A i \in DOMAIN s : Doable(s[i])
    PROVE  \E h : h \in [SUBSET (1..Len(s)) -> Editions(b, {op.value : op \in ToSet(s)})] /\ MutateFold(b, s, DOMAIN s, h)
  <1> DEFINE n == Len(s)
             W == {op.value : op \in ToSet(s)}
             V == Editions(b, W)
             step == [v \in V \X (1..n) |-> Mutate(v[1], s[v[2]])]
  <1>1. n \in Nat /\ DOMAIN s = 1..n /\ \A i \in 1..n : Doable(s[i]) /\ s[i].value \in W
    BY DEF ToSet
  <1>2. \A v \in V, i \in 1..n : Mutate(v, s[i]) \in V
    <2> HIDE DEF W, n
    <2> QED BY <1>1, MutateIs
  <1>3. b \in V
    <2> HIDE DEF W
    <2> QED BY DEF IsCase, Editions
  <1>4. step \in [V \X (1..n) -> V] /\ \A v \in V, i \in 1..n : step[<<v, i>>] = Mutate(v, s[i])
    <2> HIDE DEF V, n
    <2> QED BY <1>1, <1>2
  <1> HIDE DEF step, V, n
  <1>5. PICK h : h \in [SUBSET (1..n) -> V] /\ Folds(b, step, 1..n, h)
    BY <1>1, <1>3, <1>4, FoldExists
  <1> DEFINE of(X) == IF X = {} THEN b ELSE Mutate(h[X \ {Max(X)}], s[Max(X)])
  <1>6. ASSUME NEW X \in SUBSET (1..n) PROVE h[X] = of(X)
    <2>1. CASE X = {}
      BY <2>1, <1>5 DEF Folds
    <2>2. CASE X # {}
      <3>1. Max(X) \in 1..n /\ X \ {Max(X)} \in SUBSET (1..n)
        BY <1>1, <2>2, MaxOfFinite
      <3>2. h[X] = step[<<h[X \ {Max(X)}], Max(X)>>]
        BY <2>2, <1>5 DEF Folds
      <3>3. h[X \ {Max(X)}] \in V
        BY <3>1, <1>5
      <3>4. step[<<h[X \ {Max(X)}], Max(X)>>] = Mutate(h[X \ {Max(X)}], s[Max(X)])
        BY <1>4, <3>1, <3>3
      <3> QED BY <2>2, <3>2, <3>4
    <2> QED BY <2>1, <2>2
  <1> HIDE DEF of
  <1>7. h = [X \in SUBSET (1..n) |-> of(X)]
    BY <1>5, <1>6
  <1>8. MutateFold(b, s, DOMAIN s, h)
    BY <1>1, <1>7 DEF MutateFold, of
  <1> QED BY <1>5, <1>8 DEF n, V

(* A queue keeps a case's id and key, and leaves confirmed only one that was  *)
(* and that nothing in the queue withdraws.                                   *)
LEMMA EditIs ==
    ASSUME NEW b, IsCase(b), NEW T, NEW s \in Seq(T), \A i \in DOMAIN s : Doable(s[i])
    PROVE  /\ IsCase(FoldLeft(Mutate, b, s))
           /\ FoldLeft(Mutate, b, s).id = b.id /\ FoldLeft(Mutate, b, s).sql = b.sql
           /\ FoldLeft(Mutate, b, s).confirmed => b.confirmed /\ \A i \in DOMAIN s : s[i].op # "withdraw"
  <1> DEFINE n == Len(s)
             W == {op.value : op \in ToSet(s)}
             V == Editions(b, W)
             h == CHOOSE h : MutateFold(b, s, DOMAIN s, h)
             Fine(i) == /\ h[1..i] \in V
                        /\ h[1..i].confirmed => b.confirmed /\ \A j \in 1..i : s[j].op # "withdraw"
             A == {i \in Nat : i <= n => Fine(i)}
  <1>1. n \in Nat /\ DOMAIN s = 1..n /\ \A i \in 1..n : Doable(s[i]) /\ s[i].value \in W
    BY DEF ToSet
  <1>2. MutateFold(b, s, 1..n, h)
    <2>1. \E g : MutateFold(b, s, DOMAIN s, g)
      BY MutateFoldExists
    <2> QED BY <1>1, <2>1
  <1>3. FoldLeft(Mutate, b, s) = h[1..n]
    BY <1>1, EditIsFold
  <1>0. b \in V
    <2> HIDE DEF W
    <2> QED BY DEF IsCase, Editions
  <1> HIDE DEF h, n, W
  <1>4. 0 \in A
    <2>1. h[1..0] = b
      <3>1. {} \in SUBSET (1..n)
        OBVIOUS
      <3> QED BY <1>2, <3>1, NoPrefix DEF MutateFold
    <2> HIDE DEF V
    <2>2. Fine(0)
      BY <1>0, <2>1
    <2> QED BY <2>2
  <1>5. ASSUME NEW i \in A PROVE i + 1 \in A
    <2> SUFFICES ASSUME i + 1 <= n PROVE Fine(i + 1)
      OBVIOUS
    <2> DEFINE c == h[1..i]
               op == s[i + 1]
    <2>0. i \in Nat /\ i + 1 \in 1..n /\ (i + 1) - 1 = i /\ Fine(i)
      BY <1>1
    <2>1. /\ 1..(i + 1) \in SUBSET (1..n) /\ 1..(i + 1) # {}
          /\ Max(1..(i + 1)) = i + 1 /\ (1..(i + 1)) \ {Max(1..(i + 1))} = 1..i
      BY <1>1, <2>0, Prefix
    <2>2. h[1..(i + 1)] = Mutate(c, op)
      BY <2>1, <1>2 DEF MutateFold
    <2>3. c \in V /\ Doable(op) /\ op.value \in W
      BY <1>1, <2>0
    <2>4. c.confirmed => b.confirmed /\ \A j \in 1..i : s[j].op # "withdraw"
      BY <2>0
    <2>5. Mutate(c, op) \in V /\ (Mutate(c, op).confirmed => c.confirmed /\ op.op # "withdraw")
      BY <2>3, MutateIs
    <2> HIDE DEF c, V
    <2>6. \A j \in 1..(i + 1) : j \in 1..i \/ j = i + 1
      BY <2>0
    <2> QED BY <2>2, <2>4, <2>5, <2>6 DEF op
  <1>6. A = Nat
    <2> HIDE DEF A
    <2>1. A \subseteq Nat
      BY DEF A
    <2> QED BY <1>4, <1>5, <2>1, SetInduction
  <1>7. Fine(n)
    <2> HIDE DEF Fine
    <2> QED BY <1>1, <1>6
  <1>8. IsCase(h[1..n]) /\ h[1..n].id = b.id /\ h[1..n].sql = b.sql
    BY <1>7 DEF Editions, IsCase
  <1> QED BY <1>1, <1>3, <1>7, <1>8

(****************************************************************************)
(* Golden datasets: cases picked and merged.                                  *)
(****************************************************************************)

LEMMA WithinOn ==
    ASSUME NEW T, NEW s \in Seq(T), NEW S, NEW R, \A x \in ToSet(s) : x \in S <=> x \in R
    PROVE  Within(s, S) = Within(s, R)
  <1>1. Alike(s, S, s, R)
    BY DEF Alike, ToSet
  <1> QED BY <1>1, WithinAlike

(* ------------------------------------------------------------------------ *)
(* The cases of a sequence without some.                                      *)

But(s, N) == {c \in ToSet(s) : c.id \notin N}

LEMMA CasesButIs ==
    ASSUME NEW T, NEW s \in Seq(T), NEW N
    PROVE  CasesBut(s, N) \in Seq(T) /\ ToSet(CasesBut(s, N)) = But(s, N)
  <1>1. CasesBut(s, N) = Within(s, But(s, N))
    BY Zenon DEF CasesBut, But
  <1>2. Within(s, But(s, N)) \in Seq(T) /\ ToSet(Within(s, But(s, N))) = ToSet(s) \cap But(s, N)
    BY WithinIs
  <1>3. ToSet(s) \cap But(s, N) = But(s, N)
    BY DEF But
  <1> QED BY <1>1, <1>2, <1>3

LEMMA CasesOfIs ==
    ASSUME NEW T, NEW s \in Seq(T), NEW N
    PROVE  CasesOf(s, N) \in Seq(T) /\ ToSet(CasesOf(s, N)) = {c \in ToSet(s) : c.id \in N}
  <1> DEFINE of == {c \in ToSet(s) : c.id \in N}
  <1>1. CasesOf(s, N) = Within(s, of)
    BY Zenon DEF CasesOf
  <1>2. ToSet(s) \cap of = of
    OBVIOUS
  <1> HIDE DEF of
  <1>3. Within(s, of) \in Seq(T) /\ ToSet(Within(s, of)) = ToSet(s) \cap of
    BY WithinIs
  <1>4. CasesOf(s, N) \in Seq(T) /\ ToSet(CasesOf(s, N)) = of
    BY <1>1, <1>2, <1>3
  <1> QED BY <1>4 DEF of

LEMMA CasesButAlike ==
    ASSUME NEW T, NEW s \in Seq(T), NEW t \in Seq(T), NEW N, Len(s) = Len(t),
           \A i \in 1..Len(s) : (s[i].id \in N <=> t[i].id \in N) /\ (s[i].id \notin N => s[i] = t[i])
    PROVE  CasesBut(s, N) = CasesBut(t, N)
  <1>1. \A i \in 1..Len(s) : s[i] \in ToSet(s) /\ t[i] \in ToSet(t)
    BY DEF ToSet
  <1>2. Alike(s, But(s, N), t, But(t, N))
    BY <1>1 DEF Alike, But
  <1>3. Within(s, But(s, N)) = Within(t, But(t, N))
    BY <1>2, WithinAlike
  <1> QED BY <1>3, Zenon DEF CasesBut, But

LEMMA CasesButConcat ==
    ASSUME NEW T, NEW s \in Seq(T), NEW u \in Seq(T), NEW N
    PROVE  CasesBut(s \o u, N) = CasesBut(s, N) \o CasesBut(u, N)
  <1> DEFINE S == But(s \o u, N)
  <1>1. ToSet(s \o u) = ToSet(s) \cup ToSet(u)
    BY ConcatElements
  <1>2. /\ \A x \in ToSet(s) : x \in S <=> x \in But(s, N)
        /\ \A x \in ToSet(u) : x \in S <=> x \in But(u, N)
    BY <1>1 DEF But
  <1>3. CasesBut(s \o u, N) = Within(s \o u, S)
    BY Zenon DEF CasesBut, But
  <1> HIDE DEF S
  <1>4. Within(s \o u, S) = Within(s, S) \o Within(u, S)
    BY WithinConcat
  <1>5. Within(s, S) = Within(s, But(s, N)) /\ Within(u, S) = Within(u, But(u, N))
    BY <1>2, WithinOn
  <1>6. CasesBut(s, N) = Within(s, But(s, N)) /\ CasesBut(u, N) = Within(u, But(u, N))
    BY Zenon DEF CasesBut, But
  <1> QED BY <1>3, <1>4, <1>5, <1>6

LEMMA CasesButTwice ==
    ASSUME NEW T, NEW s \in Seq(T), NEW N, NEW M, M \subseteq N
    PROVE  CasesBut(CasesBut(s, M), N) = CasesBut(s, N)
  <1> DEFINE r == CasesBut(s, M)
  <1>1. r = Within(s, But(s, M)) /\ r \in Seq(T) /\ ToSet(r) = But(s, M)
    <2>1. r = Within(s, But(s, M))
      BY Zenon DEF CasesBut, But
    <2> QED BY <2>1, CasesButIs
  <1>2. CasesBut(r, N) = Within(r, But(r, N)) /\ CasesBut(s, N) = Within(s, But(s, N))
    BY Zenon DEF CasesBut, But
  <1> HIDE DEF r
  <1>3. Within(Within(s, But(s, M)), But(r, N)) = Within(s, But(s, M) \cap But(r, N))
    BY WithinTwice
  <1>4. But(s, M) \cap But(r, N) = But(s, N)
    BY <1>1 DEF But
  <1>5. CasesBut(r, N) = CasesBut(s, N)
    BY <1>1, <1>2, <1>3, <1>4
  <1> QED BY <1>5 DEF r

LEMMA CasesButNone ==
    ASSUME NEW T, NEW s \in Seq(T), NEW N, IdsOf(s) \subseteq N
    PROVE  CasesBut(s, N) = <<>>
  <1>1. ToSet(s) \cap But(s, N) = {}
    BY DEF But, IdsOf
  <1>2. Within(s, But(s, N)) = <<>>
    BY <1>1, WithinAllOrNone
  <1> QED BY <1>2, Zenon DEF CasesBut, But

LEMMA CasesButAll ==
    ASSUME NEW T, NEW s \in Seq(T)
    PROVE  CasesBut(s, {}) = s
  <1>1. ToSet(s) \subseteq But(s, {})
    BY DEF But
  <1>2. Within(s, But(s, {})) = s
    BY <1>1, WithinAllOrNone
  <1> QED BY <1>2, Zenon DEF CasesBut, But

(* ------------------------------------------------------------------------ *)
(* A merge.                                                                   *)

Swapped(kept, items) == [i \in DOMAIN kept |-> IF kept[i].id \in IdsOf(items) THEN WithId(items, kept[i].id) ELSE kept[i]]

LEMMA WithIdIs ==
    ASSUME NEW s, NEW x \in IdsOf(s)
    PROVE  WithId(s, x) \in ToSet(s) /\ WithId(s, x).id = x
  BY DEF IdsOf, WithId

LEMMA SwappedIs ==
    ASSUME NEW T, NEW kept \in Seq(T), NEW items \in Seq(T)
    PROVE  /\ Swapped(kept, items) \in Seq(T) /\ Len(Swapped(kept, items)) = Len(kept)
           /\ \A i \in 1..Len(kept) : /\ Swapped(kept, items)[i].id = kept[i].id
                                      /\ kept[i].id \notin IdsOf(items) => Swapped(kept, items)[i] = kept[i]
                                      /\ kept[i].id \in IdsOf(items) => Swapped(kept, items)[i] \in ToSet(items)
  <1> DEFINE of(i) == IF kept[i].id \in IdsOf(items) THEN WithId(items, kept[i].id) ELSE kept[i]
  <1>1. ToSet(items) \subseteq T
    BY Elements
  <1>2. DOMAIN kept = 1..Len(kept) /\ Len(kept) \in Nat /\ \A i \in 1..Len(kept) : kept[i] \in T
    OBVIOUS
  <1>3. ASSUME NEW i \in 1..Len(kept)
        PROVE  /\ of(i) \in T /\ of(i).id = kept[i].id
               /\ kept[i].id \notin IdsOf(items) => of(i) = kept[i]
               /\ kept[i].id \in IdsOf(items) => of(i) \in ToSet(items)
    BY <1>1, <1>2, WithIdIs
  <1>4. Swapped(kept, items) = [i \in 1..Len(kept) |-> of(i)]
    BY <1>2, Zenon DEF Swapped
  <1> HIDE DEF of
  <1>5. Swapped(kept, items) \in Seq(T) /\ Len(Swapped(kept, items)) = Len(kept)
    BY <1>2, <1>3, <1>4
  <1>6. \A i \in 1..Len(kept) : Swapped(kept, items)[i] = of(i)
    BY <1>4
  <1> HIDE DEF Swapped
  <1> QED BY <1>3, <1>5, <1>6

LEMMA MergedIsOf ==
    ASSUME NEW existing, NEW items, NEW remove
    PROVE  Merged(existing, items, remove) =
              Swapped(CasesBut(existing, remove), items) \o CasesBut(items, IdsOf(existing))
  BY Zenon DEF Merged, Swapped

(* What a merge holds: items, and the others' cases that nobody removed.      *)
LEMMA MergedIs ==
    ASSUME NEW T, NEW existing \in Seq(T), NEW items \in Seq(T), NEW remove
    PROVE  /\ Merged(existing, items, remove) \in Seq(T)
           /\ \A c \in ToSet(Merged(existing, items, remove)) :
                 c \in ToSet(items) \/ (c \in ToSet(existing) /\ c.id \notin remove \cup IdsOf(items))
  <1> DEFINE kept == CasesBut(existing, remove)
             swapped == Swapped(kept, items)
             added == CasesBut(items, IdsOf(existing))
             m == swapped \o added
  <1>0. Merged(existing, items, remove) = m
    BY MergedIsOf
  <1>1. kept \in Seq(T) /\ ToSet(kept) = But(existing, remove)
    BY CasesButIs
  <1>2. added \in Seq(T) /\ ToSet(added) = But(items, IdsOf(existing))
    BY CasesButIs
  <1> HIDE DEF kept, added
  <1>3. /\ swapped \in Seq(T) /\ Len(swapped) = Len(kept)
        /\ \A i \in 1..Len(kept) : /\ kept[i].id \notin IdsOf(items) => swapped[i] = kept[i]
                                   /\ kept[i].id \in IdsOf(items) => swapped[i] \in ToSet(items)
    BY <1>1, SwappedIs
  <1> HIDE DEF swapped
  <1>4. m \in Seq(T) /\ ToSet(m) = ToSet(swapped) \cup ToSet(added)
    BY <1>2, <1>3, ConcatElements
  <1> HIDE DEF m
  <1>5. ASSUME NEW c \in ToSet(swapped)
        PROVE  c \in ToSet(items) \/ (c \in ToSet(existing) /\ c.id \notin remove \cup IdsOf(items))
    <2>1. PICK i \in 1..Len(kept) : c = swapped[i]
      BY <1>3 DEF ToSet
    <2>2. kept[i] \in But(existing, remove)
      BY <1>1 DEF ToSet
    <2> QED BY <1>3, <2>1, <2>2 DEF But
  <1>6. \A c \in ToSet(added) : c \in ToSet(items)
    BY <1>2 DEF But
  <1> QED BY <1>0, <1>4, <1>5, <1>6

LEMMA MergedKeeps ==
    ASSUME NEW T, NEW existing \in Seq(T), NEW items \in Seq(T), NEW remove, NEW N, remove \cup IdsOf(items) \subseteq N
    PROVE  CasesBut(Merged(existing, items, remove), N) = CasesBut(existing, N)
  <1> DEFINE kept == CasesBut(existing, remove)
             swapped == Swapped(kept, items)
             added == CasesBut(items, IdsOf(existing))
  <1>0. Merged(existing, items, remove) = swapped \o added
    BY MergedIsOf
  <1>1. kept \in Seq(T)
    BY CasesButIs
  <1>2. added \in Seq(T) /\ ToSet(added) = But(items, IdsOf(existing))
    BY CasesButIs
  <1>3. CasesBut(kept, N) = CasesBut(existing, N)
    BY CasesButTwice
  <1> HIDE DEF kept, added
  <1>4. /\ swapped \in Seq(T) /\ Len(swapped) = Len(kept)
        /\ \A i \in 1..Len(kept) : /\ swapped[i].id = kept[i].id
                                   /\ kept[i].id \notin IdsOf(items) => swapped[i] = kept[i]
    BY <1>1, SwappedIs
  <1> HIDE DEF swapped
  <1>5. CasesBut(swapped, N) = CasesBut(kept, N)
    <2>1. \A i \in 1..Len(swapped) : (swapped[i].id \in N <=> kept[i].id \in N) /\ (swapped[i].id \notin N => swapped[i] = kept[i])
      BY <1>4
    <2> QED BY <1>1, <1>4, <2>1, CasesButAlike
  <1>6. CasesBut(added, N) = <<>>
    <2>1. IdsOf(added) \subseteq N
      BY <1>2 DEF IdsOf, But
    <2> QED BY <1>2, <2>1, CasesButNone
  <1>7. CasesBut(swapped \o added, N) = CasesBut(swapped, N) \o CasesBut(added, N)
    BY <1>2, <1>4, CasesButConcat, SMTT(60)
  <1>8. CasesBut(kept, N) \o <<>> = CasesBut(kept, N)
    <2>1. CasesBut(kept, N) \in Seq(T)
      BY <1>1, CasesButIs
    <2> QED BY <2>1, ConcatNothing
  <1> QED BY <1>0, <1>3, <1>5, <1>6, <1>7, <1>8

LEMMA MergedHas ==
    ASSUME NEW T, NEW existing \in Seq(T), NEW items \in Seq(T)
    PROVE  IdsOf(existing) \subseteq IdsOf(Merged(existing, items, {}))
  <1> DEFINE swapped == Swapped(existing, items)
             added == CasesBut(items, IdsOf(existing))
             m == swapped \o added
  <1>0. Merged(existing, items, {}) = m
    <2>1. CasesBut(existing, {}) = existing
      BY CasesButAll
    <2> QED BY <2>1, MergedIsOf
  <1>1. swapped \in Seq(T) /\ Len(swapped) = Len(existing) /\ \A i \in 1..Len(existing) : swapped[i].id = existing[i].id
    BY SwappedIs
  <1>2. added \in Seq(T)
    BY CasesButIs
  <1> HIDE DEF swapped, added
  <1>3. ToSet(m) = ToSet(swapped) \cup ToSet(added)
    BY <1>1, <1>2, ConcatElements
  <1> HIDE DEF m
  <1>4. ASSUME NEW c \in ToSet(existing) PROVE c.id \in IdsOf(m)
    <2>1. PICK i \in 1..Len(existing) : c = existing[i]
      BY DEF ToSet
    <2>2. swapped[i] \in ToSet(swapped)
      BY <1>1 DEF ToSet
    <2> QED BY <1>1, <1>3, <2>1, <2>2 DEF IdsOf
  <1> QED BY <1>0, <1>4 DEF IdsOf

(****************************************************************************)
(* Golden datasets: the inductive invariant, scores and verdicts.             *)
(****************************************************************************)

FilesHold ==
    /\ DOMAIN file = Datasets /\ DOMAIN vouched = Datasets
    /\ \A d \in Datasets : file[d] \in {None, Unreadable} \/ IsCases(file[d])

(* The worlds in which a case comes to an outcome.                            *)
Reached == {w \in Worlds : w.gen # "raises"}

(* The outcomes so far are the scores of the cases, in order.                 *)
ScoredSoFar(cases, worlds, outcomes) ==
    /\ worlds \in Seq(Reached) /\ outcomes \in Seq(ToSet(outcomes))
    /\ Len(outcomes) = Len(worlds) /\ Len(worlds) <= Len(cases)
    /\ \A i \in 1..Len(worlds) : outcomes[i] = Score(cases[i], worlds[i])

RunIs(x) ==
    /\ x = [dataset |-> x.dataset, selection |-> x.selection, cases |-> x.cases, worlds |-> x.worlds,
            outcomes |-> x.outcomes, completed |-> x.completed]
    /\ x.dataset \in Datasets /\ x.completed \in BOOLEAN
    /\ IsCases(x.cases) /\ \A c \in ToSet(x.cases) : Valid(c)
    /\ ScoredSoFar(x.cases, x.worlds, x.outcomes)
RunHolds == run # NoRun => RunIs(run)

OutcomesHold(outcomes) ==
    /\ outcomes \in Seq(ToSet(outcomes))
    /\ \A o \in ToSet(outcomes) : o.status \in {"error", "unscored", "scored"} /\ o.confirmed \in BOOLEAN
RecordsHold == records \in Seq(ToSet(records)) /\ \A r \in ToSet(records) : OutcomesHold(r.outcomes)

(* told is what the newest record that can be trusted has.                    *)
Told(d) == IF Trusted(d) = <<>> THEN {} ELSE {Wrong(Last(Trusted(d)).outcomes)}
ToldHolds == DOMAIN told = Datasets /\ \A d \in Datasets : told[d] = Told(d)

GoldenInv == FilesHold /\ KeysAreAccepted /\ RunHolds /\ VerdictIsEarned /\ RecordsHold /\ ToldHolds

(* ------------------------------------------------------------------------ *)
(* Scores and verdicts.                                                       *)

LEMMA ScoreIs ==
    ASSUME NEW c, IsCase(c), Valid(c), NEW w \in Reached
    PROVE  /\ Score(c, w).id = c.id /\ Score(c, w).confirmed = c.confirmed
           /\ Score(c, w).status \in {"error", "unscored", "scored"}
           /\ w.gen = "none" => Score(c, w).status = "error"
           /\ GatingFailure(Score(c, w)) <=> c.confirmed /\ AnsweredWrong(c, w)
  <1>1. IsWorld(w) /\ w.gen # "raises"
    BY WorldsAssumption DEF Reached
  <1>2. /\ w.gen \in {"sql", "none"} /\ w.key \in {"ok", "refused", "failed"}
        /\ w.made \in {"ok", "refused", "uncompared", "failed"} /\ w.same \in BOOLEAN /\ w.gated \in BOOLEAN
        /\ c.confirmed \in BOOLEAN /\ (c.confirmed => c.sql # None)
    BY <1>1 DEF IsWorld, IsCase, Valid
  <1> DEFINE keyed == c.match \notin SelfJudging
  <1>3. CASE w.gen = "none"
    <2>1. Score(c, w) = Outcome(c, "error", FALSE, FALSE)
      BY <1>3 DEF Score
    <2> QED BY <1>2, <1>3, <2>1 DEF Outcome, GatingFailure, AnsweredWrong
  <1>4. CASE w.gen = "sql" /\ keyed /\ c.sql = None
    <2>1. Score(c, w) = Outcome(c, "unscored", FALSE, w.gated)
      BY <1>4 DEF Score
    <2> QED BY <1>2, <1>4, <2>1 DEF Outcome, GatingFailure, AnsweredWrong
  <1>5. CASE w.gen = "sql" /\ keyed /\ c.sql # None /\ w.key # "ok"
    <2>1. Score(c, w) = Outcome(c, StatusOf(w.key, TRUE), FALSE, w.gated)
      BY <1>5 DEF Score
    <2>2. StatusOf(w.key, TRUE) \in {"error", "unscored"}
      BY <1>2, <1>5 DEF StatusOf
    <2>3. /\ Score(c, w).id = c.id /\ Score(c, w).confirmed = c.confirmed
          /\ Score(c, w).status = StatusOf(w.key, TRUE)
      BY <2>1 DEF Outcome
    <2>4. ~GatingFailure(Score(c, w))
      BY <2>2, <2>3 DEF GatingFailure
    <2>5. ~AnsweredWrong(c, w)
      BY <1>5 DEF AnsweredWrong
    <2> QED BY <1>5, <2>2, <2>3, <2>4, <2>5
  <1>6. CASE w.gen = "sql" /\ ~(keyed /\ c.sql = None) /\ ~(keyed /\ c.sql # None /\ w.key # "ok")
    <2> DEFINE exact == w.made = "ok" /\ w.same
    <2>1. Score(c, w) = Outcome(c, StatusOf(w.made, FALSE), exact, w.gated)
      BY <1>6 DEF Score
    <2>2. /\ StatusOf(w.made, FALSE) \in {"error", "unscored", "scored"}
          /\ StatusOf(w.made, FALSE) = "scored" <=> w.made \in {"ok", "refused"}
      BY <1>2 DEF StatusOf
    <2>3. exact \in BOOLEAN
      OBVIOUS
    <2>4. AnsweredWrong(c, w) <=> w.made \in {"ok", "refused"} /\ (~exact \/ w.gated)
      BY <1>2, <1>6 DEF AnsweredWrong
    <2> HIDE DEF exact
    <2>5. /\ Score(c, w).id = c.id /\ Score(c, w).confirmed = c.confirmed
          /\ Score(c, w).status = StatusOf(w.made, FALSE) /\ Score(c, w).exact = exact /\ Score(c, w).gated = w.gated
      BY <2>1 DEF Outcome
    <2>6. GatingFailure(Score(c, w)) <=> c.confirmed /\ w.made \in {"ok", "refused"} /\ ~(exact /\ ~w.gated)
      BY <2>2, <2>5 DEF GatingFailure, Passed
    <2> QED BY <1>2, <1>6, <2>2, <2>4, <2>5, <2>6
  <1> QED BY <1>2, <1>3, <1>4, <1>5, <1>6

LEMMA VerdictIs ==
    ASSUME NEW completed, NEW outcomes
    PROVE  /\ Verdict(completed, outcomes) = 1 => completed /\ \E o \in ToSet(outcomes) : GatingFailure(o)
           /\ Verdict(completed, outcomes) = 0 =>
                 /\ completed /\ ~\E o \in ToSet(outcomes) : GatingFailure(o)
                 /\ outcomes = <<>> \/ \E o \in ToSet(outcomes) : o.status # "error"
  BY DEF Verdict, VerdictUnfinished

LEMMA ScoredIs ==
    ASSUME NEW cases, NEW worlds, NEW outcomes, IsCases(cases), \A c \in ToSet(cases) : Valid(c),
           ScoredSoFar(cases, worlds, outcomes), NEW i \in 1..Len(worlds)
    PROVE  /\ i \in DOMAIN outcomes /\ outcomes[i] \in ToSet(outcomes) /\ cases[i] \in ToSet(cases)
           /\ outcomes[i].confirmed = cases[i].confirmed
           /\ outcomes[i].status \in {"error", "unscored", "scored"}
           /\ worlds[i].gen = "none" => outcomes[i].status = "error"
           /\ GatingFailure(outcomes[i]) <=> cases[i].confirmed /\ AnsweredWrong(cases[i], worlds[i])
  <1>1. /\ worlds \in Seq(Reached) /\ outcomes \in Seq(ToSet(outcomes))
        /\ Len(outcomes) = Len(worlds) /\ Len(worlds) <= Len(cases)
        /\ outcomes[i] = Score(cases[i], worlds[i])
    BY DEF ScoredSoFar
  <1>2. cases \in Seq(ToSet(cases))
    BY DEF IsCases
  <1>3. i \in DOMAIN outcomes /\ i \in DOMAIN cases /\ worlds[i] \in Reached
    BY <1>1, <1>2
  <1>4. outcomes[i] \in ToSet(outcomes) /\ cases[i] \in ToSet(cases)
    BY <1>3 DEF ToSet
  <1>5. IsCase(cases[i]) /\ Valid(cases[i])
    BY <1>4 DEF IsCases
  <1> QED BY <1>1, <1>3, <1>4, <1>5, ScoreIs

(* Each outcome is one of a case.                                             *)
LEMMA OutcomesAre ==
    ASSUME NEW cases, NEW worlds, NEW outcomes, IsCases(cases), \A c \in ToSet(cases) : Valid(c),
           ScoredSoFar(cases, worlds, outcomes), NEW o \in ToSet(outcomes)
    PROVE  \E i \in 1..Len(worlds) : o = outcomes[i]
  <1>1. outcomes \in Seq(ToSet(outcomes)) /\ Len(outcomes) = Len(worlds)
    BY DEF ScoredSoFar
  <1> QED BY <1>1 DEF ToSet

LEMMA OutcomesHoldIs ==
    ASSUME NEW x, RunIs(x)
    PROVE  OutcomesHold(x.outcomes)
  <1>1. x.outcomes \in Seq(ToSet(x.outcomes))
    BY DEF RunIs, ScoredSoFar
  <1>2. ASSUME NEW o \in ToSet(x.outcomes) PROVE o.status \in {"error", "unscored", "scored"} /\ o.confirmed \in BOOLEAN
    <2>1. PICK i \in 1..Len(x.worlds) : o = x.outcomes[i]
      BY OutcomesAre DEF RunIs
    <2>2. o.confirmed = x.cases[i].confirmed /\ o.status \in {"error", "unscored", "scored"} /\ x.cases[i] \in ToSet(x.cases)
      BY <2>1, ScoredIs DEF RunIs
    <2> QED BY <2>2 DEF RunIs, IsCases, IsCase
  <1> QED BY <1>1, <1>2 DEF OutcomesHold

LEMMA FinishEarns ==
    ASSUME NEW x, RunIs(x), ~(x.completed /\ Len(x.outcomes) < Len(x.cases))
    PROVE  Earned(x.cases, x.worlds, Verdict(x.completed, x.outcomes))
  <1> DEFINE worlds == x.worlds
             cases == x.cases
             outcomes == x.outcomes
             code == Verdict(x.completed, x.outcomes)
             wrong == {i \in DOMAIN worlds : cases[i].confirmed /\ AnsweredWrong(cases[i], worlds[i])}
             broke == {i \in DOMAIN worlds : worlds[i].gen = "none"}
  <1>1. IsCases(cases) /\ (\A c \in ToSet(cases) : Valid(c)) /\ ScoredSoFar(cases, worlds, outcomes)
    BY DEF RunIs
  <1>2. /\ worlds \in Seq(Reached) /\ DOMAIN worlds = 1..Len(worlds) /\ Len(worlds) \in Nat
        /\ Len(outcomes) = Len(worlds) /\ Len(worlds) <= Len(cases)
        /\ outcomes \in Seq(ToSet(outcomes)) /\ Len(cases) \in Nat
    BY <1>1 DEF ScoredSoFar, IsCases
  <1>3. \A i \in 1..Len(worlds) :
          /\ outcomes[i] \in ToSet(outcomes)
          /\ worlds[i].gen = "none" => outcomes[i].status = "error"
          /\ GatingFailure(outcomes[i]) <=> i \in wrong
    <2>1. \A i \in 1..Len(worlds) : i \in wrong <=> cases[i].confirmed /\ AnsweredWrong(cases[i], worlds[i])
      BY <1>2
    <2> HIDE DEF cases, worlds, outcomes, wrong
    <2> QED BY <1>1, <2>1, ScoredIs
  <1>4. \A o \in ToSet(outcomes) : \E i \in 1..Len(worlds) : o = outcomes[i]
    <2> HIDE DEF cases, worlds, outcomes
    <2> QED BY <1>1, OutcomesAre
  <1>5. /\ code = 1 => x.completed /\ \E o \in ToSet(outcomes) : GatingFailure(o)
        /\ code = 0 => /\ x.completed /\ ~\E o \in ToSet(outcomes) : GatingFailure(o)
                       /\ outcomes = <<>> \/ \E o \in ToSet(outcomes) : o.status # "error"
    BY VerdictIs
  <1>6. code = 0 => Len(outcomes) >= Len(cases)
    BY <1>2, <1>5
  <1>7. \A i \in wrong : i \in 1..Len(worlds)
    BY <1>2
  <1>8. \A i : i \in broke <=> i \in 1..Len(worlds) /\ worlds[i].gen = "none"
    BY <1>2
  <1> HIDE DEF wrong, broke, cases, worlds, outcomes, code
  <1>9. code = 1 => wrong # {}
    BY <1>3, <1>4, <1>5
  <1>10. code = 0 => wrong = {}
    BY <1>3, <1>5, <1>7
  <1>11. code = 0 => Len(worlds) = Len(cases)
    BY <1>2, <1>6
  <1>12. ASSUME code = 0, cases # <<>>, broke = DOMAIN worlds PROVE FALSE
    <2>1. outcomes # <<>>
      <3>1. Len(cases) # 0
        BY <1>1, <1>12 DEF IsCases
      <3>2. Len(outcomes) # 0
        BY <1>2, <1>11, <1>12, <3>1
      <3> QED BY <3>2
    <2>2. PICK o \in ToSet(outcomes) : o.status # "error"
      BY <1>5, <1>12, <2>1
    <2>3. PICK i \in 1..Len(worlds) : o = outcomes[i]
      BY <1>4, <2>2
    <2>4. i \in broke
      BY <1>2, <1>12
    <2> QED BY <1>3, <1>8, <2>2, <2>3, <2>4
  <1> QED BY <1>9, <1>10, <1>11, <1>12, Zenon DEF Earned, wrong, broke, cases, worlds, code

(****************************************************************************)
(* Golden datasets: the doors.                                                *)
(****************************************************************************)

LEMMA CasesAre ==
    ASSUME NEW T, NEW s \in Seq(T), \A c \in ToSet(s) : IsCase(c)
    PROVE  IsCases(s)
  BY OwnElements DEF IsCases

LEMMA ReadIs ==
    ASSUME NEW content, content \in {None, Unreadable} \/ IsCases(content)
    PROVE  /\ IsCases(Read(content)) /\ \A c \in ToSet(Read(content)) : Valid(c)
           /\ IsCases(content) => ToSet(Read(content)) \subseteq ToSet(content)
  <1>1. CASE content \in {None, Unreadable}
    <2> DEFINE none == <<>>
    <2>1. Read(content) = none /\ ToSet(none) = {} /\ none \in Seq(ToSet(none))
      BY <1>1, NoElements DEF Read
    <2> HIDE DEF none
    <2> QED BY <2>1 DEF IsCases
  <1>2. CASE content \notin {None, Unreadable}
    <2>1. Read(content) = Load(content) /\ IsCases(content) /\ content \in Seq(ToSet(content))
      BY <1>2 DEF Read, IsCases
    <2>2. /\ Load(content) \in Seq(ToSet(content)) /\ ToSet(Load(content)) \subseteq ToSet(content)
          /\ \A c \in ToSet(Load(content)) : Valid(c)
      BY <2>1, LoadIs
    <2>3. \A c \in ToSet(Load(content)) : IsCase(c)
      BY <2>1, <2>2 DEF IsCases
    <2>4. IsCases(Load(content))
      BY <2>2, <2>3, CasesAre
    <2> QED BY <2>1, <2>2, <2>4
  <1> QED BY <1>1, <1>2

(* ------------------------------------------------------------------------ *)
(* The doors.                                                                 *)

(* A step that leaves d's file as content, with V vouched for.                *)
LEMMA FileStep ==
    ASSUME FilesHold, KeysAreAccepted, NEW d \in Datasets, NEW content, NEW V,
           content \in {None, Unreadable} \/ IsCases(content),
           file' = [file EXCEPT ![d] = content], vouched' = [vouched EXCEPT ![d] = V],
           \A c \in ToSet(Read(content)) : c.confirmed => <<c.id, c.sql>> \in V
    PROVE  FilesHold' /\ KeysAreAccepted'
  <1>1. /\ DOMAIN file' = Datasets /\ DOMAIN vouched' = Datasets /\ file'[d] = content /\ vouched'[d] = V
        /\ \A e \in Datasets \ {d} : file'[e] = file[e] /\ vouched'[e] = vouched[e]
    BY DEF FilesHold
  <1>2. ASSUME NEW e \in Datasets PROVE file'[e] \in {None, Unreadable} \/ IsCases(file'[e])
    BY <1>1 DEF FilesHold
  <1>3. ASSUME NEW e \in Datasets, NEW c \in ToSet(Read(file'[e])), c.confirmed PROVE <<c.id, c.sql>> \in vouched'[e]
    <2>1. CASE e = d
      BY <1>1, <1>3, <2>1
    <2>2. CASE e # d
      BY <1>1, <1>3, <2>2 DEF KeysAreAccepted
    <2> QED BY <2>1, <2>2
  <1> QED BY <1>1, <1>2, <1>3 DEF FilesHold, KeysAreAccepted

(* What OthersAreKept says of d.                                              *)
KeepsOthers(d) ==
    file'[d] # file[d] /\ file[d] \notin {None, Unreadable} /\ file'[d] # Unreadable =>
    CasesBut(file[d], named') = CasesBut(file'[d], named')

LEMMA WriteStep ==
    ASSUME FilesHold, KeysAreAccepted, NEW d \in Datasets, NEW items, IsCases(items), NEW remove, NEW agreed, NEW stands,
           \A c \in ToSet(items) : c.confirmed => <<c.id, c.sql>> \in stands,
           WriteItems(d, items, remove, agreed, stands)
    PROVE  FilesHold' /\ KeysAreAccepted' /\ \A e \in Datasets : KeepsOthers(e)
  <1> DEFINE existing == Read(file[d])
             m == Merged(existing, items, remove)
             T == ToSet(existing) \cup ToSet(items)
             V == Vouch(d, items, stands, remove, m)
             N == IdsOf(items) \cup remove
  <1>1. /\ file' = [file EXCEPT ![d] = RolledBack(d, m)] /\ vouched' = [vouched EXCEPT ![d] = V]
        /\ named' = N /\ ~OurFaults(file[d])
    BY Zenon DEF WriteItems, MayWrite
  <1>2. DOMAIN file = Datasets /\ DOMAIN vouched = Datasets /\ (file[d] \in {None, Unreadable} \/ IsCases(file[d]))
    BY DEF FilesHold
  <1>3. IsCases(existing)
    BY <1>2, ReadIs
  <1>4. existing \in Seq(T) /\ items \in Seq(T)
    BY <1>3 DEF IsCases
  <1>5. /\ m \in Seq(T)
        /\ \A c \in ToSet(m) : c \in ToSet(items) \/ (c \in ToSet(existing) /\ c.id \notin remove \cup IdsOf(items))
    <2> HIDE DEF T, existing
    <2> QED BY <1>4, MergedIs
  <1>6. IsCases(m)
    <2>1. \A c \in ToSet(m) : IsCase(c)
      BY <1>3, <1>5 DEF IsCases
    <2> HIDE DEF m, T
    <2> QED BY <1>5, <2>1, CasesAre
  <1>7. ASSUME NEW c \in ToSet(existing), c.confirmed PROVE <<c.id, c.sql>> \in vouched[d]
    BY <1>7 DEF KeysAreAccepted
  <1>8. file'[d] = RolledBack(d, m) /\ \A e \in Datasets \ {d} : file'[e] = file[e]
    BY <1>1, <1>2
  <1> HIDE DEF m, T, existing, V, N
  <1>9. CASE OurFaults(m)
    <2>1. RolledBack(d, m) = file[d] /\ file[d] # m
      BY <1>1, <1>9 DEF RolledBack
    <2>2. V = vouched[d]
      BY <1>8, <2>1 DEF V, Vouch
    <2>3. \A c \in ToSet(Read(file[d])) : c.confirmed => <<c.id, c.sql>> \in V
      BY <2>2, <1>7 DEF existing
    <2>4. FilesHold' /\ KeysAreAccepted'
      BY <1>1, <1>2, <2>1, <2>3, FileStep
    <2>5. \A e \in Datasets : KeepsOthers(e)
      BY <1>8, <2>1 DEF KeepsOthers
    <2> QED BY <2>4, <2>5
  <1>10. CASE ~OurFaults(m)
    <2>1. RolledBack(d, m) = m
      BY <1>10 DEF RolledBack
    <2>2. V = {v \in vouched[d] : v[1] \notin remove \cup IdsOf(items)} \cup stands
      BY <1>8, <2>1 DEF V, Vouch
    <2>3. ASSUME NEW c \in ToSet(m), c.confirmed PROVE <<c.id, c.sql>> \in V
      <3>1. CASE c \in ToSet(items)
        BY <2>2, <2>3, <3>1
      <3>2. CASE c \in ToSet(existing) /\ c.id \notin remove \cup IdsOf(items)
        <4>1. <<c.id, c.sql>> \in vouched[d] /\ <<c.id, c.sql>>[1] = c.id
          BY <1>7, <2>3, <3>2
        <4> QED BY <2>2, <3>2, <4>1
      <3> QED BY <1>5, <3>1, <3>2
    <2>4. \A c \in ToSet(Read(m)) : c.confirmed => <<c.id, c.sql>> \in V
      BY <1>6, <2>3, ReadIs
    <2>5. FilesHold' /\ KeysAreAccepted'
      BY <1>1, <1>6, <2>1, <2>4, FileStep
    <2>6. ASSUME file[d] \notin {None, Unreadable} PROVE CasesBut(file[d], N) = CasesBut(m, N)
      <3>1. existing = file[d]
        BY <1>1, <2>6 DEF existing, Read, OurFaults
      <3>2. CasesBut(m, N) = CasesBut(existing, N)
        BY <1>4, MergedKeeps DEF m, N
      <3> QED BY <3>1, <3>2
    <2>7. \A e \in Datasets : KeepsOthers(e)
      BY <1>1, <1>8, <2>1, <2>6 DEF KeepsOthers
    <2> QED BY <2>5, <2>7
  <1> QED BY <1>9, <1>10

(* The doors stand for the cases they write.                                  *)
LEMMA StandingIs ==
    ASSUME NEW s, NEW c \in ToSet(s), c.confirmed
    PROVE  <<c.id, c.sql>> \in Standing(s)
  BY DEF Standing

LEMMA ImportStep ==
    ASSUME FilesHold, KeysAreAccepted, NEW s \in Sheets, NEW agreed, Import(s[1], s[2], agreed)
    PROVE  FilesHold' /\ KeysAreAccepted' /\ \A e \in Datasets : KeepsOthers(e)
  <1> DEFINE rows == s[2]
             items == Imported(rows)
             of(i) == [id |-> rows[i].id, query |-> rows[i].query, sql |-> rows[i].sql, confirmed |-> rows[i].sql # None,
                       match |-> "exact", bounds |-> FALSE, tags |-> {}]
  <1>1. s[1] \in Datasets /\ rows \in Seq(ToSet(rows))
    BY DoorsAssumption
  <1>2. items = [i \in 1..Len(rows) |-> of(i)] /\ Len(rows) \in Nat
    <2>1. items = [i \in DOMAIN rows |-> of(i)]
      BY Zenon DEF Imported
    <2> HIDE DEF items, of
    <2> QED BY <1>1, <2>1
  <1>3. \A i \in 1..Len(rows) : IsCase(of(i))
    <2>1. ASSUME NEW i \in 1..Len(rows) PROVE IsCase(of(i))
      <3> DEFINE sure == rows[i].sql # None
      <3>1. sure \in BOOLEAN
        OBVIOUS
      <3> HIDE DEF sure
      <3>2. IsCase([id |-> rows[i].id, query |-> rows[i].query, sql |-> rows[i].sql, confirmed |-> sure,
                    match |-> "exact", bounds |-> FALSE, tags |-> {}])
        BY <3>1 DEF IsCase
      <3> QED BY <3>2, Zenon DEF sure
    <2> QED BY <2>1
  <1> DEFINE U == {of(i) : i \in 1..Len(rows)}
  <1>4. \A c \in U : IsCase(c)
    BY <1>3
  <1>5. \A i \in 1..Len(rows) : of(i) \in U
    OBVIOUS
  <1> HIDE DEF of, U
  <1>6. items \in Seq(U)
    <2> HIDE DEF items
    <2> QED BY <1>2, <1>5
  <1> HIDE DEF items
  <1>7. ToSet(items) \subseteq U
    BY <1>6, Elements
  <1>8. IsCases(items)
    BY <1>4, <1>6, <1>7, CasesAre
  <1>9. WriteItems(s[1], items, {}, agreed, Standing(items))
    BY Zenon DEF Import, items
  <1>10. \A c \in ToSet(items) : c.confirmed => <<c.id, c.sql>> \in Standing(items)
    BY StandingIs
  <1> QED BY <1>1, <1>8, <1>9, <1>10, WriteStep

LEMMA OneCase ==
    ASSUME NEW c, IsCase(c)
    PROVE  IsCases(<<c>>)
  <1>1. <<c>> \in Seq({c}) /\ ToSet(<<c>>) \subseteq {c}
    BY DEF ToSet
  <1> DEFINE s == <<c>>
  <1>2. s \in Seq({c}) /\ \A x \in ToSet(s) : IsCase(x)
    BY <1>1
  <1> HIDE DEF s
  <1>3. IsCases(s)
    BY <1>2, CasesAre
  <1> QED BY <1>3 DEF s

LEMMA SaveStep ==
    ASSUME FilesHold, KeysAreAccepted, NEW a \in Answers, NEW agreed, Save(a[1], a[2], agreed)
    PROVE  FilesHold' /\ KeysAreAccepted' /\ \A e \in Datasets : KeepsOthers(e)
  <1> DEFINE items == <<a[2]>>
  <1>1. a[1] \in Datasets /\ IsCase(a[2])
    BY DoorsAssumption
  <1>2. IsCases(items)
    BY <1>1, OneCase
  <1>3. WriteItems(a[1], items, {}, agreed, Standing(items))
    BY Zenon DEF Save
  <1> HIDE DEF items
  <1>4. \A c \in ToSet(items) : c.confirmed => <<c.id, c.sql>> \in Standing(items)
    BY StandingIs
  <1> QED BY <1>1, <1>2, <1>3, <1>4, WriteStep

LEMMA EditedIs ==
    ASSUME NEW cases, IsCases(cases), NEW queue, IsQueue(queue)
    PROVE  /\ IsCases(Edited(cases, queue))
           /\ \A c \in ToSet(Edited(cases, queue)) :
                 \E b \in ToSet(cases) :
                    /\ c.id = b.id /\ c.sql = b.sql
                    /\ c.confirmed => b.confirmed /\ ~\E op \in ToSet(queue) : op.op = "withdraw" /\ op.id = c.id
  <1> DEFINE edits == {op \in ToSet(queue) : op.op # "remove"}
             touched == CasesOf(cases, {op.id : op \in edits})
             actions(i) == Within(queue, {op \in edits : op.id = touched[i].id})
             of(i) == FoldLeft(Mutate, touched[i], actions(i))
             Fine(c) == /\ IsCase(c)
                        /\ \E b \in ToSet(cases) :
                             /\ c.id = b.id /\ c.sql = b.sql
                             /\ c.confirmed => b.confirmed /\ ~\E op \in ToSet(queue) : op.op = "withdraw" /\ op.id = c.id
  <1>1. cases \in Seq(ToSet(cases)) /\ queue \in Seq(ToSet(queue))
    BY DEF IsCases, IsQueue
  <1>2. touched \in Seq(ToSet(cases))
    BY <1>1, CasesOfIs
  <1>3. Edited(cases, queue) = [i \in DOMAIN touched |-> of(i)]
    BY Zenon DEF Edited
  <1>4. \A op \in edits : op \in ToSet(queue) /\ Doable(op)
    BY DEF IsQueue, Doable
  <1>5. \A op \in ToSet(queue) : op.op = "withdraw" => op \in edits
    OBVIOUS
  <1> HIDE DEF touched
  <1>6. ASSUME NEW i \in DOMAIN touched PROVE Fine(of(i))
    <2> DEFINE b == touched[i]
               mine == {op \in edits : op.id = b.id}
               s == actions(i)
    <2>1. b \in ToSet(cases)
      BY <1>2, <1>6
    <2>2. IsCase(b)
      BY <2>1 DEF IsCases
    <2>3. s = Within(queue, mine)
      BY Zenon
    <2>4. \A op \in mine : op \in ToSet(queue) /\ Doable(op) /\ op.id = b.id
      BY <1>4
    <2>5. \A op \in ToSet(queue) : op.op = "withdraw" /\ op.id = b.id => op \in mine
      BY <1>5
    <2>6. of(i) = FoldLeft(Mutate, b, s)
      BY Zenon
    <2> HIDE DEF b, mine, s, of, edits
    <2>7. s \in Seq(ToSet(queue)) /\ ToSet(s) = ToSet(queue) \cap mine
      BY <1>1, <2>3, WithinIs
    <2>8. \A j \in DOMAIN s : s[j] \in ToSet(s)
      BY DEF ToSet
    <2>9. \A j \in DOMAIN s : Doable(s[j])
      BY <2>4, <2>7, <2>8
    <2>10. /\ IsCase(of(i)) /\ of(i).id = b.id /\ of(i).sql = b.sql
           /\ of(i).confirmed => b.confirmed /\ \A j \in DOMAIN s : s[j].op # "withdraw"
      BY <2>2, <2>6, <2>7, <2>9, EditIs
    <2>11. ASSUME of(i).confirmed, NEW op \in ToSet(queue), op.op = "withdraw", op.id = of(i).id PROVE FALSE
      <3>1. op \in ToSet(s)
        BY <2>4, <2>5, <2>7, <2>10, <2>11
      <3>2. PICK j \in DOMAIN s : op = s[j]
        BY <3>1 DEF ToSet
      <3> QED BY <2>10, <2>11, <3>2
    <2> QED BY <2>1, <2>10, <2>11
  <1> DEFINE items == Edited(cases, queue)
             U == {of(i) : i \in DOMAIN touched}
  <1>7. \A c \in U : Fine(c)
    <2> HIDE DEF Fine, of
    <2> QED BY <1>6
  <1>8. DOMAIN touched = 1..Len(touched) /\ Len(touched) \in Nat /\ \A i \in DOMAIN touched : of(i) \in U
    <2>1. \A i \in DOMAIN touched : of(i) \in U
      <3> HIDE DEF of
      <3> QED OBVIOUS
    <2> HIDE DEF of, U
    <2> QED BY <1>2, <2>1
  <1> HIDE DEF of, U, items, Fine
  <1>9. items \in Seq(U)
    BY <1>3, <1>8 DEF items
  <1>10. ToSet(items) \subseteq U
    BY <1>9, Elements
  <1>11. \A c \in ToSet(items) : Fine(c)
    BY <1>7, <1>10
  <1>12. \A c \in ToSet(items) : IsCase(c)
    BY <1>11 DEF Fine
  <1>13. IsCases(items)
    BY <1>9, <1>12, CasesAre
  <1> QED BY <1>11, <1>13, Zenon DEF items, Fine

LEMMA ApplyStep ==
    ASSUME FilesHold, KeysAreAccepted, NEW p \in Pages, NEW agreed, Apply(p[1], p[2], agreed)
    PROVE  FilesHold' /\ KeysAreAccepted' /\ \A e \in Datasets : KeepsOthers(e)
  <1> DEFINE d == p[1]
             queue == p[2]
             cases == Read(file[d])
             edited == Edited(cases, queue)
             remove == {op.id : op \in {op \in ToSet(queue) : op.op = "remove"}}
             withdrawn == {op.id : op \in {op \in ToSet(queue) : op.op = "withdraw"}}
             stands == {v \in vouched[d] : v[1] \in IdsOf(edited) \ withdrawn}
  <1>1. d \in Datasets /\ IsQueue(queue)
    BY DoorsAssumption
  <1>2. WriteItems(d, edited, remove, agreed, stands)
    BY Zenon DEF Apply
  <1>3. IsCases(cases)
    BY <1>1, ReadIs DEF FilesHold
  <1>4. \A c \in ToSet(cases) : c.confirmed => <<c.id, c.sql>> \in vouched[d]
    BY <1>1 DEF KeysAreAccepted
  <1>5. \A x \in withdrawn : \E op \in ToSet(queue) : op.op = "withdraw" /\ op.id = x
    OBVIOUS
  <1> HIDE DEF cases, d, queue, withdrawn, remove
  <1>6. /\ IsCases(edited)
        /\ \A c \in ToSet(edited) :
              \E b \in ToSet(cases) :
                 /\ c.id = b.id /\ c.sql = b.sql
                 /\ c.confirmed => b.confirmed /\ ~\E op \in ToSet(queue) : op.op = "withdraw" /\ op.id = c.id
    BY <1>1, <1>3, EditedIs
  <1> HIDE DEF edited
  <1>7. ASSUME NEW c \in ToSet(edited), c.confirmed PROVE <<c.id, c.sql>> \in stands
    <2>1. PICK b \in ToSet(cases) :
             /\ c.id = b.id /\ c.sql = b.sql
             /\ c.confirmed => b.confirmed /\ ~\E op \in ToSet(queue) : op.op = "withdraw" /\ op.id = c.id
      BY <1>6
    <2>2. <<c.id, c.sql>> \in vouched[d]
      BY <1>4, <1>7, <2>1
    <2>3. c.id \in IdsOf(edited) /\ c.id \notin withdrawn
      BY <1>5, <1>7, <2>1 DEF IdsOf
    <2>4. <<c.id, c.sql>>[1] = c.id
      OBVIOUS
    <2> QED BY <2>2, <2>3, <2>4
  <1> HIDE DEF stands
  <1> QED BY <1>1, <1>2, <1>6, <1>7, WriteStep

LEMMA WriteDiesStep ==
    ASSUME FilesHold, KeysAreAccepted, NEW a \in Answers, WriteDies(a[1], <<a[2]>>)
    PROVE  FilesHold' /\ KeysAreAccepted' /\ \A e \in Datasets : KeepsOthers(e)
  <1> DEFINE d == a[1]
             items == <<a[2]>>
             existing == Read(file[d])
             m == Merged(existing, items, {})
             T == ToSet(existing) \cup ToSet(items)
             stands == Standing(items)
  <1>1. d \in Datasets /\ IsCase(a[2])
    BY DoorsAssumption
  <1>2. IsCases(items)
    BY <1>1, OneCase
  <1>3. ~OurFaults(file[d])
    BY Zenon DEF WriteDies, MayWrite
  <1>4. PICK content \in {Unreadable} \cup {SubSeq(m, 1, n) : n \in 0..Len(m)} :
          /\ file' = [file EXCEPT ![d] = content]
          /\ vouched' = [vouched EXCEPT ![d] = Vouch(d, items, stands, {}, content)]
          /\ named' = IF content = m THEN IdsOf(items) ELSE IdsOf(m)
    BY Zenon DEF WriteDies
  <1>5. DOMAIN file = Datasets /\ DOMAIN vouched = Datasets /\ (file[d] \in {None, Unreadable} \/ IsCases(file[d]))
    BY <1>1 DEF FilesHold
  <1>6. IsCases(existing)
    BY <1>5, ReadIs
  <1>7. \A c \in ToSet(items) : c.confirmed => <<c.id, c.sql>> \in stands
    BY StandingIs
  <1>8. \A c \in ToSet(existing) : c.confirmed => <<c.id, c.sql>> \in vouched[d]
    BY <1>1 DEF KeysAreAccepted
  <1>9. file[d] \notin {None, Unreadable} => existing = file[d]
    BY <1>3 DEF Read, OurFaults
  <1> DEFINE V == Vouch(d, items, stands, {}, content)
  <1>10. file'[d] = content /\ \A e \in Datasets \ {d} : file'[e] = file[e]
    BY <1>1, <1>4, <1>5
  <1>11. V = {v \in vouched[d] : v[1] \notin {} \cup IdsOf(items)} \cup stands
    BY <1>10 DEF Vouch
  <1>12. vouched' = [vouched EXCEPT ![d] = V] /\ file' = [file EXCEPT ![d] = content]
         /\ named' = IF content = m THEN IdsOf(items) ELSE IdsOf(m)
    BY <1>4
  <1> HIDE DEF items, stands, V, existing, d
  <1>13. existing \in Seq(T) /\ items \in Seq(T)
    BY <1>2, <1>6 DEF IsCases
  <1>14. content = Unreadable \/ \E n \in 0..Len(m) : content = SubSeq(m, 1, n)
    BY <1>4
  <1> HIDE DEF T
  <1>15. /\ m \in Seq(T)
         /\ \A c \in ToSet(m) : c \in ToSet(items) \/ (c \in ToSet(existing) /\ c.id \notin {} \cup IdsOf(items))
    BY <1>13, MergedIs
  <1>16. IdsOf(existing) \subseteq IdsOf(m)
    BY <1>13, MergedHas
  <1>17. \A N : {} \cup IdsOf(items) \subseteq N => CasesBut(m, N) = CasesBut(existing, N)
    BY <1>13, MergedKeeps
  <1> HIDE DEF m
  <1>18. content = Unreadable \/ (content \in Seq(T) /\ ToSet(content) \subseteq ToSet(m))
    BY <1>14, <1>15, Beginning
  <1>19. \A c \in ToSet(m) : IsCase(c)
    BY <1>2, <1>6, <1>15 DEF IsCases
  <1>20. content = Unreadable \/ (IsCases(content) /\ ToSet(content) \subseteq ToSet(m))
    BY <1>18, <1>19, CasesAre
  <1>21. ASSUME NEW c \in ToSet(m), c.confirmed PROVE <<c.id, c.sql>> \in V
    <2>1. CASE c \in ToSet(items)
      BY <1>7, <1>11, <1>21, <2>1
    <2>2. CASE c \in ToSet(existing) /\ c.id \notin IdsOf(items)
      <3>1. <<c.id, c.sql>> \in vouched[d] /\ <<c.id, c.sql>>[1] = c.id
        BY <1>8, <1>21, <2>2
      <3> QED BY <1>11, <2>2, <3>1
    <2> QED BY <1>15, <2>1, <2>2
  <1>22. \A c \in ToSet(Read(content)) : c.confirmed => <<c.id, c.sql>> \in V
    <2>1. CASE content = Unreadable
      BY <2>1, NoElements DEF Read
    <2>2. CASE IsCases(content) /\ ToSet(content) \subseteq ToSet(m)
      <3>1. ToSet(Read(content)) \subseteq ToSet(content)
        BY <2>2, ReadIs
      <3> QED BY <1>21, <2>2, <3>1
    <2> QED BY <1>20, <2>1, <2>2
  <1>23. FilesHold' /\ KeysAreAccepted'
    BY <1>1, <1>12, <1>20, <1>22, FileStep DEF d
  <1>24. ASSUME file[d] \notin {None, Unreadable}, content # Unreadable PROVE CasesBut(file[d], named') = CasesBut(content, named')
    <2>1. CASE content = m
      BY <1>9, <1>12, <1>17, <1>24, <2>1
    <2>2. CASE content # m
      <3>1. named' = IdsOf(m) /\ existing = file[d] /\ content \in Seq(T) /\ ToSet(content) \subseteq ToSet(m)
        BY <1>9, <1>12, <1>18, <1>24, <2>2
      <3>2. IdsOf(content) \subseteq IdsOf(m)
        BY <3>1 DEF IdsOf
      <3>3. CasesBut(content, IdsOf(m)) = <<>> /\ CasesBut(existing, IdsOf(m)) = <<>>
        BY <1>13, <1>16, <3>1, <3>2, CasesButNone
      <3> QED BY <3>1, <3>3
    <2> QED BY <2>1, <2>2
  <1>25. \A e \in Datasets : KeepsOthers(e)
    BY <1>10, <1>24 DEF KeepsOthers
  <1> QED BY <1>23, <1>25

LEMMA EditStep ==
    ASSUME FilesHold, KeysAreAccepted, NEW x \in Edits, EditByHand(x[1], x[2])
    PROVE  FilesHold' /\ KeysAreAccepted' /\ \A e \in Datasets : KeepsOthers(e)
  <1> DEFINE d == x[1]
             content == x[2]
             V == Standing(Read(content))
  <1>1. d \in Datasets /\ (content = Unreadable \/ IsCases(content))
    BY FilesAssumption
  <1>2. /\ file' = [file EXCEPT ![d] = content] /\ vouched' = [vouched EXCEPT ![d] = V]
        /\ named' = IF file[d] \in {None, Unreadable} THEN IdsOf(content) ELSE IdsOf(file[d]) \cup IdsOf(content)
    BY Zenon DEF EditByHand
  <1>3. \A c \in ToSet(Read(content)) : c.confirmed => <<c.id, c.sql>> \in V
    BY StandingIs
  <1>4. DOMAIN file = Datasets /\ (file[d] \in {None, Unreadable} \/ IsCases(file[d]))
    BY <1>1 DEF FilesHold
  <1> HIDE DEF V, content, d
  <1>5. FilesHold' /\ KeysAreAccepted'
    BY <1>1, <1>2, <1>3, FileStep
  <1>6. file'[d] = content /\ \A e \in Datasets \ {d} : file'[e] = file[e]
    BY <1>1, <1>2, <1>4
  <1>7. ASSUME file[d] \notin {None, Unreadable}, content # Unreadable PROVE CasesBut(file[d], named') = CasesBut(content, named')
    <2>1. IdsOf(file[d]) \subseteq named' /\ IdsOf(content) \subseteq named'
      BY <1>2, <1>7
    <2>2. file[d] \in Seq(ToSet(file[d])) /\ content \in Seq(ToSet(content))
      BY <1>1, <1>4, <1>7 DEF IsCases
    <2>3. CasesBut(file[d], named') = <<>> /\ CasesBut(content, named') = <<>>
      BY <2>1, <2>2, CasesButNone
    <2> QED BY <2>3
  <1>8. \A e \in Datasets : KeepsOthers(e)
    BY <1>6, <1>7 DEF KeepsOthers
  <1> QED BY <1>5, <1>8

(****************************************************************************)
(* Golden datasets: runs.                                                     *)
(****************************************************************************)

(* ------------------------------------------------------------------------ *)
(* What a run is of.                                                          *)

LEMMA Mapped ==
    ASSUME NEW T, NEW s \in Seq(T), NEW U, NEW f, DOMAIN f = DOMAIN s, f = [i \in DOMAIN f |-> f[i]],
           \A i \in DOMAIN f : f[i] \in U
    PROVE  f \in Seq(U)
  <1>1. DOMAIN s = 1..Len(s) /\ Len(s) \in Nat
    OBVIOUS
  <1> QED BY <1>1

LEMMA TrustedIs ==
    ASSUME RecordsHold, NEW d
    PROVE  /\ Trusted(d) \in Seq(ToSet(records))
           /\ Trusted(d) # <<>> => OutcomesHold(Last(Trusted(d)).outcomes)
  <1> DEFINE S == {r \in ToSet(records) : r.dataset = d /\ Whole(r) /\ ReachedVerdict(r)}
             s == Trusted(d)
  <1>1. records \in Seq(ToSet(records))
    BY DEF RecordsHold
  <1>2. s = Within(records, S)
    BY Zenon DEF Trusted
  <1> HIDE DEF S, s
  <1>3. s \in Seq(ToSet(records))
    BY <1>1, <1>2, WithinIs
  <1>4. s # <<>> => Last(s) \in ToSet(records)
    <2>1. s # <<>> => Len(s) \in 1..Len(s)
      BY <1>3
    <2> QED BY <1>3, <2>1 DEF Last
  <1> QED BY <1>3, <1>4 DEF RecordsHold, s

(* Sections tell the failures from the rest as the verdict does.              *)
LEMMA FailedIs ==
    ASSUME NEW outcomes, OutcomesHold(outcomes)
    PROVE  /\ WhatFailed(outcomes) \in Seq(ToSet(outcomes))
           /\ ToSet(WhatFailed(outcomes)) = {o \in ToSet(outcomes) : GatingFailure(o)}
  <1> DEFINE S == {o \in ToSet(outcomes) : Section(o) = "failure"}
             G == {o \in ToSet(outcomes) : GatingFailure(o)}
  <1>1. ASSUME NEW o \in ToSet(outcomes) PROVE Section(o) = "failure" <=> GatingFailure(o)
    <2>1. o.status \in {"error", "unscored", "scored"} /\ o.confirmed \in BOOLEAN
      BY DEF OutcomesHold
    <2>2. CASE o.status = "error"
      BY <2>2 DEF Section, GatingFailure
    <2>3. CASE o.status # "error" /\ ~o.confirmed
      BY <2>3 DEF Section, GatingFailure
    <2>4. CASE o.status = "unscored" /\ o.confirmed
      BY <2>4 DEF Section, GatingFailure
    <2>5. CASE o.status = "scored" /\ o.confirmed
      <3>1. Section(o) = IF Passed(o) THEN "pass" ELSE "failure"
        BY <2>5 DEF Section
      <3> QED BY <2>5, <3>1 DEF GatingFailure
    <2> QED BY <2>1, <2>2, <2>3, <2>4, <2>5
  <1>2. S = G
    BY <1>1
  <1>3. WhatFailed(outcomes) = Within(outcomes, S)
    BY Zenon DEF WhatFailed
  <1>4. outcomes \in Seq(ToSet(outcomes)) /\ ToSet(outcomes) \cap S = S
    BY DEF OutcomesHold
  <1> HIDE DEF S
  <1>5. Within(outcomes, S) \in Seq(ToSet(outcomes)) /\ ToSet(Within(outcomes, S)) = ToSet(outcomes) \cap S
    BY <1>4, WithinIs
  <1> QED BY <1>2, <1>3, <1>4, <1>5

LEMMA LastFailuresAre ==
    ASSUME RecordsHold, NEW d, Trusted(d) # <<>>
    PROVE  /\ LastFailures(d) \in Seq(Wrong(Last(Trusted(d)).outcomes))
           /\ ToSet(LastFailures(d)) = Wrong(Last(Trusted(d)).outcomes)
  <1> DEFINE outs == Last(Trusted(d)).outcomes
             s == WhatFailed(outs)
             f == [i \in DOMAIN s |-> s[i].id]
  <1>1. OutcomesHold(outs)
    BY TrustedIs
  <1>2. LastFailures(d) = f
    BY Zenon DEF LastFailures
  <1> HIDE DEF outs
  <1>3. s \in Seq(ToSet(outs)) /\ ToSet(s) = {o \in ToSet(outs) : GatingFailure(o)}
    BY <1>1, FailedIs
  <1> HIDE DEF s
  <1>4. Wrong(outs) = {o.id : o \in ToSet(s)}
    BY <1>3, Zenon DEF Wrong
  <1>5. ToSet(s) = {s[i] : i \in DOMAIN s}
    BY DEF ToSet
  <1>6. DOMAIN f = DOMAIN s /\ f = [i \in DOMAIN f |-> f[i]] /\ \A i \in DOMAIN f : f[i] \in Wrong(outs)
    BY <1>4, <1>5
  <1> HIDE DEF f
  <1>7. f \in Seq(Wrong(outs)) /\ ToSet(f) = {f[i] : i \in DOMAIN s}
    <2>1. f \in Seq(Wrong(outs))
      BY <1>3, <1>6, Mapped
    <2> QED BY <1>6, <2>1 DEF ToSet
  <1>8. {f[i] : i \in DOMAIN s} = Wrong(outs)
    BY <1>4, <1>5 DEF f
  <1> QED BY <1>2, <1>7, <1>8 DEF outs

LEMMA RerunIs ==
    ASSUME RecordsHold, FilesHold, NEW d \in Datasets, Trusted(d) # <<>>
    PROVE  /\ IsCases(Selected(d, "rerun")) /\ ToSet(Selected(d, "rerun")) \subseteq ToSet(Read(file[d]))
           /\ IdsOf(Selected(d, "rerun")) = Wrong(Last(Trusted(d)).outcomes) \cap IdsOf(Read(file[d]))
  <1> DEFINE cases == Read(file[d])
             wrong == Wrong(Last(Trusted(d)).outcomes)
             failures == LastFailures(d)
             present == Within(failures, IdsOf(cases))
             s == [i \in DOMAIN present |-> WithId(cases, present[i])]
  <1>1. Selected(d, "rerun") = s
    BY DEF Selected
  <1>2. IsCases(cases)
    BY ReadIs DEF FilesHold
  <1>3. failures \in Seq(wrong) /\ ToSet(failures) = wrong
    BY LastFailuresAre
  <1> HIDE DEF failures, wrong, cases
  <1>4. present \in Seq(wrong) /\ ToSet(present) = wrong \cap IdsOf(cases)
    BY <1>3, WithinIs
  <1> HIDE DEF present
  <1>5. ToSet(present) = {present[i] : i \in DOMAIN present}
    BY DEF ToSet
  <1>6. \A i \in DOMAIN present : present[i] \in IdsOf(cases)
    BY <1>4, <1>5
  <1>7. \A i \in DOMAIN present : s[i] \in ToSet(cases) /\ s[i].id = present[i]
    BY <1>6, WithIdIs
  <1>8. DOMAIN s = DOMAIN present /\ s = [i \in DOMAIN s |-> s[i]] /\ \A i \in DOMAIN s : s[i] \in ToSet(cases)
    BY <1>7
  <1> HIDE DEF s
  <1>9. s \in Seq(ToSet(cases)) /\ ToSet(s) = {s[i] : i \in DOMAIN present}
    <2>1. s \in Seq(ToSet(cases))
      BY <1>4, <1>8, Mapped
    <2> QED BY <1>8, <2>1 DEF ToSet
  <1>10. ToSet(s) \subseteq ToSet(cases)
    BY <1>7, <1>9
  <1>11. IsCases(s)
    <2>1. \A c \in ToSet(s) : IsCase(c)
      BY <1>2, <1>10 DEF IsCases
    <2> QED BY <1>9, <2>1, CasesAre
  <1>12. IdsOf(s) = {present[i] : i \in DOMAIN present}
    BY <1>7, <1>9 DEF IdsOf
  <1> QED BY <1>1, <1>4, <1>5, <1>10, <1>11, <1>12 DEF cases, wrong

LEMMA SelectedIs ==
    ASSUME RecordsHold, FilesHold, NEW d \in Datasets, NEW selection, MayStart(d, selection)
    PROVE  /\ IsCases(Selected(d, selection))
           /\ \A c \in ToSet(Selected(d, selection)) : Valid(c)
  <1> DEFINE cases == Read(file[d])
             s == Selected(d, selection)
  <1>1. IsCases(cases) /\ \A c \in ToSet(cases) : Valid(c)
    BY ReadIs DEF FilesHold
  <1>2. CASE selection = "all"
    <2>1. s = cases
      BY <1>2 DEF Selected
    <2> QED BY <1>1, <2>1
  <1>3. CASE selection = "rerun"
    <2>1. Trusted(d) # <<>>
      BY <1>3 DEF MayStart
    <2> QED BY <1>1, <1>3, <2>1, RerunIs
  <1>4. CASE selection \notin {"all", "rerun"}
    <2> DEFINE S == {c \in ToSet(cases) : selection \in c.tags}
    <2>1. s = Within(cases, S)
      BY <1>4 DEF Selected
    <2>2. cases \in Seq(ToSet(cases))
      BY <1>1 DEF IsCases
    <2> HIDE DEF s, S, cases
    <2>3. s \in Seq(ToSet(cases)) /\ ToSet(s) = ToSet(cases) \cap S
      BY <2>1, <2>2, WithinIs
    <2>4. \A c \in ToSet(s) : IsCase(c) /\ Valid(c)
      BY <1>1, <2>3 DEF IsCases
    <2>5. IsCases(s)
      BY <2>3, <2>4, CasesAre
    <2> QED BY <2>4, <2>5 DEF s
  <1> QED BY <1>2, <1>3, <1>4

(* ------------------------------------------------------------------------ *)
(* The steps of a run.                                                        *)

(* A step of a run leaves the files and those who stand for them.             *)
LEMMA FilesStay ==
    ASSUME FilesHold, KeysAreAccepted, UNCHANGED <<file, vouched>>
    PROVE  FilesHold' /\ KeysAreAccepted'
  BY DEF FilesHold, KeysAreAccepted

LEMMA RecordsStay ==
    ASSUME RecordsHold, ToldHolds, UNCHANGED <<records, told>>
    PROVE  RecordsHold' /\ ToldHolds'
  BY DEF RecordsHold, ToldHolds, Told, Trusted

LEMMA NothingScored == ScoredSoFar(<<>>, <<>>, <<>>)
  <1> DEFINE none == <<>>
  <1>1. none \in Seq(Reached) /\ none \in Seq(ToSet(none)) /\ Len(none) = 0
    OBVIOUS
  <1> HIDE DEF none
  <1>2. ScoredSoFar(none, none, none)
    BY <1>1 DEF ScoredSoFar
  <1> QED BY <1>2 DEF none

LEMMA StartRun ==
    ASSUME NEW d \in Datasets, NEW selection, NEW cases, IsCases(cases), \A c \in ToSet(cases) : Valid(c)
    PROVE  RunIs(Started(d, selection, cases))
  <1> DEFINE none == <<>>
             x == Started(d, selection, cases)
  <1>1. none \in Seq(Reached) /\ none \in Seq(ToSet(none)) /\ Len(none) = 0
    OBVIOUS
  <1>2. Len(cases) \in Nat
    BY DEF IsCases
  <1>3. /\ x = [dataset |-> d, selection |-> selection, cases |-> cases, worlds |-> none, outcomes |-> none, completed |-> TRUE]
    BY DEF Started
  <1> HIDE DEF x, none
  <1>4. /\ x = [dataset |-> x.dataset, selection |-> x.selection, cases |-> x.cases, worlds |-> x.worlds,
                outcomes |-> x.outcomes, completed |-> x.completed]
        /\ x.dataset = d /\ x.completed = TRUE /\ x.cases = cases /\ x.worlds = none /\ x.outcomes = none
    BY <1>3
  <1>5. ScoredSoFar(cases, none, none)
    BY <1>1, <1>2 DEF ScoredSoFar
  <1>6. RunIs(x)
    BY <1>4, <1>5 DEF RunIs
  <1> QED BY <1>6 DEF x

LEMMA NothingIsEarned == Earned(<<>>, <<>>, 0)
  BY DEF Earned

LEMMA StartStep ==
    ASSUME GoldenInv, NEW d \in Datasets, NEW selection, Start(d, selection)
    PROVE  GoldenInv'
  <1> DEFINE cases == Selected(d, selection)
  <1>1. MayStart(d, selection) /\ UNCHANGED <<file, records, vouched, told>>
    BY DEF Start
  <1>2. IsCases(cases) /\ \A c \in ToSet(cases) : Valid(c)
    BY <1>1, SelectedIs DEF GoldenInv
  <1>3. \/ run' = NoRun /\ last' = [cases |-> <<>>, worlds |-> <<>>, code |-> 0]
        \/ run' = Started(d, selection, cases) /\ last' = None
    BY Zenon DEF Start
  <1> HIDE DEF cases
  <1>4. FilesHold' /\ KeysAreAccepted' /\ RecordsHold' /\ ToldHolds'
    BY <1>1, FilesStay, RecordsStay DEF GoldenInv
  <1>5. RunHolds'
    BY <1>2, <1>3, StartRun DEF RunHolds
  <1>6. VerdictIsEarned'
    <2>1. CASE last' = [cases |-> <<>>, worlds |-> <<>>, code |-> 0]
      <3>1. last'.cases = <<>> /\ last'.worlds = <<>> /\ last'.code = 0
        BY <2>1
      <3>2. Earned(last'.cases, last'.worlds, last'.code)
        BY <3>1, NothingIsEarned
      <3> QED BY <3>2 DEF VerdictIsEarned, Earned
    <2>2. CASE last' = None
      BY <2>2 DEF VerdictIsEarned
    <2> QED BY <1>3, <2>1, <2>2
  <1> QED BY <1>4, <1>5, <1>6 DEF GoldenInv

LEMMA ScoreNext ==
    ASSUME NEW cases, IsCases(cases), NEW worlds, NEW outcomes, ScoredSoFar(cases, worlds, outcomes),
           Len(outcomes) < Len(cases), NEW w \in Reached
    PROVE  ScoredSoFar(cases, Append(worlds, w), Append(outcomes, Score(cases[Len(outcomes) + 1], w)))
  <1> DEFINE o == Score(cases[Len(outcomes) + 1], w)
             T == ToSet(outcomes) \cup {o}
             ws == Append(worlds, w)
             os == Append(outcomes, o)
  <1>1. /\ worlds \in Seq(Reached) /\ outcomes \in Seq(ToSet(outcomes)) /\ Len(cases) \in Nat
        /\ Len(outcomes) = Len(worlds) /\ Len(worlds) <= Len(cases) /\ Len(worlds) \in Nat
        /\ \A i \in 1..Len(worlds) : outcomes[i] = Score(cases[i], worlds[i])
    BY DEF ScoredSoFar, IsCases
  <1>2. o = Score(cases[Len(worlds) + 1], w)
    BY <1>1
  <1> HIDE DEF o
  <1>3. outcomes \in Seq(T) /\ o \in T
    BY <1>1
  <1> HIDE DEF T
  <1>4. /\ ws \in Seq(Reached) /\ Len(ws) = Len(worlds) + 1 /\ ws[Len(worlds) + 1] = w
        /\ \A i \in 1..Len(worlds) : ws[i] = worlds[i]
    BY <1>1
  <1>5. /\ os \in Seq(T) /\ Len(os) = Len(worlds) + 1 /\ os[Len(worlds) + 1] = o
        /\ \A i \in 1..Len(worlds) : os[i] = outcomes[i]
    BY <1>1, <1>3
  <1> HIDE DEF ws, os
  <1>6. os \in Seq(ToSet(os))
    BY <1>5, OwnElements
  <1>7. ASSUME NEW i \in 1..Len(ws) PROVE os[i] = Score(cases[i], ws[i])
    <2>1. CASE i \in 1..Len(worlds)
      BY <1>1, <1>4, <1>5, <2>1
    <2>2. CASE i = Len(worlds) + 1
      BY <1>2, <1>4, <1>5, <2>2
    <2> QED BY <1>1, <1>4, <2>1, <2>2
  <1>8. ScoredSoFar(cases, ws, os)
    BY <1>1, <1>4, <1>5, <1>6, <1>7 DEF ScoredSoFar
  <1> QED BY <1>8 DEF ws, os, o

LEMMA RunCaseStep ==
    ASSUME GoldenInv, NEW w \in Worlds, RunCase(w)
    PROVE  GoldenInv'
  <1> DEFINE c == run.cases[Len(run.outcomes) + 1]
  <1>1. /\ run # NoRun /\ run.completed /\ Len(run.outcomes) < Len(run.cases)
        /\ UNCHANGED <<file, records, vouched, told, last>>
    BY DEF RunCase, Running
  <1>2. RunIs(run)
    BY <1>1 DEF GoldenInv, RunHolds
  <1>3. FilesHold' /\ KeysAreAccepted' /\ RecordsHold' /\ ToldHolds'
    BY <1>1, FilesStay, RecordsStay DEF GoldenInv
  <1>4. VerdictIsEarned'
    BY <1>1 DEF GoldenInv, VerdictIsEarned, Earned
  <1>5. run = [dataset |-> run.dataset, selection |-> run.selection, cases |-> run.cases, worlds |-> run.worlds,
               outcomes |-> run.outcomes, completed |-> run.completed]
    BY <1>2 DEF RunIs
  <1>6. CASE w.gen = "raises"
    <2>1. run' = [run EXCEPT !.completed = FALSE]
      BY <1>6 DEF RunCase
    <2>2. run' = [dataset |-> run.dataset, selection |-> run.selection, cases |-> run.cases, worlds |-> run.worlds,
                  outcomes |-> run.outcomes, completed |-> FALSE]
      BY <1>5, <2>1
    <2>3. /\ run' = [dataset |-> run'.dataset, selection |-> run'.selection, cases |-> run'.cases, worlds |-> run'.worlds,
                     outcomes |-> run'.outcomes, completed |-> run'.completed]
          /\ run'.dataset = run.dataset /\ run'.completed = FALSE /\ run'.cases = run.cases
          /\ run'.worlds = run.worlds /\ run'.outcomes = run.outcomes
      BY <2>2
    <2>4. RunIs(run')
      BY <1>2, <2>3 DEF RunIs
    <2>5. RunHolds'
      BY <2>4 DEF RunHolds, RunIs, ScoredSoFar, IsCases, IsCase
    <2> QED BY <1>3, <1>4, <2>5 DEF GoldenInv
  <1>7. CASE w.gen # "raises"
    <2> DEFINE worlds == Append(run.worlds, w)
               outcomes == Append(run.outcomes, Score(c, w))
    <2>1. run' = [run EXCEPT !.worlds = worlds, !.outcomes = outcomes]
      BY <1>7 DEF RunCase
    <2>2. ScoredSoFar(run.cases, worlds, outcomes)
      BY <1>1, <1>2, <1>7, ScoreNext DEF RunIs, Reached
    <2> HIDE DEF worlds, outcomes
    <2>3. run' = [dataset |-> run.dataset, selection |-> run.selection, cases |-> run.cases, worlds |-> worlds,
                  outcomes |-> outcomes, completed |-> run.completed]
      BY <1>5, <2>1
    <2>4. /\ run' = [dataset |-> run'.dataset, selection |-> run'.selection, cases |-> run'.cases, worlds |-> run'.worlds,
                     outcomes |-> run'.outcomes, completed |-> run'.completed]
          /\ run'.dataset = run.dataset /\ run'.completed = run.completed /\ run'.cases = run.cases
          /\ run'.worlds = worlds /\ run'.outcomes = outcomes
      BY <2>3
    <2>5. RunIs(run')
      BY <1>2, <2>2, <2>4 DEF RunIs
    <2>6. RunHolds'
      BY <2>5 DEF RunHolds, RunIs, ScoredSoFar, IsCases, IsCase
    <2> QED BY <1>3, <1>4, <2>6 DEF GoldenInv
  <1> QED BY <1>6, <1>7

LEMMA LastOfAppend ==
    ASSUME NEW T, NEW s \in Seq(T), NEW x \in T
    PROVE  Append(s, x) # <<>> /\ Last(Append(s, x)) = x
  BY DEF Last

LEMMA TrustedAppend ==
    ASSUME RecordsHold, NEW rec, records' = Append(records, rec), NEW d
    PROVE  Trusted(d)' = IF rec.dataset = d /\ Whole(rec) /\ ReachedVerdict(rec) THEN Append(Trusted(d), rec) ELSE Trusted(d)
  <1> DEFINE T == ToSet(records) \cup {rec}
             good(r) == r.dataset = d /\ Whole(r) /\ ReachedVerdict(r)
             S == {r \in T : good(r)}
  <1>1. records \in Seq(ToSet(records))
    BY DEF RecordsHold
  <1>2. records \in Seq(T) /\ rec \in T
    BY <1>1
  <1>3. ToSet(Append(records, rec)) = T
    BY <1>2, AppendElements
  <1>4. Trusted(d)' = Within(Append(records, rec), S)
    <2>1. Trusted(d)' = Within(records', {r \in ToSet(records') : r.dataset = d /\ Whole(r) /\ ReachedVerdict(r)})
      BY Zenon DEF Trusted
    <2> QED BY <1>3, <2>1, Zenon
  <1>5. Trusted(d) = Within(records, {r \in ToSet(records) : good(r)})
    BY Zenon DEF Trusted
  <1>6. rec \in S <=> good(rec)
    <2> HIDE DEF good
    <2> QED OBVIOUS
  <1>7. \A x \in ToSet(records) : x \in {r \in ToSet(records) : good(r)} <=> x \in S
    <2> HIDE DEF good
    <2> QED OBVIOUS
  <1>8. Trusted(d) = Within(records, S)
    <2> DEFINE R == {r \in ToSet(records) : good(r)}
    <2> HIDE DEF S, R
    <2>1. Within(records, R) = Within(records, S)
      BY <1>1, <1>7, WithinOn DEF R
    <2> QED BY <1>5, <2>1 DEF R
  <1> HIDE DEF S, T
  <1>9. Within(Append(records, rec), S) = IF rec \in S THEN Append(Within(records, S), rec) ELSE Within(records, S)
    BY <1>2, WithinAppend
  <1>10. CASE good(rec)
    BY <1>4, <1>6, <1>8, <1>9, <1>10, Zenon
  <1>11. CASE ~good(rec)
    BY <1>4, <1>6, <1>8, <1>9, <1>11, Zenon
  <1> QED BY <1>10, <1>11

LEMMA FinishStep ==
    ASSUME GoldenInv, NEW written \in BOOLEAN, Finish(written)
    PROVE  GoldenInv'
  <1> DEFINE code == Verdict(run.completed, run.outcomes)
             rec == [dataset |-> run.dataset, selection |-> run.selection, completed |-> run.completed,
                     outcomes |-> run.outcomes]
             tells == written /\ run.selection = "all" /\ code # 2
  <1>1. /\ run # NoRun /\ ~(run.completed /\ Len(run.outcomes) < Len(run.cases)) /\ run' = NoRun
        /\ UNCHANGED <<file, vouched>>
        /\ last' = [cases |-> run.cases, worlds |-> run.worlds, code |-> code]
    BY DEF Finish, Running
  <1>2. /\ written => records' = Append(records, rec)
        /\ ~written => records' = records
        /\ tells => told' = [told EXCEPT ![run.dataset] = {Wrong(run.outcomes)}]
        /\ ~tells => told' = told
    BY DEF Finish
  <1>3. RunIs(run)
    BY <1>1 DEF GoldenInv, RunHolds
  <1>4. FilesHold' /\ KeysAreAccepted' /\ RunHolds'
    BY <1>1, FilesStay DEF GoldenInv, RunHolds
  <1>5. VerdictIsEarned'
    <2>1. Earned(run.cases, run.worlds, code)
      BY <1>1, <1>3, FinishEarns
    <2> HIDE DEF code
    <2>2. last'.cases = run.cases /\ last'.worlds = run.worlds /\ last'.code = code
      BY <1>1
    <2>3. Earned(last'.cases, last'.worlds, last'.code)
      BY <2>1, <2>2
    <2> QED BY <2>3 DEF VerdictIsEarned, Earned
  <1>6. OutcomesHold(run.outcomes) /\ run.dataset \in Datasets
    BY <1>3, OutcomesHoldIs DEF RunIs
  <1>7. rec.dataset = run.dataset /\ rec.outcomes = run.outcomes /\ Whole(rec) = (run.selection = "all")
        /\ (ReachedVerdict(rec) <=> code # 2)
    BY DEF Whole, ReachedVerdict
  <1> HIDE DEF rec, code
  <1>8. CASE ~written
    <2>1. UNCHANGED <<records, told>>
      BY <1>2, <1>8
    <2> QED BY <1>4, <1>5, <2>1, RecordsStay DEF GoldenInv
  <1>9. CASE written
    <2> DEFINE T == ToSet(records) \cup {rec}
    <2>1. records' = Append(records, rec) /\ records \in Seq(ToSet(records)) /\ \A r \in ToSet(records) : OutcomesHold(r.outcomes)
      BY <1>2, <1>9 DEF GoldenInv, RecordsHold
    <2>2. records \in Seq(T) /\ rec \in T
      BY <2>1
    <2>3. records' \in Seq(T) /\ ToSet(records') = T
      <3>1. T = ToSet(records) \cup {rec}
        OBVIOUS
      <3> HIDE DEF T
      <3>2. Append(records, rec) \in Seq(T)
        BY <2>2
      <3>3. ToSet(Append(records, rec)) = ToSet(records) \cup {rec}
        BY <2>2, AppendElements
      <3>4. ToSet(Append(records, rec)) = T
        BY <3>1, <3>3
      <3> QED BY <2>1, <3>2, <3>4
    <2>4. RecordsHold'
      <3>1. records' \in Seq(ToSet(records'))
        BY <2>3
      <3>2. \A r \in ToSet(records') : OutcomesHold(r.outcomes)
        BY <1>6, <1>7, <2>1, <2>3
      <3> QED BY <3>1, <3>2 DEF RecordsHold, OutcomesHold
    <2>5. DOMAIN told = Datasets /\ \A d \in Datasets : told[d] = Told(d)
      BY DEF GoldenInv, ToldHolds
    <2>6. DOMAIN told' = Datasets
      BY <1>2, <2>5
    <2>7. ASSUME NEW d \in Datasets PROVE told'[d] = Told(d)'
      <3>1. Trusted(d)' = IF rec.dataset = d /\ Whole(rec) /\ ReachedVerdict(rec) THEN Append(Trusted(d), rec) ELSE Trusted(d)
        BY <2>1, TrustedAppend DEF GoldenInv
      <3>2. CASE rec.dataset = d /\ Whole(rec) /\ ReachedVerdict(rec)
        <4>1. tells
          BY <1>7, <1>9, <3>2
        <4>2. told'[d] = {Wrong(run.outcomes)}
          BY <1>2, <1>7, <2>5, <3>2, <4>1
        <4>3. Trusted(d)' = Append(Trusted(d), rec) /\ Trusted(d) \in Seq(ToSet(records))
          BY <3>1, <3>2, TrustedIs DEF GoldenInv
        <4>4. Trusted(d) \in Seq(T) /\ rec \in T
          BY <4>3
        <4> DEFINE s == Append(Trusted(d), rec)
        <4>5. s # <<>> /\ Last(s) = rec
          <5> HIDE DEF T
          <5> QED BY <4>4, LastOfAppend
        <4>6. Trusted(d)' = s
          BY <4>3
        <4> HIDE DEF s
        <4>7. Told(d)' = {Wrong(Last(s).outcomes)}
          BY <4>5, <4>6 DEF Told, Wrong, GatingFailure, Passed
        <4> QED BY <1>7, <4>2, <4>5, <4>7
      <3>3. CASE ~(rec.dataset = d /\ Whole(rec) /\ ReachedVerdict(rec))
        <4>1. Trusted(d)' = Trusted(d)
          BY <3>1, <3>3
        <4>2. Told(d)' = Told(d)
          BY <4>1 DEF Told, Wrong, GatingFailure, Passed
        <4>3. told'[d] = told[d]
          <5>1. CASE tells
            <6>1. d # run.dataset
              BY <1>7, <3>3, <5>1
            <6> QED BY <1>2, <2>5, <5>1, <6>1
          <5>2. CASE ~tells
            BY <1>2, <5>2
          <5> QED BY <5>1, <5>2
        <4> QED BY <2>5, <4>2, <4>3
      <3> QED BY <3>2, <3>3
    <2>8. ToldHolds'
      BY <2>6, <2>7 DEF ToldHolds
    <2> QED BY <1>4, <1>5, <2>4, <2>8 DEF GoldenInv
  <1> QED BY <1>8, <1>9

(****************************************************************************)
(* Golden datasets: every step, and the theorems.                             *)
(****************************************************************************)

LEMMA InterruptStep ==
    ASSUME GoldenInv, Interrupt
    PROVE  GoldenInv'
  <1>1. run' = NoRun /\ UNCHANGED <<file, records, last, vouched, told>>
    BY DEF Interrupt
  <1>2. FilesHold' /\ KeysAreAccepted' /\ RecordsHold' /\ ToldHolds'
    BY <1>1, FilesStay, RecordsStay DEF GoldenInv
  <1>3. RunHolds' /\ VerdictIsEarned'
    BY <1>1 DEF GoldenInv, RunHolds, VerdictIsEarned, Earned
  <1> QED BY <1>2, <1>3 DEF GoldenInv

(* What a write leaves alone.                                                 *)
LEMMA WritingLeaves ==
    ASSUME Writing
    PROVE  UNCHANGED <<records, run, last, told>>
  <1>1. CASE \E s \in Sheets, agreed \in BOOLEAN : Import(s[1], s[2], agreed)
    BY <1>1, Zenon DEF Import, WriteItems
  <1>2. CASE \E a \in Answers, agreed \in BOOLEAN : Save(a[1], a[2], agreed)
    BY <1>2, Zenon DEF Save, WriteItems
  <1>3. CASE \E p \in Pages, agreed \in BOOLEAN : Apply(p[1], p[2], agreed)
    BY <1>3, Zenon DEF Apply, WriteItems
  <1>4. CASE \E a \in Answers : WriteDies(a[1], <<a[2]>>)
    BY <1>4, Zenon DEF WriteDies
  <1>5. CASE \E e \in Edits : EditByHand(e[1], e[2])
    BY <1>5, Zenon DEF EditByHand
  <1> QED BY <1>1, <1>2, <1>3, <1>4, <1>5, Zenon DEF Writing

LEMMA WritingFiles ==
    ASSUME FilesHold, KeysAreAccepted, Writing
    PROVE  FilesHold' /\ KeysAreAccepted' /\ \A d \in Datasets : KeepsOthers(d)
  <1> DEFINE Goal == FilesHold' /\ KeysAreAccepted' /\ \A d \in Datasets : KeepsOthers(d)
  <1>1. ASSUME NEW s \in Sheets, NEW agreed \in BOOLEAN, Import(s[1], s[2], agreed) PROVE Goal
    BY <1>1, ImportStep
  <1>2. ASSUME NEW a \in Answers, NEW agreed \in BOOLEAN, Save(a[1], a[2], agreed) PROVE Goal
    BY <1>2, SaveStep
  <1>3. ASSUME NEW p \in Pages, NEW agreed \in BOOLEAN, Apply(p[1], p[2], agreed) PROVE Goal
    BY <1>3, ApplyStep
  <1>4. ASSUME NEW a \in Answers, WriteDies(a[1], <<a[2]>>) PROVE Goal
    BY <1>4, WriteDiesStep
  <1>5. ASSUME NEW x \in Edits, EditByHand(x[1], x[2]) PROVE Goal
    BY <1>5, EditStep
  <1> HIDE DEF Goal
  <1>6. Goal
    BY <1>1, <1>2, <1>3, <1>4, <1>5, Zenon DEF Writing
  <1> QED BY <1>6 DEF Goal

LEMMA WritingStep ==
    ASSUME GoldenInv, Writing
    PROVE  GoldenInv'
  <1>1. UNCHANGED <<records, run, last, told>>
    BY WritingLeaves
  <1>2. FilesHold' /\ KeysAreAccepted' /\ RecordsHold' /\ ToldHolds'
    BY <1>1, WritingFiles, RecordsStay DEF GoldenInv
  <1>3. RunHolds' /\ VerdictIsEarned'
    BY <1>1 DEF GoldenInv, RunHolds, VerdictIsEarned, Earned
  <1> QED BY <1>2, <1>3 DEF GoldenInv

LEMMA GoldenStart == GoldenInit => GoldenInv
  <1> SUFFICES ASSUME GoldenInit PROVE GoldenInv
    OBVIOUS
  <1> DEFINE none == <<>>
  <1>1. /\ file \in FirstFiles /\ vouched = [d \in Datasets |-> Standing(Read(file[d]))]
        /\ records = none /\ run = NoRun /\ last = None /\ told = [d \in Datasets |-> {}]
    BY DEF GoldenInit
  <1>2. DOMAIN file = Datasets /\ \A d \in Datasets : file[d] \in {None, Unreadable} \/ IsCases(file[d])
    BY <1>1, FilesAssumption
  <1>3. FilesHold
    BY <1>1, <1>2 DEF FilesHold
  <1>4. KeysAreAccepted
    <2>1. ASSUME NEW d \in Datasets, NEW c \in ToSet(Read(file[d])), c.confirmed PROVE <<c.id, c.sql>> \in vouched[d]
      BY <1>1, <2>1, StandingIs
    <2> QED BY <2>1 DEF KeysAreAccepted
  <1>5. RunHolds /\ VerdictIsEarned
    BY <1>1 DEF RunHolds, VerdictIsEarned
  <1>6. none \in Seq({}) /\ ToSet(none) = {} /\ \A S : Within(none, S) = none
    BY NoElements, WithinNothing
  <1>7. records = none
    BY <1>1
  <1> HIDE DEF none
  <1>8. RecordsHold
    BY <1>6, <1>7 DEF RecordsHold
  <1>9. ASSUME NEW d PROVE Told(d) = {}
    <2>1. Trusted(d) = none
      <3> DEFINE S == {r \in ToSet(records) : r.dataset = d /\ Whole(r) /\ ReachedVerdict(r)}
      <3>1. Trusted(d) = Within(records, S)
        BY Zenon DEF Trusted
      <3> HIDE DEF S
      <3> QED BY <1>6, <1>7, <3>1
    <2> QED BY <2>1 DEF Told, none
  <1>10. ToldHolds
    BY <1>1, <1>9 DEF ToldHolds
  <1> QED BY <1>3, <1>4, <1>5, <1>8, <1>10 DEF GoldenInv

LEMMA GoldenStutters ==
    ASSUME GoldenInv, UNCHANGED goldenVars
    PROVE  GoldenInv'
  <1>1. UNCHANGED <<file, records, run, last, vouched, told>>
    BY DEF goldenVars
  <1>2. FilesHold' /\ KeysAreAccepted' /\ RecordsHold' /\ ToldHolds'
    BY <1>1, FilesStay, RecordsStay DEF GoldenInv
  <1>3. RunHolds' /\ VerdictIsEarned'
    BY <1>1 DEF GoldenInv, RunHolds, VerdictIsEarned, Earned
  <1> QED BY <1>2, <1>3 DEF GoldenInv

LEMMA GoldenStep == GoldenInv /\ [GoldenNext]_goldenVars => GoldenInv'
  <1> SUFFICES ASSUME GoldenInv, [GoldenNext]_goldenVars PROVE GoldenInv'
    OBVIOUS
  <1>1. CASE Writing
    BY <1>1, WritingStep
  <1>2. ASSUME NEW d \in Datasets, NEW selection \in Selections, Start(d, selection) PROVE GoldenInv'
    BY <1>2, StartStep
  <1>3. ASSUME NEW w \in Worlds, RunCase(w) PROVE GoldenInv'
    BY <1>3, RunCaseStep
  <1>4. ASSUME NEW written \in BOOLEAN, Finish(written) PROVE GoldenInv'
    BY <1>4, FinishStep
  <1>5. CASE Interrupt
    BY <1>5, InterruptStep
  <1>6. CASE UNCHANGED goldenVars
    BY <1>6, GoldenStutters
  <1> QED BY <1>1, <1>2, <1>3, <1>4, <1>5, <1>6, Zenon DEF GoldenNext, Evaluating

LEMMA GoldenInvariant == GoldenSpec => []GoldenInv
  BY GoldenStart, GoldenStep, PTL DEF GoldenSpec

(* A confirmed case of a golden file carries a statement that somebody        *)
(* accepted for it and has not withdrawn, whatever sheets, answers, pages,    *)
(* hands and deaths in the middle of a write the file went through            *)
(* (golden_author.py, write_items and apply; golden.py, load).                *)
THEOREM KeysStayAccepted == GoldenSpec => []KeysAreAccepted
  <1>1. GoldenInv => KeysAreAccepted
    BY DEF GoldenInv
  <1> QED BY <1>1, GoldenInvariant, PTL

(* A run exits with 1 only when it met a confirmed case whose answer was      *)
(* wrong in the world it was asked in, and with 0 only when it reached every  *)
(* case, met no such one and did not break on all of them                     *)
(* (golden_run.py, score and verdict).                                        *)
THEOREM VerdictsAreEarned == GoldenSpec => []VerdictIsEarned
  <1>1. GoldenInv => VerdictIsEarned
    BY DEF GoldenInv
  <1> QED BY <1>1, GoldenInvariant, PTL

(* A door that does not die in the middle of the file leaves every case it    *)
(* was not asked about where and as it was (golden_author.py, write_items).   *)
THEOREM OthersStay == GoldenSpec => OthersAreKept
  <1>1. GoldenInv /\ [GoldenNext]_goldenVars =>
          [\A d \in Datasets :
            file'[d] # file[d] /\ file[d] \notin {None, Unreadable} /\ file'[d] # Unreadable =>
            CasesBut(file[d], named') = CasesBut(file'[d], named')]_goldenVars
    <2> SUFFICES ASSUME GoldenInv, GoldenNext
                 PROVE  \A d \in Datasets : KeepsOthers(d)
      BY DEF KeepsOthers
    <2>1. CASE Writing
      BY <2>1, WritingFiles DEF GoldenInv
    <2>2. CASE Evaluating
      <3>1. UNCHANGED file
        BY <2>2, Zenon DEF Evaluating, Start, RunCase, Finish, Interrupt
      <3> QED BY <3>1 DEF KeepsOthers
    <2> QED BY <2>1, <2>2 DEF GoldenNext
  <1> QED BY <1>1, GoldenInvariant, PTL DEF GoldenSpec, OthersAreKept

(* A rerun takes up exactly the cases that the newest whole run with a        *)
(* verdict got wrong and the dataset still has, whatever narrower, broken or  *)
(* unrecorded runs came in between (golden_run.py, last_failures).            *)
THEOREM RerunsAreOfWhatFailed == GoldenSpec => RerunIsOfWhatFailed
  <1>1. GoldenInv /\ [GoldenNext]_goldenVars =>
          [\A d \in Datasets :
            Start(d, "rerun") => \E failed \in told[d] : IdsOf(run'.cases) = failed \cap IdsOf(Read(file[d]))]_goldenVars
    <2> SUFFICES ASSUME GoldenInv, NEW d \in Datasets, Start(d, "rerun")
                 PROVE  \E failed \in told[d] : IdsOf(run'.cases) = failed \cap IdsOf(Read(file[d]))
      OBVIOUS
    <2> DEFINE cases == Selected(d, "rerun")
               failed == Wrong(Last(Trusted(d)).outcomes)
    <2>1. MayStart(d, "rerun")
      BY DEF Start
    <2>2. Trusted(d) # <<>>
      BY <2>1 DEF MayStart
    <2>3. told[d] = {failed}
      BY <2>2 DEF GoldenInv, ToldHolds, Told
    <2>4. IdsOf(cases) = failed \cap IdsOf(Read(file[d]))
      BY <2>2, RerunIs DEF GoldenInv
    <2>5. run' = IF cases = <<>> THEN NoRun ELSE Started(d, "rerun", cases)
      BY DEF Start
    <2>6. run'.cases = cases
      <3> HIDE DEF cases
      <3>1. NoRun.cases = <<>> /\ Started(d, "rerun", cases).cases = cases
        BY DEF NoRun, Started
      <3> QED BY <2>5, <3>1
    <2> HIDE DEF cases, failed
    <2> QED BY <2>3, <2>4, <2>6
  <1> QED BY <1>1, GoldenInvariant, PTL DEF GoldenSpec, RerunIsOfWhatFailed

=============================================================================
