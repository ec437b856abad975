----------------------------- MODULE FoldFacts ------------------------------
(***************************************************************************)
(* Induction over data, for the proofs about the other modules: what the   *)
(* left fold and the flattening of SequencesExt compute, for every         *)
(* sequence.  The library's induction theorems are about an operator that  *)
(* the provers cannot instantiate; here induction is about a set, namely   *)
(* {n \in Nat : what is to be proved of n}.                                *)
(*                                                                         *)
(* The operator to fold with is a constant of the module, with a parameter *)
(* before the accumulator and the element: a proof takes an INSTANCE.      *)
(***************************************************************************)
EXTENDS Integers, Sequences, SequencesExt, WellFoundedInduction, TLAPS

CONSTANT Op(_, _, _)

(* A set with 0 and the successor of each of its numbers has all numbers. *)
THEOREM NatSetInduction ==
  ASSUME NEW S, 0 \in S, \A n \in Nat : n \in S => n + 1 \in S
  PROVE  Nat \subseteq S
<1> DEFINE R == OpToRel(<, Nat)
           T == Nat \ S
<1> SUFFICES ASSUME T # {} PROVE FALSE
  OBVIOUS
<1>1. \A m, n \in Nat : <<m, n>> \in R <=> m < n
  BY DEF OpToRel
<1>2. IsWellFoundedOn(R, Nat)
  BY NatLessThanWellFounded
<1> HIDE DEF R
<1>3. PICK x \in T : \A y \in T : ~ (<<y, x>> \in R)
  BY <1>2, WFMin
<1>4. x # 0 /\ x - 1 \in Nat /\ x - 1 < x
  BY <1>3
<1>5. x - 1 \in S
  BY <1>1, <1>3, <1>4
<1> QED
  BY <1>3, <1>4, <1>5

-----------------------------------------------------------------------------
(* Folding.                                                                *)

Fold(p, base, s) == FoldLeft(LAMBDA acc, e : Op(p, acc, e), base, s)

(* g is the function that the fold of s, of length n, evaluates.           *)
IsFold(g, p, base, s, n) ==
  g = [t \in SUBSET (1 .. n) |->
         IF t = {} THEN base ELSE LET x == Max(t) IN Op(p, g[t \ {x}], s[x])]

LEMMA MaxOfInitial ==
  ASSUME NEW n \in Nat, NEW t \in SUBSET (1 .. (n + 1)), n + 1 \in t
  PROVE  Max(t) = n + 1
<1>1. \A y \in t : n + 1 >= y
  OBVIOUS
<1>2. Max(t) \in t /\ \A y \in t : Max(t) >= y
  BY <1>1 DEF Max
<1>3. \A x \in t : x >= n + 1 => x = n + 1
  OBVIOUS
<1> HIDE DEF Max
<1> QED
  BY <1>2, <1>3

(* There is one for every length, which extends that of the length before. *)
LEMMA FoldExists ==
  ASSUME NEW p, NEW base, NEW s
  PROVE  \A n \in Nat : \E g : IsFold(g, p, base, s, n)
<1> DEFINE S == {n \in Nat : \E g : IsFold(g, p, base, s, n)}
<1>1. 0 \in S
  <2> DEFINE g == [t \in SUBSET (1 .. 0) |-> base]
  <2>1. \A t \in SUBSET (1 .. 0) : t = {}
    OBVIOUS
  <2>2. g = [t \in SUBSET (1 .. 0) |->
               IF t = {} THEN base ELSE LET x == Max(t) IN Op(p, g[t \ {x}], s[x])]
    BY <2>1
  <2> QED
    BY <2>2 DEF IsFold
<1>2. ASSUME NEW n \in Nat, n \in S PROVE n + 1 \in S
  <2>1. PICK g : IsFold(g, p, base, s, n)
    BY <1>2
  <2>2. \A t \in SUBSET (1 .. n) :
          g[t] = IF t = {} THEN base ELSE LET x == Max(t) IN Op(p, g[t \ {x}], s[x])
    BY <2>1 DEF IsFold
  <2> DEFINE h == [t \in SUBSET (1 .. (n + 1)) |->
                     IF n + 1 \in t THEN Op(p, g[t \ {n + 1}], s[n + 1]) ELSE g[t]]
  <2>3. ASSUME NEW t \in SUBSET (1 .. (n + 1))
        PROVE  h[t] = IF t = {} THEN base ELSE LET x == Max(t) IN Op(p, h[t \ {x}], s[x])
    <3>1. CASE n + 1 \in t
      <4>1. t # {} /\ Max(t) = n + 1
        BY <3>1, MaxOfInitial
      <4>2. t \ {n + 1} \in SUBSET (1 .. (n + 1)) /\ n + 1 \notin t \ {n + 1}
        OBVIOUS
      <4>3. h[t \ {n + 1}] = g[t \ {n + 1}]
        BY <4>2
      <4> QED
        BY <3>1, <4>1, <4>3
    <3>2. CASE n + 1 \notin t
      <4>1. t \in SUBSET (1 .. n)
        BY <3>2
      <4>2. \A x : h[t \ {x}] = g[t \ {x}]
        BY <3>2
      <4>3. h[t] = g[t]
        BY <3>2
      <4> HIDE DEF h
      <4> QED
        BY <2>2, <4>1, <4>2, <4>3
    <3> QED
      BY <3>1, <3>2
  <2>4. h = [t \in SUBSET (1 .. (n + 1)) |-> h[t]]
    OBVIOUS
  <2> HIDE DEF h
  <2>5. IsFold(h, p, base, s, n + 1)
    BY <2>3, <2>4 DEF IsFold
  <2> QED
    BY <2>5
<1> HIDE DEF S
<1>3. Nat \subseteq S
  BY <1>1, <1>2, NatSetInduction
<1> QED
  BY <1>3 DEF S

(* Two sequences that agree up to k fold alike up to k.                    *)
LEMMA FoldAgree ==
  ASSUME NEW p, NEW base, NEW s, NEW t, NEW m \in Nat, NEW n \in Nat, m <= n,
         \A i \in 1 .. m : s[i] = t[i],
         NEW g, IsFold(g, p, base, s, m), NEW h, IsFold(h, p, base, t, n)
  PROVE  /\ g[{}] = base
         /\ g[1 .. m] = h[1 .. m]
         /\ m # 0 => g[1 .. m] = Op(p, g[1 .. (m - 1)], s[m])
<1>1. \A u \in SUBSET (1 .. m) :
        g[u] = IF u = {} THEN base ELSE LET x == Max(u) IN Op(p, g[u \ {x}], s[x])
  BY DEF IsFold
<1>2. \A u \in SUBSET (1 .. n) :
        h[u] = IF u = {} THEN base ELSE LET x == Max(u) IN Op(p, h[u \ {x}], t[x])
  BY DEF IsFold
<1>3. ASSUME NEW k \in Nat, k + 1 <= m
      PROVE  /\ g[1 .. (k + 1)] = Op(p, g[1 .. k], s[k + 1])
             /\ h[1 .. (k + 1)] = Op(p, h[1 .. k], t[k + 1])
  <2>1. /\ 1 .. (k + 1) \in SUBSET (1 .. m) /\ 1 .. (k + 1) \in SUBSET (1 .. n)
        /\ 1 .. (k + 1) # {} /\ (1 .. (k + 1)) \ {k + 1} = 1 .. k
    BY <1>3
  <2>2. Max(1 .. (k + 1)) = k + 1
    BY MaxOfInitial
  <2> QED
    BY <1>1, <1>2, <2>1, <2>2
<1>4. g[{}] = base /\ h[{}] = base
  BY <1>1, <1>2
<1> DEFINE S == {k \in Nat : k <= m => g[1 .. k] = h[1 .. k]}
<1>5. 0 \in S
  <2>1. 1 .. 0 = {}
    OBVIOUS
  <2> QED
    BY <1>4, <2>1
<1>6. ASSUME NEW k \in Nat, k \in S PROVE k + 1 \in S
  BY <1>3, <1>6
<1> HIDE DEF S
<1>7. Nat \subseteq S
  BY <1>5, <1>6, NatSetInduction
<1>8. g[1 .. m] = h[1 .. m]
  BY <1>7 DEF S
<1>9. ASSUME m # 0 PROVE g[1 .. m] = Op(p, g[1 .. (m - 1)], s[m])
  <2>1. m - 1 \in Nat /\ (m - 1) + 1 = m /\ (m - 1) + 1 <= m
    BY <1>9
  <2>2. g[1 .. ((m - 1) + 1)] = Op(p, g[1 .. (m - 1)], s[(m - 1) + 1])
    BY <1>3, <2>1
  <2> QED
    BY <2>1, <2>2
<1> QED
  BY <1>4, <1>8, <1>9

(* So the fold, which chooses one, has such a function's value.            *)
LEMMA FoldIs ==
  ASSUME NEW p, NEW base, NEW s, NEW n \in Nat, DOMAIN s = 1 .. n
  PROVE  \E g : IsFold(g, p, base, s, n) /\ Fold(p, base, s) = g[1 .. n]
<1> DEFINE g == CHOOSE f : IsFold(f, p, base, s, n)
<1>1. IsFold(g, p, base, s, n)
  BY FoldExists
<1>2. Fold(p, base, s) = g[1 .. n]
  BY DEF Fold, FoldLeft, MapThenFoldSet, IsFold
<1> QED
  BY <1>1, <1>2

(* The fold of an empty sequence is the base.                              *)
THEOREM FoldEmpty ==
  ASSUME NEW p, NEW base, NEW s, DOMAIN s = {}
  PROVE  Fold(p, base, s) = base
<1>1. DOMAIN s = 1 .. 0 /\ 1 .. 0 = {}
  OBVIOUS
<1>2. PICK g : IsFold(g, p, base, s, 0) /\ Fold(p, base, s) = g[1 .. 0]
  BY <1>1, FoldIs
<1>3. g[{}] = base
  BY <1>2, FoldAgree
<1> QED
  BY <1>1, <1>2, <1>3

(* An element at the end is applied to the fold of those before it.        *)
THEOREM FoldStep ==
  ASSUME NEW p, NEW base, NEW s, NEW t, NEW n \in Nat,
         DOMAIN s = 1 .. (n + 1), DOMAIN t = 1 .. n,
         \A i \in 1 .. n : t[i] = s[i]
  PROVE  Fold(p, base, s) = Op(p, Fold(p, base, t), s[n + 1])
<1>1. PICK g : IsFold(g, p, base, s, n + 1) /\ Fold(p, base, s) = g[1 .. (n + 1)]
  BY FoldIs
<1>2. PICK h : IsFold(h, p, base, t, n) /\ Fold(p, base, t) = h[1 .. n]
  BY FoldIs
<1>3. h[1 .. n] = g[1 .. n]
  BY <1>1, <1>2, FoldAgree
<1>4. g[1 .. (n + 1)] = Op(p, g[1 .. ((n + 1) - 1)], s[n + 1])
  <2>1. n + 1 \in Nat /\ n + 1 # 0 /\ n + 1 <= n + 1 /\ \A i \in 1 .. (n + 1) : s[i] = s[i]
    OBVIOUS
  <2> QED
    BY <1>1, <2>1, FoldAgree
<1>5. (n + 1) - 1 = n
  OBVIOUS
<1> QED
  BY <1>1, <1>2, <1>3, <1>4, <1>5

-----------------------------------------------------------------------------
(* Flattening.                                                             *)

(* g is the function that the flattening of ss, of length n, evaluates.    *)
IsFlat(g, ss, n) ==
  g = [i \in 1 .. n |-> IF i = 1 THEN ss[i] ELSE g[i - 1] \o ss[i]]

LEMMA FlatExists ==
  ASSUME NEW ss
  PROVE  \A n \in Nat : \E g : IsFlat(g, ss, n)
<1> DEFINE S == {n \in Nat : \E g : IsFlat(g, ss, n)}
<1>1. 0 \in S
  <2> DEFINE g == [i \in 1 .. 0 |-> ss[i]]
  <2>1. g = [i \in 1 .. 0 |-> IF i = 1 THEN ss[i] ELSE g[i - 1] \o ss[i]]
    OBVIOUS
  <2> QED
    BY <2>1 DEF IsFlat
<1>2. ASSUME NEW n \in Nat, n \in S PROVE n + 1 \in S
  <2>1. PICK g : IsFlat(g, ss, n)
    BY <1>2
  <2>2. \A i \in 1 .. n : g[i] = IF i = 1 THEN ss[i] ELSE g[i - 1] \o ss[i]
    BY <2>1 DEF IsFlat
  <2> DEFINE last == IF n = 0 THEN ss[1] ELSE g[n] \o ss[n + 1]
             h == [i \in 1 .. (n + 1) |-> IF i = n + 1 THEN last ELSE g[i]]
  <2>3. ASSUME NEW i \in 1 .. (n + 1)
        PROVE  h[i] = IF i = 1 THEN ss[i] ELSE h[i - 1] \o ss[i]
    <3>1. CASE i = n + 1
      <4>1. i # 1 => n # 0 /\ i - 1 = n /\ h[i - 1] = g[n]
        BY <3>1
      <4> QED
        BY <3>1, <4>1
    <3>2. CASE i # n + 1
      <4>1. i \in 1 .. n /\ h[i] = g[i]
        BY <3>2
      <4>2. i # 1 => i - 1 \in 1 .. n /\ h[i - 1] = g[i - 1]
        BY <4>1
      <4> HIDE DEF h
      <4> QED
        BY <2>2, <4>1, <4>2
    <3> QED
      BY <3>1, <3>2
  <2>4. h = [i \in 1 .. (n + 1) |-> h[i]]
    OBVIOUS
  <2> HIDE DEF h
  <2>5. IsFlat(h, ss, n + 1)
    BY <2>3, <2>4 DEF IsFlat
  <2> QED
    BY <2>5
<1> HIDE DEF S
<1>3. Nat \subseteq S
  BY <1>1, <1>2, NatSetInduction
<1> QED
  BY <1>3 DEF S

(* Two sequences that agree up to m flatten alike up to m.                 *)
LEMMA FlatAgree ==
  ASSUME NEW ss, NEW tt, NEW m \in Nat, NEW n \in Nat, m <= n,
         \A i \in 1 .. m : ss[i] = tt[i],
         NEW g, IsFlat(g, ss, m), NEW h, IsFlat(h, tt, n), m # 0
  PROVE  g[m] = h[m]
<1>1. \A i \in 1 .. m : g[i] = IF i = 1 THEN ss[i] ELSE g[i - 1] \o ss[i]
  BY DEF IsFlat
<1>2. \A i \in 1 .. n : h[i] = IF i = 1 THEN tt[i] ELSE h[i - 1] \o tt[i]
  BY DEF IsFlat
<1> DEFINE S == {k \in Nat : k \in 1 .. m => g[k] = h[k]}
<1>3. 0 \in S
  OBVIOUS
<1>4. ASSUME NEW k \in Nat, k \in S PROVE k + 1 \in S
  <2> SUFFICES ASSUME k + 1 \in 1 .. m PROVE g[k + 1] = h[k + 1]
    OBVIOUS
  <2>1. k + 1 \in 1 .. n /\ (k + 1) - 1 = k /\ ss[k + 1] = tt[k + 1]
    OBVIOUS
  <2>2. CASE k = 0
    BY <1>1, <1>2, <2>1, <2>2
  <2>3. CASE k # 0
    <3>1. k \in 1 .. m /\ k + 1 # 1
      BY <2>3
    <3>2. g[k] = h[k]
      BY <1>4, <3>1
    <3>3. g[k + 1] = g[(k + 1) - 1] \o ss[k + 1]
      BY <1>1, <3>1
    <3>4. h[k + 1] = h[(k + 1) - 1] \o tt[k + 1]
      BY <1>2, <2>1, <3>1
    <3> QED
      BY <2>1, <3>2, <3>3, <3>4
  <2> QED
    BY <2>2, <2>3
<1> HIDE DEF S
<1>5. Nat \subseteq S
  BY <1>3, <1>4, NatSetInduction
<1> QED
  BY <1>5 DEF S

LEMMA FlatIs ==
  ASSUME NEW ss, NEW n \in Nat, Len(ss) = n, n # 0
  PROVE  \E g : IsFlat(g, ss, n) /\ FlattenSeq(ss) = g[n]
<1> DEFINE g == CHOOSE f : IsFlat(f, ss, n)
<1>1. IsFlat(g, ss, n)
  BY FlatExists
<1>2. FlattenSeq(ss) = g[n]
  BY DEF FlattenSeq, IsFlat
<1> QED
  BY <1>1, <1>2

LEMMA FlattenNonempty ==
  ASSUME NEW ss, NEW tt, NEW n \in Nat, n # 0, Len(ss) = n + 1, Len(tt) = n,
         \A i \in 1 .. n : tt[i] = ss[i]
  PROVE  FlattenSeq(ss) = FlattenSeq(tt) \o ss[n + 1]
<1>1. PICK g : IsFlat(g, ss, n + 1) /\ FlattenSeq(ss) = g[n + 1]
  BY FlatIs
<1>2. PICK h : IsFlat(h, tt, n) /\ FlattenSeq(tt) = h[n]
  BY FlatIs
<1>3. h[n] = g[n]
  BY <1>1, <1>2, FlatAgree
<1>4. g[n + 1] = g[n] \o ss[n + 1]
  <2>1. n + 1 \in 1 .. (n + 1) /\ (n + 1) - 1 = n /\ n + 1 # 1
    OBVIOUS
  <2>2. g[n + 1] = g[(n + 1) - 1] \o ss[n + 1]
    BY <1>1, <2>1 DEF IsFlat
  <2> QED
    BY <2>1, <2>2
<1> QED
  BY <1>1, <1>2, <1>3, <1>4

LEMMA FlattenOne ==
  ASSUME NEW ss, Len(ss) = 1
  PROVE  FlattenSeq(ss) = ss[1]
<1> DEFINE g == CHOOSE f : IsFlat(f, ss, 1)
<1>1. \E f : IsFlat(f, ss, 1)
  <2>1. 1 \in Nat
    OBVIOUS
  <2> QED
    BY <2>1, FlatExists
<1>2. IsFlat(g, ss, 1)
  BY <1>1
<1>3. FlattenSeq(ss) = g[1]
  BY DEF FlattenSeq, IsFlat
<1> QED
  BY <1>2, <1>3 DEF IsFlat

(* One more sequence is flattened to its elements, after those before.     *)
THEOREM FlattenStep ==
  ASSUME NEW A, NEW ss \in Seq(Seq(A)), NEW tt \in Seq(Seq(A)),
         Len(ss) = Len(tt) + 1, \A i \in 1 .. Len(tt) : tt[i] = ss[i]
  PROVE  FlattenSeq(ss) = FlattenSeq(tt) \o ss[Len(ss)]
<1>1. CASE Len(tt) = 0
  <2>1. Len(ss) = 1 /\ ss[1] \in Seq(A) /\ tt = <<>>
    BY <1>1
  <2>2. FlattenSeq(ss) = ss[1]
    BY <2>1, FlattenOne
  <2>3. FlattenSeq(<<>>) = <<>>
    BY DEF FlattenSeq
  <2> QED
    BY <2>1, <2>2, <2>3
<1>2. CASE Len(tt) # 0
  <2>1. Len(tt) \in Nat
    OBVIOUS
  <2> QED
    BY <1>2, <2>1, FlattenNonempty
<1> QED
  BY <1>1, <1>2

(* A sequence of sequences over A is flattened to a sequence over A.       *)
THEOREM FlattenType ==
  ASSUME NEW A, NEW ss \in Seq(Seq(A))
  PROVE  FlattenSeq(ss) \in Seq(A)
<1> DEFINE n == Len(ss)
<1>1. CASE n = 0
  BY <1>1 DEF FlattenSeq
<1>2. CASE n # 0
  <2>1. PICK g : IsFlat(g, ss, n) /\ FlattenSeq(ss) = g[n]
    BY <1>2, FlatIs
  <2>2. \A i \in 1 .. n : g[i] = IF i = 1 THEN ss[i] ELSE g[i - 1] \o ss[i]
    BY <2>1 DEF IsFlat
  <2> DEFINE S == {k \in Nat : k \in 1 .. n => g[k] \in Seq(A)}
  <2>3. 0 \in S
    OBVIOUS
  <2>4. ASSUME NEW k \in Nat, k \in S PROVE k + 1 \in S
    <3> SUFFICES ASSUME k + 1 \in 1 .. n PROVE g[k + 1] \in Seq(A)
      OBVIOUS
    <3>1. ss[k + 1] \in Seq(A)
      OBVIOUS
    <3>2. CASE k = 0
      BY <2>2, <3>1, <3>2
    <3>3. CASE k # 0
      <4>1. k \in 1 .. n /\ (k + 1) - 1 = k /\ k + 1 # 1
        BY <3>3
      <4>2. g[k] \in Seq(A)
        BY <2>4, <4>1
      <4>3. g[k + 1] = g[k] \o ss[k + 1]
        BY <2>2, <4>1
      <4> QED
        BY <3>1, <4>2, <4>3
    <3> QED
      BY <3>2, <3>3
  <2> HIDE DEF S
  <2>5. Nat \subseteq S
    BY <2>3, <2>4, NatSetInduction
  <2> QED
    BY <1>2, <2>1, <2>5 DEF S
<1> QED
  BY <1>1, <1>2
=============================================================================
