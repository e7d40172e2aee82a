----------------------------- MODULE Induction -----------------------------
(***************************************************************************)
(* Induction over the naturals with sets for predicates: a non-empty set   *)
(* of naturals has a least element, so a set with 0 that is closed under   *)
(* successor holds them all.  The proofs about passes over a sequence rest *)
(* on it: a pass is a function indexed by position.                        *)
(***************************************************************************)
EXTENDS Integers, Sequences, WellFoundedInduction, TLAPS

Less == {p \in Nat \X Nat : p[1] < p[2]}

LEMMA LessWellFounded == IsWellFoundedOn(Less, Nat)
BY NatLessThanWellFounded, Zenon DEF Less, OpToRel

LEMMA Least ==
  ASSUME NEW S \in SUBSET Nat, S # {}
  PROVE  \E n \in S : \A m \in S : n <= m
<1>1. \E n \in S : \A m \in S : ~(<<m, n>> \in Less)
  BY LessWellFounded, WFMin, Zenon
<1>2. \A m, n \in Nat : <<m, n>> \in Less <=> m < n
  BY DEF Less
<1>3. \A m, n \in Nat : ~(m < n) => n <= m
  OBVIOUS
<1> QED
  BY <1>1, <1>2, <1>3

LEMMA Greatest ==
  ASSUME NEW b \in Nat, NEW S \in SUBSET (0 .. b), S # {}
  PROVE  \E n \in S : \A m \in S : m <= n
<1> DEFINE T == {b - n : n \in S}
<1>1. T \in SUBSET Nat /\ T # {}
  <2>1. \A n \in S : n \in 0 .. b /\ b - n \in Nat
    OBVIOUS
  <2> QED BY <2>1
<1>2. PICK t \in T : \A u \in T : t <= u
  <2> HIDE DEF T
  <2> QED BY <1>1, Least
<1>3. PICK n \in S : t = b - n
  OBVIOUS
<1>4. \A m \in S : b - m \in T
  OBVIOUS
<1>5. \A m \in S : m <= n
  <2>1. \A m \in S : b - n <= b - m
    BY <1>2, <1>3, <1>4
  <2>2. n \in 0 .. b /\ \A m \in S : m \in 0 .. b
    OBVIOUS
  <2> HIDE DEF T
  <2> QED BY <2>1, <2>2
<1> QED
  BY <1>5

LEMMA Induct ==
  ASSUME NEW S, 0 \in S, \A n \in Nat : n \in S => n + 1 \in S
  PROVE  Nat \subseteq S
<1> SUFFICES ASSUME Nat \ S # {} PROVE FALSE
  OBVIOUS
<1>1. PICK n \in Nat \ S : \A m \in Nat \ S : n <= m
  BY Least
<1>2. n # 0 /\ n - 1 \in Nat /\ ~(n <= n - 1) /\ (n - 1) + 1 = n
  BY <1>1
<1>3. n - 1 \in S
  BY <1>1, <1>2
<1> QED BY <1>2, <1>3

(* As Induct, up to a bound.                                               *)
LEMMA InductUpTo ==
  ASSUME NEW b \in Nat, NEW S, 0 \in S, \A n \in 0 .. b - 1 : n \in S => n + 1 \in S
  PROVE  0 .. b \subseteq S /\ b \in S
<1> DEFINE T == S \cup {n \in Nat : n > b}
<1>1. 0 \in T
  OBVIOUS
<1>2. \A n \in Nat : n \in T => n + 1 \in T
  OBVIOUS
<1>3. Nat \subseteq T
  <2> HIDE DEF T
  <2> QED BY <1>1, <1>2, Induct
<1>4. 0 .. b \subseteq S
  BY <1>3
<1>5. b \in 0 .. b
  OBVIOUS
<1> HIDE DEF T
<1> QED BY <1>4, <1>5, Zenon

(* A pass: a function indexed by position whose value at each is a step    *)
(* from the one before exists, so the recursive definition of one is met   *)
(* by the function it defines.                                             *)
Steps(n, T, step) == \A i \in 1 .. n : \A t \in T : step[i][t] \in T

IsPass(g, n, T, base, step) ==
  /\ g \in [0 .. n -> T]
  /\ g[0] = base
  /\ \A i \in 1 .. n : g[i] = step[i][g[i - 1]]

LEMMA PassExists ==
  ASSUME NEW n \in Nat, NEW T, NEW base \in T, NEW step, Steps(n, T, step)
  PROVE  \E g : IsPass(g, n, T, base, step)
<1> DEFINE Meets(m, g) == g[0] = base /\ \A i \in 1 .. m : g[i] = step[i][g[i - 1]]
           S == {m \in 0 .. n : \E g \in [0 .. n -> T] : Meets(m, g)}
<1>1. 0 \in S
  <2> DEFINE g == [i \in 0 .. n |-> base]
  <2>1. g \in [0 .. n -> T] /\ g[0] = base
    OBVIOUS
  <2>2. 1 .. 0 = {}
    OBVIOUS
  <2> HIDE DEF g
  <2> QED BY <2>1, <2>2
<1>2. ASSUME NEW m \in 0 .. n - 1, m \in S PROVE m + 1 \in S
  <2>1. PICK g \in [0 .. n -> T] : Meets(m, g)
    BY <1>2
  <2> DEFINE h == [g EXCEPT ![m + 1] = step[m + 1][g[m]]]
  <2>2. m \in 0 .. n /\ m + 1 \in 1 .. n /\ m + 1 \in 0 .. n /\ m \in Nat
    OBVIOUS
  <2>3. step[m + 1][g[m]] \in T
    BY <2>2 DEF Steps
  <2>4. h \in [0 .. n -> T]
    BY <2>2, <2>3
  <2>5. \A i \in 0 .. m : h[i] = g[i]
    BY <2>2
  <2>6. h[m + 1] = step[m + 1][g[m]]
    BY <2>2
  <2>7. ASSUME NEW i \in 1 .. m + 1 PROVE h[i] = step[i][h[i - 1]]
    <3>1. CASE i = m + 1
      BY <2>5, <2>6, <3>1
    <3>2. CASE i # m + 1
      <4>1. i \in 1 .. m /\ i \in 0 .. m /\ i - 1 \in 0 .. m
        BY <3>2
      <4> HIDE DEF h
      <4> QED BY <2>1, <2>5, <4>1
    <3> QED BY <3>1, <3>2
  <2>8. h[0] = base
    BY <2>1, <2>5
  <2> HIDE DEF h
  <2>9. Meets(m + 1, h)
    BY <2>7, <2>8
  <2> QED BY <2>2, <2>4, <2>9
<1>3. n \in S
  <2> HIDE DEF S
  <2> QED BY <1>1, <1>2, InductUpTo
<1> QED BY <1>3 DEF IsPass

(* What takes the steps of a pass stays where they lead.                   *)
Follows(f, n, T, base, step) ==
  /\ f = [i \in 0 .. n |-> f[i]]
  /\ f[0] = base
  /\ \A i \in 1 .. n : f[i - 1] \in T => f[i] = step[i][f[i - 1]]

LEMMA PassType ==
  ASSUME NEW n \in Nat, NEW T, NEW base \in T, NEW step, Steps(n, T, step),
         NEW f, Follows(f, n, T, base, step)
  PROVE  f \in [0 .. n -> T]
<1> DEFINE S == {i \in 0 .. n : f[i] \in T}
<1>1. 0 \in S
  BY DEF Follows
<1>2. ASSUME NEW i \in 0 .. n - 1, i \in S PROVE i + 1 \in S
  <2>1. i + 1 \in 1 .. n /\ i + 1 \in 0 .. n /\ (i + 1) - 1 = i
    OBVIOUS
  <2>2. step[i + 1][f[i]] \in T
    BY <1>2, <2>1 DEF Steps
  <2> QED BY <1>2, <2>1, <2>2 DEF Follows
<1>3. 0 .. n \subseteq S
  <2> HIDE DEF S
  <2> QED BY <1>1, <1>2, InductUpTo
<1>4. \A i \in 0 .. n : f[i] \in T
  BY <1>3
<1> QED BY <1>4 DEF Follows
=============================================================================
