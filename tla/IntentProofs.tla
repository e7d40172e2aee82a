---------------------------- MODULE IntentProofs ----------------------------
(***************************************************************************)
(* The identity of an intent (Intent): its class and its discriminant tell *)
(* names that are masked in one place apart.                               *)
(***************************************************************************)
EXTENDS Intent, Induction, SequenceTheorems

LEMMA AfterType ==
  ASSUME NEW text, Len(text) \in Nat, NEW i \in Nat, i <= Len(text) + 1, NEW cells
  PROVE  /\ After(text, i, cells) \in i .. Len(text) + 1
         /\ \A k \in i .. After(text, i, cells) - 1 : text[k] \in cells
         /\ After(text, i, cells) > Len(text) \/ text[After(text, i, cells)] \notin cells
<1> PICK n \in Nat : n = Len(text)
  OBVIOUS
<1> DEFINE Stops == {j \in i .. n + 1 : j > n \/ text[j] \notin cells}
<1>1. Stops \in SUBSET Nat /\ n + 1 \in Stops
  OBVIOUS
<1>2. PICK j \in Stops : \A k \in Stops : j <= k
  <2> HIDE DEF Stops
  <2> QED BY <1>1, Least
<1>3. j \in i .. n + 1 /\ (j > n \/ text[j] \notin cells)
  OBVIOUS
<1>4. ASSUME NEW k \in i .. j - 1 PROVE text[k] \in cells
  <2>1. k \in i .. n + 1 /\ k < j /\ k <= n
    BY <1>3
  <2> QED BY <1>2, <2>1
<1> QED BY <1>3, <1>4 DEF After

(***************************************************************************)
(* Scans.  A scan of a text takes each position to what is read from there *)
(* on, and reads on at any later position.                                 *)
(***************************************************************************)
Beyond(f, i, n) == [k \in i + 1 .. n + 1 |-> f[k]]
ScanSteps(n, T, step) == \A i \in 1 .. n + 1 : \A g \in [i + 1 .. n + 1 -> T] : step[i][g] \in T
IsScan(f, n, T, step) == f \in [1 .. n + 1 -> T] /\ \A i \in 1 .. n + 1 : f[i] = step[i][Beyond(f, i, n)]

LEMMA ScanExists ==
  ASSUME NEW n \in Nat, NEW T, NEW step, ScanSteps(n, T, step)
  PROVE  \E f : IsScan(f, n, T, step)
<1> DEFINE dom(m) == n + 2 - m .. n + 1
           Meets(m, f) == f \in [dom(m) -> T] /\ \A i \in dom(m) : f[i] = step[i][Beyond(f, i, n)]
           S == {m \in 0 .. n + 1 : \E f : Meets(m, f)}
<1>1. 0 \in S
  <2> DEFINE f == [i \in dom(0) |-> n]
  <2>1. dom(0) = {}
    OBVIOUS
  <2>2. Meets(0, f)
    BY <2>1
  <2> QED BY <2>2
<1>2. ASSUME NEW m \in 0 .. n, m \in S PROVE m + 1 \in S
  <2>1. PICK f : Meets(m, f)
    BY <1>2
  <2> DEFINE p == n + 1 - m
             h == [i \in dom(m + 1) |-> IF i = p THEN step[p][f] ELSE f[i]]
  <2>2. p \in 1 .. n + 1 /\ dom(m) = p + 1 .. n + 1 /\ dom(m + 1) = p .. n + 1 /\ p \in dom(m + 1)
    OBVIOUS
  <2>3. \A i \in dom(m) : i \in dom(m + 1) /\ i # p /\ i + 1 .. n + 1 \subseteq dom(m)
    OBVIOUS
  <2>4. \A i \in dom(m + 1) : i = p \/ i \in dom(m)
    OBVIOUS
  <2> HIDE DEF p, dom
  <2>5. f \in [p + 1 .. n + 1 -> T]
    BY <2>1, <2>2
  <2>6. step[p][f] \in T
    BY <2>2, <2>5 DEF ScanSteps
  <2>7. \A i \in dom(m) : h[i] = f[i] /\ f[i] \in T
    BY <2>1, <2>3
  <2>8. h[p] = step[p][f]
    BY <2>2
  <2>9. h \in [dom(m + 1) -> T]
    BY <2>4, <2>6, <2>7, <2>8
  <2> HIDE DEF h
  <2>10. ASSUME NEW i \in dom(m) PROVE Beyond(h, i, n) = Beyond(f, i, n)
    BY <2>3, <2>7, <2>10 DEF Beyond
  <2>11. Beyond(h, p, n) = f
    BY <2>2, <2>5, <2>7 DEF Beyond
  <2>12. \A i \in dom(m + 1) : h[i] = step[i][Beyond(h, i, n)]
    BY <2>1, <2>4, <2>7, <2>8, <2>10, <2>11
  <2>13. Meets(m + 1, h)
    BY <2>9, <2>12
  <2> QED BY <2>13
<1>3. n + 1 \in S
  <2>1. \A m \in 0 .. (n + 1) - 1 : m \in S => m + 1 \in S
    BY <1>2
  <2> HIDE DEF S
  <2> QED BY <1>1, <2>1, InductUpTo
<1>4. PICK f : Meets(n + 1, f)
  BY <1>3
<1>5. dom(n + 1) = 1 .. n + 1
  OBVIOUS
<1> QED BY <1>4, <1>5 DEF IsScan

(* What holds wherever it holds at every later position holds everywhere.  *)
LEMMA Downwards ==
  ASSUME NEW n \in Nat, NEW S, \A i \in 1 .. n + 1 : i + 1 .. n + 1 \subseteq S => i \in S
  PROVE  1 .. n + 1 \subseteq S
<1> DEFINE Q == {m \in 0 .. n + 1 : n + 2 - m .. n + 1 \subseteq S}
<1>1. 0 \in Q
  OBVIOUS
<1>2. ASSUME NEW m \in 0 .. n, m \in Q PROVE m + 1 \in Q
  <2>1. (n + 1 - m) + 1 .. n + 1 \subseteq S /\ n + 1 - m \in 1 .. n + 1
    BY <1>2
  <2>2. n + 1 - m \in S
    BY <2>1
  <2>3. \A k \in n + 1 - m .. n + 1 : k = n + 1 - m \/ k \in (n + 1 - m) + 1 .. n + 1
    OBVIOUS
  <2> QED BY <2>1, <2>2, <2>3
<1>3. n + 1 \in Q
  <2>1. \A m \in 0 .. (n + 1) - 1 : m \in Q => m + 1 \in Q
    BY <1>2
  <2> HIDE DEF Q
  <2> QED BY <1>1, <2>1, InductUpTo
<1> QED BY <1>3

----------------------------------------------------------------------------
(* Replaced.                                                               *)

\* Ranges inside a text from f to l, of which no two begin together.
AreRanges(claims, f, l) ==
  /\ \A c \in claims : c.first \in f .. l /\ c.last \in c.first .. l
  /\ \A c, d \in claims : c.first = d.first => c.last = d.last

Beginning(claims, i) == CHOOSE c \in claims : c.first = i

IsCopy(copy, form, claims) ==
  /\ copy = [i \in 1 .. Len(form) + 1 |-> copy[i]]
  /\ copy[Len(form) + 1] = <<>>
  /\ \A i \in 1 .. Len(form) :
       copy[i] = IF \E c \in claims : c.first = i THEN kMaskWildcard \o copy[Beginning(claims, i).last + 1]
                 ELSE <<form[i]>> \o copy[i + 1]

LEMMA ReplacedIs ==
  ASSUME NEW C, NEW form \in Seq(C), kMaskWildcard \in Seq(C), NEW claims, AreRanges(claims, 1, Len(form))
  PROVE  \E copy \in [1 .. Len(form) + 1 -> Seq(C)] : IsCopy(copy, form, claims) /\ Replaced(form, claims) = copy[1]
<1> PICK n \in Nat : n = Len(form)
  BY LenProperties
<1> DEFINE starts(i) == \E c \in claims : c.first = i
           next(i) == Beginning(claims, i).last + 1
           T == Seq(C)
           step == [i \in 1 .. n + 1 |-> [g \in [i + 1 .. n + 1 -> T] |->
                      IF i > n THEN <<>> ELSE IF starts(i) THEN kMaskWildcard \o g[next(i)] ELSE <<form[i]>> \o g[i + 1]]]
           Pass(g) == g = [i \in 1 .. Len(form) + 1 |->
                             IF i > Len(form) THEN <<>>
                             ELSE IF \E c \in claims : c.first = i
                                  THEN kMaskWildcard \o g[(CHOOSE c \in claims : c.first = i).last + 1]
                                  ELSE <<form[i]>> \o g[i + 1]]
<1>1. \A i \in 1 .. n : starts(i) => next(i) \in i + 1 .. n + 1
  <2> SUFFICES ASSUME NEW i \in 1 .. n, starts(i) PROVE next(i) \in i + 1 .. n + 1
    OBVIOUS
  <2>1. Beginning(claims, i) \in claims /\ Beginning(claims, i).first = i
    BY DEF Beginning
  <2>2. Beginning(claims, i).last \in i .. n
    BY <2>1 DEF AreRanges
  <2> QED BY <2>2
<1> HIDE DEF next, starts
<1>2. \A i \in 1 .. n + 1 : \A g \in [i + 1 .. n + 1 -> T] :
        /\ step[i][g] = IF i > n THEN <<>> ELSE IF starts(i) THEN kMaskWildcard \o g[next(i)] ELSE <<form[i]>> \o g[i + 1]
        /\ step[i][g] \in T
  <2> SUFFICES ASSUME NEW i \in 1 .. n + 1, NEW g \in [i + 1 .. n + 1 -> T]
      PROVE (IF i > n THEN <<>> ELSE IF starts(i) THEN kMaskWildcard \o g[next(i)] ELSE <<form[i]>> \o g[i + 1]) \in T
    OBVIOUS
  <2>1. CASE i > n
    BY <2>1
  <2>2. CASE i <= n /\ starts(i)
    <3>1. g[next(i)] \in T
      BY <1>1, <2>2
    <3> QED BY <2>2, <3>1, ConcatProperties
  <2>3. CASE i <= n /\ ~starts(i)
    <3>1. g[i + 1] \in T /\ form[i] \in C
      BY <2>3
    <3> QED BY <2>3, <3>1, ConcatProperties
  <2> QED BY <2>1, <2>2, <2>3
<1> HIDE DEF step
<1>3. PICK h : IsScan(h, n, T, step)
  BY <1>2, ScanExists DEF ScanSteps
<1>4. \A i \in 1 .. n + 1 : h[i] = IF i > n THEN <<>> ELSE IF starts(i) THEN kMaskWildcard \o h[next(i)] ELSE <<form[i]>> \o h[i + 1]
  <2> SUFFICES ASSUME NEW i \in 1 .. n + 1
      PROVE h[i] = IF i > n THEN <<>> ELSE IF starts(i) THEN kMaskWildcard \o h[next(i)] ELSE <<form[i]>> \o h[i + 1]
    OBVIOUS
  <2>1. Beyond(h, i, n) \in [i + 1 .. n + 1 -> T] /\ \A k \in i + 1 .. n + 1 : Beyond(h, i, n)[k] = h[k]
    BY <1>3 DEF IsScan, Beyond
  <2>2. i <= n => i + 1 \in i + 1 .. n + 1
    OBVIOUS
  <2>3. h[i] = step[i][Beyond(h, i, n)]
    BY <1>3 DEF IsScan
  <2> QED BY <1>1, <1>2, <2>1, <2>2, <2>3
<1>5. h = [i \in 1 .. n + 1 |-> h[i]]
  BY <1>3 DEF IsScan
<1>6. Pass(h)
  BY <1>4, <1>5 DEF next, starts, Beginning
<1> DEFINE copy == CHOOSE g : Pass(g)
<1>7. Pass(copy)
  <2> HIDE DEF Pass
  <2> QED BY <1>6
<1>8. Replaced(form, claims) = copy[1]
  BY Zenon DEF Replaced
<1> HIDE DEF copy
<1>9. \A i \in 1 .. n + 1 : copy[i] = IF i > n THEN <<>> ELSE IF starts(i) THEN kMaskWildcard \o copy[next(i)] ELSE <<form[i]>> \o copy[i + 1]
  BY <1>7 DEF next, starts, Beginning
<1>10. copy = [i \in 1 .. n + 1 |-> copy[i]]
  BY <1>7
<1> HIDE DEF Pass
<1>11. IsCopy(copy, form, claims)
  <2>1. \A i \in 1 .. n : i \in 1 .. n + 1 /\ ~(i > n)
    OBVIOUS
  <2>2. \A i \in 1 .. n : copy[i] = IF starts(i) THEN kMaskWildcard \o copy[next(i)] ELSE <<form[i]>> \o copy[i + 1]
    BY <1>9, <2>1, Zenon
  <2>3. n + 1 \in 1 .. n + 1 /\ n + 1 > n
    OBVIOUS
  <2>4. copy[n + 1] = <<>>
    BY <1>9, <2>3, Zenon
  <2> QED BY <1>10, <2>2, <2>4, Zenon DEF IsCopy, next, starts
<1> DEFINE Q == {k \in 1 .. n + 1 : copy[k] \in T}
<1>12. ASSUME NEW i \in 1 .. n + 1, i + 1 .. n + 1 \subseteq Q PROVE i \in Q
  <2>1. \A k \in i + 1 .. n + 1 : copy[k] \in T
    BY <1>12
  <2>2. i <= n => i + 1 \in i + 1 .. n + 1
    OBVIOUS
  <2>3. Beyond(copy, i, n) \in [i + 1 .. n + 1 -> T] /\ \A k \in i + 1 .. n + 1 : Beyond(copy, i, n)[k] = copy[k]
    BY <2>1 DEF Beyond
  <2>4. copy[i] = step[i][Beyond(copy, i, n)]
    <3> DEFINE g == Beyond(copy, i, n)
    <3>1. g \in [i + 1 .. n + 1 -> T] /\ \A k \in i + 1 .. n + 1 : g[k] = copy[k]
      BY <2>3
    <3> HIDE DEF g
    <3>2. step[i][g] = IF i > n THEN <<>> ELSE IF starts(i) THEN kMaskWildcard \o g[next(i)] ELSE <<form[i]>> \o g[i + 1]
      BY <1>2, <3>1
    <3>3. i > n \/ i \in 1 .. n
      OBVIOUS
    <3>4. CASE i > n
      BY <1>9, <3>2, <3>4 DEF g
    <3>5. CASE ~(i > n) /\ starts(i)
      <4>1. g[next(i)] = copy[next(i)]
        BY <1>1, <3>1, <3>3, <3>5
      <4> QED BY <1>9, <3>2, <3>5, <4>1, Zenon DEF g
    <3>6. CASE ~(i > n) /\ ~starts(i)
      <4>1. g[i + 1] = copy[i + 1]
        BY <2>2, <3>1, <3>3, <3>6
      <4> QED BY <1>9, <3>2, <3>6, <4>1, Zenon DEF g
    <3> QED BY <3>4, <3>5, <3>6
  <2> QED BY <1>2, <2>3, <2>4
<1>13. 1 .. n + 1 \subseteq Q
  <2> HIDE DEF Q
  <2> QED BY <1>12, Downwards
<1> QED BY <1>8, <1>10, <1>11, <1>13


Shifted(claims, f) == {[first |-> c.first - f + 1, last |-> c.last - f + 1] : c \in claims}

LEMMA ShiftedAreRanges ==
  ASSUME NEW f \in Nat, NEW l \in Nat, f > 0, NEW claims, AreRanges(claims, f, l)
  PROVE  /\ AreRanges(Shifted(claims, f), 1, l - f + 1)
         /\ \A i \in f .. l : (\E c \in claims : c.first = i) <=> (\E c \in Shifted(claims, f) : c.first = i - f + 1)
         /\ \A i \in f .. l : (\E c \in claims : c.first = i) =>
              /\ Beginning(Shifted(claims, f), i - f + 1).last = Beginning(claims, i).last - f + 1
              /\ Beginning(claims, i).last \in i .. l
<1>1. \A c \in claims : c.first \in f .. l /\ c.last \in c.first .. l
  BY DEF AreRanges
<1>2. \A d \in Shifted(claims, f) : \E c \in claims : d.first = c.first - f + 1 /\ d.last = c.last - f + 1
  BY DEF Shifted
<1>3. ASSUME NEW c \in claims PROVE \E d \in Shifted(claims, f) : d.first = c.first - f + 1 /\ d.last = c.last - f + 1
  <2>1. [first |-> c.first - f + 1, last |-> c.last - f + 1] \in Shifted(claims, f)
    BY DEF Shifted
  <2> QED BY <2>1
<1>4. AreRanges(Shifted(claims, f), 1, l - f + 1)
  <2>1. ASSUME NEW d \in Shifted(claims, f) PROVE d.first \in 1 .. l - f + 1 /\ d.last \in d.first .. l - f + 1
    BY <1>1, <1>2
  <2>2. ASSUME NEW d \in Shifted(claims, f), NEW e \in Shifted(claims, f), d.first = e.first PROVE d.last = e.last
    <3>1. PICK c \in claims : d.first = c.first - f + 1 /\ d.last = c.last - f + 1
      BY <1>2
    <3>2. PICK b \in claims : e.first = b.first - f + 1 /\ e.last = b.last - f + 1
      BY <1>2
    <3>3. c.first = b.first
      <4>1. \A x, y \in Nat : x - f + 1 = y - f + 1 => x = y
        OBVIOUS
      <4>2. c.first \in Nat /\ b.first \in Nat
        BY <1>1
      <4> QED BY <2>2, <3>1, <3>2, <4>1, <4>2
    <3>4. c.last = b.last
      BY <3>3 DEF AreRanges
    <3> QED BY <3>1, <3>2, <3>4
  <2> QED BY <2>1, <2>2 DEF AreRanges
<1>5. \A i \in f .. l : (\E c \in claims : c.first = i) <=> (\E c \in Shifted(claims, f) : c.first = i - f + 1)
  BY <1>1, <1>2, <1>3
<1>6. ASSUME NEW i \in f .. l, \E c \in claims : c.first = i
      PROVE /\ Beginning(Shifted(claims, f), i - f + 1).last = Beginning(claims, i).last - f + 1
            /\ Beginning(claims, i).last \in i .. l
  <2>1. PICK c : c = Beginning(claims, i)
    OBVIOUS
  <2>2. PICK d : d = Beginning(Shifted(claims, f), i - f + 1)
    OBVIOUS
  <2>3. c \in claims /\ c.first = i
    BY <1>6, <2>1 DEF Beginning
  <2>4. d \in Shifted(claims, f) /\ d.first = i - f + 1
    BY <1>5, <1>6, <2>2 DEF Beginning
  <2>5. PICK b \in claims : d.first = b.first - f + 1 /\ d.last = b.last - f + 1
    BY <1>2, <2>4
  <2>6. b.first = i
    BY <1>1, <2>4, <2>5
  <2>7. b.last = c.last
    BY <2>3, <2>6 DEF AreRanges
  <2> QED BY <1>1, <2>1, <2>2, <2>3, <2>5, <2>7
<1> QED BY <1>4, <1>5, <1>6

LEMMA Reassociated ==
  ASSUME NEW C, NEW x \in Seq(C), NEW y \in Seq(C), NEW z \in Seq(C)
  PROVE  x \o (y \o z) = (x \o y) \o z
BY ConcatAssociative

\* What is not claimed stays as it is, around the text that holds the claims.
LEMMA ReplacedInside ==
  ASSUME NEW C, NEW form \in Seq(C), kMaskWildcard \in Seq(C), NEW f \in 1 .. Len(form) + 1, NEW l \in f - 1 .. Len(form),
         NEW claims, AreRanges(claims, f, l)
  PROVE  /\ Replaced(SubSeq(form, f, l), Shifted(claims, f)) \in Seq(C)
         /\ Replaced(form, claims) =
              SubSeq(form, 1, f - 1) \o (Replaced(SubSeq(form, f, l), Shifted(claims, f)) \o SubSeq(form, l + 1, Len(form)))
<1> DEFINE T == Seq(C)
<1>a. \A x, y, z \in T : x \o (y \o z) = (x \o y) \o z
  BY Reassociated
<1> PICK n \in Nat : n = Len(form)
  BY LenProperties
<1> DEFINE mid == SubSeq(form, f, l)
           moved == Shifted(claims, f)
           starts(i) == \E c \in claims : c.first = i
           last(i) == Beginning(claims, i).last
<1>0. f \in 1 .. n + 1 /\ l \in f - 1 .. n /\ f \in Nat /\ l \in Nat
  OBVIOUS
<1>1. mid \in T /\ Len(mid) = l - f + 1 /\ \A k \in 1 .. l - f + 1 : mid[k] = form[f + k - 1]
  <2>1. \A i \in f .. l : form[i] \in C
    BY <1>0
  <2> QED BY <1>0, <2>1, SubSeqProperties
<1>2. AreRanges(claims, 1, n)
  BY <1>0 DEF AreRanges
<1>3. PICK copy \in [1 .. n + 1 -> T] : IsCopy(copy, form, claims) /\ Replaced(form, claims) = copy[1]
  BY <1>2, ReplacedIs
<1>4. /\ AreRanges(moved, 1, l - f + 1)
      /\ \A i \in f .. l : starts(i) <=> \E c \in moved : c.first = i - f + 1
      /\ \A i \in f .. l : starts(i) => Beginning(moved, i - f + 1).last = last(i) - f + 1 /\ last(i) \in i .. l
  <2>1. f > 0
    BY <1>0
  <2> QED BY <1>0, <2>1, ShiftedAreRanges, Zenon
<1>5. PICK inner \in [1 .. (l - f + 1) + 1 -> T] : IsCopy(inner, mid, moved) /\ Replaced(mid, moved) = inner[1]
  <2>1. AreRanges(moved, 1, Len(mid)) /\ mid \in Seq(C)
    BY <1>1, <1>4
  <2> HIDE DEF mid, moved
  <2>2. \E g \in [1 .. Len(mid) + 1 -> Seq(C)] : IsCopy(g, mid, moved) /\ Replaced(mid, moved) = g[1]
    BY <2>1, ReplacedIs
  <2> QED BY <1>1, <2>2
<1>6. \A i \in 1 .. n : starts(i) => i \in f .. l
  BY DEF AreRanges
<1>7. \A i \in 1 .. n : copy[i] = IF starts(i) THEN kMaskWildcard \o copy[last(i) + 1] ELSE <<form[i]>> \o copy[i + 1]
  BY <1>3 DEF IsCopy
<1>8. \A i \in f .. l : inner[i - f + 1] = IF starts(i) THEN kMaskWildcard \o inner[last(i) - f + 2] ELSE <<form[i]>> \o inner[i - f + 2]
  <2> SUFFICES ASSUME NEW i \in f .. l
      PROVE inner[i - f + 1] = IF starts(i) THEN kMaskWildcard \o inner[last(i) - f + 2] ELSE <<form[i]>> \o inner[i - f + 2]
    OBVIOUS
  <2> PICK k \in 1 .. l - f + 1 : k = i - f + 1
    BY <1>0
  <2>1. inner[k] = IF \E c \in moved : c.first = k THEN kMaskWildcard \o inner[Beginning(moved, k).last + 1] ELSE <<mid[k]>> \o inner[k + 1]
    <3> HIDE DEF mid, moved
    <3> QED BY <1>1, <1>5 DEF IsCopy
  <2>2. mid[k] = form[i] /\ k + 1 = i - f + 2
    BY <1>0, <1>1
  <2>3. starts(i) => last(i) \in Int /\ Beginning(moved, k).last + 1 = last(i) - f + 2
    <3> HIDE DEF moved, last, starts
    <3> QED BY <1>0, <1>4
  <2>4. starts(i) <=> \E c \in moved : c.first = k
    BY <1>4
  <2> HIDE DEF starts, moved, mid, last
  <2> QED BY <2>1, <2>2, <2>3, <2>4
<1>9. inner[l - f + 2] = <<>> /\ copy[n + 1] = <<>>
  <2>1. inner[(l - f + 1) + 1] = <<>>
    <3> HIDE DEF mid, moved
    <3> QED BY <1>1, <1>5 DEF IsCopy
  <2>2. (l - f + 1) + 1 = l - f + 2
    BY <1>0
  <2> QED BY <1>3, <2>1, <2>2 DEF IsCopy
<1>10. /\ \A i \in 1 .. n + 1 : copy[i] \in T
       /\ \A i \in f .. l + 1 : inner[i - f + 1] \in T
  <2>1. \A i \in f .. l + 1 : i - f + 1 \in 1 .. (l - f + 1) + 1
    BY <1>0
  <2> QED BY <1>3, <1>5, <2>1
<1> HIDE DEF starts, last, mid, moved, T
<1>11. \A i \in l + 1 .. n + 1 : copy[i] = SubSeq(form, i, n)
  <2> DEFINE S == {i \in 1 .. n + 1 : i > l => copy[i] = SubSeq(form, i, n)}
  <2>1. ASSUME NEW i \in 1 .. n + 1, i + 1 .. n + 1 \subseteq S PROVE i \in S
    <3>1. CASE i = n + 1
      <4>1. SubSeq(form, i, n) = <<>>
        BY <3>1, SubSeqEmpty
      <4> QED BY <1>9, <3>1, <4>1
    <3>2. CASE i # n + 1 /\ i > l
      <4>1. i \in 1 .. n /\ i + 1 \in i + 1 .. n + 1 /\ i + 1 > l /\ i \notin f .. l
        BY <1>0, <3>2
      <4>2. copy[i + 1] = SubSeq(form, i + 1, n)
        BY <2>1, <4>1
      <4>3. copy[i] = <<form[i]>> \o copy[i + 1]
        BY <1>6, <1>7, <4>1
      <4>4. SubSeq(form, i, n) = <<form[i]>> \o SubSeq(form, i + 1, n)
        BY <4>1, SubSeqRecursiveFirst
      <4> QED BY <4>2, <4>3, <4>4
    <3>3. CASE ~(i > l)
      BY <3>3
    <3> QED BY <3>1, <3>2, <3>3
  <2>2. 1 .. n + 1 \subseteq S
    <3> HIDE DEF S
    <3> QED BY <2>1, Downwards
  <2>3. \A i \in l + 1 .. n + 1 : i \in S /\ i > l
    <3>1. \A i \in l + 1 .. n + 1 : i \in 1 .. n + 1 /\ i > l
      BY <1>0
    <3> HIDE DEF S
    <3> QED BY <2>2, <3>1
  <2> QED BY <2>3
<1>12. \A i \in f .. l + 1 : copy[i] = inner[i - f + 1] \o copy[l + 1]
  <2> DEFINE S == {i \in 1 .. n + 1 : i \in f .. l + 1 => copy[i] = inner[i - f + 1] \o copy[l + 1]}
  <2>0. copy[l + 1] \in T /\ kMaskWildcard \in T
    BY <1>0, <1>10 DEF T
  <2>1. ASSUME NEW i \in 1 .. n + 1, i + 1 .. n + 1 \subseteq S PROVE i \in S
    <3>1. CASE i = l + 1
      <4>1. i - f + 1 = l - f + 2
        BY <1>0, <3>1
      <4>2. <<>> \o copy[l + 1] = copy[l + 1]
        BY <2>0, ConcatEmptySeq DEF T
      <4> QED BY <1>9, <3>1, <4>1, <4>2
    <3>2. CASE i \in f .. l /\ starts(i)
      <4>1. last(i) \in i .. l /\ last(i) + 1 \in f .. l + 1 /\ last(i) + 1 \in i + 1 .. n + 1 /\ i \in 1 .. n
        BY <1>0, <1>4, <3>2
      <4>2. (last(i) + 1) - f + 1 = last(i) - f + 2
        BY <1>0, <4>1
      <4>3. copy[last(i) + 1] = inner[last(i) - f + 2] \o copy[l + 1] /\ inner[last(i) - f + 2] \in T
        BY <1>10, <2>1, <4>1, <4>2
      <4>4. copy[i] = kMaskWildcard \o copy[last(i) + 1]
        BY <1>7, <3>2, <4>1
      <4>5. inner[i - f + 1] = kMaskWildcard \o inner[last(i) - f + 2]
        BY <1>8, <3>2
      <4>6. kMaskWildcard \o (inner[last(i) - f + 2] \o copy[l + 1]) = (kMaskWildcard \o inner[last(i) - f + 2]) \o copy[l + 1]
        BY <1>a, <2>0, <4>3, Zenon
      <4> QED BY <4>3, <4>4, <4>5, <4>6
    <3>3. CASE i \in f .. l /\ ~starts(i)
      <4>1. i + 1 \in f .. l + 1 /\ i + 1 \in i + 1 .. n + 1 /\ i \in 1 .. n /\ (i + 1) - f + 1 = i - f + 2
        BY <1>0, <3>3
      <4>3. copy[i + 1] = inner[i - f + 2] \o copy[l + 1] /\ inner[i - f + 2] \in T
        BY <1>10, <2>1, <4>1
      <4>4. copy[i] = <<form[i]>> \o copy[i + 1]
        BY <1>7, <3>3, <4>1
      <4>5. inner[i - f + 1] = <<form[i]>> \o inner[i - f + 2]
        BY <1>8, <3>3
      <4>6. <<form[i]>> \in T
        BY <4>1 DEF T
      <4>7. <<form[i]>> \o (inner[i - f + 2] \o copy[l + 1]) = (<<form[i]>> \o inner[i - f + 2]) \o copy[l + 1]
        BY <1>a, <2>0, <4>3, <4>6, Zenon
      <4> QED BY <4>3, <4>4, <4>5, <4>7
    <3>4. CASE i \notin f .. l + 1
      BY <3>4
    <3>5. i \in f .. l + 1 => i = l + 1 \/ i \in f .. l
      BY <1>0
    <3> QED BY <3>1, <3>2, <3>3, <3>4, <3>5
  <2>2. 1 .. n + 1 \subseteq S
    <3> HIDE DEF S
    <3> QED BY <2>1, Downwards
  <2>3. \A i \in f .. l + 1 : i \in S
    <3>1. \A i \in f .. l + 1 : i \in 1 .. n + 1
      BY <1>0
    <3> HIDE DEF S
    <3> QED BY <2>2, <3>1
  <2> QED BY <2>3
<1>13. \A i \in 1 .. f : copy[i] = SubSeq(form, i, f - 1) \o copy[f]
  <2> DEFINE S == {i \in 1 .. n + 1 : i <= f => copy[i] = SubSeq(form, i, f - 1) \o copy[f]}
  <2>0. copy[f] \in T
    BY <1>0, <1>10
  <2>1. ASSUME NEW i \in 1 .. n + 1, i + 1 .. n + 1 \subseteq S PROVE i \in S
    <3>1. CASE i = f
      <4>1. SubSeq(form, i, f - 1) = <<>>
        BY <1>0, <3>1, SubSeqEmpty
      <4>2. <<>> \o copy[f] = copy[f]
        BY <2>0, ConcatEmptySeq DEF T
      <4> QED BY <3>1, <4>1, <4>2
    <3>2. CASE i < f
      <4>1. i \in 1 .. n /\ i + 1 \in i + 1 .. n + 1 /\ i + 1 <= f /\ i \notin f .. l /\ f - 1 \in i .. n /\ i + 1 \in 1 .. n + 1
        BY <1>0, <3>2
      <4>2. copy[i + 1] = SubSeq(form, i + 1, f - 1) \o copy[f]
        BY <2>1, <4>1
      <4>3. copy[i] = <<form[i]>> \o copy[i + 1]
        BY <1>6, <1>7, <4>1
      <4>4. SubSeq(form, i, f - 1) = <<form[i]>> \o SubSeq(form, i + 1, f - 1)
        BY <4>1, SubSeqRecursiveFirst
      <4>5. <<form[i]>> \in T /\ SubSeq(form, i + 1, f - 1) \in T
        <5>1. \A k \in i + 1 .. f - 1 : form[k] \in C
          BY <4>1
        <5>2. SubSeq(form, i + 1, f - 1) \in T
          BY <4>1, <5>1, SubSeqProperties DEF T
        <5> QED BY <4>1, <5>2 DEF T
      <4>6. <<form[i]>> \o (SubSeq(form, i + 1, f - 1) \o copy[f]) = (<<form[i]>> \o SubSeq(form, i + 1, f - 1)) \o copy[f]
        BY <1>a, <2>0, <4>5, Zenon
      <4> QED BY <4>2, <4>3, <4>4, <4>6
    <3>3. CASE ~(i <= f)
      BY <3>3
    <3>4. i <= f => i = f \/ i < f
      BY <1>0
    <3> QED BY <3>1, <3>2, <3>3, <3>4
  <2>2. 1 .. n + 1 \subseteq S
    <3> HIDE DEF S
    <3> QED BY <2>1, Downwards
  <2>3. \A i \in 1 .. f : i \in S
    <3>1. \A i \in 1 .. f : i \in 1 .. n + 1
      BY <1>0
    <3> HIDE DEF S
    <3> QED BY <2>2, <3>1
  <2> QED BY <2>3
<1>14. copy[1] = SubSeq(form, 1, f - 1) \o copy[f] /\ copy[f] = inner[1] \o copy[l + 1] /\ copy[l + 1] = SubSeq(form, l + 1, n)
  <2>1. 1 \in 1 .. f /\ f \in f .. l + 1 /\ l + 1 \in l + 1 .. n + 1 /\ f - f + 1 = 1
    BY <1>0
  <2> QED BY <1>11, <1>12, <1>13, <2>1
<1>15. inner[1] \in T
  BY <1>0, <1>5
<1> QED BY <1>3, <1>5, <1>14, <1>15 DEF T, mid, moved


----------------------------------------------------------------------------
(* The masked spans of a name.                                             *)

LEMMA DotEndType ==
  ASSUME NEW name, Len(name) \in Nat, NEW pos \in 1 .. Len(name) + 1
  PROVE  DotEnd(name, pos) \in pos .. Len(name) + 1
<1> PICK n \in Nat : n = Len(name)
  OBVIOUS
<1> DEFINE dot(i) == i < n /\ name[i] = "." /\ name[i + 1] \in Digit
           next(i) == After(name, i + 1, Digit)
           T == 1 .. n + 1
           step == [i \in 1 .. n + 1 |-> [g \in [i + 1 .. n + 1 -> T] |-> IF dot(i) THEN g[next(i)] ELSE i]]
           Pass(g) == g = [i \in 1 .. Len(name) + 1 |->
                             IF i < Len(name) /\ name[i] = "." /\ name[i + 1] \in Digit THEN g[After(name, i + 1, Digit)] ELSE i]
<1>1. \A i \in 1 .. n + 1 : dot(i) => next(i) \in i + 1 .. n + 1
  <2> SUFFICES ASSUME NEW i \in 1 .. n + 1, i < n PROVE next(i) \in i + 1 .. n + 1
    OBVIOUS
  <2>1. i + 1 \in Nat /\ i + 1 <= Len(name) + 1
    OBVIOUS
  <2> QED BY <2>1, AfterType
<1> HIDE DEF dot, next
<1>2. \A i \in 1 .. n + 1 : \A g \in [i + 1 .. n + 1 -> T] :
        step[i][g] = (IF dot(i) THEN g[next(i)] ELSE i) /\ step[i][g] \in T
  BY <1>1
<1> HIDE DEF step
<1>3. PICK h : IsScan(h, n, T, step)
  BY <1>2, ScanExists DEF ScanSteps
<1>4. \A i \in 1 .. n + 1 : h[i] = IF dot(i) THEN h[next(i)] ELSE i
  <2> SUFFICES ASSUME NEW i \in 1 .. n + 1 PROVE h[i] = IF dot(i) THEN h[next(i)] ELSE i
    OBVIOUS
  <2>1. Beyond(h, i, n) \in [i + 1 .. n + 1 -> T] /\ \A k \in i + 1 .. n + 1 : Beyond(h, i, n)[k] = h[k]
    BY <1>3 DEF IsScan, Beyond
  <2>2. h[i] = step[i][Beyond(h, i, n)]
    BY <1>3 DEF IsScan
  <2> QED BY <1>1, <1>2, <2>1, <2>2
<1>5. h = [i \in 1 .. n + 1 |-> h[i]]
  BY <1>3 DEF IsScan
<1>6. Pass(h)
  BY <1>4, <1>5 DEF dot, next
<1> DEFINE end == CHOOSE g : Pass(g)
<1>7. Pass(end)
  <2> HIDE DEF Pass
  <2> QED BY <1>6
<1>8. DotEnd(name, pos) = end[pos]
  BY Zenon DEF DotEnd
<1> HIDE DEF end
<1>9. \A i \in 1 .. n + 1 : end[i] = IF dot(i) THEN end[next(i)] ELSE i
  BY <1>7 DEF dot, next
<1> HIDE DEF Pass
<1> DEFINE S == {i \in 1 .. n + 1 : end[i] \in i .. n + 1}
<1>10. ASSUME NEW i \in 1 .. n + 1, i + 1 .. n + 1 \subseteq S PROVE i \in S
  <2>1. CASE dot(i)
    <3>1. end[next(i)] \in next(i) .. n + 1
      BY <1>1, <1>10, <2>1
    <3>2. end[next(i)] \in i .. n + 1
      BY <1>1, <2>1, <3>1
    <3> QED BY <1>9, <2>1, <3>2
  <2>2. CASE ~dot(i)
    BY <1>9, <2>2
  <2> QED BY <2>1, <2>2
<1>11. 1 .. n + 1 \subseteq S
  <2> HIDE DEF S
  <2> QED BY <1>10, Downwards
<1>12. pos \in S
  <2> HIDE DEF S
  <2> QED BY <1>11
<1> QED BY <1>8, <1>12

\* A span of a text of n cells.
SpanMasks == {<<"vX">>, <<"N">>, <<"(", "M", ")">>}
SpansWithin(n) == {s \in [mask : SpanMasks, first : 1 .. n, last : 1 .. n] : s.first <= s.last}

LEMMA ClaimsAreSpans ==
  ASSUME NEW name, Len(name) \in Nat, NEW i \in 1 .. Len(name)
  PROVE  \A c \in ClaimParentheses(name, i) \cup ClaimNumeric(name, i) : c \in SpansWithin(Len(name)) /\ c.first = i
<1> PICK n \in Nat : n = Len(name)
  OBVIOUS
<1>1. ASSUME NEW c \in ClaimParentheses(name, i) PROVE c \in SpansWithin(n) /\ c.first = i
  <2> DEFINE closes == {k \in i + 1 .. Len(name) : name[k] = ")"}
             close == CHOOSE k \in closes : \A m \in closes : k <= m
  <2>1. closes # {} /\ c = [mask |-> <<"(", "M", ")">>, first |-> i, last |-> close]
    BY <1>1 DEF ClaimParentheses
  <2>2. \E k \in closes : \A m \in closes : k <= m
    <3>1. closes \in SUBSET Nat
      OBVIOUS
    <3> HIDE DEF closes
    <3> QED BY <2>1, <3>1, Least
  <2>3. close \in closes
    <3> HIDE DEF closes
    <3> QED BY <2>2
  <2>4. close \in i + 1 .. n
    BY <2>3
  <2> HIDE DEF close, closes
  <2> QED BY <2>1, <2>4 DEF SpansWithin, SpanMasks
<1>2. ASSUME NEW c \in ClaimNumeric(name, i) PROVE c \in SpansWithin(n) /\ c.first = i
  <2> DEFINE digits == IF name[i] = "v" THEN i + 1 ELSE i
             pos == After(name, digits, Digit)
             dotEnd == DotEnd(name, pos)
  <2>1. digits \in i .. n + 1
    OBVIOUS
  <2>2. pos \in digits .. n + 1
    <3> HIDE DEF digits
    <3>1. digits \in Nat /\ digits <= Len(name) + 1
      BY <2>1
    <3> QED BY <3>1, AfterType
  <2>3. dotEnd \in pos .. n + 1
    <3> HIDE DEF pos
    <3>1. pos \in 1 .. Len(name) + 1
      BY <2>1, <2>2
    <3> QED BY <3>1, DotEndType
  <2>4. pos # digits /\ \E mask \in {<<"vX">>, <<"N">>}, e \in {pos, dotEnd} : c = [mask |-> mask, first |-> i, last |-> e - 1]
    BY <1>2 DEF ClaimNumeric
  <2> HIDE DEF digits, pos, dotEnd
  <2>5. pos - 1 \in i .. n /\ dotEnd - 1 \in i .. n
    BY <2>1, <2>2, <2>3, <2>4
  <2>6. PICK mask \in {<<"vX">>, <<"N">>}, last \in i .. n : c = [mask |-> mask, first |-> i, last |-> last]
    BY <2>4, <2>5
  <2> QED BY <2>6 DEF SpansWithin, SpanMasks
<1> QED BY <1>1, <1>2


\* The spans read from a position, from the left.
IsRow(spans, i, n) ==
  /\ spans \in Seq(SpansWithin(n))
  /\ spans # <<>> => spans[1].first >= i /\ spans[1].first <= spans[Len(spans)].last

LEMMA LongerRow ==
  ASSUME NEW n \in Nat, NEW claim \in SpansWithin(n), NEW spans, IsRow(spans, claim.last + 1, n)
  PROVE  IsRow(<<claim>> \o spans, claim.first, n)
<1> DEFINE row == <<claim>> \o spans
           R == SpansWithin(n)
<1>0. claim.first \in 1 .. n /\ claim.last \in 1 .. n /\ claim.first <= claim.last
  BY DEF SpansWithin
<1> HIDE DEF R
<1>1. <<claim>> \in Seq(R) /\ spans \in Seq(R) /\ Len(<<claim>>) = 1 /\ <<claim>>[1] = claim
  BY DEF IsRow, R
<1>2. row \in Seq(R) /\ Len(row) = 1 + Len(spans) /\ \A i \in 1 .. 1 + Len(spans) : row[i] = IF i <= 1 THEN claim ELSE spans[i - 1]
  BY <1>1, ConcatProperties
<1>3. Len(spans) \in Nat
  BY <1>1
<1> HIDE DEF row
<1>4. row[1] = claim
  BY <1>2, <1>3
<1>5. CASE spans = <<>>
  BY <1>0, <1>2, <1>3, <1>4, <1>5 DEF IsRow, R, row
<1>6. CASE spans # <<>>
  <2>1. Len(spans) > 0
    BY <1>1, <1>6, EmptySeq
  <2>2. row[Len(row)] = spans[Len(spans)]
    BY <1>2, <1>3, <2>1
  <2>3. \A k \in 1 .. Len(spans) : spans[k] \in R
    BY <1>1
  <2>4. spans[1] \in R /\ spans[Len(spans)] \in R
    BY <1>3, <2>1, <2>3
  <2>5. spans[1].first \in Nat /\ spans[Len(spans)].last \in Nat
    BY <2>4 DEF R, SpansWithin
  <2>6. spans[1].first >= claim.last + 1 /\ spans[1].first <= spans[Len(spans)].last
    BY <1>6 DEF IsRow
  <2> QED BY <1>0, <1>2, <1>4, <2>2, <2>5, <2>6 DEF IsRow, R, row
<1> QED BY <1>5, <1>6

LEMMA SpansType == ASSUME NEW name, Len(name) \in Nat PROVE IsRow(Spans(name), 1, Len(name))
<1> PICK n \in Nat : n = Len(name)
  OBVIOUS
<1> DEFINE opensNumber(i) == name[i] \in Digit \cup {"v"} /\ (i > 1 => name[i - 1] \notin WordByte)
           claims(i) == IF ClaimParentheses(name, i) # {} THEN ClaimParentheses(name, i)
                        ELSE IF opensNumber(i) THEN ClaimNumeric(name, i) ELSE {}
           chosen(i) == CHOOSE c \in claims(i) : TRUE
           T == Seq(SpansWithin(n))
           reads(i) == claims(i) # {}
           next(i) == chosen(i).last + 1
           step == [i \in 1 .. n + 1 |-> [g \in [i + 1 .. n + 1 -> T] |->
                      IF i > n THEN <<>> ELSE IF ~reads(i) THEN g[i + 1] ELSE <<chosen(i)>> \o g[next(i)]]]
           Pass(g) == g = [i \in 1 .. Len(name) + 1 |->
                             IF i > Len(name) THEN <<>>
                             ELSE IF claims(i) = {} THEN g[i + 1]
                             ELSE LET claim == CHOOSE c \in claims(i) : TRUE
                                  IN  <<claim>> \o g[claim.last + 1]]
<1>1. \A i \in 1 .. n : reads(i) => chosen(i) \in SpansWithin(n) /\ chosen(i).first = i /\ next(i) \in i + 1 .. n + 1
  <2> SUFFICES ASSUME NEW i \in 1 .. n, reads(i)
      PROVE chosen(i) \in SpansWithin(n) /\ chosen(i).first = i /\ next(i) \in i + 1 .. n + 1
    OBVIOUS
  <2>1. chosen(i) \in ClaimParentheses(name, i) \cup ClaimNumeric(name, i)
    OBVIOUS
  <2> HIDE DEF chosen
  <2>2. chosen(i) \in SpansWithin(n) /\ chosen(i).first = i
    BY <2>1, ClaimsAreSpans
  <2> QED BY <2>2 DEF SpansWithin
<1>0. \A i \in 1 .. n + 1 : i <= n => i \in 1 .. n /\ i + 1 \in i + 1 .. n + 1
  OBVIOUS
<1> HIDE DEF chosen, reads, next
<1>2. \A i \in 1 .. n + 1 : \A g \in [i + 1 .. n + 1 -> T] :
        /\ step[i][g] = IF i > n THEN <<>> ELSE IF ~reads(i) THEN g[i + 1] ELSE <<chosen(i)>> \o g[next(i)]
        /\ step[i][g] \in T
  <2> SUFFICES ASSUME NEW i \in 1 .. n + 1, NEW g \in [i + 1 .. n + 1 -> T]
      PROVE (IF i > n THEN <<>> ELSE IF ~reads(i) THEN g[i + 1] ELSE <<chosen(i)>> \o g[next(i)]) \in T
    OBVIOUS
  <2>1. CASE i > n
    BY <2>1
  <2>2. CASE i <= n /\ reads(i)
    <3>1. g[next(i)] \in T /\ <<chosen(i)>> \in T
      BY <1>0, <1>1, <2>2
    <3> QED BY <2>2, <3>1, ConcatProperties
  <2>3. CASE i <= n /\ ~reads(i)
    BY <1>0, <2>3
  <2> QED BY <2>1, <2>2, <2>3
<1> HIDE DEF step, T
<1>3. PICK h : IsScan(h, n, T, step)
  BY <1>2, ScanExists DEF ScanSteps
<1>4. \A i \in 1 .. n + 1 : h[i] = IF i > n THEN <<>> ELSE IF ~reads(i) THEN h[i + 1] ELSE <<chosen(i)>> \o h[next(i)]
  <2> SUFFICES ASSUME NEW i \in 1 .. n + 1
      PROVE h[i] = IF i > n THEN <<>> ELSE IF ~reads(i) THEN h[i + 1] ELSE <<chosen(i)>> \o h[next(i)]
    OBVIOUS
  <2>1. Beyond(h, i, n) \in [i + 1 .. n + 1 -> T] /\ \A k \in i + 1 .. n + 1 : Beyond(h, i, n)[k] = h[k]
    BY <1>3 DEF IsScan, Beyond
  <2>3. h[i] = step[i][Beyond(h, i, n)]
    BY <1>3 DEF IsScan
  <2> QED BY <1>0, <1>1, <1>2, <2>1, <2>3
<1>5. h = [i \in 1 .. n + 1 |-> h[i]]
  BY <1>3 DEF IsScan
<1>6. Pass(h)
  <2> HIDE DEF claims
  <2> QED BY <1>4, <1>5 DEF chosen, reads, next
<1> DEFINE scan == CHOOSE g : Pass(g)
<1>7. Pass(scan)
  <2> HIDE DEF Pass
  <2> QED BY <1>6
<1>8. Spans(name) = scan[1]
  BY Zenon DEF Spans
<1> HIDE DEF scan
<1>9. \A i \in 1 .. n + 1 : scan[i] = IF i > n THEN <<>> ELSE IF ~reads(i) THEN scan[i + 1] ELSE <<chosen(i)>> \o scan[next(i)]
  <2> HIDE DEF claims
  <2> QED BY <1>7 DEF chosen, reads, next
<1> HIDE DEF Pass, claims
<1> DEFINE S == {i \in 1 .. n + 1 : IsRow(scan[i], i, n)}
<1>10. ASSUME NEW i \in 1 .. n + 1, i + 1 .. n + 1 \subseteq S PROVE i \in S
  <2>1. CASE i > n
    <3>1. scan[i] = <<>>
      BY <1>9, <2>1
    <3>2. IsRow(<<>>, i, n)
      BY EmptySeq DEF IsRow
    <3> QED BY <3>1, <3>2
  <2>2. CASE i <= n /\ ~reads(i)
    <3>1. scan[i] = scan[i + 1] /\ IsRow(scan[i + 1], i + 1, n)
      <4>1. i + 1 \in S /\ ~(i > n)
        BY <1>0, <1>10, <2>2
      <4>2. scan[i] = scan[i + 1]
        BY <1>9, <2>2, <4>1, Zenon
      <4> QED BY <4>1, <4>2
    <3>2. scan[i] \in Seq(SpansWithin(n)) /\ (scan[i] # <<>> => scan[i][1] \in SpansWithin(n))
      <4> DEFINE R == SpansWithin(n)
      <4>1. scan[i] \in Seq(R)
        BY <3>1 DEF IsRow
      <4> HIDE DEF R
      <4>2. scan[i] # <<>> => 1 \in 1 .. Len(scan[i])
        BY <4>1, EmptySeq
      <4>3. scan[i] # <<>> => scan[i][1] \in R
        BY <4>1, <4>2, ElementOfSeq
      <4> QED BY <4>1, <4>3 DEF R
    <3>3. scan[i] # <<>> => scan[i][1].first \in Nat
      BY <3>2 DEF SpansWithin
    <3> QED BY <3>1, <3>3 DEF IsRow
  <2>3. CASE i <= n /\ reads(i)
    <3>1. scan[i] = <<chosen(i)>> \o scan[next(i)] /\ next(i) \in S
      <4>1. next(i) \in i + 1 .. n + 1 /\ ~(i > n)
        BY <1>0, <1>1, <2>3
      <4>2. scan[i] = <<chosen(i)>> \o scan[next(i)]
        BY <1>9, <2>3, <4>1, Zenon
      <4>3. next(i) \in S
        <5> HIDE DEF S
        <5> QED BY <1>10, <4>1, Zenon
      <4> QED BY <4>2, <4>3
    <3>2. chosen(i) \in SpansWithin(n) /\ chosen(i).first = i
      BY <1>0, <1>1, <2>3
    <3>3. IsRow(scan[next(i)], chosen(i).last + 1, n)
      BY <3>1 DEF next
    <3> QED BY <3>1, <3>2, <3>3, LongerRow
  <2> QED BY <2>1, <2>2, <2>3
<1>11. 1 .. n + 1 \subseteq S
  <2> HIDE DEF S
  <2> QED BY <1>10, Downwards
<1>12. 1 \in S
  <2> HIDE DEF S
  <2> QED BY <1>11
<1> QED BY <1>8, <1>12


----------------------------------------------------------------------------
(* The claims of the declared runs.                                        *)

\* A run of digits, from its start to its end.
DigitRuns(form) ==
  {c \in [first : 1 .. Len(form), last : 1 .. Len(form)] : c.first <= c.last /\ c.last = After(form, c.first, Digit) - 1}

HasMarkers(run) == \A k \in DOMAIN run.markers : Len(run.markers[k]) \in Nat
AreMarked(declared) == \A run \in declared : HasMarkers(run)

LEMMA OpenedIsRun ==
  ASSUME NEW form, Len(form) \in Nat, NEW i \in 1 .. Len(form), NEW run, HasMarkers(run), NEW o \in OpenedAt(form, i, run)
  PROVE  o \in DigitRuns(form) /\ o.first >= i
<1> PICK n \in Nat : n = Len(form)
  OBVIOUS
<1>1. PICK k \in DOMAIN run.markers :
        /\ o = [first |-> i + Len(run.markers[k]), last |-> After(form, i + Len(run.markers[k]), Digit) - 1]
        /\ StartsAt(form, i, run.markers[k])
        /\ After(form, i + Len(run.markers[k]), Digit) > i + Len(run.markers[k])
  BY DEF OpenedAt
<1> PICK first \in Nat : first = i + Len(run.markers[k])
  BY DEF HasMarkers
<1>2. i <= first /\ first <= n + 1
  BY <1>1 DEF StartsAt, HasMarkers
<1>3. After(form, first, Digit) \in first .. n + 1
  BY <1>2, AfterType
<1>4. After(form, first, Digit) - 1 \in first .. n /\ first \in 1 .. n
  BY <1>1, <1>2, <1>3
<1>5. o = [first |-> first, last |-> After(form, first, Digit) - 1]
  BY <1>1
<1> QED BY <1>2, <1>4, <1>5 DEF DigitRuns

LEMMA ClaimsAreRuns ==
  ASSUME NEW form, Len(form) \in Nat, NEW run, HasMarkers(run)
  PROVE  ClaimsOf(form, run) \subseteq DigitRuns(form)
<1> PICK n \in Nat : n = Len(form)
  OBVIOUS
<1> DEFINE opened(i) == IF i = 1 \/ form[i - 1] \notin Alnum THEN OpenedAt(form, i, run) ELSE {}
           kept(o) == IF SubSeq(form, o.first, o.last) = run.value THEN {o} ELSE {}
           T == SUBSET DigitRuns(form)
           step == [i \in 1 .. n + 1 |-> [g \in [i + 1 .. n + 1 -> T] |->
                      IF i > n THEN {} ELSE IF opened(i) = {} THEN g[i + 1] ELSE UNION {g[o.last + 1] \cup kept(o) : o \in opened(i)}]]
           Pass(g) == g = [i \in 1 .. Len(form) + 1 |->
                             IF i > Len(form) THEN {}
                             ELSE LET open == IF i = 1 \/ form[i - 1] \notin Alnum THEN OpenedAt(form, i, run) ELSE {}
                                  IN  IF open = {} THEN g[i + 1]
                                      ELSE UNION {g[o.last + 1] \cup (IF SubSeq(form, o.first, o.last) = run.value THEN {o} ELSE {}) :
                                                    o \in open}]
<1>0. \A i \in 1 .. n + 1 : ~(i > n) => i \in 1 .. n /\ i + 1 \in i + 1 .. n + 1
  OBVIOUS
<1>1. \A i \in 1 .. n : \A o \in opened(i) : o \in DigitRuns(form) /\ o.last + 1 \in i + 1 .. n + 1
  <2> SUFFICES ASSUME NEW i \in 1 .. n, NEW o \in OpenedAt(form, i, run)
      PROVE o \in DigitRuns(form) /\ o.last + 1 \in i + 1 .. n + 1
    OBVIOUS
  <2>1. o \in DigitRuns(form) /\ o.first >= i
    BY OpenedIsRun
  <2>2. o.first \in 1 .. n /\ o.last \in 1 .. n /\ o.first <= o.last
    BY <2>1 DEF DigitRuns
  <2> QED BY <2>1, <2>2
<1>2. \A o : kept(o) \subseteq {o}
  OBVIOUS
<1> HIDE DEF opened, kept
<1>3. \A i \in 1 .. n + 1 : \A g \in [i + 1 .. n + 1 -> T] :
        /\ step[i][g] = IF i > n THEN {} ELSE IF opened(i) = {} THEN g[i + 1] ELSE UNION {g[o.last + 1] \cup kept(o) : o \in opened(i)}
        /\ step[i][g] \in T
  <2> SUFFICES ASSUME NEW i \in 1 .. n + 1, NEW g \in [i + 1 .. n + 1 -> T]
      PROVE (IF i > n THEN {} ELSE IF opened(i) = {} THEN g[i + 1] ELSE UNION {g[o.last + 1] \cup kept(o) : o \in opened(i)}) \in T
    OBVIOUS
  <2>1. CASE i > n
    BY <2>1
  <2>2. CASE ~(i > n) /\ opened(i) = {}
    BY <1>0, <2>2
  <2>3. CASE ~(i > n) /\ opened(i) # {}
    <3>1. \A o \in opened(i) : g[o.last + 1] \cup kept(o) \in T
      BY <1>0, <1>1, <1>2, <2>3
    <3> QED BY <2>3, <3>1
  <2> QED BY <2>1, <2>2, <2>3
<1> HIDE DEF step, T
<1>4. PICK h : IsScan(h, n, T, step)
  BY <1>3, ScanExists DEF ScanSteps
<1>5. \A i \in 1 .. n + 1 : h[i] = IF i > n THEN {} ELSE IF opened(i) = {} THEN h[i + 1] ELSE UNION {h[o.last + 1] \cup kept(o) : o \in opened(i)}
  <2> SUFFICES ASSUME NEW i \in 1 .. n + 1
      PROVE h[i] = IF i > n THEN {} ELSE IF opened(i) = {} THEN h[i + 1] ELSE UNION {h[o.last + 1] \cup kept(o) : o \in opened(i)}
    OBVIOUS
  <2>1. Beyond(h, i, n) \in [i + 1 .. n + 1 -> T] /\ \A k \in i + 1 .. n + 1 : Beyond(h, i, n)[k] = h[k]
    BY <1>4 DEF IsScan, Beyond
  <2>2. h[i] = step[i][Beyond(h, i, n)]
    BY <1>4 DEF IsScan
  <2>3. ~(i > n) => UNION {Beyond(h, i, n)[o.last + 1] \cup kept(o) : o \in opened(i)} = UNION {h[o.last + 1] \cup kept(o) : o \in opened(i)}
    BY <1>0, <1>1, <2>1
  <2> QED BY <1>0, <1>3, <2>1, <2>2, <2>3
<1>6. h = [i \in 1 .. n + 1 |-> h[i]]
  BY <1>4 DEF IsScan
<1>7. Pass(h)
  BY <1>5, <1>6 DEF opened, kept
<1> DEFINE scan == CHOOSE g : Pass(g)
<1>8. Pass(scan)
  <2> HIDE DEF Pass
  <2> QED BY <1>7
<1>9. ClaimsOf(form, run) = scan[1]
  BY Zenon DEF ClaimsOf
<1> HIDE DEF scan
<1>10. \A i \in 1 .. n + 1 : scan[i] = IF i > n THEN {} ELSE IF opened(i) = {} THEN scan[i + 1] ELSE UNION {scan[o.last + 1] \cup kept(o) : o \in opened(i)}
  BY <1>8 DEF opened, kept
<1> HIDE DEF Pass
<1> DEFINE S == {i \in 1 .. n + 1 : scan[i] \subseteq DigitRuns(form)}
<1>11. ASSUME NEW i \in 1 .. n + 1, i + 1 .. n + 1 \subseteq S PROVE i \in S
  <2>1. CASE i > n
    BY <1>10, <2>1
  <2>2. CASE ~(i > n) /\ opened(i) = {}
    BY <1>0, <1>10, <1>11, <2>2
  <2>3. CASE ~(i > n) /\ opened(i) # {}
    <3>1. \A o \in opened(i) : scan[o.last + 1] \cup kept(o) \subseteq DigitRuns(form)
      BY <1>0, <1>1, <1>2, <1>11, <2>3
    <3>2. scan[i] = UNION {scan[o.last + 1] \cup kept(o) : o \in opened(i)}
      BY <1>10, <2>3
    <3> QED BY <3>1, <3>2
  <2> QED BY <2>1, <2>2, <2>3
<1>12. 1 .. n + 1 \subseteq S
  <2> HIDE DEF S
  <2> QED BY <1>11, Downwards
<1>13. 1 \in S
  <2> HIDE DEF S
  <2> QED BY <1>12
<1> QED BY <1>9, <1>13

LEMMA DeclaredAreRuns ==
  ASSUME NEW form, Len(form) \in Nat, NEW declared, AreMarked(declared)
  PROVE  ClaimDeclaredRuns(form, declared) \subseteq DigitRuns(form)
BY ClaimsAreRuns DEF ClaimDeclaredRuns, AreMarked


----------------------------------------------------------------------------
(* The class of a name.                                                    *)

LEMMA FlattenHead ==
  ASSUME NEW C, NEW seqs \in Seq(Seq(C)), seqs # <<>>
  PROVE  \E rest \in Seq(C) : FlattenSeq(seqs) = seqs[1] \o rest
<1> PICK n \in Nat : n = Len(seqs)
  BY LenProperties
<1> DEFINE T == Seq(C)
<1>12. \A x, y, z \in T : (x \o y) \o z = x \o (y \o z) /\ y \o z \in T
  <2> TAKE x, y, z \in T
  <2> QED BY Reassociated, ConcatProperties
<1> DEFINE step == [i \in 1 .. n - 1 |-> [t \in T |-> t \o seqs[i + 1]]]
           Pass(g) == g = [i \in 1 .. Len(seqs) |-> IF i = 1 THEN seqs[i] ELSE g[i - 1] \o seqs[i]]
<1>1. n > 0 /\ \A i \in 1 .. n : seqs[i] \in T
  BY EmptySeq
<1>2. \A i \in 1 .. n - 1 : \A t \in T : step[i][t] = t \o seqs[i + 1] /\ step[i][t] \in T
  <2> SUFFICES ASSUME NEW i \in 1 .. n - 1, NEW t \in T PROVE t \o seqs[i + 1] \in T
    OBVIOUS
  <2>1. seqs[i + 1] \in T
    BY <1>1
  <2> QED BY <2>1, ConcatProperties
<1> HIDE DEF step
<1>3. PICK h : IsPass(h, n - 1, T, seqs[1], step)
  <2>1. n - 1 \in Nat /\ seqs[1] \in T /\ Steps(n - 1, T, step)
    BY <1>1, <1>2 DEF Steps
  <2> QED BY <2>1, PassExists
<1> DEFINE k == [i \in 1 .. n |-> h[i - 1]]
<1>4. Pass(k)
  <2>1. ASSUME NEW i \in 1 .. n, i # 1 PROVE k[i] = k[i - 1] \o seqs[i]
    <3>1. i - 1 \in 1 .. n - 1 /\ (i - 1) - 1 \in 0 .. n - 1 /\ i - 1 \in 1 .. n /\ (i - 1) + 1 = i
      BY <2>1
    <3>2. h[i - 1] = step[i - 1][h[(i - 1) - 1]] /\ h[(i - 1) - 1] \in T
      BY <1>3, <3>1 DEF IsPass
    <3> QED BY <1>2, <3>1, <3>2
  <2>2. k[1] = seqs[1]
    BY <1>1, <1>3 DEF IsPass
  <2>3. k = [i \in 1 .. n |-> k[i]]
    OBVIOUS
  <2> HIDE DEF k
  <2> QED BY <2>1, <2>2, <2>3
<1> DEFINE flatten == CHOOSE g : Pass(g)
<1>5. Pass(flatten)
  <2> HIDE DEF Pass, k
  <2> QED BY <1>4
<1>6. FlattenSeq(seqs) = flatten[n]
  <2>1. Len(seqs) # 0
    BY <1>1
  <2>2. FlattenSeq(seqs) = flatten[Len(seqs)]
    BY <2>1, Zenon DEF FlattenSeq
  <2> QED BY <2>2
<1> HIDE DEF flatten
<1>7. \A i \in 1 .. n : flatten[i] = IF i = 1 THEN seqs[i] ELSE flatten[i - 1] \o seqs[i]
  BY <1>5
<1> HIDE DEF Pass
<1> DEFINE S == {m \in 0 .. n - 1 : \E rest \in T : flatten[m + 1] = seqs[1] \o rest}
<1>8. 0 \in S
  <2>1. seqs[1] \o <<>> = seqs[1]
    BY <1>1, ConcatEmptySeq
  <2>2. flatten[0 + 1] = seqs[1]
    BY <1>1, <1>7
  <2>3. flatten[0 + 1] = seqs[1] \o <<>> /\ <<>> \in T /\ 0 \in 0 .. n - 1
    BY <1>1, <2>1, <2>2
  <2> QED BY <2>3
<1>9. ASSUME NEW m \in 0 .. (n - 1) - 1, m \in S PROVE m + 1 \in S
  <2>1. PICK rest \in T : flatten[m + 1] = seqs[1] \o rest
    BY <1>9
  <2> PICK j \in Nat : j = m + 2
    OBVIOUS
  <2>2. flatten[j] = flatten[m + 1] \o seqs[j]
    <3>1. j \in 1 .. n /\ j # 1 /\ j - 1 = m + 1
      OBVIOUS
    <3> QED BY <1>7, <3>1
  <2>3. seqs[1] \in T /\ seqs[j] \in T
    BY <1>1
  <2>4. (seqs[1] \o rest) \o seqs[j] = seqs[1] \o (rest \o seqs[j]) /\ rest \o seqs[j] \in T
    BY <1>12, <2>3
  <2>5. (m + 1) + 1 = j /\ m + 1 \in 0 .. n - 1
    OBVIOUS
  <2> QED BY <2>1, <2>2, <2>4, <2>5
<1>10. n - 1 \in S
  <2> HIDE DEF S
  <2>1. n - 1 \in Nat
    BY <1>1
  <2> QED BY <1>8, <1>9, <2>1, InductUpTo
<1>11. (n - 1) + 1 = n
  OBVIOUS
<1> QED BY <1>6, <1>10, <1>11

\* The cells that a class may have besides those of the name.
MaskCells == {"vX", "N", "(", "M", ")", "<", "*", ">"}

LEMMA PartIsText ==
  ASSUME NEW C, NEW name \in Seq(C), NEW i \in Nat, NEW j \in Int, i >= 1, j <= Len(name)
  PROVE  SubSeq(name, i, j) \in Seq(C)
<1>1. \A k \in i .. j : name[k] \in C
  OBVIOUS
<1> QED BY <1>1, SubSeqProperties

\* Three joins of four texts, from the left and from the middle.
FourSame(x, y, z, w) == ((x \o y) \o z) \o w = x \o ((y \o z) \o w)

LEMMA FourTexts ==
  ASSUME NEW C, NEW x \in Seq(C), NEW y \in Seq(C), NEW z \in Seq(C), NEW w \in Seq(C)
  PROVE  FourSame(x, y, z, w) /\ y \o z \in Seq(C)
<1> PICK u : u = y \o z
  OBVIOUS
<1>1. u \in Seq(C)
  BY ConcatProperties
<1>2. x \o u = (x \o y) \o z
  BY Reassociated
<1>3. x \o (u \o w) = (x \o u) \o w
  BY <1>1, Reassociated
<1> QED BY <1>1, <1>2, <1>3 DEF FourSame

LEMMA MaskedEnds ==
  ASSUME NEW C, MaskCells \subseteq C, NEW name \in Seq(C), NEW spans, IsRow(spans, 1, Len(name))
  PROVE  /\ spans = <<>> => MaskSpans(name, spans) = name
         /\ spans # <<>> =>
              /\ spans[1].first \in 1 .. Len(name) /\ spans[Len(spans)].last \in spans[1].first .. Len(name)
              /\ \E rest \in Seq(C) :
                   MaskSpans(name, spans)
                     = SubSeq(name, 1, spans[1].first - 1) \o (rest \o SubSeq(name, spans[Len(spans)].last + 1, Len(name)))
<1> PICK n \in Nat : n = Len(name)
  BY LenProperties
<1> DEFINE T == Seq(C)
<1> DEFINE R == SpansWithin(n)
           from(k) == IF k = 1 THEN 1 ELSE spans[k - 1].last + 1
           masked(k) == SubSeq(name, from(k), spans[k].first - 1) \o spans[k].mask
           parts == [k \in DOMAIN spans |-> masked(k)]
<1>1. spans \in Seq(R)
  BY DEF IsRow
<1>2. MaskSpans(name, spans) = FlattenSeq(parts) \o SubSeq(name, from(Len(spans) + 1), n)
  BY DEF MaskSpans, From
<1>3. CASE spans = <<>>
  <2>1. parts = <<>> /\ from(Len(spans) + 1) = 1
    BY <1>3
  <2>2. FlattenSeq(<<>>) = <<>>
    BY DEF FlattenSeq
  <2>3. SubSeq(name, 1, n) = name /\ <<>> \o name = name
    BY SubSeqFull, ConcatEmptySeq
  <2> QED BY <1>2, <1>3, <2>1, <2>2, <2>3
<1>4. CASE spans # <<>>
  <2> PICK m \in Nat : m = Len(spans)
    BY <1>1
  <2>1. m > 0 /\ DOMAIN spans = 1 .. m /\ \A k \in 1 .. m : spans[k] \in R
    BY <1>1, <1>4, EmptySeq
  <2>2. \A k \in 1 .. m : spans[k].first \in 1 .. n /\ spans[k].last \in 1 .. n /\ spans[k].mask \in SpanMasks
    BY <2>1 DEF SpansWithin
  <2>3. <<"vX">> \in T /\ <<"N">> \in T /\ <<"(", "M", ")">> \in T
    BY DEF MaskCells
  <2>a. \A mask \in SpanMasks : mask \in T
    BY <2>3 DEF SpanMasks
  <2>4. \A k \in 1 .. m : from(k) \in 1 .. n + 1
    <3> SUFFICES ASSUME NEW k \in 1 .. m, k # 1 PROVE spans[k - 1].last + 1 \in 1 .. n + 1
      OBVIOUS
    <3>1. k - 1 \in 1 .. m
      OBVIOUS
    <3> QED BY <2>2, <3>1
  <2>5. \A k \in 1 .. m : masked(k) \in T
    <3> SUFFICES ASSUME NEW k \in 1 .. m PROVE masked(k) \in T
      OBVIOUS
    <3> HIDE DEF from
    <3>1. SubSeq(name, from(k), spans[k].first - 1) \in T
      BY <2>2, <2>4, PartIsText
    <3>2. spans[k].mask \in T
      BY <2>2, <2>a
    <3> QED BY <3>1, <3>2, ConcatProperties
  <2>6. masked(1) = SubSeq(name, 1, spans[1].first - 1) \o spans[1].mask
    OBVIOUS
  <2>7. SubSeq(name, 1, spans[1].first - 1) \in T /\ spans[1].mask \in T
    BY <2>1, <2>2, <2>a, PartIsText
  <2>8. from(m + 1) = spans[m].last + 1
    BY <2>1
  <2> HIDE DEF from, masked
  <2>9. parts \in Seq(T) /\ parts[1] = masked(1) /\ parts # <<>>
    <3>1. parts = [k \in 1 .. m |-> masked(k)]
      BY <2>1
    <3> HIDE DEF parts
    <3>2. parts \in [1 .. m -> T]
      BY <2>5, <3>1
    <3>3. parts \in Seq(T) /\ Len(parts) = m
      BY <3>2
    <3> QED BY <2>1, <3>1, <3>3
  <2> HIDE DEF parts
  <2>10. PICK rest \in T : FlattenSeq(parts) = masked(1) \o rest
    BY <2>9, FlattenHead
  <2> DEFINE lead == SubSeq(name, 1, spans[1].first - 1)
             tail == SubSeq(name, spans[m].last + 1, n)
  <2>11. tail \in T
    BY <2>1, <2>2, PartIsText
  <2> HIDE DEF lead, tail
  <2>12. ((lead \o spans[1].mask) \o rest) \o tail = lead \o ((spans[1].mask \o rest) \o tail) /\ spans[1].mask \o rest \in T
    <3>1. lead \in T /\ spans[1].mask \in T /\ rest \in T /\ tail \in T
      BY <2>7, <2>11 DEF lead
    <3> PICK w : w = spans[1].mask
      OBVIOUS
    <3>2. lead \in Seq(C) /\ w \in Seq(C) /\ rest \in Seq(C) /\ tail \in Seq(C)
      BY <3>1
    <3>3. ((lead \o w) \o rest) \o tail = lead \o ((w \o rest) \o tail) /\ w \o rest \in Seq(C)
      <4>1. FourSame(lead, w, rest, tail) /\ w \o rest \in Seq(C)
        BY <3>2, FourTexts
      <4> QED BY <4>1 DEF FourSame
    <3> QED BY <3>3
  <2>13. MaskSpans(name, spans) = lead \o ((spans[1].mask \o rest) \o tail)
    BY <1>2, <2>6, <2>8, <2>10, <2>12 DEF lead, tail
  <2>14. spans[1].first \in 1 .. n /\ spans[m].last \in spans[1].first .. n
    BY <1>4, <2>1, <2>2 DEF IsRow
  <2> QED BY <1>4, <2>12, <2>13, <2>14 DEF lead, tail
<1> QED BY <1>3, <1>4


\* A text of these cells is this one from its f-th to its l-th cell, and that one outside.
IsBetween(C, masked, name, f, l) ==
  \E rest \in Seq(C) : masked = SubSeq(name, 1, f - 1) \o (rest \o SubSeq(name, l + 1, Len(name)))

LEMMA EndsAreText ==
  ASSUME NEW C, NEW name \in Seq(C), NEW f \in 1 .. Len(name), NEW l \in f .. Len(name)
  PROVE  SubSeq(name, 1, f - 1) \in Seq(C) /\ SubSeq(name, l + 1, Len(name)) \in Seq(C)
<1> PICK n \in Nat : n = Len(name)
  BY LenProperties
<1>1. f \in 1 .. n /\ l \in f .. n
  OBVIOUS
<1>2. f - 1 \in Int /\ f - 1 <= n /\ l + 1 \in Nat /\ l + 1 >= 1 /\ 1 \in Nat /\ n \in Int
  BY <1>1
<1>3. SubSeq(name, 1, f - 1) \in Seq(C)
  BY <1>2, PartIsText
<1>4. SubSeq(name, l + 1, n) \in Seq(C)
  BY <1>2, PartIsText
<1> QED BY <1>3, <1>4

LEMMA MaskedBetween ==
  ASSUME NEW C, MaskCells \subseteq C, NEW name \in Seq(C), NEW spans, IsRow(spans, 1, Len(name)), spans # <<>>
  PROVE  \E f \in 1 .. Len(name) : \E l \in f .. Len(name) :
           f = spans[1].first /\ l = spans[Len(spans)].last /\ IsBetween(C, MaskSpans(name, spans), name, f, l)
<1>1. /\ spans[1].first \in 1 .. Len(name) /\ spans[Len(spans)].last \in spans[1].first .. Len(name)
      /\ \E rest \in Seq(C) : MaskSpans(name, spans)
            = SubSeq(name, 1, spans[1].first - 1) \o (rest \o SubSeq(name, spans[Len(spans)].last + 1, Len(name)))
  BY MaskedEnds, Zenon
<1> QED BY <1>1, Zenon DEF IsBetween

LEMMA MaskedType ==
  ASSUME NEW C, MaskCells \subseteq C, NEW name \in Seq(C), NEW spans, IsRow(spans, 1, Len(name))
  PROVE  MaskSpans(name, spans) \in Seq(C)
<1>1. CASE spans = <<>>
  BY <1>1, MaskedEnds
<1>2. CASE spans # <<>>
  <2>1. PICK f \in 1 .. Len(name) : \E l \in f .. Len(name) : IsBetween(C, MaskSpans(name, spans), name, f, l)
    BY <1>2, MaskedBetween, Zenon
  <2>2. PICK l \in f .. Len(name) : IsBetween(C, MaskSpans(name, spans), name, f, l)
    BY <2>1
  <2>3. PICK rest \in Seq(C) : MaskSpans(name, spans) = SubSeq(name, 1, f - 1) \o (rest \o SubSeq(name, l + 1, Len(name)))
    BY <2>2, Zenon DEF IsBetween
  <2>4. SubSeq(name, 1, f - 1) \in Seq(C) /\ SubSeq(name, l + 1, Len(name)) \in Seq(C)
    BY EndsAreText
  <2>5. rest \o SubSeq(name, l + 1, Len(name)) \in Seq(C)
    BY <2>4, ConcatProperties
  <2> QED BY <2>3, <2>4, <2>5, ConcatProperties
<1> QED BY <1>1, <1>2

----------------------------------------------------------------------------
(* The identity of a name.                                                 *)

IsToken(text) == ~Has(text, {" "})
IsBlank(text) == Over(text, {" "})

LEMMA TrimmedIsText ==
  ASSUME NEW C, NEW name \in Seq(C)
  PROVE  /\ Trimmed(name) \in Seq(C)
         /\ IsToken(name) => Trimmed(name) = name
<1> PICK n \in Nat : n = Len(name)
  BY LenProperties
<1>0. n = 0 \/ 1 \in 1 .. n
  OBVIOUS
<1> DEFINE used == {i \in DOMAIN name : name[i] # " "}
           least == CHOOSE i \in used : \A k \in used : i <= k
           greatest == CHOOSE i \in used : \A k \in used : k <= i
<1>1. Trimmed(name) = IF used = {} THEN <<>> ELSE SubSeq(name, least, greatest)
  BY DEF Trimmed
<1>2. DOMAIN name = 1 .. n /\ used \in SUBSET (0 .. n) /\ used \in SUBSET Nat /\ \A i \in used : i \in 1 .. n
  <2>1. DOMAIN name = 1 .. n
    OBVIOUS
  <2>2. \A i \in used : i \in 1 .. n
    BY <2>1
  <2>3. \A i \in 1 .. n : i \in 0 .. n /\ i \in Nat
    OBVIOUS
  <2> HIDE DEF used
  <2> QED BY <2>1, <2>2, <2>3
<1>3. CASE used = {}
  <2>1. <<>> \in Seq(C)
    OBVIOUS
  <2>2. IsToken(name) => name = <<>>
    <3> SUFFICES ASSUME IsToken(name), n # 0 PROVE FALSE
      BY EmptySeq
    <3> HIDE DEF used, least, greatest
    <3>1. 1 \in 1 .. n
      BY <1>0
    <3>2. 1 \in DOMAIN name
      BY <1>2, <3>1, Zenon
    <3>3. name[1] # " "
      BY <3>2 DEF Has, IsToken
    <3> QED BY <1>3, <3>2, <3>3 DEF used
  <2> QED BY <1>1, <1>3, <2>1, <2>2
<1>4. CASE used # {}
  <2>1. least \in used /\ \A k \in used : least <= k
    <3> HIDE DEF used
    <3> QED BY <1>2, <1>4, Least
  <2>2. greatest \in used /\ \A k \in used : k <= greatest
    <3> HIDE DEF used
    <3> QED BY <1>2, <1>4, Greatest
  <2>3. SubSeq(name, least, greatest) \in Seq(C)
    <3>1. least \in 1 .. n /\ greatest \in 1 .. n
      BY <1>2, <2>1, <2>2
    <3> HIDE DEF least, greatest
    <3>2. \A k \in least .. greatest : name[k] \in C
      BY <3>1
    <3> QED BY <3>1, <3>2, SubSeqProperties
  <2>4. ASSUME IsToken(name) PROVE least = 1 /\ greatest = n
    <3>1. used = 1 .. n
      BY <1>2, <2>4 DEF Has, IsToken
    <3>2. 1 .. n # {}
      BY <1>4, <3>1, Zenon
    <3>3. n > 0
      BY <3>2
    <3> HIDE DEF used, least, greatest
    <3> QED BY <2>1, <2>2, <3>1, <3>3
  <2>5. SubSeq(name, 1, n) = name
    BY SubSeqFull
  <2> HIDE DEF used, least, greatest
  <2> QED BY <1>1, <1>4, <2>3, <2>4, <2>5
<1> QED BY <1>3, <1>4

LEMMA NothingReplaced ==
  ASSUME NEW C, NEW form \in Seq(C), kMaskWildcard \in Seq(C)
  PROVE  Replaced(form, {}) = form
<1>1. AreRanges({}, 1, 0) /\ Shifted({}, 1) = {} /\ AreRanges({}, 1, Len(<<>>))
  BY DEF AreRanges, Shifted
<1>2. SubSeq(form, 1, 0) = <<>> /\ SubSeq(form, 1, Len(form)) = form /\ <<>> \in Seq(C) /\ Len(form) \in Nat
  BY SubSeqFull
<1>3. Replaced(<<>>, {}) = <<>>
  <2> PICK void \in Seq(C) : void = <<>>
    BY <1>2
  <2>1. AreRanges({}, 1, Len(void))
    BY DEF AreRanges
  <2>2. \E copy \in [1 .. Len(void) + 1 -> Seq(C)] : IsCopy(copy, void, {}) /\ Replaced(void, {}) = copy[1]
    BY <2>1, ReplacedIs
  <2>3. Len(void) + 1 = 1
    OBVIOUS
  <2>4. Replaced(void, {}) = <<>>
    BY <2>2, <2>3 DEF IsCopy
  <2> QED BY <2>4
<1>4. 1 \in 1 .. Len(form) + 1 /\ 0 \in 1 - 1 .. Len(form) /\ 1 - 1 = 0 /\ 0 + 1 = 1
  BY <1>2
<1>5. Replaced(form, {}) =
        SubSeq(form, 1, 0) \o (Replaced(SubSeq(form, 1, 0), Shifted({}, 1)) \o SubSeq(form, 1, Len(form)))
  BY <1>1, <1>4, ReplacedInside
<1>6. <<>> \o form = form
  BY ConcatEmptySeq
<1> QED BY <1>1, <1>2, <1>3, <1>5, <1>6

\* The version of a name of one token has no blank before it.
LEMMA VersionAtTheEnd ==
  ASSUME NEW C, NEW name \in Seq(C), NEW introducer, Len(introducer) \in Nat, NEW version,
         version = OneTokenVersionOf(name, introducer), EndsWith(Trimmed(name), version)
  PROVE  /\ Len(version) \in Nat /\ Len(version) > 0
         /\ IsToken(Trimmed(name))
<1> DEFINE tok == Trimmed(name)
           found == {i \in DOMAIN tok : StartsAt(tok, i, introducer)}
           last == CHOOSE i \in found : \A k \in found : k <= i
<1>1. tok \in Seq(C)
  BY TrimmedIsText
<1> PICK n \in Nat : n = Len(tok)
  BY <1>1, LenProperties
<1>2. version = IF introducer = <<>> \/ Has(tok, {" "}) \/ found = {} THEN <<>> ELSE SubSeq(tok, last + Len(introducer), n)
  <2>1. OneTokenVersionOf(name, introducer) =
          IF introducer = <<>> \/ Has(tok, {" "}) \/ found = {} THEN <<>> ELSE SubSeq(tok, last + Len(introducer), Len(tok))
    BY Zenon DEF OneTokenVersionOf, From
  <2> HIDE DEF tok, found, last
  <2> QED BY <2>1
<1>3. version # <<>>
  BY DEF EndsWith
<1>4. IsToken(tok) /\ found # {} /\ version = SubSeq(tok, last + Len(introducer), n)
  BY <1>2, <1>3, Zenon DEF IsToken
<1>5. \A i \in found : i \in 1 .. n
  BY <1>1
<1>6. last \in 1 .. n
  <2>1. found \in SUBSET (0 .. n)
    BY <1>5
  <2>2. last \in found
    <3> HIDE DEF found
    <3> QED BY <1>4, <2>1, Greatest
  <2> HIDE DEF found, last
  <2> QED BY <1>5, <2>2
<1>7. version \in Seq(C)
  <2> HIDE DEF tok, last, found
  <2>1. PICK first \in Nat : first = last + Len(introducer) /\ first >= 1
    BY <1>6
  <2>2. SubSeq(tok, first, n) \in Seq(C)
    BY <1>1, <2>1, PartIsText
  <2> QED BY <1>4, <2>1, <2>2
<1>8. Len(version) \in Nat /\ Len(version) > 0
  BY <1>3, <1>7, EmptySeq, LenProperties
<1> QED BY <1>4, <1>8


\* A name that is masked from one of its cells to another: what stands before and behind, and what stands
\* between them in the class, in the discriminant and in the name but for its declared values.
IsMasked(id, before, behind, masked, hidden) ==
  /\ id.around = {[before |-> Len(before), behind |-> Len(behind)]}
  /\ id.class = before \o (masked \o behind)
  /\ id.hidden = {hidden}
  /\ id.within = before \o (hidden \o behind)

\* What an envelope makes of a name.
IsEnvelope(tok, version, f, l) == VersionEnvelope(tok, version) = {[first |-> f, last |-> l]}

IsHidden(hidden, name, tok, version, declared, f, l) ==
  /\ DeclaredDiscriminantOf(name, version, declared) = {hidden}
  /\ Replaced(tok, InsideClaims(tok, version, declared)) = SubSeq(tok, 1, f - 1) \o (hidden \o SubSeq(tok, l + 1, Len(tok)))
  /\ Around(tok, version) = {[before |-> Len(SubSeq(tok, 1, f - 1)), behind |-> Len(SubSeq(tok, l + 1, Len(tok)))]}

LEMMA EnvelopeHides ==
  ASSUME NEW C, kMaskWildcard \in Seq(C), NEW name, NEW tok \in Seq(C), tok = Trimmed(name),
         NEW version, NEW declared, AreMarked(declared),
         NEW f \in 1 .. Len(tok) + 1, NEW l \in f - 1 .. Len(tok),
         IsEnvelope(tok, version, f, l)
  PROVE  \E hidden \in Seq(C) : IsHidden(hidden, name, tok, version, declared, f, l)
<1> PICK n \in Nat : n = Len(tok)
  BY LenProperties
<1>0. f \in 1 .. n + 1 /\ l \in f - 1 .. n
  OBVIOUS
<1> DEFINE inside == InsideClaims(tok, version, declared)
           e == [first |-> f, last |-> l]
           hidden == Replaced(SubSeq(tok, f, l), Shifted(inside, f))
<1>1. \A c \in inside : c \in DigitRuns(tok) /\ f <= c.first /\ c.last <= l
  <2> SUFFICES ASSUME NEW c \in inside PROVE c \in DigitRuns(tok) /\ f <= c.first /\ c.last <= l
    OBVIOUS
  <2>1. c \in ClaimDeclaredRuns(tok, declared)
    BY Zenon DEF InsideClaims
  <2>2. \E d \in VersionEnvelope(tok, version) : d.first <= c.first /\ c.last <= d.last
    BY Zenon DEF InsideClaims
  <2>3. c \in DigitRuns(tok)
    BY <2>1, DeclaredAreRuns
  <2> QED BY <2>2, <2>3 DEF IsEnvelope
<1>2. AreRanges(inside, f, l)
  <2> HIDE DEF inside
  <2>1. ASSUME NEW c \in inside PROVE c.first \in f .. l /\ c.last \in c.first .. l
    <3>1. c.first \in 1 .. n /\ c.last \in 1 .. n /\ c.first <= c.last
      BY <1>1 DEF DigitRuns
    <3> QED BY <1>0, <1>1, <3>1
  <2>2. ASSUME NEW c \in inside, NEW d \in inside, c.first = d.first PROVE c.last = d.last
    BY <1>1, <2>2 DEF DigitRuns
  <2> QED BY <2>1, <2>2 DEF AreRanges
<1>3. /\ hidden \in Seq(C)
      /\ Replaced(tok, inside) = SubSeq(tok, 1, f - 1) \o (hidden \o SubSeq(tok, l + 1, Len(tok)))
  BY <1>2, ReplacedInside
<1>4. DeclaredDiscriminantOf(name, version, declared) = {hidden}
  <2>1. DeclaredDiscriminantOf(name, version, declared)
          = {Replaced(SubSeq(tok, d.first, d.last), Shifted(inside, d.first)) : d \in VersionEnvelope(tok, version)}
    BY Zenon DEF DeclaredDiscriminantOf, Shifted
  <2>2. e.first = f /\ e.last = l /\ VersionEnvelope(tok, version) = {e}
    BY DEF IsEnvelope
  <2> HIDE DEF inside, e
  <2> QED BY <2>1, <2>2
<1>5. Around(tok, version) = {[before |-> f - 1, behind |-> n - l]}
  <2>1. e.first = f /\ e.last = l /\ VersionEnvelope(tok, version) = {e}
    BY DEF IsEnvelope
  <2> HIDE DEF e
  <2> QED BY <2>1 DEF Around
<1>6. Len(SubSeq(tok, 1, f - 1)) = f - 1 /\ Len(SubSeq(tok, l + 1, n)) = n - l
  <2>1. \A k \in 1 .. n : tok[k] \in C
    OBVIOUS
  <2>2. PICK b \in Nat : b = f - 1
    BY <1>0
  <2>3. PICK t \in Nat : t = l + 1
    BY <1>0
  <2>4. \A k \in 1 .. b : tok[k] \in C
    BY <1>0, <2>1, <2>2
  <2>5. \A k \in t .. n : tok[k] \in C
    BY <1>0, <2>1, <2>3
  <2>6. Len(SubSeq(tok, 1, b)) = IF 1 <= b THEN b - 1 + 1 ELSE 0
    BY <2>4, SubSeqProperties
  <2>7. Len(SubSeq(tok, t, n)) = IF t <= n THEN n - t + 1 ELSE 0
    BY <2>5, SubSeqProperties
  <2> QED BY <1>0, <2>2, <2>3, <2>6, <2>7
<1> HIDE DEF inside, hidden
<1> QED BY <1>3, <1>4, <1>5, <1>6 DEF inside, IsHidden


LEMMA PlainIdentity ==
  ASSUME NEW C, MaskCells \subseteq C, kMaskWildcard \in Seq(C), NEW name \in Seq(C), NEW introducer,
         NEW declared, AreMarked(declared), NEW id, id = IdentityOf(name, introducer, declared),
         ~EndsWith(Trimmed(name), OneTokenVersionOf(name, introducer))
  PROVE  \/ id.around = {} /\ id.within = id.class
         \/ \E before, behind, masked, hidden \in Seq(C) : IsMasked(id, before, behind, masked, hidden)
<1> PICK version : version = OneTokenVersionOf(name, introducer)
  OBVIOUS
<1> PICK tok \in Seq(C) : tok = Trimmed(name)
  BY TrimmedIsText
<1> PICK n \in Nat : n = Len(tok)
  BY LenProperties
<1> PICK spans : spans = Spans(tok)
  OBVIOUS
<1>1. /\ id.around = Around(tok, version) /\ id.hidden = DeclaredDiscriminantOf(name, version, declared)
      /\ id.within = Replaced(tok, InsideClaims(tok, version, declared)) /\ id.class = MarkerClass(name, version)
  BY DEF IdentityOf
<1>2. VersionEnvelope(tok, version) = Envelope(tok)
  BY Zenon DEF VersionEnvelope
<1>3. id.class = MaskSpans(tok, spans)
  <2>1. MarkerClass(name, version) = CanonicalizeIntent(name) \o <<>>
    BY Zenon DEF MarkerClass
  <2>2. CanonicalizeIntent(name) = MaskSpans(tok, spans)
    BY Zenon DEF CanonicalizeIntent
  <2>3. MaskSpans(tok, spans) \in Seq(C)
    BY SpansType, MaskedType
  <2>4. MaskSpans(tok, spans) \o <<>> = MaskSpans(tok, spans)
    BY <2>3, ConcatEmptySeq
  <2> QED BY <1>1, <2>1, <2>2, <2>4, Zenon
<1>4. IsRow(spans, 1, n)
  BY SpansType
<1>5. CASE spans = <<>>
  <2>1. VersionEnvelope(tok, version) = {}
    BY <1>2, <1>5 DEF Envelope
  <2>2. Around(tok, version) = {} /\ InsideClaims(tok, version, declared) = {}
    BY <2>1 DEF Around, InsideClaims
  <2>3. MaskSpans(tok, spans) = tok
    BY <1>4, <1>5, MaskedEnds
  <2>4. Replaced(tok, {}) = tok
    BY NothingReplaced
  <2> QED BY <1>1, <1>3, <2>2, <2>3, <2>4
<1>6. CASE spans # <<>>
  <2>1. PICK f \in 1 .. n : \E l \in f .. n :
          f = spans[1].first /\ l = spans[Len(spans)].last /\ IsBetween(C, MaskSpans(tok, spans), tok, f, l)
    BY <1>4, <1>6, MaskedBetween
  <2>2. PICK l \in f .. n :
          f = spans[1].first /\ l = spans[Len(spans)].last /\ IsBetween(C, MaskSpans(tok, spans), tok, f, l)
    BY <2>1
  <2>3. IsEnvelope(tok, version, f, l)
    BY <1>2, <1>6, <2>2 DEF Envelope, IsEnvelope
  <2>4. f \in 1 .. n + 1 /\ l \in f - 1 .. n
    OBVIOUS
  <2>a. f \in 1 .. Len(tok) + 1 /\ l \in f - 1 .. Len(tok)
    BY <2>4
  <2>5. PICK hidden \in Seq(C) : IsHidden(hidden, name, tok, version, declared, f, l)
    BY <2>3, <2>a, EnvelopeHides, Zenon
  <2>6. PICK rest \in Seq(C) : MaskSpans(tok, spans) = SubSeq(tok, 1, f - 1) \o (rest \o SubSeq(tok, l + 1, n))
    BY <2>2 DEF IsBetween
  <2>7. SubSeq(tok, 1, f - 1) \in Seq(C) /\ SubSeq(tok, l + 1, n) \in Seq(C)
    BY EndsAreText
  <2>8. IsMasked(id, SubSeq(tok, 1, f - 1), SubSeq(tok, l + 1, n), rest, hidden)
    BY <1>1, <1>3, <2>5, <2>6, Zenon DEF IsMasked, IsHidden
  <2> QED BY <2>7, <2>8, Zenon
<1> QED BY <1>5, <1>6


\* The lead of a head without blanks is nothing.
LEMMA VersionEnvelopeIs ==
  ASSUME NEW C, NEW tok \in Seq(C), NEW version, EndsWith(tok, version), Len(version) \in Nat, Len(version) > 0,
         IsToken(tok)
  PROVE  LET head == HeadOf(tok, version)
         IN  /\ head \in Seq(C) /\ Len(head) = Len(tok) - Len(version) /\ Trimmed(head) = head
             /\ VersionEnvelope(tok, version)
                  = {[first |-> IF Spans(head) = <<>> THEN Len(head) + 1 ELSE Spans(head)[1].first, last |-> Len(tok)]}
<1> PICK n \in Nat : n = Len(tok)
  BY LenProperties
<1> PICK m \in Nat : m = Len(version) /\ m > 0 /\ m <= n
  BY DEF EndsWith
<1> PICK head : head = HeadOf(tok, version)
  OBVIOUS
<1>1. head = SubSeq(tok, 1, n - m)
  BY Zenon DEF HeadOf, Upto
<1>2. head \in Seq(C) /\ Len(head) = n - m /\ \A i \in 1 .. n - m : head[i] = tok[i]
  <2> PICK k \in Nat : k = n - m
    OBVIOUS
  <2>1. \A i \in 1 .. k : tok[i] \in C
    OBVIOUS
  <2>2. /\ SubSeq(tok, 1, k) \in Seq(C) /\ Len(SubSeq(tok, 1, k)) = IF 1 <= k THEN k - 1 + 1 ELSE 0
        /\ \A i \in 1 .. k - 1 + 1 : SubSeq(tok, 1, k)[i] = tok[1 + i - 1]
    BY <2>1, SubSeqProperties
  <2> HIDE <2>1
  <2> QED BY <1>1, <2>2
<1>3. IsToken(head) /\ \A i \in 1 .. n - m : head[i] # " "
  <2>1. \A i \in 1 .. n - m : head[i] # " "
    <3> SUFFICES ASSUME NEW i \in 1 .. n - m PROVE head[i] # " "
      OBVIOUS
    <3>1. i \in DOMAIN tok /\ head[i] = tok[i]
      BY <1>2
    <3> QED BY <3>1 DEF Has, IsToken
  <2>2. DOMAIN head = 1 .. n - m
    BY <1>2
  <2> QED BY <2>1, <2>2 DEF Has, IsToken
<1>4. Trimmed(head) = head
  BY <1>2, <1>3, TrimmedIsText
<1> PICK h \in Nat : h = Len(head)
  BY <1>2, LenProperties
<1> DEFINE IsLead(k) == IsBlank(Upto(head, k)) /\ (k = Len(head) \/ head[k + 1] # " ")
           lead == CHOOSE k \in 0 .. Len(head) : IsLead(k)
<1>5. ASSUME NEW k \in 0 .. h PROVE IsBlank(Upto(head, k)) <=> k = 0
  <2>1. \A i \in 1 .. k : head[i] \in C /\ head[i] # " "
    <3>1. \A i \in 1 .. k : i \in 1 .. h
      OBVIOUS
    <3>2. \A i \in 1 .. h : head[i] \in C
      BY <1>2
    <3>3. h = n - m
      BY <1>2
    <3>4. \A i \in 1 .. h : head[i] # " "
      BY <1>3, <3>3
    <3> QED BY <3>1, <3>2, <3>4
  <2>2. /\ Upto(head, k) \in Seq(C) /\ Len(Upto(head, k)) = IF 1 <= k THEN k - 1 + 1 ELSE 0
        /\ \A i \in 1 .. k - 1 + 1 : Upto(head, k)[i] = head[1 + i - 1]
    <3>1. \A i \in 1 .. k : head[i] \in C
      BY <2>1
    <3> QED BY <3>1, SubSeqProperties DEF Upto
  <2>3. DOMAIN Upto(head, k) = 1 .. k /\ \A i \in 1 .. k : Upto(head, k)[i] = head[i]
    BY <2>2
  <2>4. CASE k = 0
    BY <2>3, <2>4 DEF Over, IsBlank
  <2>5. CASE k # 0
    <3>1. 1 \in 1 .. k
      BY <2>5
    <3> QED BY <2>1, <2>3, <2>5, <3>1 DEF Over, IsBlank
  <2> QED BY <2>4, <2>5
<1>6. IsLead(0)
  <2>1. h = 0 \/ 1 \in 1 .. h
    OBVIOUS
  <2>2. h = n - m /\ 0 \in 0 .. h /\ 0 + 1 = 1
    BY <1>2
  <2>3. h = 0 \/ head[0 + 1] # " "
    BY <1>3, <2>1, <2>2
  <2>4. IsBlank(Upto(head, 0))
    BY <1>5, <2>2
  <2> QED BY <2>3, <2>4
<1>7. lead = 0
  <2>1. \A k \in 0 .. h : IsLead(k) <=> k = 0
    BY <1>5, <1>6
  <2> HIDE DEF IsLead
  <2> QED BY <2>1
<1>8. VersionEnvelope(tok, version)
        = {[first |-> IF spans = <<>> THEN Len(head) + 1 ELSE lead + spans[1].first, last |-> Len(tok)] : spans \in {Spans(Trimmed(head))}}
  BY Zenon DEF VersionEnvelope, IsBlank
<1> HIDE DEF lead, IsLead
<1>9. Spans(head) # <<>> => Spans(head)[1].first \in Nat
  <2>1. IsRow(Spans(head), 1, h)
    BY SpansType
  <2>2. Spans(head) # <<>> => Spans(head)[1] \in SpansWithin(h)
    BY <2>1, EmptySeq DEF IsRow
  <2> QED BY <2>2 DEF SpansWithin
<1> QED BY <1>2, <1>4, <1>7, <1>8, <1>9

LEMMA VersionedIdentity ==
  ASSUME NEW C, MaskCells \subseteq C, kMaskWildcard \in Seq(C), NEW name \in Seq(C), NEW introducer, Len(introducer) \in Nat,
         NEW declared, AreMarked(declared), NEW id, id = IdentityOf(name, introducer, declared),
         EndsWith(Trimmed(name), OneTokenVersionOf(name, introducer))
  PROVE  \E before, behind, masked, hidden \in Seq(C) : IsMasked(id, before, behind, masked, hidden)
<1> DEFINE T == Seq(C)
<1>a. \A x, y, z \in T : (x \o y) \o z = x \o (y \o z) /\ y \o z \in T
  <2> TAKE x, y, z \in T
  <2> QED BY Reassociated, ConcatProperties
<1> HIDE DEF T
<1> PICK version : version = OneTokenVersionOf(name, introducer)
  OBVIOUS
<1> PICK tok \in Seq(C) : tok = Trimmed(name)
  BY TrimmedIsText
<1> PICK n \in Nat : n = Len(tok)
  BY LenProperties
<1>0. EndsWith(tok, version) /\ Len(version) \in Nat /\ Len(version) > 0 /\ IsToken(tok)
  BY VersionAtTheEnd
<1> PICK m \in Nat : m = Len(version) /\ m > 0 /\ m <= n
  BY <1>0 DEF EndsWith
<1> PICK head : head = HeadOf(tok, version)
  OBVIOUS
<1> PICK spans : spans = Spans(head)
  OBVIOUS
<1>1. /\ id.around = Around(tok, version) /\ id.hidden = DeclaredDiscriminantOf(name, version, declared)
      /\ id.within = Replaced(tok, InsideClaims(tok, version, declared)) /\ id.class = MarkerClass(name, version)
  BY DEF IdentityOf
<1>2. /\ head \in Seq(C) /\ Len(head) = n - m /\ Trimmed(head) = head
      /\ VersionEnvelope(tok, version) = {[first |-> IF spans = <<>> THEN Len(head) + 1 ELSE spans[1].first, last |-> n]}
  BY <1>0, VersionEnvelopeIs
<1> PICK h \in Nat : h = Len(head) /\ h = n - m
  <2>1. head \in Seq(C) /\ Len(head) = n - m
    BY <1>2, Zenon
  <2> QED BY <2>1, LenProperties
<1>3. id.class = MaskSpans(head, spans) \o <<"vX">>
  <2>1. MarkerClass(name, version) = CanonicalizeIntent(HeadOf(tok, version)) \o <<"vX">>
    BY <1>0, Zenon DEF MarkerClass
  <2>2. CanonicalizeIntent(head) = MaskSpans(Trimmed(head), Spans(Trimmed(head)))
    BY Zenon DEF CanonicalizeIntent
  <2> QED BY <1>1, <1>2, <2>1, <2>2, Zenon
<1>4. IsRow(spans, 1, h)
  BY SpansType
<1>5. \E f \in 1 .. h + 1 : \E masked \in T :
        IsEnvelope(tok, version, f, n) /\ id.class = SubSeq(tok, 1, f - 1) \o masked
  <2>v. <<"vX">> \in T
    BY DEF MaskCells, T
  <2>1. CASE spans = <<>>
    <3>1. IsEnvelope(tok, version, h + 1, n)
      BY <1>2, <2>1 DEF IsEnvelope
    <3>2. MaskSpans(head, spans) = head /\ head = SubSeq(tok, 1, (h + 1) - 1)
      <4>1. (h + 1) - 1 = h
        OBVIOUS
      <4>2. head = SubSeq(tok, 1, n - m)
        BY Zenon DEF HeadOf, Upto
      <4>a. head \in Seq(C) /\ IsRow(spans, 1, Len(head))
        BY <1>2, <1>4, Zenon
      <4>3. MaskSpans(head, spans) = head
        BY <2>1, <4>a, MaskedEnds, Zenon
      <4> QED BY <4>1, <4>2, <4>3
    <3>3. h + 1 \in 1 .. h + 1
      OBVIOUS
    <3> QED BY <1>3, <2>v, <3>1, <3>2, <3>3
  <2>2. CASE spans # <<>>
    <3>1. PICK f \in 1 .. h : \E l \in f .. h : f = spans[1].first /\ IsBetween(C, MaskSpans(head, spans), head, f, l)
      <4>1. head \in Seq(C) /\ IsRow(spans, 1, Len(head))
        BY <1>2, <1>4, Zenon
      <4>2. \E f \in 1 .. Len(head) : \E l \in f .. Len(head) :
              f = spans[1].first /\ l = spans[Len(spans)].last /\ IsBetween(C, MaskSpans(head, spans), head, f, l)
        BY <2>2, <4>1, MaskedBetween, Zenon
      <4> QED BY <4>2
    <3>2. PICK l \in f .. h : f = spans[1].first /\ IsBetween(C, MaskSpans(head, spans), head, f, l)
      BY <3>1
    <3>3. IsEnvelope(tok, version, f, n)
      BY <1>2, <2>2, <3>2 DEF IsEnvelope
    <3>4. PICK rest \in Seq(C) : MaskSpans(head, spans) = SubSeq(head, 1, f - 1) \o (rest \o SubSeq(head, l + 1, h))
      BY <3>2, Zenon DEF IsBetween
    <3>5. SubSeq(head, 1, f - 1) \in T /\ SubSeq(head, l + 1, h) \in T /\ rest \in T
      <4>1. f \in 1 .. Len(head) /\ l \in f .. Len(head)
        OBVIOUS
      <4>2. SubSeq(head, 1, f - 1) \in Seq(C) /\ SubSeq(head, l + 1, Len(head)) \in Seq(C)
        BY <1>2, <4>1, EndsAreText
      <4> QED BY <4>2 DEF T
    <3>6. SubSeq(head, 1, f - 1) = SubSeq(tok, 1, f - 1)
      <4> PICK k \in Nat : k = f - 1 /\ k <= h
        OBVIOUS
      <4>1. head = SubSeq(tok, 1, h)
        BY Zenon DEF HeadOf, Upto
      <4>2. \A i \in 1 .. h : tok[i] \in C
        OBVIOUS
      <4>3. \A i \in 1 .. h : head[i] = tok[i]
        <5>1. \A i \in 1 .. h - 1 + 1 : SubSeq(tok, 1, h)[i] = tok[1 + i - 1]
          BY <4>2, SubSeqProperties
        <5> QED BY <4>1, <5>1
      <4>4. /\ SubSeq(tok, 1, k) \in Seq(C) /\ Len(SubSeq(tok, 1, k)) = IF 1 <= k THEN k - 1 + 1 ELSE 0
            /\ \A i \in 1 .. k - 1 + 1 : SubSeq(tok, 1, k)[i] = tok[1 + i - 1]
        <5>1. \A i \in 1 .. k : tok[i] \in C
          BY <4>2
        <5> QED BY <5>1, SubSeqProperties
      <4>5. /\ SubSeq(head, 1, k) \in Seq(C) /\ Len(SubSeq(head, 1, k)) = IF 1 <= k THEN k - 1 + 1 ELSE 0
            /\ \A i \in 1 .. k - 1 + 1 : SubSeq(head, 1, k)[i] = head[1 + i - 1]
        <5>1. \A i \in 1 .. k : head[i] \in C
          BY <4>2, <4>3
        <5> QED BY <5>1, SubSeqProperties
      <4> PICK a \in Seq(C) : a = SubSeq(tok, 1, k)
        BY <4>4
      <4> PICK b \in Seq(C) : b = SubSeq(head, 1, k)
        BY <4>5
      <4>6. Len(a) = k /\ Len(b) = k /\ \A i \in 1 .. k : a[i] = b[i]
        BY <4>3, <4>4, <4>5
      <4>7. a = b
        BY <4>6, SeqEqual
      <4> QED BY <4>7
    <3> DEFINE x == SubSeq(tok, 1, f - 1)
               y == SubSeq(head, l + 1, h)
    <3>7. x \in T /\ y \in T /\ rest \in T /\ id.class = (x \o (rest \o y)) \o <<"vX">>
      BY <1>3, <3>4, <3>5, <3>6
    <3> HIDE DEF x, y
    <3>8. rest \o y \in T
      BY <1>a, <3>7, Zenon
    <3>9. (x \o (rest \o y)) \o <<"vX">> = x \o ((rest \o y) \o <<"vX">>) /\ (rest \o y) \o <<"vX">> \in T
      <4> PICK w \in T : w = rest \o y
        BY <3>8
      <4>1. (x \o w) \o <<"vX">> = x \o (w \o <<"vX">>) /\ w \o <<"vX">> \in T
        BY <1>a, <2>v, <3>7, Zenon
      <4> QED BY <4>1
    <3>10. id.class = x \o ((rest \o y) \o <<"vX">>)
      BY <3>7, <3>9, Zenon
    <3>11. f \in 1 .. h + 1
      OBVIOUS
    <3> QED BY <3>3, <3>9, <3>10, <3>11 DEF x
  <2> QED BY <2>1, <2>2
<1>6. PICK f \in 1 .. h + 1 : \E masked \in T : IsEnvelope(tok, version, f, n) /\ id.class = SubSeq(tok, 1, f - 1) \o masked
  BY <1>5, Zenon
<1>7. PICK masked \in T : IsEnvelope(tok, version, f, n) /\ id.class = SubSeq(tok, 1, f - 1) \o masked
  BY <1>6, Zenon
<1>8. f \in 1 .. Len(tok) /\ n \in f .. Len(tok) /\ f \in 1 .. Len(tok) + 1 /\ n \in f - 1 .. Len(tok) /\ h + 1 <= n
  OBVIOUS
<1>9. PICK hidden \in Seq(C) : IsHidden(hidden, name, tok, version, declared, f, n)
  BY <1>7, <1>8, EnvelopeHides, Zenon
<1>10. SubSeq(tok, 1, f - 1) \in Seq(C) /\ SubSeq(tok, n + 1, Len(tok)) \in Seq(C)
  BY <1>8, EndsAreText
<1>11. SubSeq(tok, n + 1, Len(tok)) = <<>> /\ masked \o <<>> = masked
  <2>1. masked \in Seq(C)
    BY DEF T
  <2>2. masked \o <<>> = masked
    BY <2>1, ConcatEmptySeq
  <2>3. SubSeq(tok, n + 1, n) = <<>>
    <3>1. n + 1 \in Int /\ n \in Int /\ n < n + 1
      OBVIOUS
    <3> QED BY <3>1, SubSeqEmpty
  <2> QED BY <2>2, <2>3
<1>12. IsMasked(id, SubSeq(tok, 1, f - 1), SubSeq(tok, n + 1, Len(tok)), masked, hidden)
  BY <1>1, <1>7, <1>9, <1>11, Zenon DEF IsMasked, IsHidden
<1>13. masked \in Seq(C)
  BY DEF T
<1> QED BY <1>10, <1>12, <1>13, Zenon


\* A name that masks nothing, or one that is masked.
IsShaped(C, id) ==
  \/ id.around = {} /\ id.within = id.class
  \/ \E before, behind, masked, hidden \in Seq(C) : IsMasked(id, before, behind, masked, hidden)

LEMMA IdentityShape ==
  ASSUME NEW C, MaskCells \subseteq C, kMaskWildcard \in Seq(C), NEW name \in Seq(C), NEW introducer, Len(introducer) \in Nat,
         NEW declared, AreMarked(declared), NEW id, id = IdentityOf(name, introducer, declared)
  PROVE  IsShaped(C, id)
<1>1. CASE EndsWith(Trimmed(name), OneTokenVersionOf(name, introducer))
  BY <1>1, VersionedIdentity, Zenon DEF IsShaped
<1>2. CASE ~EndsWith(Trimmed(name), OneTokenVersionOf(name, introducer))
  BY <1>2, PlainIdentity, Zenon DEF IsShaped
<1> QED BY <1>1, <1>2

----------------------------------------------------------------------------
(* Two names.                                                              *)

\* What stands at i in a text of three parts.
ArePartsOf(x, b, m, t) ==
  /\ Len(x) = Len(b) + Len(m) + Len(t)
  /\ \A i \in 1 .. Len(b) : x[i] = b[i]
  /\ \A i \in 1 .. Len(t) : x[Len(b) + Len(m) + i] = t[i]

LEMMA PartsOf ==
  ASSUME NEW C, NEW b \in Seq(C), NEW m \in Seq(C), NEW t \in Seq(C)
  PROVE  ArePartsOf(b \o (m \o t), b, m, t)
<1> PICK x : x = b \o (m \o t)
  OBVIOUS
<1> PICK y : y = m \o t
  OBVIOUS
<1>1. /\ y \in Seq(C) /\ Len(y) = Len(m) + Len(t)
      /\ \A i \in 1 .. Len(m) + Len(t) : y[i] = IF i <= Len(m) THEN m[i] ELSE t[i - Len(m)]
  BY ConcatProperties
<1>2. /\ x \in Seq(C) /\ Len(x) = Len(b) + Len(y)
      /\ \A i \in 1 .. Len(b) + Len(y) : x[i] = IF i <= Len(b) THEN b[i] ELSE y[i - Len(b)]
  BY <1>1, ConcatProperties
<1> PICK lb, lm, lt \in Nat : lb = Len(b) /\ lm = Len(m) /\ lt = Len(t)
  BY LenProperties
<1>3. \A i \in 1 .. lb + lm + lt : x[i] = IF i <= lb THEN b[i] ELSE y[i - lb]
  BY <1>1, <1>2
<1>4. \A i \in 1 .. lm + lt : y[i] = IF i <= lm THEN m[i] ELSE t[i - lm]
  BY <1>1
<1>5. Len(x) = lb + lm + lt
  BY <1>1, <1>2
<1>6. \A i \in 1 .. lb : x[i] = b[i]
  BY <1>3
<1>7. ASSUME NEW i \in 1 .. lt PROVE x[lb + lm + i] = t[i]
  <2>1. PICK k \in 1 .. lb + lm + lt : k = lb + lm + i
    OBVIOUS
  <2>2. PICK j \in 1 .. lm + lt : j = lm + i
    OBVIOUS
  <2>3. ~(k <= lb) /\ k - lb = j /\ ~(j <= lm) /\ j - lm = i
    BY <2>1, <2>2
  <2>4. x[k] = y[k - lb] /\ y[j] = t[j - lm]
    BY <1>3, <1>4, <2>3
  <2> QED BY <2>1, <2>3, <2>4
<1> QED BY <1>5, <1>6, <1>7 DEF ArePartsOf

\* Two texts of three parts that are one, with ends as long as the other's.
AreAligned(b, m, t, c, n, u) == Len(b) = Len(c) /\ Len(t) = Len(u) /\ b \o (m \o t) = c \o (n \o u)
HaveOneEnd(b, c, t, u) == b = c /\ t = u

LEMMA SameEnds ==
  ASSUME NEW C, NEW b \in Seq(C), NEW m \in Seq(C), NEW t \in Seq(C), NEW c \in Seq(C), NEW n \in Seq(C), NEW u \in Seq(C),
         AreAligned(b, m, t, c, n, u)
  PROVE  HaveOneEnd(b, c, t, u)
<1>0. Len(b) = Len(c) /\ Len(t) = Len(u) /\ b \o (m \o t) = c \o (n \o u)
  BY DEF AreAligned
<1> PICK x : x = b \o (m \o t)
  OBVIOUS
<1>1. ArePartsOf(x, b, m, t)
  BY PartsOf
<1>2. ArePartsOf(x, c, n, u)
  <2>1. ArePartsOf(c \o (n \o u), c, n, u)
    BY PartsOf
  <2> QED BY <1>0, <2>1
<1>3. Len(m) = Len(n)
  <2>1. Len(b) \in Nat /\ Len(m) \in Nat /\ Len(t) \in Nat /\ Len(n) \in Nat
    BY LenProperties
  <2>2. Len(b) + Len(m) + Len(t) = Len(b) + Len(n) + Len(t)
    BY <1>0, <1>1, <1>2 DEF ArePartsOf
  <2>3. \A p, q, r, s \in Nat : p + q + r = p + s + r => q = s
    OBVIOUS
  <2> QED BY <2>1, <2>2, <2>3
<1>4. \A i \in 1 .. Len(b) : b[i] = c[i]
  BY <1>0, <1>1, <1>2 DEF ArePartsOf
<1>5. \A i \in 1 .. Len(t) : t[i] = u[i]
  BY <1>0, <1>1, <1>2, <1>3 DEF ArePartsOf
<1>6. b = c
  BY <1>0, <1>4, SeqEqual
<1>7. t = u
  BY <1>0, <1>5, SeqEqual
<1> QED BY <1>6, <1>7 DEF HaveOneEnd

LEMMA WiderText == ASSUME NEW S, NEW T, S \subseteq T, NEW s \in Seq(S) PROVE s \in Seq(T)
OBVIOUS

LEMMA MaskedAlike ==
  ASSUME NEW C, NEW one, NEW other, one.class = other.class, one.around = other.around, one.hidden = other.hidden,
         \E before, behind, masked, hidden \in Seq(C) : IsMasked(one, before, behind, masked, hidden),
         \E before, behind, masked, hidden \in Seq(C) : IsMasked(other, before, behind, masked, hidden)
  PROVE  one.within = other.within
<1>1. PICK b, t, m, h \in Seq(C) : IsMasked(one, b, t, m, h)
  OBVIOUS
<1>2. PICK c, u, n, k \in Seq(C) : IsMasked(other, c, u, n, k)
  OBVIOUS
<1>3. Len(b) = Len(c) /\ Len(t) = Len(u)
  <2> DEFINE p == [before |-> Len(b), behind |-> Len(t)]
             q == [before |-> Len(c), behind |-> Len(u)]
  <2>1. {p} = {q}
    BY <1>1, <1>2, Zenon DEF IsMasked
  <2>2. p = q
    <3> HIDE DEF p, q
    <3> QED BY <2>1
  <2>3. p.before = q.before /\ p.behind = q.behind
    <3> HIDE DEF p, q
    <3> QED BY <2>2
  <2> QED BY <2>3
<1>4. h = k
  <2>1. {h} = {k}
    BY <1>1, <1>2, Zenon DEF IsMasked
  <2> QED BY <2>1
<1>5. b \o (m \o t) = c \o (n \o u)
  BY <1>1, <1>2, Zenon DEF IsMasked
<1>6. b = c /\ t = u
  <2>1. AreAligned(b, m, t, c, n, u)
    BY <1>3, <1>5 DEF AreAligned
  <2>2. HaveOneEnd(b, c, t, u)
    BY <2>1, SameEnds, Zenon
  <2> QED BY <2>2, Zenon DEF HaveOneEnd
<1> QED BY <1>1, <1>2, <1>4, <1>6, Zenon DEF IsMasked
==============================================================================
