-------------------------- MODULE Induction_proofs --------------------------
(***************************************************************************)
(* Induction over the naturals for the proofs about data: over the bytes a *)
(* client has sent, over the records of a log.  The library's theorems on  *)
(* induction take a predicate as their parameter; these take the set of    *)
(* the numbers that satisfy it.  They follow from the fact that strict     *)
(* inclusion is well-founded on finite sets, applied to the sets 1 .. n.   *)
(***************************************************************************)
EXTENDS Integers, FiniteSetsExt, FiniteSetTheorems, WellFoundedInduction, TLAPS

\* A nonempty set of natural numbers has a least element.
LEMMA LeastNumber ==
  ASSUME NEW U, U \subseteq Nat, U # {}
  PROVE  \E n \in U : \A m \in U : n <= m
<1> DEFINE I == {1 .. n : n \in U}
           R == StrictSubsetOrdering(Nat)
           S == FiniteSubsetsOf(Nat)
<1>1. IsWellFoundedOn(R, S)
  BY FS_StrictSubsetOrderingWellFounded
<1>2. I \subseteq S /\ I # {}
  <2>1. \A n \in Nat : IsFiniteSet(1 .. n) /\ 1 .. n \in SUBSET Nat
    BY FS_Interval
  <2> QED
    BY <2>1 DEF FiniteSubsetsOf
<1> HIDE DEF I, R, S
<1>3. PICK x \in I : \A y \in I : ~ (<<y, x>> \in R)
  BY <1>1, <1>2, WFMin
<1>4. PICK n \in U : x = 1 .. n
  BY <1>3 DEF I
<1>5. ASSUME NEW m \in U, m < n PROVE FALSE
  <2>1. 1 .. m \in I
    BY DEF I
  <2>2. n \in 1 .. n /\ n \notin 1 .. m /\ 1 .. m \subseteq 1 .. n
    BY <1>5
  <2>3. <<1 .. m, 1 .. n>> \in R
    BY <2>2 DEF R, StrictSubsetOrdering
  <2> QED
    BY <1>3, <1>4, <2>1, <2>3
<1> QED
  BY <1>5

\* Induction: the set T has 0, and the successor of every number it has.
LEMMA SetInduction ==
  ASSUME NEW T, 0 \in T, \A n \in Nat : n \in T => n + 1 \in T
  PROVE  \A n \in Nat : n \in T
<1>1. SUFFICES ASSUME Nat \ T # {} PROVE FALSE
  OBVIOUS
<1>2. PICK n \in Nat \ T : \A m \in Nat \ T : n <= m
  BY <1>1, LeastNumber
<1>3. n # 0 /\ n - 1 \in Nat \ T
  BY <1>2
<1> QED
  BY <1>2, <1>3

\* Primitive recursion: the function whose value at n is what F[n] makes of
\* its value at n - 1 exists.
LEMMA RecursionExists ==
  ASSUME NEW S, NEW b \in S, NEW m \in Nat, NEW F \in [1 .. m -> [S -> S]]
  PROVE  \E g \in [0 .. m -> S] : g[0] = b /\ \A n \in 1 .. m : g[n] = F[n][g[n - 1]]
<1> DEFINE Upto(j) == \E g \in [0 .. j -> S] :
                        g[0] = b /\ \A n \in 1 .. j : g[n] = F[n][g[n - 1]]
           T == {j \in Nat : j <= m => Upto(j)}
<1>1. 0 \in T
  <2> DEFINE g == [n \in 0 .. 0 |-> b]
  <2>1. g \in [0 .. 0 -> S] /\ g[0] = b /\ \A n \in 1 .. 0 : g[n] = F[n][g[n - 1]]
    OBVIOUS
  <2> HIDE DEF g
  <2> QED
    BY <2>1
<1>2. ASSUME NEW j \in Nat, j \in T PROVE j + 1 \in T
  <2>1. SUFFICES ASSUME j + 1 <= m PROVE Upto(j + 1)
    OBVIOUS
  <2>2. PICK g \in [0 .. j -> S] : g[0] = b /\ \A n \in 1 .. j : g[n] = F[n][g[n - 1]]
    BY <1>2, <2>1
  <2> DEFINE h == [n \in 0 .. j + 1 |-> IF n = j + 1 THEN F[j + 1][g[j]] ELSE g[n]]
  <2>3. F[j + 1][g[j]] \in S
    BY <2>1
  <2>4. h \in [0 .. j + 1 -> S]
    BY <2>3
  <2>5. h[0] = b
    BY <2>2
  <2>6. \A n \in 1 .. j + 1 : h[n] = F[n][h[n - 1]]
    BY <2>2
  <2> QED
    BY <2>4, <2>5, <2>6
<1> HIDE DEF T
<1>3. m \in T
  BY <1>1, <1>2, SetInduction
<1> QED
  BY <1>3 DEF T

\* A greatest element is what Max chooses.
LEMMA MaxIs ==
  ASSUME NEW s \in SUBSET Nat, NEW n \in s, \A x \in s : n >= x
  PROVE  Max(s) = n
<1>1. \A x \in s : (\A y \in s : x >= y) => x = n
  BY SMT
<1> QED
  BY <1>1 DEF Max

\* g folds F over each set of numbers up to m, from b, the greatest last.
Folding(g, S, b, m, F) ==
  /\ g \in [SUBSET (1 .. m) -> S]
  /\ g[{}] = b
  /\ \A s \in (SUBSET (1 .. m)) \ {{}} :
       Max(s) \in 1 .. m /\ g[s] = F[Max(s)][g[s \ {Max(s)}]]

\* Such a function exists.
LEMMA FoldExists ==
  ASSUME NEW S, NEW b \in S, NEW m \in Nat, NEW F \in [1 .. m -> [S -> S]]
  PROVE  \E g : Folding(g, S, b, m, F)
<1> DEFINE Folds(g, j) == /\ g[{}] = b
                          /\ \A s \in (SUBSET (1 .. j)) \ {{}} :
                               Max(s) \in 1 .. j /\ g[s] = F[Max(s)][g[s \ {Max(s)}]]
           Upto(j) == \E g \in [SUBSET (1 .. j) -> S] : Folds(g, j)
           T == {j \in Nat : j <= m => Upto(j)}
<1> HIDE DEF Folds, Upto
<1>1. 0 \in T
  <2> DEFINE g == [s \in SUBSET (1 .. 0) |-> b]
  <2>1. 1 .. 0 = {}
    OBVIOUS
  <2>2. g \in [SUBSET (1 .. 0) -> S] /\ Folds(g, 0)
    BY <2>1 DEF Folds
  <2> QED
    BY <2>2 DEF Upto
<1>2. ASSUME NEW j \in Nat, j \in T PROVE j + 1 \in T
  <2>1. SUFFICES ASSUME j + 1 <= m
                 PROVE  Upto(j + 1)
    OBVIOUS
  <2> Upto(j)
    BY <1>2, <2>1
  <2>2. PICK g \in [SUBSET (1 .. j) -> S] : Folds(g, j)
    BY DEF Upto
  <2> DEFINE h == [s \in SUBSET (1 .. j + 1) |->
                     IF j + 1 \in s THEN F[j + 1][g[s \ {j + 1}]] ELSE g[s]]
  <2>3. ASSUME NEW s \in SUBSET (1 .. j + 1)
        PROVE  s \ {j + 1} \in SUBSET (1 .. j) /\ (j + 1 \notin s => s \in SUBSET (1 .. j))
    OBVIOUS
  <2>4. h \in [SUBSET (1 .. j + 1) -> S]
    BY <2>1, <2>3
  <2>5. h[{}] = b
    BY <2>2 DEF Folds
  <2>6. ASSUME NEW s \in (SUBSET (1 .. j + 1)) \ {{}}
        PROVE  Max(s) \in 1 .. j + 1 /\ h[s] = F[Max(s)][h[s \ {Max(s)}]]
    <3>1. CASE j + 1 \in s
      <4>1. Max(s) = j + 1
        BY <3>1, MaxIs
      <4>2. h[s \ {j + 1}] = g[s \ {j + 1}] /\ h[s] = F[j + 1][g[s \ {j + 1}]]
        BY <2>3, <3>1
      <4> QED
        BY <4>1, <4>2
    <3>2. CASE j + 1 \notin s
      <4>1. s \in (SUBSET (1 .. j)) \ {{}} /\ s \ {Max(s)} \in SUBSET (1 .. j + 1)
            /\ j + 1 \notin s \ {Max(s)}
        BY <2>3, <3>2
      <4>2. h[s] = g[s] /\ h[s \ {Max(s)}] = g[s \ {Max(s)}]
        BY <3>2, <4>1
      <4>3. Max(s) \in 1 .. j /\ g[s] = F[Max(s)][g[s \ {Max(s)}]]
        BY <2>2, <4>1 DEF Folds
      <4>4. Max(s) \in 1 .. j + 1
        BY <4>3
      <4>5. h[s] = F[Max(s)][h[s \ {Max(s)}]]
        BY <4>2, <4>3
      <4> QED
        BY <4>4, <4>5
    <3> QED
      BY <3>1, <3>2
  <2> HIDE DEF h
  <2>7. Folds(h, j + 1)
    BY <2>5, <2>6 DEF Folds
  <2> QED
    BY <2>4, <2>7 DEF Upto
<1> HIDE DEF T
<1>3. m \in T
  BY <1>1, <1>2, SetInduction
<1> Upto(m)
  BY <1>3 DEF T
<1>4. PICK g \in [SUBSET (1 .. m) -> S] : Folds(g, m)
  BY DEF Upto
<1> QED
  BY <1>4 DEF Folds, Folding

\* The same of g, without its type.
Iterates(g, S, b, m, F) ==
  /\ g[{}] = b
  /\ \A s \in (SUBSET (1 .. m)) \ {{}} :
       g[s \ {Max(s)}] \in S => g[s] = F[Max(s)][g[s \ {Max(s)}]]

\* h has what F makes of b in m steps.
Steps(h, S, b, m, F) ==
  /\ h \in [0 .. m -> S]
  /\ h[0] = b
  /\ \A i \in 1 .. m : h[i] = F[i][h[i - 1]]

\* A fold over 1 .. m goes through its steps one by one.
LEMMA FoldSteps ==
  ASSUME NEW S, NEW b \in S, NEW m \in Nat, NEW F \in [1 .. m -> [S -> S]], NEW it,
         Iterates(it, S, b, m, F)
  PROVE  \E h : Steps(h, S, b, m, F) /\ h[m] = it[1 .. m]
<1> DEFINE h == [j \in 0 .. m |-> it[1 .. j]]
           T == {j \in Nat : j <= m => it[1 .. j] \in S}
<1>1. 1 .. 0 = {}
  OBVIOUS
<1>2. ASSUME NEW j \in Nat, j + 1 <= m, it[1 .. j] \in S
      PROVE  it[1 .. j + 1] = F[j + 1][it[1 .. j]]
  <2>1. Max(1 .. j + 1) = j + 1
    BY MaxIs
  <2>2. 1 .. j + 1 \in (SUBSET (1 .. m)) \ {{}} /\ (1 .. j + 1) \ {j + 1} = 1 .. j
    BY <1>2
  <2> QED
    BY <1>2, <2>1, <2>2 DEF Iterates
<1>3. \A j \in Nat : j \in T
  <2>1. 0 \in T
    BY <1>1 DEF Iterates
  <2>2. ASSUME NEW j \in Nat, j \in T PROVE j + 1 \in T
    <3>1. SUFFICES ASSUME j + 1 <= m PROVE it[1 .. j + 1] \in S
      OBVIOUS
    <3>2. it[1 .. j] \in S /\ j + 1 \in 1 .. m
      BY <2>2, <3>1
    <3> QED
      BY <1>2, <3>1, <3>2
  <2> HIDE DEF T
  <2> QED
    BY <2>1, <2>2, SetInduction
<1>4. h \in [0 .. m -> S] /\ h[0] = b /\ h[m] = it[1 .. m]
  BY <1>1, <1>3 DEF Iterates
<1>5. ASSUME NEW i \in 1 .. m PROVE h[i] = F[i][h[i - 1]]
  <2>1. i - 1 \in Nat /\ (i - 1) + 1 = i /\ i <= m /\ i \in 0 .. m /\ i - 1 \in 0 .. m
    OBVIOUS
  <2>2. it[1 .. i - 1] \in S
    BY <1>3, <2>1
  <2> QED
    BY <1>2, <2>1, <2>2
<1> HIDE DEF h
<1> QED
  BY <1>4, <1>5 DEF Steps
=============================================================================
