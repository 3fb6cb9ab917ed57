------------------------------- MODULE Induction -------------------------------
(***************************************************************************)
(* Induction over the natural numbers for sets and functions, and the      *)
(* functions that are defined by recursion over an interval. The theorems  *)
(* of the library that take an operator for the induction hypothesis are   *)
(* stated here with a set in its place; they all go back to the theorem    *)
(* that a non-empty set of natural numbers has a least element.            *)
(***************************************************************************)
EXTENDS Integers, FiniteSetsExt, WellFoundedInduction, TLAPS

\* A set of natural numbers that is not empty has a least element.
LEMMA LeastNumber ==
    ASSUME NEW S, S \subseteq Nat, S # {}
    PROVE  \E n \in S : \A m \in S : n <= m
    <1>1. PICK n \in S : \A m \in S : <<m, n>> \notin OpToRel(<, Nat)
      BY NatLessThanWellFounded, WFMin
    <1>2. ASSUME NEW m \in S PROVE n <= m
      <2>1. m \in Nat /\ n \in Nat
        OBVIOUS
      <2>2. <<m, n>> \notin {pair \in Nat \X Nat : pair[1] < pair[2]}
        BY <1>1 DEF OpToRel
      <2>3. ~(m < n)
        BY <2>1, <2>2
      <2> QED
        BY <2>1, <2>3
    <1> QED
      BY <1>2

\* Min() of a set of natural numbers is its least element.
LEMMA MinIsLeast ==
    ASSUME NEW S, S \subseteq Nat, S # {}
    PROVE  Min(S) \in S /\ \A m \in S : Min(S) <= m
    BY LeastNumber DEF Min

\* Max() of a set of positions of a sequence is one of them (the operators of
\* SequencesExt that look for the last element are built on it).
LEMMA MaxIsMember ==
    ASSUME NEW n \in Nat, NEW S, S \subseteq 1..n, S # {}
    PROVE  Max(S) \in S
    <1> DEFINE T == {n - i : i \in S}
    <1>1. PICK k \in T : \A m \in T : k <= m
      <2>1. \A i \in S : n - i \in Nat
        OBVIOUS
      <2>2. T \subseteq Nat /\ T # {}
        BY <2>1
      <2> HIDE DEF T
      <2> QED
        BY <2>2, LeastNumber
    <1>2. PICK i \in S : k = n - i
      OBVIOUS
    <1>3. ASSUME NEW j \in S PROVE i >= j
      <2>1. n - i <= n - j
        BY <1>1, <1>2
      <2>2. i \in Int /\ j \in Int
        OBVIOUS
      <2> QED
        BY <2>1, <2>2
    <1>4. \E x \in S : \A y \in S : x >= y
      BY <1>3
    <1> QED
      BY <1>4 DEF Max

\* Induction up to a bound.
LEMMA BoundedInduction ==
    ASSUME NEW n \in Nat, NEW S, 0 \in S,
           \A i \in 1..n : i - 1 \in S => i \in S
    PROVE  0..n \subseteq S
    <1> DEFINE T == {i \in 0..n : i \notin S}
    <1> SUFFICES ASSUME T # {} PROVE FALSE
      OBVIOUS
    <1>1. PICK k \in T : \A m \in T : k <= m
      <2>1. T \subseteq Nat
        OBVIOUS
      <2> HIDE DEF T
      <2> QED
        BY <2>1, LeastNumber
    <1>2. k \in 1..n /\ k - 1 \in 0..n
      OBVIOUS
    <1>3. k - 1 \in S
      BY <1>1, <1>2
    <1> QED
      BY <1>2, <1>3

\* f has a value for 0, and each other value is made from the one before it.
IsRecursive(f, n, T, base, step) ==
    f \in [0..n -> T] /\ f[0] = base /\ \A i \in 1..n : f[i] = step[<<f[i - 1], i>>]

\* There is a function that is defined by recursion over an interval.
LEMMA RecursionExists ==
    ASSUME NEW n \in Nat, NEW T, NEW base \in T, NEW step \in [T \X (1..n) -> T]
    PROVE  \E f : IsRecursive(f, n, T, base, step)
    <1> DEFINE Solves(f, m) == f[0] = base /\ \A i \in 1..m : f[i] = step[<<f[i - 1], i>>]
               S == {m \in 0..n : \E f \in [0..m -> T] : Solves(f, m)}
    <1>1. 0 \in S
      <2> DEFINE f == [i \in 0..0 |-> base]
      <2>1. f \in [0..0 -> T] /\ Solves(f, 0) /\ 0 \in 0..n
        OBVIOUS
      <2> HIDE DEF f
      <2> QED
        BY <2>1
    <1>2. ASSUME NEW m \in 1..n, m - 1 \in S PROVE m \in S
      <2>1. PICK f \in [0..(m - 1) -> T] : Solves(f, m - 1)
        BY <1>2
      <2>2. m \in 0..n /\ m - 1 \in 0..(m - 1) /\ m \notin 0..(m - 1)
        OBVIOUS
      <2> DEFINE g == [i \in 0..m |-> IF i = m THEN step[<<f[m - 1], m>>] ELSE f[i]]
      <2>3. step[<<f[m - 1], m>>] \in T
        BY <2>2
      <2>4. \A i \in 0..m : i # m => i \in 0..(m - 1)
        OBVIOUS
      <2>5. g \in [0..m -> T]
        BY <2>3, <2>4
      <2>6. g[0] = base
        BY <2>1
      <2>7. ASSUME NEW i \in 1..m PROVE g[i] = step[<<g[i - 1], i>>]
        <3>1. i - 1 \in 0..m /\ i - 1 # m /\ g[i - 1] = f[i - 1]
          OBVIOUS
        <3>2. CASE i = m
          BY <3>1, <3>2
        <3>3. CASE i # m
          <4>1. i \in 1..(m - 1)
            BY <3>3
          <4> QED
            BY <2>1, <3>1, <3>3, <4>1
        <3> QED
          BY <3>2, <3>3
      <2> HIDE DEF g
      <2> QED
        BY <2>2, <2>5, <2>6, <2>7
    <1> HIDE DEF S
    <1>3. n \in S
      <2>1. 0..n \subseteq S
        BY <1>1, <1>2, BoundedInduction
      <2> QED
        BY <2>1
    <1> QED
      BY <1>3 DEF S, IsRecursive

\* Every such function has the type of its steps.
LEMMA RecursionType ==
    ASSUME NEW n \in Nat, NEW T, NEW f, f[0] \in T,
           \A i \in 1..n : f[i - 1] \in T => f[i] \in T
    PROVE  \A i \in 0..n : f[i] \in T
    <1> DEFINE S == {i \in 0..n : f[i] \in T}
    <1>1. 0 \in S /\ \A i \in 1..n : i - 1 \in S => i \in S
      OBVIOUS
    <1> HIDE DEF S
    <1>2. 0..n \subseteq S
      BY <1>1, BoundedInduction
    <1> QED
      BY <1>2 DEF S
\* Induction from all smaller numbers.
LEMMA StrongInduction ==
    ASSUME NEW S, \A n \in Nat : (\A m \in 0..(n - 1) : m \in S) => n \in S
    PROVE  Nat \subseteq S
    <1> DEFINE T == {n \in Nat : n \notin S}
    <1> SUFFICES ASSUME T # {} PROVE FALSE
      OBVIOUS
    <1>1. PICK k \in T : \A m \in T : k <= m
      <2> HIDE DEF T
      <2>1. T \subseteq Nat
        BY DEF T
      <2> QED
        BY <2>1, LeastNumber
    <1>2. ASSUME NEW m \in 0..(k - 1) PROVE m \in S
      <2>1. m \in Nat /\ ~(k <= m)
        OBVIOUS
      <2> QED
        BY <1>1, <2>1
    <1> QED
      BY <1>2

\* The value for n is made from the value for the smaller number next[n], or is start[n]
\* where there is none (n is not in S).
FromSmaller(f, dom, S, next, start, step) ==
    \A n \in dom : f[n] = IF n \in S THEN step[<<n, f[next[n]]>>] ELSE start[n]

\* The smaller numbers are numbers of A again.
Descends(next, A, S) == A \subseteq Nat /\ \A n \in A \intersect S : next[n] \in A /\ next[n] < n

\* Two such functions agree where both are.
LEMMA SmallerRecursionAgrees ==
    ASSUME NEW S, NEW next, NEW start, NEW step, NEW A,
           Descends(next, A, S),
           NEW f, FromSmaller(f, A, S, next, start, step),
           NEW g, FromSmaller(g, A, S, next, start, step)
    PROVE  \A n \in A : f[n] = g[n]
    <1> DEFINE Same == {n \in Nat : n \in A => f[n] = g[n]}
    <1>1. ASSUME NEW n \in Nat, \A m \in 0..(n - 1) : m \in Same PROVE n \in Same
      <2> SUFFICES ASSUME n \in A PROVE f[n] = g[n]
        OBVIOUS
      <2>1. n \in S => f[next[n]] = g[next[n]]
        <3> SUFFICES ASSUME n \in S PROVE f[next[n]] = g[next[n]]
          OBVIOUS
        <3>1. next[n] \in A /\ next[n] \in Nat /\ next[n] < n
          BY DEF Descends
        <3> QED
          BY <1>1, <3>1
      <2>2. /\ f[n] = IF n \in S THEN step[<<n, f[next[n]]>>] ELSE start[n]
            /\ g[n] = IF n \in S THEN step[<<n, g[next[n]]>>] ELSE start[n]
        BY Zenon DEF FromSmaller
      <2> QED
        BY <2>1, <2>2
    <1> HIDE DEF Same
    <1>2. Nat \subseteq Same
      BY <1>1, StrongInduction
    <1>3. A \subseteq Nat
      BY DEF Descends
    <1> QED
      BY <1>2, <1>3 DEF Same

\* There is a function that is defined by recursion to a smaller number.
LEMMA SmallerRecursionExists ==
    ASSUME NEW T, NEW S, NEW next \in [Nat -> Nat], NEW start \in [Nat -> T],
           NEW step \in [Nat \X T -> T], \A n \in Nat : n \in S => next[n] < n
    PROVE  \E f \in [Nat -> T] : FromSmaller(f, Nat, S, next, start, step)
    <1> DEFINE Solves(f, m) == FromSmaller(f, 0..m, S, next, start, step)
    <1>1. \A m \in Nat : \E f \in [Nat -> T] : Solves(f, m)
      <2> DEFINE Solved == {m \in Nat : \E f \in [Nat -> T] : Solves(f, m)}
      <2>1. 0 \in Solved
        <3>1. 0 \notin S
          BY 0 \in Nat
        <3>2. Solves(start, 0)
          BY <3>1 DEF FromSmaller
        <3> QED
          BY <3>2
      <2>2. ASSUME NEW m \in Nat, m \in Solved PROVE m + 1 \in Solved
        <3>1. PICK f \in [Nat -> T] : Solves(f, m)
          BY <2>2
        <3> DEFINE k == m + 1
                   new == IF k \in S THEN step[<<k, f[next[k]]>>] ELSE start[k]
                   g == [f EXCEPT ![k] = new]
        <3>2. k \in Nat /\ next[k] \in Nat /\ f[next[k]] \in T
          BY <2>2
        <3>3. new \in T
          BY <3>2
        <3> HIDE DEF new
        <3>4. g \in [Nat -> T] /\ g[k] = new /\ \A n \in Nat : n # k => g[n] = f[n]
          BY <3>2, <3>3
        <3> HIDE DEF g
        <3>5. k \in S => g[next[k]] = f[next[k]]
          BY <3>2, <3>4
        <3>6. g[k] = IF k \in S THEN step[<<k, g[next[k]]>>] ELSE start[k]
          BY <3>4, <3>5 DEF new
        <3>7. ASSUME NEW n \in 0..m
              PROVE  g[n] = IF n \in S THEN step[<<n, g[next[n]]>>] ELSE start[n]
          <4>1. n \in Nat /\ n # k /\ g[n] = f[n] /\ next[n] \in Nat
            BY <3>4
          <4>2. n \in S => g[next[n]] = f[next[n]]
            BY <3>4, <4>1
          <4> QED
            BY <3>1, <4>1, <4>2 DEF FromSmaller
        <3>8. Solves(g, k)
          <4>1. \A n \in 0..k : n = k \/ n \in 0..m
            OBVIOUS
          <4> HIDE DEF k
          <4> QED
            BY <3>6, <3>7, <4>1 DEF FromSmaller
        <3> QED
          BY <3>2, <3>4, <3>8
      <2> HIDE DEF Solved
      <2>3. ASSUME NEW m \in Nat PROVE m \in Solved
        <3>1. \A i \in 1..m : i - 1 \in Solved => i \in Solved
          <4> SUFFICES ASSUME NEW i \in 1..m, i - 1 \in Solved PROVE i \in Solved
            OBVIOUS
          <4>1. i - 1 \in Nat /\ (i - 1) + 1 = i
            OBVIOUS
          <4> QED
            BY <2>2, <4>1
        <3>2. 0..m \subseteq Solved
          BY <2>1, <3>1, BoundedInduction
        <3> QED
          BY <3>2
      <2> QED
        BY <2>3 DEF Solved
    <1> DEFINE upTo == [n \in Nat |-> CHOOSE f \in [Nat -> T] : Solves(f, n)]
               all == [n \in Nat |-> upTo[n][n]]
    <1>3. \A n \in Nat : upTo[n] \in [Nat -> T] /\ Solves(upTo[n], n)
      BY <1>1
    <1> HIDE DEF upTo
    <1>4. all \in [Nat -> T]
      BY <1>3
    <1>5. ASSUME NEW n \in Nat
          PROVE  all[n] = IF n \in S THEN step[<<n, all[next[n]]>>] ELSE start[n]
      <2>1. upTo[n][n] = IF n \in S THEN step[<<n, upTo[n][next[n]]>>] ELSE start[n]
        BY <1>3 DEF FromSmaller
      <2>2. n \in S => upTo[n][next[n]] = upTo[next[n]][next[n]]
        <3> SUFFICES ASSUME n \in S PROVE upTo[n][next[n]] = upTo[next[n]][next[n]]
          OBVIOUS
        <3>1. next[n] \in Nat /\ next[n] <= n /\ next[n] <= next[n]
          OBVIOUS
        <3> DEFINE k == next[n]
                   f == upTo[n]
                   g == upTo[k]
        <3>2. Solves(f, n) /\ Solves(g, k)
          BY <1>3, <3>1
        <3> HIDE DEF f, g
        <3>3. k \in Nat /\ 0..k \subseteq 0..n /\ 0..k \subseteq Nat /\ k \in 0..k
          BY <3>1
        <3> DEFINE A == 0..k
        <3>4. Descends(next, A, S)
          BY <3>1 DEF Descends
        <3>5. FromSmaller(f, A, S, next, start, step) /\ FromSmaller(g, A, S, next, start, step)
          BY <3>2, <3>3 DEF FromSmaller
        <3> HIDE DEF A
        <3>6. \A m \in A : f[m] = g[m]
          BY <3>4, <3>5, SmallerRecursionAgrees
        <3> QED
          BY <3>3, <3>6 DEF f, g, A
      <2>3. next[n] \in Nat
        OBVIOUS
      <2> QED
        BY <2>1, <2>2, <2>3
    <1> HIDE DEF all
    <1> QED
      BY <1>4, <1>5 DEF FromSmaller

===============================================================================
