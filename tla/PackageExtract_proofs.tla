------------------------- MODULE PackageExtract_proofs -------------------------
(***************************************************************************)
(* The reader of an archive and the extraction of a package, for any       *)
(* archive, any limits and any contents of the target directory.           *)
(***************************************************************************)
EXTENDS PackageExtract, Induction, FiniteSetTheorems, SequenceTheorems, TLAPS

-------------------------------------------------------------------------------
(* Excluding() and the directories of a path                                   *)

\* The recursion that Excluding() stands for.
IsKept(kept, seq, set) ==
  /\ kept[0] = <<>>
  /\ \A i \in 1 .. Len(seq) :
       kept[i] = IF seq[i] \in set THEN kept[i - 1] ELSE Append(kept[i - 1], seq[i])
  /\ Excluding(seq, set) = kept[Len(seq)]

LEMMA ExcludingKept ==
    ASSUME NEW U, NEW seq \in Seq(U), NEW set
    PROVE  \E kept : IsKept(kept, seq, set) /\ \A i \in 0 .. Len(seq) : kept[i] \in Seq(U)
    <1> DEFINE n == Len(seq)
               T == Seq(U)
               base == <<>>
               rule(prev, i) == IF seq[i] \in set THEN prev ELSE Append(prev, seq[i])
               step == [pair \in T \X (1 .. n) |-> rule(pair[1], pair[2])]
               Def(f) == f = [i \in 0 .. n |-> IF i = 0 THEN base ELSE rule(f[i - 1], i)]
               kept == CHOOSE f : Def(f)
    <1>0. n \in Nat /\ base \in T
      OBVIOUS
    <1>1. ASSUME NEW prev \in T, NEW i \in 1 .. n PROVE rule(prev, i) \in T
      BY ElementOfSeq, AppendProperties
    <1>2. Excluding(seq, set) = kept[n]
      BY Zenon DEF Excluding
    <1>3. SUFFICES /\ kept[0] = base /\ \A i \in 1 .. n : kept[i] = rule(kept[i - 1], i)
                   /\ \A i \in 0 .. n : kept[i] \in T
      <2> HIDE DEF kept
      <2> QED
        BY <1>2, <1>3 DEF IsKept
    <1> HIDE DEF n, T, base, rule, kept
    <1>4. \E f : Def(f)
      <2>1. step \in [T \X (1 .. n) -> T]
        BY <1>1
      <2>2. ASSUME NEW prev \in T, NEW i \in 1 .. n PROVE step[<<prev, i>>] = rule(prev, i)
        OBVIOUS
      <2> HIDE DEF step
      <2>3. PICK f : IsRecursive(f, n, T, base, step)
        BY <1>0, <2>1, RecursionExists
      <2>4. ASSUME NEW i \in 1 .. n PROVE f[i] = rule(f[i - 1], i)
        <3>1. i - 1 \in 0 .. n
          BY <1>0
        <3> QED
          BY <2>2, <2>3, <3>1 DEF IsRecursive
      <2>5. ASSUME NEW i \in 0 .. n PROVE f[i] = IF i = 0 THEN base ELSE rule(f[i - 1], i)
        <3>1. i # 0 => i \in 1 .. n
          BY <1>0
        <3> QED
          BY <2>3, <2>4, <3>1 DEF IsRecursive
      <2>6. f = [i \in 0 .. n |-> IF i = 0 THEN base ELSE rule(f[i - 1], i)]
        BY <2>3, <2>5 DEF IsRecursive
      <2> QED
        BY <2>6
    <1>5. Def(kept)
      BY <1>4, Zenon DEF kept
    <1>6. kept[0] = base
      BY <1>0, <1>5
    <1>7. ASSUME NEW i \in 1 .. n PROVE kept[i] = rule(kept[i - 1], i)
      <2>1. i \in 0 .. n /\ i # 0
        BY <1>0
      <2> QED
        BY <1>5, <2>1
    <1>8. \A i \in 0 .. n : kept[i] \in T
      BY <1>0, <1>1, <1>6, <1>7, RecursionType
    <1> QED
      BY <1>6, <1>7, <1>8

\* The elements of part are elements of seq up to a position, in their order, and
\* all of those that are not in the set; at says where they are.
Selects(at, part, seq, set, n) ==
  /\ at \in [1 .. Len(part) -> 1 .. n]
  /\ \A a \in 1 .. Len(part) : part[a] = seq[at[a]] /\ part[a] \notin set
  /\ \A a, b \in 1 .. Len(part) : a < b => at[a] < at[b]
  /\ \A i \in 1 .. n : seq[i] \notin set => \E a \in 1 .. Len(part) : at[a] = i

LEMMA ExcludingSelects ==
    ASSUME NEW U, NEW seq \in Seq(U), NEW set
    PROVE  /\ Excluding(seq, set) \in Seq(U)
           /\ \E at : Selects(at, Excluding(seq, set), seq, set, Len(seq))
    <1> DEFINE n == Len(seq)
    <1>0. n \in Nat
      OBVIOUS
    <1>1. PICK kept : IsKept(kept, seq, set) /\ \A i \in 0 .. n : kept[i] \in Seq(U)
      BY ExcludingKept
    <1> DEFINE S == {i \in 0 .. n : \E at : Selects(at, kept[i], seq, set, i)}
    <1>2. 0 \in S
      <2> DEFINE at == [a \in {} |-> a]
      <2>1. kept[0] = <<>>
        BY <1>1 DEF IsKept
      <2>2. 1 .. 0 = {} /\ Len(<<>>) = 0
        OBVIOUS
      <2>3. Selects(at, <<>>, seq, set, 0)
        BY <2>2 DEF Selects
      <2> HIDE DEF at
      <2> QED
        BY <1>0, <2>1, <2>3
    <1>3. ASSUME NEW i \in 1 .. n, i - 1 \in S PROVE i \in S
      <2>0. i \in 0 .. n /\ i - 1 \in 0 .. n /\ i \in Nat
        BY <1>0
      <2> DEFINE prev == kept[i - 1]
      <2>1. PICK at : Selects(at, prev, seq, set, i - 1)
        BY <1>3
      <2>2. prev \in Seq(U) /\ Len(prev) \in Nat
        BY <1>1, <2>0
      <2>3. seq[i] \in U
        BY ElementOfSeq
      <2>4. kept[i] = IF seq[i] \in set THEN prev ELSE Append(prev, seq[i])
        BY <1>1 DEF IsKept
      <2> HIDE DEF prev, n
      <2>5. CASE seq[i] \in set
        <3>1. kept[i] = prev
          BY <2>4, <2>5
        <3>2. 1 .. (i - 1) \subseteq 1 .. i /\ \A k \in 1 .. i : k # i => k \in 1 .. (i - 1)
          BY <2>0
        <3>3. Selects(at, prev, seq, set, i)
          BY <2>1, <2>5, <3>2 DEF Selects
        <3> QED
          BY <2>0, <3>1, <3>3
      <2>6. CASE seq[i] \notin set
        <3> DEFINE part == Append(prev, seq[i])
                   m == Len(prev)
                   next == [a \in 1 .. (m + 1) |-> IF a = m + 1 THEN i ELSE at[a]]
        <3>1. kept[i] = part
          BY <2>4, <2>6
        <3>2. Len(part) = m + 1 /\ part[m + 1] = seq[i] /\ \A a \in 1 .. m : part[a] = prev[a]
          BY <2>2, <2>3, AppendProperties
        <3>3. \A a \in 1 .. (m + 1) : a # m + 1 => a \in 1 .. m
          BY <2>2
        <3> HIDE DEF part
        <3>4. /\ at \in [1 .. m -> 1 .. (i - 1)]
              /\ \A a \in 1 .. m : prev[a] = seq[at[a]] /\ prev[a] \notin set
              /\ \A a, b \in 1 .. m : a < b => at[a] < at[b]
              /\ \A k \in 1 .. (i - 1) : seq[k] \notin set => \E a \in 1 .. m : at[a] = k
          BY <2>1 DEF Selects
        <3>5. m \in Nat
          BY <2>2
        <3> HIDE DEF m
        <3>6. next \in [1 .. (m + 1) -> 1 .. i]
          BY <2>0, <3>3, <3>4, <3>5
        <3>7. ASSUME NEW a \in 1 .. (m + 1) PROVE part[a] = seq[next[a]] /\ part[a] \notin set
          BY <2>6, <3>2, <3>3, <3>4, <3>5
        <3>8. ASSUME NEW a \in 1 .. (m + 1), NEW b \in 1 .. (m + 1), a < b PROVE next[a] < next[b]
          <4>1. a \in 1 .. m /\ at[a] \in 1 .. (i - 1) /\ next[a] = at[a]
            BY <3>4, <3>5, <3>8
          <4>2. CASE b = m + 1
            BY <2>0, <4>1, <4>2
          <4>3. CASE b # m + 1
            BY <3>3, <3>4, <3>8, <4>1, <4>3
          <4> QED
            BY <4>2, <4>3
        <3>9. ASSUME NEW k \in 1 .. i, seq[k] \notin set PROVE \E a \in 1 .. (m + 1) : next[a] = k
          <4>1. CASE k = i
            <5>1. m + 1 \in 1 .. (m + 1) /\ next[m + 1] = i
              BY <3>5
            <5> QED
              BY <4>1, <5>1
          <4>2. CASE k # i
            <5>1. k \in 1 .. (i - 1)
              BY <2>0, <4>2
            <5>2. PICK a \in 1 .. m : at[a] = k
              BY <3>4, <3>9, <5>1
            <5>3. a \in 1 .. (m + 1) /\ a # m + 1
              BY <3>5
            <5> QED
              BY <5>2, <5>3
          <4> QED
            BY <4>1, <4>2
        <3> HIDE DEF next
        <3>10. Selects(next, part, seq, set, i)
          BY <3>2, <3>6, <3>7, <3>8, <3>9 DEF Selects
        <3> QED
          BY <2>0, <3>1, <3>10
      <2> QED
        BY <2>5, <2>6
    <1> HIDE DEF S
    <1>4. 0 .. n \subseteq S
      BY <1>0, <1>2, <1>3, BoundedInduction
    <1>5. n \in S /\ n \in 0 .. n
      BY <1>0, <1>4
    <1>6. Excluding(seq, set) = kept[n]
      BY <1>1 DEF IsKept
    <1> QED
      BY <1>1, <1>5, <1>6 DEF S

\* A beginning without elements of the set stays as it is.
LEMMA ExcludingNothing ==
    ASSUME NEW U, NEW seq \in Seq(U), NEW set
    PROVE  /\ (\A i \in 1 .. Len(seq) : seq[i] \notin set) => Excluding(seq, set) = seq
           /\ (/\ Len(seq) # 0 /\ seq[Len(seq)] \in set
               /\ \A i \in 1 .. (Len(seq) - 1) : seq[i] \notin set) =>
                 Excluding(seq, set) = SubSeq(seq, 1, Len(seq) - 1)
    <1> DEFINE n == Len(seq)
    <1>0. n \in Nat
      OBVIOUS
    <1>1. PICK kept : IsKept(kept, seq, set) /\ \A i \in 0 .. n : kept[i] \in Seq(U)
      BY ExcludingKept
    <1>2. ASSUME NEW m \in 0 .. n, \A i \in 1 .. m : seq[i] \notin set
          PROVE  kept[m] = SubSeq(seq, 1, m)
      <2> DEFINE S == {i \in 0 .. m : kept[i] = SubSeq(seq, 1, i)}
      <2>1. 0 \in S
        <3>1. SubSeq(seq, 1, 0) = <<>>
          BY SubSeqProperties
        <3> QED
          BY <1>1, <3>1 DEF IsKept
      <2>2. ASSUME NEW i \in 1 .. m, i - 1 \in S PROVE i \in S
        <3>1. i \in 1 .. n /\ i \in 0 .. m /\ seq[i] \notin set
          BY <1>0, <1>2
        <3>2. kept[i] = Append(SubSeq(seq, 1, i - 1), seq[i])
          BY <1>1, <2>2, <3>1 DEF IsKept
        <3>3. Append(SubSeq(seq, 1, i - 1), seq[i]) = SubSeq(seq, 1, i)
          BY <1>0, <3>1, SubSeqRecursiveSecond
        <3> QED
          BY <3>1, <3>2, <3>3
      <2> HIDE DEF S
      <2>3. m \in Nat
        BY <1>0
      <2>4. 0 .. m \subseteq S
        BY <2>1, <2>2, <2>3, BoundedInduction
      <2>5. m \in S
        BY <2>3, <2>4
      <2> QED
        BY <2>5 DEF S
    <1>3. ASSUME \A i \in 1 .. n : seq[i] \notin set PROVE Excluding(seq, set) = seq
      <2>1. kept[n] = SubSeq(seq, 1, n)
        BY <1>0, <1>2, <1>3
      <2>2. SubSeq(seq, 1, n) = seq
        BY SubSeqFull
      <2> QED
        BY <1>1, <2>1, <2>2 DEF IsKept
    <1>4. ASSUME n # 0, seq[n] \in set, \A i \in 1 .. (n - 1) : seq[i] \notin set
          PROVE  Excluding(seq, set) = SubSeq(seq, 1, n - 1)
      <2>1. n - 1 \in 0 .. n /\ n \in 1 .. n
        BY <1>0, <1>4
      <2>2. kept[n - 1] = SubSeq(seq, 1, n - 1)
        BY <1>2, <1>4, <2>1
      <2>3. kept[n] = kept[n - 1]
        BY <1>1, <1>4, <2>1 DEF IsKept
      <2> QED
        BY <1>1, <2>2, <2>3 DEF IsKept
    <1> QED
      BY <1>3, <1>4

Clean(path) == \A i \in 1 .. Len(path) : path[i] \notin {".", ""}

\* The beginnings of a sequence.
LEMMA Beginning ==
    ASSUME NEW U, NEW seq \in Seq(U), NEW k \in 0 .. Len(seq)
    PROVE  /\ SubSeq(seq, 1, k) \in Seq(U) /\ Len(SubSeq(seq, 1, k)) = k
           /\ \A i \in 1 .. k : SubSeq(seq, 1, k)[i] = seq[i]
           /\ \A l \in 0 .. k : SubSeq(SubSeq(seq, 1, k), 1, l) = SubSeq(seq, 1, l)
    <1>0. Len(seq) \in Nat /\ k \in Nat
      OBVIOUS
    <1>1. \A m \in 0 .. Len(seq) :
             /\ SubSeq(seq, 1, m) \in Seq(U) /\ Len(SubSeq(seq, 1, m)) = m
             /\ \A i \in 1 .. m : SubSeq(seq, 1, m)[i] = seq[i]
      <2> SUFFICES ASSUME NEW m \in 0 .. Len(seq)
                   PROVE  /\ SubSeq(seq, 1, m) \in Seq(U) /\ Len(SubSeq(seq, 1, m)) = m
                          /\ \A i \in 1 .. m : SubSeq(seq, 1, m)[i] = seq[i]
        OBVIOUS
      <2>1. \A i \in 1 .. m : seq[i] \in U
        BY <1>0, ElementOfSeq
      <2>2. m \in Int /\ 1 \in Int
        BY <1>0
      <2>3. /\ SubSeq(seq, 1, m) \in Seq(U)
            /\ Len(SubSeq(seq, 1, m)) = IF 1 <= m THEN m - 1 + 1 ELSE 0
            /\ \A i \in 1 .. m - 1 + 1 : SubSeq(seq, 1, m)[i] = seq[1 + i - 1]
        BY <2>1, <2>2, SubSeqProperties
      <2> QED
        BY <1>0, <2>3
    <1>2. ASSUME NEW l \in 0 .. k PROVE SubSeq(SubSeq(seq, 1, k), 1, l) = SubSeq(seq, 1, l)
      <2> DEFINE s == SubSeq(seq, 1, k)
                 a == SubSeq(s, 1, l)
                 b == SubSeq(seq, 1, l)
      <2>1. s \in Seq(U) /\ Len(s) = k /\ \A i \in 1 .. k : s[i] = seq[i]
        BY <1>1
      <2>2. b \in Seq(U) /\ Len(b) = l /\ \A i \in 1 .. l : b[i] = seq[i]
        BY <1>0, <1>1
      <2> HIDE DEF s, b
      <2>3. a \in Seq(U) /\ Len(a) = l /\ \A i \in 1 .. l : a[i] = s[i]
        <3>1. \A i \in 1 .. l : s[i] \in U
          BY <1>0, <2>1, ElementOfSeq
        <3>2. /\ a \in Seq(U) /\ Len(a) = IF 1 <= l THEN l - 1 + 1 ELSE 0
              /\ \A i \in 1 .. l - 1 + 1 : a[i] = s[1 + i - 1]
          BY <1>0, <3>1, SubSeqProperties
        <3> QED
          BY <1>0, <3>2
      <2> HIDE DEF a
      <2>4. \A i \in 1 .. Len(a) : a[i] = b[i]
        BY <1>0, <2>1, <2>2, <2>3
      <2>5. a = b
        BY <2>2, <2>3, <2>4, SeqEqual
      <2> QED
        BY <2>5 DEF a, b, s
    <1> QED
      BY <1>1, <1>2

\* The names of the components of a normal path are a beginning of it.
LEMMA NamedNormal ==
    ASSUME NEW path \in Seq(STRING), NormalPath(path)
    PROVE  /\ Named(path) \in Seq(STRING) /\ Clean(Named(path))
           /\ Len(Named(path)) <= Len(path)
           /\ \A i \in 1 .. Len(Named(path)) : Named(path)[i] = path[i]
    <1> DEFINE n == Len(path)
    <1>0. n \in Nat
      OBVIOUS
    <1>1. ASSUME NEW i \in 1 .. n - 1 PROVE path[i] \notin {".", ""}
      <2> HIDE DEF n
      <2>1. i \in 1 .. n /\ i # n
        BY <1>0
      <2> QED
        BY <2>1 DEF NormalPath, n
    <1>2. CASE Clean(path)
      <2>1. Named(path) = path
        BY <1>2, ExcludingNothing DEF Named, Clean
      <2> QED
        BY <1>2, <2>1
    <1>3. CASE ~Clean(path)
      <2>1. PICK k \in 1 .. n : path[k] \in {".", ""}
        BY <1>3 DEF Clean
      <2>2. n # 0 /\ path[n] \in {".", ""} /\ n - 1 \in 0 .. n
        <3> HIDE DEF n
        <3>1. k # n => k \in 1 .. n - 1
          BY <1>0
        <3>2. k = n
          BY <1>1, <2>1, <3>1, Zenon
        <3>3. n # 0 /\ n - 1 \in 0 .. n
          BY <1>0, <3>2
        <3> QED
          BY <2>1, <3>2, <3>3
      <2>3. Named(path) = SubSeq(path, 1, n - 1)
        BY <1>1, <2>2, ExcludingNothing DEF Named
      <2>4. /\ Named(path) \in Seq(STRING) /\ Len(Named(path)) = n - 1
            /\ \A i \in 1 .. n - 1 : Named(path)[i] = path[i]
        <3> DEFINE m == n - 1
        <3>1. m \in 0 .. Len(path) /\ Named(path) = SubSeq(path, 1, m)
          BY <2>2, <2>3
        <3> HIDE DEF m
        <3>2. /\ Named(path) \in Seq(STRING) /\ Len(Named(path)) = m
              /\ \A i \in 1 .. m : Named(path)[i] = path[i]
          BY <3>1, Beginning
        <3> QED
          BY <3>2 DEF m
      <2>5. Clean(Named(path))
        <3> SUFFICES ASSUME NEW i \in 1 .. n - 1 PROVE Named(path)[i] \notin {".", ""}
          BY <2>4 DEF Clean
        <3> QED
          BY <1>1, <2>4
      <2>6. n - 1 <= n
        <3> HIDE DEF n
        <3> QED
          BY <1>0
      <2> QED
        BY <2>4, <2>5, <2>6
    <1> QED
      BY <1>2, <1>3

\* The directories of a path: the beginnings of its names; and their parents.
DirectoryFacts(dirs, path) ==
  /\ dirs \in Seq(Seq(STRING)) /\ Len(dirs) <= Len(path)
  /\ \A k \in 1 .. Len(dirs) :
       /\ Clean(dirs[k]) /\ Len(dirs[k]) = k
       /\ \A i \in 1 .. k : dirs[k][i] = path[i]
       /\ DOMAIN DirectoriesOf(ParentPath(dirs[k])) = 1 .. k - 1
       /\ \A l \in 1 .. k - 1 : DirectoriesOf(ParentPath(dirs[k]))[l] = dirs[l]

LEMMA Directories ==
    ASSUME NEW path \in Seq(STRING), NormalPath(path)
    PROVE  DirectoryFacts(DirectoriesOf(path), path)
    <1> DEFINE N == Named(path)
               dirs == DirectoriesOf(path)
    <1>1. /\ N \in Seq(STRING) /\ Clean(N) /\ Len(N) <= Len(path)
          /\ \A i \in 1 .. Len(N) : N[i] = path[i]
      BY NamedNormal
    <1>2. dirs = [k \in 1 .. Len(N) |-> SubSeq(N, 1, k)]
      BY DEF DirectoriesOf
    <1> HIDE DEF N, dirs
    <1>3. Len(N) \in Nat
      BY <1>1
    <1>4. \A k \in 0 .. Len(N) :
             /\ SubSeq(N, 1, k) \in Seq(STRING) /\ Len(SubSeq(N, 1, k)) = k
             /\ \A i \in 1 .. k : SubSeq(N, 1, k)[i] = N[i]
             /\ \A l \in 0 .. k : SubSeq(SubSeq(N, 1, k), 1, l) = SubSeq(N, 1, l)
      BY <1>1, Beginning
    <1>5. dirs \in Seq(Seq(STRING)) /\ Len(dirs) = Len(N)
      <2> DEFINE P == Seq(STRING)
      <2>1. \A k \in 1 .. Len(N) : SubSeq(N, 1, k) \in P
        BY <1>3, <1>4
      <2> HIDE DEF P
      <2>2. dirs \in Seq(P)
        BY <1>2, <1>3, <2>1, IsASeq
      <2>3. DOMAIN dirs = 1 .. Len(N)
        BY <1>2
      <2>4. Len(dirs) = Len(N)
        BY <1>3, <2>2, <2>3, LenProperties
      <2> QED
        BY <2>2, <2>4 DEF P
    <1>6. ASSUME NEW k \in 1 .. Len(N)
          PROVE  /\ Clean(dirs[k]) /\ Len(dirs[k]) = k
                 /\ \A i \in 1 .. k : dirs[k][i] = path[i]
                 /\ DOMAIN DirectoriesOf(ParentPath(dirs[k])) = 1 .. k - 1
                 /\ \A l \in 1 .. k - 1 : DirectoriesOf(ParentPath(dirs[k]))[l] = dirs[l]
      <2>0. k \in 0 .. Len(N) /\ k - 1 \in 0 .. Len(N) /\ k - 1 \in 0 .. k
        BY <1>3
      <2>1. /\ dirs[k] = SubSeq(N, 1, k) /\ Len(dirs[k]) = k
            /\ \A i \in 1 .. k : dirs[k][i] = N[i]
        BY <1>2, <1>4, <2>0
      <2> DEFINE M == SubSeq(N, 1, k - 1)
      <2>2. ParentPath(dirs[k]) = M
        BY <1>4, <2>0, <2>1 DEF ParentPath
      <2>3. /\ M \in Seq(STRING) /\ Len(M) = k - 1
            /\ \A i \in 1 .. k - 1 : M[i] = N[i]
            /\ \A l \in 0 .. k - 1 : SubSeq(M, 1, l) = SubSeq(N, 1, l)
        BY <1>4, <2>0
      <2> HIDE DEF M
      <2>a. 1 .. k \subseteq 1 .. Len(N) /\ 1 .. k - 1 \subseteq 1 .. Len(N)
        BY <1>3
      <2>4. \A i \in 1 .. Len(M) : M[i] \notin {".", ""}
        <3> SUFFICES ASSUME NEW i \in 1 .. k - 1 PROVE M[i] \notin {".", ""}
          BY <2>3
        <3>1. i \in 1 .. Len(N) /\ M[i] = N[i]
          BY <2>a, <2>3
        <3> QED
          BY <1>1, <3>1 DEF Clean
      <2>5. Named(M) = M
        BY <2>3, <2>4, ExcludingNothing DEF Named
      <2>6. DirectoriesOf(M) = [l \in 1 .. k - 1 |-> SubSeq(M, 1, l)]
        BY <2>3, <2>5 DEF DirectoriesOf
      <2>7. ASSUME NEW l \in 1 .. k - 1 PROVE DirectoriesOf(M)[l] = dirs[l]
        <3>1. l \in 0 .. k - 1 /\ l \in 1 .. Len(N)
          BY <1>3
        <3> QED
          BY <1>2, <2>3, <2>6, <3>1
      <2>8. Clean(dirs[k])
        <3> SUFFICES ASSUME NEW i \in 1 .. k PROVE dirs[k][i] \notin {".", ""}
          BY <2>1 DEF Clean
        <3>1. i \in 1 .. Len(N) /\ dirs[k][i] = N[i]
          BY <2>a, <2>1
        <3> QED
          BY <1>1, <3>1 DEF Clean
      <2>9. \A i \in 1 .. k : dirs[k][i] = path[i]
        BY <1>1, <2>a, <2>1
      <2> QED
        BY <2>1, <2>2, <2>6, <2>7, <2>8, <2>9
    <1> QED
      BY <1>1, <1>5, <1>6 DEF DirectoryFacts, dirs

\* The parent of a normal path.
LEMMA ParentNormal ==
    ASSUME NEW path \in Seq(STRING), NormalPath(path), path # <<>>
    PROVE  /\ ParentPath(path) \in Seq(STRING) /\ NormalPath(ParentPath(path)) /\ Clean(ParentPath(path))
           /\ Len(ParentPath(path)) = Len(path) - 1
           /\ \A i \in 1 .. Len(path) - 1 : ParentPath(path)[i] = path[i]
    <1>1. Len(path) \in Nat /\ Len(path) # 0
      BY EmptySeq
    <1>2. Len(path) - 1 \in 0 .. Len(path)
      BY <1>1
    <1> DEFINE n == Len(path)
               P == ParentPath(path)
    <1>3. P \in Seq(STRING) /\ Len(P) = n - 1 /\ \A i \in 1 .. n - 1 : P[i] = path[i]
      BY <1>2, Beginning DEF ParentPath
    <1> HIDE DEF P
    <1>4. ASSUME NEW i \in 1 .. n - 1 PROVE path[i] \notin {".", ""}
      <2>0. n \in Nat
        BY <1>1
      <2> HIDE DEF n
      <2>1. i \in 1 .. n /\ i # n
        BY <2>0
      <2> QED
        BY <2>1 DEF NormalPath, n
    <1>5. Clean(P)
      <2> SUFFICES ASSUME NEW i \in 1 .. n - 1 PROVE P[i] \notin {".", ""}
        BY <1>3 DEF Clean
      <2> QED
        BY <1>3, <1>4
    <1>6. NormalPath(P)
      BY <1>5 DEF Clean, NormalPath
    <1> QED
      BY <1>3, <1>5, <1>6 DEF P

-------------------------------------------------------------------------------
(* updateParentEntryStack                                                      *)

\* What is queued for a path: directories that are not in the tree, each after
\* its parents; all of them unless there are too many.
QueueFacts(queue, root, path, all) ==
  /\ queue \in Seq(EntryTypes)
  /\ \A i \in 1 .. Len(queue) :
       /\ queue[i] = DirectoryEntry(queue[i].path)
       /\ queue[i].path \notin root
       /\ Clean(queue[i].path) /\ queue[i].path # <<>>
       /\ IsPrefixPath(queue[i].path, path)
       /\ \A k \in DOMAIN DirectoriesOf(ParentPath(queue[i].path)) :
            \/ DirectoriesOf(ParentPath(queue[i].path))[k] \in root
            \/ \E j \in 1 .. i - 1 : queue[j].path = DirectoriesOf(ParentPath(queue[i].path))[k]
  /\ \A i, j \in 1 .. Len(queue) : queue[i].path = queue[j].path => i = j
  /\ all => \A k \in DOMAIN DirectoriesOf(path) :
              \/ DirectoriesOf(path)[k] \in root
              \/ \E j \in 1 .. Len(queue) : queue[j].path = DirectoriesOf(path)[k]

LEMMA DirectoryEntryType ==
    ASSUME NEW path \in Seq(STRING)
    PROVE  DirectoryEntry(path) \in EntryTypes /\ DirectoryEntry(path).path = path
           /\ DirectoryEntry(path).type = "directory"
    BY LimitsAssumption, EmptySeq DEF DirectoryEntry, Entry, EntryTypes, Digests

\* How many of the new directories fit.
LEMMA Fitting ==
    ASSUME TypeOK, NEW n \in Nat
    PROVE  LET fit == Cardinality({i \in 1 .. n : ~TooMany(i)})
           IN  /\ fit \in 0 .. n
               /\ \A i \in 1 .. n : i <= fit <=> ~TooMany(i)
    <1> DEFINE room == m_maxArchiveDirectories - m_fstreeSize + 1
               fit == Cardinality({i \in 1 .. n : ~TooMany(i)})
    <1>1. m_maxArchiveDirectories \in Nat /\ m_fstreeSize \in Nat /\ room \in Int
      BY LimitsAssumption DEF TypeOK
    <1>2. \A i \in 1 .. n : ~TooMany(i) <=> i <= room
      BY <1>1 DEF TooMany
    <1> HIDE DEF room
    <1>3. CASE room <= 0
      <2>1. {i \in 1 .. n : ~TooMany(i)} = {}
        BY <1>1, <1>2, <1>3
      <2>2. fit = 0
        BY <2>1, FS_EmptySet
      <2> HIDE DEF fit
      <2> QED
        BY <1>1, <1>2, <1>3, <2>2 DEF fit
    <1>4. CASE room > 0
      <2> DEFINE m == IF room <= n THEN room ELSE n
      <2>1. m \in 1 .. n \/ (n = 0 /\ m = 0)
        BY <1>1, <1>4
      <2>2. {i \in 1 .. n : ~TooMany(i)} = 1 .. m
        BY <1>1, <1>2, <1>4
      <2>3. m \in Nat
        BY <1>1, <1>4
      <2>4. \A i \in 1 .. n : i <= m <=> i <= room
        BY <1>1, <1>4
      <2> HIDE DEF m
      <2>5. Cardinality(1 .. m) = IF 1 > m THEN 0 ELSE m - 1 + 1
        BY <2>3, FS_Interval
      <2>6. fit = m
        <3>1. fit = Cardinality(1 .. m)
          BY <2>2
        <3> QED
          BY <2>3, <2>5, <3>1
      <2> HIDE DEF fit
      <2>7. fit \in 0 .. n
        BY <2>1, <2>3, <2>6
      <2>8. \A i \in 1 .. n : i <= fit <=> ~TooMany(i)
        BY <1>2, <2>4, <2>6
      <2> QED
        BY <2>7, <2>8 DEF fit
    <1> QED
      BY <1>1, <1>3, <1>4

LEMMA Queued ==
    ASSUME TypeOK, NEW path \in Seq(STRING), NormalPath(path)
    PROVE  QueueFacts(QueuedParents(path), m_fstreeRoot, path, ~TooManyDirectories(path))
    <1> DEFINE all == DirectoriesOf(path)
               dirs == NewDirectories(path)
               fit == Cardinality({i \in 1 .. Len(dirs) : ~TooMany(i)})
               queue == QueuedParents(path)
               root == m_fstreeRoot
    <1>1. /\ all \in Seq(Seq(STRING)) /\ Len(all) <= Len(path)
          /\ \A k \in 1 .. Len(all) :
               /\ Clean(all[k]) /\ Len(all[k]) = k
               /\ \A i \in 1 .. k : all[k][i] = path[i]
               /\ DOMAIN DirectoriesOf(ParentPath(all[k])) = 1 .. k - 1
               /\ \A l \in 1 .. k - 1 : DirectoriesOf(ParentPath(all[k]))[l] = all[l]
      BY Directories DEF DirectoryFacts
    <1> DEFINE P == Seq(STRING)
    <1>2. dirs \in Seq(P) /\ \E at : Selects(at, dirs, all, root, Len(all))
      <2>1. all \in Seq(P)
        BY <1>1
      <2> HIDE DEF P, all
      <2>2. dirs = Excluding(all, root)
        BY DEF NewDirectories, all
      <2> HIDE DEF dirs, root
      <2> QED
        BY <2>1, <2>2, ExcludingSelects
    <1>3. PICK at : Selects(at, dirs, all, root, Len(all))
      BY <1>2
    <1>4. Len(dirs) \in Nat /\ DOMAIN dirs = 1 .. Len(dirs) /\ DOMAIN all = 1 .. Len(all) /\ Len(all) \in Nat
      <2> HIDE DEF dirs, P
      <2>1. Len(dirs) \in Nat /\ DOMAIN dirs = 1 .. Len(dirs)
        BY <1>2, LenProperties
      <2>2. Len(all) \in Nat /\ DOMAIN all = 1 .. Len(all)
        BY <1>1, LenProperties
      <2> QED
        BY <2>1, <2>2
    <1>5. queue = [i \in 1 .. fit |-> DirectoryEntry(dirs[i])]
      BY DEF QueuedParents
    <1>6. fit \in 0 .. Len(dirs) /\ \A i \in 1 .. Len(dirs) : i <= fit <=> ~TooMany(i)
      BY <1>4, Fitting
    <1>7. TooManyDirectories(path) <=> \E i \in 1 .. Len(dirs) : TooMany(i)
      BY DEF TooManyDirectories
    <1>8. /\ at \in [1 .. Len(dirs) -> 1 .. Len(all)]
          /\ \A a \in 1 .. Len(dirs) : dirs[a] = all[at[a]] /\ dirs[a] \notin root
          /\ \A a, b \in 1 .. Len(dirs) : a < b => at[a] < at[b]
          /\ \A i \in 1 .. Len(all) : all[i] \notin root => \E a \in 1 .. Len(dirs) : at[a] = i
      BY <1>3 DEF Selects
    <1> HIDE DEF all, dirs, fit, queue, root
    <1>9. fit \in Nat /\ 1 .. fit \subseteq 1 .. Len(dirs)
      BY <1>4, <1>6
    <1>10. ASSUME NEW i \in 1 .. Len(dirs)
           PROVE  /\ dirs[i] \in P /\ DirectoryEntry(dirs[i]) \in EntryTypes
                  /\ DirectoryEntry(dirs[i]).path = dirs[i]
      <2>1. dirs[i] \in P
        <3> HIDE DEF P
        <3> QED
          BY <1>2, ElementOfSeq
      <2> QED
        BY <2>1, DirectoryEntryType
    <1>11. /\ queue \in Seq(EntryTypes) /\ Len(queue) = fit
           /\ \A i \in 1 .. fit : queue[i] = DirectoryEntry(dirs[i]) /\ queue[i].path = dirs[i]
      <2> DEFINE E == EntryTypes
      <2>1. \A i \in 1 .. fit : DirectoryEntry(dirs[i]) \in E
        BY <1>9, <1>10
      <2> HIDE DEF E
      <2>2. queue \in Seq(E)
        BY <1>5, <1>9, <2>1, IsASeq
      <2>3. DOMAIN queue = 1 .. fit
        BY <1>5
      <2>4. Len(queue) = fit
        BY <1>9, <2>2, <2>3, LenProperties
      <2>5. \A i \in 1 .. fit : queue[i] = DirectoryEntry(dirs[i]) /\ queue[i].path = dirs[i]
        BY <1>5, <1>9, <1>10
      <2> QED
        BY <2>2, <2>4, <2>5 DEF E
    <1>12. \A a, b \in 1 .. Len(dirs) : dirs[a] = dirs[b] => a = b
      <2> SUFFICES ASSUME NEW a \in 1 .. Len(dirs), NEW b \in 1 .. Len(dirs), dirs[a] = dirs[b], a < b
                   PROVE  FALSE
        BY <1>4
      <2>1. at[a] \in 1 .. Len(all) /\ at[b] \in 1 .. Len(all) /\ at[a] < at[b]
        BY <1>8
      <2>2. Len(all[at[a]]) = at[a] /\ Len(all[at[b]]) = at[b]
        BY <1>1, <2>1
      <2>3. at[a] = at[b]
        BY <1>8, <2>2
      <2> QED
        BY <1>4, <2>1, <2>3
    <1>13. ASSUME NEW i \in 1 .. fit
           PROVE  /\ queue[i] = DirectoryEntry(queue[i].path)
                  /\ queue[i].path \notin root
                  /\ Clean(queue[i].path) /\ queue[i].path # <<>>
                  /\ IsPrefixPath(queue[i].path, path)
                  /\ \A k \in DOMAIN DirectoriesOf(ParentPath(queue[i].path)) :
                       \/ DirectoriesOf(ParentPath(queue[i].path))[k] \in root
                       \/ \E j \in 1 .. i - 1 : queue[j].path = DirectoriesOf(ParentPath(queue[i].path))[k]
      <2> DEFINE n == at[i]
                 d == queue[i].path
      <2>1. i \in 1 .. Len(dirs)
        BY <1>9
      <2>2. d = dirs[i] /\ d = all[n] /\ n \in 1 .. Len(all) /\ d \notin root
        BY <1>8, <1>11, <2>1
      <2>3. queue[i] = DirectoryEntry(d)
        BY <1>11
      <2> HIDE DEF d, n
      <2>4. /\ Clean(d) /\ Len(d) = n /\ \A a \in 1 .. n : d[a] = path[a]
            /\ DOMAIN DirectoriesOf(ParentPath(d)) = 1 .. n - 1
            /\ \A l \in 1 .. n - 1 : DirectoriesOf(ParentPath(d))[l] = all[l]
        BY <1>1, <2>2
      <2>5. n \in Nat /\ n # 0 /\ n <= Len(all)
        BY <1>4, <2>2
      <2>6. d # <<>>
        BY <2>4, <2>5
      <2>7. IsPrefixPath(d, path)
        <3>1. n <= Len(path)
          <4>1. Len(path) \in Nat
            OBVIOUS
          <4> QED
            BY <1>1, <1>4, <2>5, <4>1
        <3> QED
          BY <2>4, <3>1 DEF IsPrefixPath
      <2>8. ASSUME NEW k \in DOMAIN DirectoriesOf(ParentPath(d)), DirectoriesOf(ParentPath(d))[k] \notin root
            PROVE  \E j \in 1 .. i - 1 : queue[j].path = DirectoriesOf(ParentPath(d))[k]
        <3>1. k \in 1 .. n - 1 /\ DirectoriesOf(ParentPath(d))[k] = all[k]
          BY <2>4
        <3>2. k \in 1 .. Len(all) /\ k < n
          BY <1>4, <2>5, <3>1
        <3>3. PICK a \in 1 .. Len(dirs) : at[a] = k
          BY <1>8, <2>8, <3>1, <3>2
        <3>4. a < i
          <4>1. ~(i < a) /\ i # a
            BY <1>4, <1>8, <2>1, <2>5, <3>2, <3>3 DEF n
          <4> QED
            BY <1>4, <2>1, <4>1
        <3>5. a \in 1 .. fit /\ a \in 1 .. i - 1
          BY <1>4, <1>9, <3>4
        <3>6. queue[a].path = all[k]
          BY <1>8, <1>11, <3>3, <3>5
        <3> QED
          BY <3>1, <3>5, <3>6
      <2> QED
        BY <2>2, <2>3, <2>4, <2>6, <2>7, <2>8 DEF d
    <1>14. \A i, j \in 1 .. fit : queue[i].path = queue[j].path => i = j
      BY <1>9, <1>11, <1>12
    <1>15. ASSUME ~TooManyDirectories(path), NEW k \in DOMAIN all, all[k] \notin root
           PROVE  \E j \in 1 .. fit : queue[j].path = all[k]
      <2>1. PICK a \in 1 .. Len(dirs) : at[a] = k
        BY <1>4, <1>8, <1>15
      <2>2. a \in 1 .. fit
        BY <1>4, <1>6, <1>7, <1>9, <1>15
      <2> QED
        BY <1>8, <1>11, <2>1, <2>2
    <1> QED
      BY <1>11, <1>13, <1>14, <1>15 DEF QueueFacts, all, queue, root

\* What becomes of the tree.
LEMMA TreeUpdated ==
    ASSUME TypeOK, NEW path \in Seq(STRING), NormalPath(path), UpdateTree(path)
    PROVE  LET queue == QueuedParents(path)
           IN  /\ m_fstreeSize' \in Nat /\ m_fstreeRoot' \subseteq Seq(STRING)
               /\ m_fstreeRoot \subseteq m_fstreeRoot'
               /\ \A i \in 1 .. Len(queue) : queue[i].path \in m_fstreeRoot'
               /\ ~TooManyDirectories(path) =>
                    \A dir \in m_fstreeRoot' : \/ dir \in m_fstreeRoot
                                               \/ \E j \in 1 .. Len(queue) : queue[j].path = dir
    <1> DEFINE P == Seq(STRING)
               dirs == NewDirectories(path)
               fit == Cardinality({i \in 1 .. Len(dirs) : ~TooMany(i)})
               added == {i \in 1 .. Len(dirs) : i = 1 \/ ~TooMany(i - 1)}
               queue == QueuedParents(path)
    <1>1. dirs \in Seq(P)
      <2>1. DirectoriesOf(path) \in Seq(P)
        BY Directories DEF DirectoryFacts
      <2> HIDE DEF P
      <2> QED
        BY <2>1, ExcludingSelects DEF NewDirectories
    <1>2. Len(dirs) \in Nat /\ \A i \in 1 .. Len(dirs) : dirs[i] \in P
      <2> HIDE DEF P, dirs
      <2> QED
        BY <1>1, ElementOfSeq, LenProperties
    <1>3. fit \in 0 .. Len(dirs) /\ \A i \in 1 .. Len(dirs) : i <= fit <=> ~TooMany(i)
      BY <1>2, Fitting
    <1>4. queue = [i \in 1 .. fit |-> DirectoryEntry(dirs[i])]
      BY DEF QueuedParents
    <1>5. /\ m_fstreeRoot' = m_fstreeRoot \cup {dirs[i] : i \in added}
          /\ m_fstreeSize' = m_fstreeSize + Cardinality(added)
      BY DEF UpdateTree
    <1>6. queue \in Seq(EntryTypes)
      BY Queued DEF QueueFacts
    <1>7. TooManyDirectories(path) <=> \E i \in 1 .. Len(dirs) : TooMany(i)
      BY DEF TooManyDirectories
    <1> HIDE DEF dirs, fit, queue
    <1>8. Cardinality(added) \in Nat
      <2>1. added \subseteq 1 .. Len(dirs)
        OBVIOUS
      <2> HIDE DEF added
      <2> QED
        <3>1. IsFiniteSet(1 .. Len(dirs))
          BY <1>2, FS_Interval
        <3>2. IsFiniteSet(added)
          BY <2>1, <3>1, FS_Subset
        <3> QED
          BY <3>2, FS_CardinalityType
    <1>9. fit \in Nat /\ 1 .. fit \subseteq 1 .. Len(dirs) /\ 1 .. fit \subseteq added
      <2>1. fit \in Nat /\ 1 .. fit \subseteq 1 .. Len(dirs)
        BY <1>2, <1>3
      <2>2. ASSUME NEW i \in 1 .. fit, i # 1 PROVE ~TooMany(i - 1)
        <3>1. i - 1 \in 1 .. Len(dirs) /\ i - 1 <= fit
          BY <2>1, <2>2, <1>2
        <3> QED
          BY <1>3, <3>1
      <2> QED
        BY <2>1, <2>2
    <1>10. Len(queue) = fit /\ \A i \in 1 .. fit : queue[i].path = dirs[i]
      <2>1. DOMAIN queue = 1 .. fit
        BY <1>4
      <2>2. Len(queue) = fit
        BY <1>6, <1>9, <2>1, LenProperties
      <2> QED
        BY <1>2, <1>4, <1>9, <2>2, DirectoryEntryType
    <1>11. m_fstreeRoot' \subseteq P /\ m_fstreeRoot \subseteq m_fstreeRoot' /\ m_fstreeSize' \in Nat
      BY SMTT(20), <1>2, <1>5, <1>8 DEF TypeOK
    <1>12. \A i \in 1 .. fit : queue[i].path \in m_fstreeRoot'
      BY <1>5, <1>9, <1>10
    <1>13. ASSUME ~TooManyDirectories(path), NEW dir \in m_fstreeRoot', dir \notin m_fstreeRoot
           PROVE  \E j \in 1 .. fit : queue[j].path = dir
      <2>1. PICK i \in 1 .. Len(dirs) : dir = dirs[i]
        BY <1>5, <1>13
      <2>2. i \in 1 .. fit
        BY <1>2, <1>3, <1>7, <1>13
      <2> QED
        BY <1>10, <2>1, <2>2
    <1> QED
      BY <1>10, <1>11, <1>12, <1>13 DEF queue

-------------------------------------------------------------------------------
(* The inductive invariant of the reader                                       *)

\* Everything the reader has made, returned or queued, in order.
Entries == returned \o m_entryStack

IsFile(entry) == entry.type # "directory"

\* next() walks over the headers when nothing is queued.
WalkInv ==
  /\ walking => m_entryStack = <<>> /\ error = "none" /\ ~endOfArchive
  /\ endOfArchive => m_entryStack = <<>>

\* An entry has read its own data; as long as no buffer is empty, it is at its end
\* when it says so, and then its data matches or the mismatch was reported.
EofInv(entry) ==
  /\ "eof" \in entry.answers => entry.eof
  /\ entry.eof => entry.read = entry.own
  /\ entry.eof /\ "mismatch" \notin entry.answers /\ entry.digest # NoDigests =>
       sha256Digest(entry.read) = entry.digest

ReadInv(entry) ==
  /\ IsPrefixPath(entry.read, entry.own)
  /\ 0 \notin BufferSizes => EofInv(entry)

\* An entry as the reader makes it.
EntryInv(entry, digests) ==
  /\ entry.type = "directory" => entry.own = <<>> /\ entry.size = 0
  /\ entry.type = "symlink" => entry.size = Len(entry.own)
  /\ entry.path # <<>>
  /\ \A k \in 1 .. Len(entry.path) - 1 : entry.path[k] \notin {".", ""}
  /\ ReadInv(entry)
  /\ IsFile(entry) => IF digests = NoDigests THEN entry.digest = NoDigests
                      ELSE entry.path \in DOMAIN digests /\ entry.digest = digests[entry.path]

\* A directory comes once, after its parents.
HasParents(entries, i) ==
  \A k \in DOMAIN DirectoriesOf(ParentPath(entries[i].path)) :
    \E j \in 1 .. i - 1 :
      /\ entries[j].type = "directory"
      /\ entries[j].path = DirectoriesOf(ParentPath(entries[i].path))[k]

OrderInv(entries, root) ==
  /\ \A i \in DOMAIN entries : HasParents(entries, i)
  /\ \A i, j \in DOMAIN entries :
       entries[i].type = "directory" /\ entries[j].type = "directory"
         /\ entries[i].path = entries[j].path => i = j
  /\ \A i \in DOMAIN entries : entries[i].type = "directory" => entries[i].path \in root

\* Nothing is within a symlink that came before it.
SymlinkInv(entries, symlinks) ==
  /\ \A i \in DOMAIN entries : entries[i].type = "symlink" => entries[i].path \in symlinks
  /\ \A i, j \in DOMAIN entries :
       i < j /\ entries[i].type = "symlink" => ~IsPrefixPath(entries[i].path, entries[j].path)

\* At most one file is the one the archive is at, and it has read what the archive
\* has been read of it.
AtInv(entries, at, index) ==
  /\ \A i \in DOMAIN entries : entries[i].index <= index
  /\ \A i, j \in DOMAIN entries :
       IsFile(entries[i]) /\ IsFile(entries[j]) /\ entries[i].index = entries[j].index => i = j
  /\ \A i \in DOMAIN entries : IsFile(entries[i]) /\ entries[i].index = index =>
       entries[i].own = at.header.body /\ Len(entries[i].read) = at.read

\* The directories of the tree have been made.
RootMade(entries, root) ==
  \A dir \in root : \E j \in DOMAIN entries : entries[j].type = "directory" /\ entries[j].path = dir

Files(entries) == {i \in DOMAIN entries : IsFile(entries[i])}

CountInv(entries) ==
  error = "none" =>
    /\ RootMade(entries, m_fstreeRoot)
    /\ m_digests # NoDigests => m_verifiedEntries = Cardinality(Files(entries))
    /\ m_digests # NoDigests /\ endOfArchive => m_verifiedEntries = Cardinality(DOMAIN m_digests)

ReaderInv ==
  /\ TypeOK /\ WalkInv
  /\ IsFiniteSet(m_symlinks) /\ Cardinality(m_symlinks) <= MAX_SYMLINK_COUNT
  /\ \A i \in DOMAIN Entries : EntryInv(Entries[i], m_digests)
  /\ OrderInv(Entries, m_fstreeRoot)
  /\ SymlinkInv(Entries, m_symlinks)
  /\ AtInv(Entries, archive, entryIndex)
  /\ CountInv(Entries)

-------------------------------------------------------------------------------
(* More entries                                                                *)

LEMMA Prefixes ==
    ASSUME NEW U, NEW p \in Seq(U), NEW q \in Seq(U), NEW r \in Seq(U)
    PROVE  /\ IsPrefixPath(p, p) /\ IsPrefixPath(<<>>, p)
           /\ IsPrefixPath(p, q) /\ IsPrefixPath(q, r) => IsPrefixPath(p, r)
    <1>1. Len(p) \in Nat /\ Len(q) \in Nat /\ Len(r) \in Nat /\ Len(<<>>) = 0
      OBVIOUS
    <1>2. ASSUME IsPrefixPath(p, q), IsPrefixPath(q, r) PROVE IsPrefixPath(p, r)
      <2>1. Len(p) <= Len(q) /\ Len(q) <= Len(r)
        BY <1>2 DEF IsPrefixPath
      <2>2. Len(p) <= Len(r)
        BY <1>1, <2>1
      <2>3. ASSUME NEW i \in 1 .. Len(p) PROVE p[i] = r[i]
        <3>1. i \in 1 .. Len(q)
          BY <1>1, <2>1
        <3> QED
          BY <1>2, <3>1 DEF IsPrefixPath
      <2> QED
        BY <2>2, <2>3 DEF IsPrefixPath
    <1> QED
      BY <1>1, <1>2 DEF IsPrefixPath

\* The elements of two sequences, one after the other.
LEMMA Joined ==
    ASSUME NEW U, NEW s \in Seq(U), NEW t \in Seq(U)
    PROVE  /\ s \o t \in Seq(U) /\ DOMAIN (s \o t) = 1 .. (Len(s) + Len(t))
           /\ Len(s \o t) = Len(s) + Len(t) /\ Len(s) \in Nat /\ Len(t) \in Nat
           /\ DOMAIN s = 1 .. Len(s) /\ DOMAIN t = 1 .. Len(t)
           /\ \A i \in 1 .. Len(s) : (s \o t)[i] = s[i]
           /\ \A i \in 1 .. Len(t) : (s \o t)[Len(s) + i] = t[i]
           /\ \A i \in DOMAIN (s \o t) : i \in 1 .. Len(s) \/ i - Len(s) \in 1 .. Len(t)
    <1>1. /\ s \o t \in Seq(U) /\ Len(s \o t) = Len(s) + Len(t)
          /\ \A i \in 1 .. Len(s) + Len(t) : (s \o t)[i] = IF i <= Len(s) THEN s[i] ELSE t[i - Len(s)]
      BY ConcatProperties
    <1>2. Len(s) \in Nat /\ Len(t) \in Nat /\ DOMAIN s = 1 .. Len(s) /\ DOMAIN t = 1 .. Len(t)
      BY LenProperties
    <1> DEFINE u == s \o t
               m == Len(s)
               n == Len(t)
    <1>3. DOMAIN u = 1 .. (m + n)
      BY <1>1, <1>2, LenProperties
    <1>4. \A i \in 1 .. m + n : u[i] = IF i <= m THEN s[i] ELSE t[i - m]
      BY <1>1
    <1>5. m \in Nat /\ n \in Nat
      BY <1>2
    <1> HIDE DEF u, m, n
    <1>6. ASSUME NEW i \in 1 .. m PROVE u[i] = s[i]
      BY <1>4, <1>5
    <1>7. ASSUME NEW i \in 1 .. n PROVE u[m + i] = t[i]
      <2>1. m + i \in 1 .. m + n /\ ~(m + i <= m) /\ (m + i) - m = i
        BY <1>5
      <2> QED
        BY <1>4, <2>1
    <1>8. ASSUME NEW i \in DOMAIN u PROVE i \in 1 .. m \/ i - m \in 1 .. n
      BY <1>3, <1>5
    <1> QED
      BY <1>1, <1>2, <1>3, <1>6, <1>7, <1>8 DEF u, m, n

\* The first of a queue is moved to what was returned.
LEMMA Moved ==
    ASSUME NEW U, NEW s \in Seq(U), NEW q \in Seq(U), q # <<>>
    PROVE  /\ Append(s, Head(q)) \o Tail(q) = s \o q
           /\ Append(s, Head(q)) \in Seq(U) /\ Tail(q) \in Seq(U)
    <1>1. Head(q) \in U /\ Tail(q) \in Seq(U) /\ Len(Tail(q)) = Len(q) - 1
          /\ \A i \in 1 .. Len(Tail(q)) : Tail(q)[i] = q[i + 1]
      BY HeadTailProperties
    <1>2. <<Head(q)>> \in Seq(U) /\ <<Head(q)>> \o Tail(q) = q
      BY <1>1
    <1>3. Append(s, Head(q)) = s \o <<Head(q)>> /\ Append(s, Head(q)) \in Seq(U)
      BY <1>1, AppendIsConcat, AppendProperties
    <1>4. (s \o <<Head(q)>>) \o Tail(q) = s \o (<<Head(q)>> \o Tail(q))
      BY <1>1, <1>2, ConcatAssociative
    <1> QED
      BY <1>1, <1>2, <1>3, <1>4

\* What holds of the entries whatever the archive is at.
ShapeInv(entries, root, symlinks, digests) ==
  /\ entries \in Seq(EntryTypes)
  /\ \A i \in DOMAIN entries : EntryInv(entries[i], digests)
  /\ OrderInv(entries, root)
  /\ SymlinkInv(entries, symlinks)

\* The archive moves on: none of the files is the one it is at.
PastInv(entries, index) ==
  /\ \A i \in DOMAIN entries : entries[i].index < index
  /\ \A i, j \in DOMAIN entries :
       IsFile(entries[i]) /\ IsFile(entries[j]) /\ entries[i].index = entries[j].index => i = j

LEMMA EntryFacts ==
    ASSUME NEW entry \in EntryTypes
    PROVE  /\ entry.type \in {"directory", "regular", "symlink"} /\ entry.path \in Seq(STRING)
           /\ entry.index \in 0 .. MaxHeaders /\ entry.index \in Nat /\ entry.digest \in Digests
           /\ entry.size \in Nat /\ entry.eof \in BOOLEAN /\ entry.read \in Seq(STRING)
           /\ entry.own \in Seq(STRING) /\ entry.reads \in 0 .. MaxReads
           /\ entry.answers \subseteq {"data", "eof", "mismatch", "error"}
    BY LimitsAssumption DEF EntryTypes

LEMMA DirectoryEntryInv ==
    ASSUME NEW path \in Seq(STRING), Clean(path), path # <<>>, NEW digests
    PROVE  /\ EntryInv(DirectoryEntry(path), digests) /\ DirectoryEntry(path).index = 0
           /\ DirectoryEntry(path).type = "directory"
    <1> DEFINE entry == DirectoryEntry(path)
    <1>1. /\ entry.type = "directory" /\ entry.own = <<>> /\ entry.size = 0 /\ entry.path = path
          /\ entry.read = <<>> /\ entry.index = 0 /\ entry.eof = FALSE /\ entry.answers = {}
      BY DEF DirectoryEntry, Entry
    <1>2. IsPrefixPath(<<>>, <<>>)
      BY EmptySeq, Prefixes
    <1>3. ASSUME NEW k \in 1 .. Len(path) - 1 PROVE path[k] \notin {".", ""}
      <2> DEFINE n == Len(path)
      <2>1. n \in Nat
        OBVIOUS
      <2> HIDE DEF n
      <2>2. k \in 1 .. n
        BY <2>1 DEF n
      <2> QED
        BY <2>2 DEF Clean, n
    <1> HIDE DEF entry
    <1>4. EntryInv(entry, digests)
      <2>1. ReadInv(entry)
        BY <1>1, <1>2 DEF ReadInv, EofInv
      <2> QED
        BY <1>1, <1>3, <2>1 DEF EntryInv, IsFile
    <1> QED
      BY <1>1, <1>4 DEF entry

GrownFacts(e, q, s, root, grown, symlinks, digests, index, path, all) ==
  /\ ShapeInv(s, grown, symlinks, digests)
  /\ PastInv(s, index + 1)
  /\ Files(s) = Files(e)
  /\ (\A dir \in grown : dir \in root \/ \E j \in 1 .. Len(q) : q[j].path = dir) => RootMade(s, grown)
  /\ all => \A k \in DOMAIN DirectoriesOf(path) :
              \E j \in DOMAIN s : s[j].type = "directory" /\ s[j].path = DirectoriesOf(path)[k]

\* Directories join the entries.
LEMMA GrowDirs ==
    ASSUME NEW e, NEW q, NEW root, NEW grown, NEW symlinks \in SUBSET Seq(STRING), NEW digests,
           NEW index \in Nat, NEW at, NEW path \in Seq(STRING), NEW all \in BOOLEAN,
           ShapeInv(e, root, symlinks, digests), QueueFacts(q, root, path, all),
           RootMade(e, root), AtInv(e, at, index),
           \A symlink \in symlinks : ~IsPrefixPath(symlink, path),
           root \subseteq grown, \A i \in 1 .. Len(q) : q[i].path \in grown
    PROVE  GrownFacts(e, q, e \o q, root, grown, symlinks, digests, index, path, all)
    <1> DEFINE m == Len(e)
               n == Len(q)
               s == e \o q
               E == EntryTypes
    <1>1. e \in Seq(E) /\ q \in Seq(E)
      BY DEF ShapeInv, QueueFacts
    <1> HIDE DEF E
    <1>2. /\ s \in Seq(E) /\ DOMAIN s = 1 .. (m + n) /\ m \in Nat /\ n \in Nat
          /\ DOMAIN e = 1 .. m /\ DOMAIN q = 1 .. n
          /\ \A i \in 1 .. m : s[i] = e[i]
          /\ \A i \in 1 .. n : s[m + i] = q[i]
          /\ \A i \in DOMAIN s : i \in 1 .. m \/ i - m \in 1 .. n
      BY <1>1, Joined
    <1> HIDE DEF s, m, n
    <1>3. /\ \A i \in 1 .. n : i + m \in DOMAIN s /\ m + i \in DOMAIN s
          /\ \A i \in 1 .. m : i \in DOMAIN s
      BY <1>2
    <1>4. ASSUME NEW i \in 1 .. n
          PROVE  /\ q[i] \in E /\ q[i].type = "directory" /\ q[i].index = 0 /\ EntryInv(q[i], digests)
                 /\ q[i].path \in Seq(STRING) /\ q[i].path \notin root /\ IsPrefixPath(q[i].path, path)
      <2>1. q[i] \in E
        BY <1>1, <1>2, ElementOfSeq
      <2>2. q[i].path \in Seq(STRING)
        BY <2>1, EntryFacts DEF E
      <2>3. /\ q[i] = DirectoryEntry(q[i].path) /\ Clean(q[i].path) /\ q[i].path # <<>>
            /\ q[i].path \notin root /\ IsPrefixPath(q[i].path, path)
        BY DEF QueueFacts, n
      <2>4. /\ EntryInv(DirectoryEntry(q[i].path), digests) /\ DirectoryEntry(q[i].path).index = 0
            /\ DirectoryEntry(q[i].path).type = "directory"
        BY <2>2, <2>3, DirectoryEntryInv
      <2> QED
        BY <2>1, <2>2, <2>3, <2>4
    <1>5. ASSUME NEW i \in DOMAIN s
          PROVE  (i \in 1 .. m /\ s[i] = e[i]) \/ (i - m \in 1 .. n /\ s[i] = q[i - m])
      <2>1. CASE i \in 1 .. m
        BY <1>2, <2>1
      <2>2. CASE i - m \in 1 .. n
        <3>1. m + (i - m) = i
          BY <1>2
        <3> QED
          BY <1>2, <2>2, <3>1
      <2> QED
        BY <1>2, <2>1, <2>2
    <1>6. ASSUME NEW i \in DOMAIN s PROVE EntryInv(s[i], digests)
      BY <1>2, <1>4, <1>5 DEF ShapeInv
    <1>7. \A dir \in root : \E j \in 1 .. m : s[j].type = "directory" /\ s[j].path = dir
      BY <1>2 DEF RootMade
    <1>8. ASSUME NEW i \in DOMAIN s PROVE HasParents(s, i)
      <2>1. CASE i \in 1 .. m /\ s[i] = e[i]
        <3>1. HasParents(e, i)
          BY <1>2, <2>1 DEF ShapeInv, OrderInv
        <3>2. \A j \in 1 .. i - 1 : s[j] = e[j]
          BY <1>2, <2>1
        <3> QED
          BY <2>1, <3>1, <3>2 DEF HasParents
      <2>2. CASE i - m \in 1 .. n /\ s[i] = q[i - m]
        <3> DEFINE P == DirectoriesOf(ParentPath(q[i - m].path))
        <3> SUFFICES ASSUME NEW k \in DOMAIN P
                     PROVE  \E j \in 1 .. i - 1 : s[j].type = "directory" /\ s[j].path = P[k]
          BY <2>2 DEF HasParents
        <3>1. \/ P[k] \in root
              \/ \E j \in 1 .. (i - m) - 1 : q[j].path = P[k]
          BY <2>2 DEF QueueFacts, n
        <3> HIDE DEF P
        <3>2. CASE P[k] \in root
          <4>1. PICK j \in 1 .. m : s[j].type = "directory" /\ s[j].path = P[k]
            BY <1>7, <3>2
          <4>2. j \in 1 .. i - 1
            BY <1>2, <2>2
          <4> QED
            BY <4>1, <4>2
        <3>3. CASE \E j \in 1 .. (i - m) - 1 : q[j].path = P[k]
          <4>1. PICK j \in 1 .. (i - m) - 1 : q[j].path = P[k]
            BY <3>3
          <4>2. j \in 1 .. n /\ m + j \in 1 .. i - 1
            BY <1>2, <2>2
          <4>3. s[m + j] = q[j] /\ q[j].type = "directory"
            BY <1>2, <1>4, <4>2
          <4> QED
            BY <4>1, <4>2, <4>3
        <3> QED
          BY <3>1, <3>2, <3>3
      <2> QED
        BY <1>5, <2>1, <2>2
    <1>9. ASSUME NEW i \in DOMAIN s, s[i].type = "directory" PROVE s[i].path \in grown
      <2>1. CASE i \in 1 .. m /\ s[i] = e[i]
        BY <1>2, <1>9, <2>1 DEF ShapeInv, OrderInv
      <2>2. CASE i - m \in 1 .. n /\ s[i] = q[i - m]
        BY <2>2 DEF n
      <2> QED
        BY <1>5, <2>1, <2>2
    <1>10. ASSUME NEW i \in DOMAIN s, NEW j \in DOMAIN s, s[i].type = "directory",
                  s[j].type = "directory", s[i].path = s[j].path
           PROVE  i = j
      <2>1. \A k \in DOMAIN e : e[k].type = "directory" => e[k].path \in root
        BY DEF ShapeInv, OrderInv
      <2>2. CASE i \in 1 .. m /\ s[i] = e[i]
        <3>1. j \in 1 .. m /\ s[j] = e[j]
          BY SMTT(20), <1>2, <1>4, <1>5, <1>10, <2>1, <2>2
        <3> QED
          BY <1>2, <1>10, <2>2, <3>1 DEF ShapeInv, OrderInv
      <2>3. CASE i - m \in 1 .. n /\ s[i] = q[i - m]
        <3>1. j - m \in 1 .. n /\ s[j] = q[j - m]
          BY <1>2, <1>4, <1>5, <1>10, <2>1, <2>3
        <3>2. i - m = j - m
          BY <1>10, <2>3, <3>1 DEF QueueFacts, n
        <3> QED
          BY <1>2, <3>2
      <2> QED
        BY <1>5, <2>2, <2>3
    <1>11. ASSUME NEW i \in DOMAIN s, s[i].type = "symlink"
           PROVE  i \in 1 .. m /\ s[i] = e[i] /\ s[i].path \in symlinks
      <2>1. i \in 1 .. m /\ s[i] = e[i]
        BY <1>4, <1>5, <1>11
      <2> QED
        BY <1>2, <1>11, <2>1 DEF ShapeInv, SymlinkInv
    <1>12. ASSUME NEW i \in DOMAIN s, NEW j \in DOMAIN s, i < j, s[i].type = "symlink",
                  IsPrefixPath(s[i].path, s[j].path)
           PROVE  FALSE
      <2>1. i \in 1 .. m /\ s[i] = e[i] /\ s[i].path \in symlinks
        BY <1>11, <1>12
      <2>2. CASE j \in 1 .. m /\ s[j] = e[j]
        BY <1>2, <1>12, <2>1, <2>2 DEF ShapeInv, SymlinkInv
      <2>3. CASE j - m \in 1 .. n /\ s[j] = q[j - m]
        <3>1. IsPrefixPath(s[j].path, path) /\ s[j].path \in Seq(STRING) /\ s[i].path \in Seq(STRING)
          BY <1>4, <2>1, <2>3
        <3>2. IsPrefixPath(s[i].path, path)
          BY <1>12, <3>1, Prefixes
        <3> QED
          BY <2>1, <3>2
      <2> QED
        BY <1>5, <2>2, <2>3
    <1>13. ShapeInv(s, grown, symlinks, digests)
      <2>1. OrderInv(s, grown)
        BY <1>8, <1>9, <1>10 DEF OrderInv
      <2>2. SymlinkInv(s, symlinks)
        BY <1>11, <1>12 DEF SymlinkInv
      <2> QED
        BY <1>2, <1>6, <2>1, <2>2 DEF ShapeInv, E
    <1>14. PastInv(s, index + 1)
      <2>1. ASSUME NEW i \in DOMAIN s PROVE s[i].index < index + 1
        <3>1. CASE i \in 1 .. m /\ s[i] = e[i]
          <4>1. s[i] \in E
            BY <1>2, ElementOfSeq, LenProperties
          <4>2. s[i].index \in Nat
            BY <4>1, EntryFacts DEF E
          <4>3. s[i].index <= index
            BY <1>2, <3>1 DEF AtInv
          <4> QED
            BY <4>2, <4>3
        <3>2. CASE i - m \in 1 .. n /\ s[i] = q[i - m]
          BY <1>4, <3>2
        <3> QED
          BY <1>5, <3>1, <3>2
      <2>2. ASSUME NEW i \in DOMAIN s, NEW j \in DOMAIN s, IsFile(s[i]), IsFile(s[j]),
                   s[i].index = s[j].index
            PROVE  i = j
        <3>1. i \in DOMAIN e /\ s[i] = e[i] /\ j \in DOMAIN e /\ s[j] = e[j]
          BY SMTT(20), <1>2, <1>4, <1>5, <2>2 DEF IsFile
        <3> QED
          BY <2>2, <3>1 DEF AtInv
      <2> QED
        BY <2>1, <2>2 DEF PastInv
    <1>15. Files(s) = Files(e)
      <2>1. ASSUME NEW i \in DOMAIN s, s[i].type # "directory" PROVE i \in DOMAIN e /\ e[i].type # "directory"
        BY <1>2, <1>4, <1>5, <2>1
      <2>2. ASSUME NEW i \in DOMAIN e, e[i].type # "directory" PROVE i \in DOMAIN s /\ s[i].type # "directory"
        BY <1>2, <1>3, <2>2
      <2> QED
        BY <2>1, <2>2 DEF Files, IsFile
    <1>16. ASSUME NEW dir, dir \in root \/ \E j \in 1 .. n : q[j].path = dir
           PROVE  \E j \in DOMAIN s : s[j].type = "directory" /\ s[j].path = dir
      <2>1. CASE dir \in root
        BY <1>3, <1>7, <2>1
      <2>2. CASE \E j \in 1 .. n : q[j].path = dir
        <3>1. PICK j \in 1 .. n : q[j].path = dir
          BY <2>2
        <3> QED
          BY <1>2, <1>3, <1>4, <3>1
      <2> QED
        BY <1>16, <2>1, <2>2
    <1>17. ASSUME \A dir \in grown : dir \in root \/ \E j \in 1 .. n : q[j].path = dir
           PROVE  RootMade(s, grown)
      BY <1>16, <1>17 DEF RootMade
    <1>18. ASSUME all
           PROVE  \A k \in DOMAIN DirectoriesOf(path) :
                       \E j \in DOMAIN s : s[j].type = "directory" /\ s[j].path = DirectoriesOf(path)[k]
      <2>1. \A k \in DOMAIN DirectoriesOf(path) :
              \/ DirectoriesOf(path)[k] \in root
              \/ \E j \in 1 .. n : q[j].path = DirectoriesOf(path)[k]
        BY <1>18 DEF QueueFacts, n
      <2> QED
        BY <1>16, <2>1
    <1> QED
      BY <1>13, <1>14, <1>15, <1>17, <1>18 DEF s, n, GrownFacts

\* A file joins the entries, behind its parents.
LEMMA GrowFile ==
    ASSUME NEW e, NEW f \in EntryTypes, NEW root, NEW symlinks \in SUBSET Seq(STRING), NEW digests,
           NEW known \in SUBSET symlinks, NEW index \in Nat, NEW at,
           ShapeInv(e, root, known, digests), PastInv(e, index), RootMade(e, root),
           EntryInv(f, digests), IsFile(f),
           \A symlink \in known : ~IsPrefixPath(symlink, f.path),
           f.type = "symlink" => f.path \in symlinks,
           \A k \in DOMAIN DirectoriesOf(ParentPath(f.path)) :
             \E j \in DOMAIN e : e[j].type = "directory"
                                  /\ e[j].path = DirectoriesOf(ParentPath(f.path))[k],
           f.index = index, f.own = at.header.body, f.read = <<>>, at.read = 0
    PROVE  /\ ShapeInv(e \o <<f>>, root, symlinks, digests)
           /\ AtInv(e \o <<f>>, at, index)
           /\ Files(e \o <<f>>) = Files(e) \cup {Len(e) + 1} /\ Len(e) + 1 \notin Files(e)
           /\ RootMade(e \o <<f>>, root)
    <1> DEFINE m == Len(e)
               q == <<f>>
               s == e \o q
               E == EntryTypes
    <1>1. e \in Seq(E) /\ q \in Seq(E) /\ Len(q) = 1 /\ q[1] = f
      BY DEF ShapeInv
    <1> HIDE DEF E, q
    <1>2. /\ s \in Seq(E) /\ DOMAIN s = 1 .. (m + 1) /\ m \in Nat
          /\ DOMAIN e = 1 .. m
          /\ \A i \in 1 .. m : s[i] = e[i]
          /\ \A i \in 1 .. 1 : s[m + i] = q[i]
      <2>1. /\ s \in Seq(E) /\ DOMAIN s = 1 .. (m + Len(q)) /\ m \in Nat
            /\ DOMAIN e = 1 .. m
            /\ \A i \in 1 .. m : s[i] = e[i]
            /\ \A i \in 1 .. Len(q) : s[m + i] = q[i]
        <3>1. e \in Seq(E) /\ q \in Seq(E)
          BY <1>1
        <3> QED
          BY ONLY <3>1, Joined
      <2> HIDE DEF s, m
      <2> QED
        BY <1>1, <2>1
    <1> HIDE DEF s, m
    <1>3. s[m + 1] = f /\ m + 1 \notin DOMAIN e /\ m + 1 \in DOMAIN s
      BY <1>1, <1>2
    <1>4. /\ \A i \in DOMAIN e : i \in DOMAIN s /\ s[i] = e[i]
          /\ \A i \in DOMAIN s : i \in DOMAIN e \/ i = m + 1
      BY <1>2
    <1>5. f.type # "directory"
      BY DEF IsFile
    <1>6. ASSUME NEW i \in DOMAIN s PROVE s[i] \in E /\ s[i].path \in Seq(STRING) /\ s[i].index \in Nat
      <2>1. s[i] \in E
        BY <1>2, ElementOfSeq, LenProperties
      <2> QED
        BY <2>1, EntryFacts DEF E
    <1>7. ASSUME NEW i \in DOMAIN s PROVE EntryInv(s[i], digests)
      BY <1>3, <1>4 DEF ShapeInv
    <1>8. ASSUME NEW i \in DOMAIN s PROVE HasParents(s, i)
      <2>1. CASE i \in DOMAIN e
        <3>1. HasParents(e, i)
          BY <2>1 DEF ShapeInv, OrderInv
        <3>2. \A j \in 1 .. i - 1 : s[j] = e[j]
          BY <1>2, <2>1
        <3> QED
          BY SMTT(20), <1>4, <2>1, <3>1, <3>2 DEF HasParents
      <2>2. CASE i = m + 1
        <3>1. 1 .. i - 1 = DOMAIN e
          BY <1>2, <2>2
        <3>2. s[i] = f
          BY <1>3, <2>2
        <3>3. \A k \in DOMAIN DirectoriesOf(ParentPath(f.path)) :
                \E j \in DOMAIN e : s[j].type = "directory"
                                     /\ s[j].path = DirectoriesOf(ParentPath(f.path))[k]
          BY <1>4, Zenon
        <3> QED
          BY <3>1, <3>2, <3>3, Zenon DEF HasParents
      <2> QED
        BY <1>4, <2>1, <2>2
    <1>9. OrderInv(s, root)
      <2>1. \A i \in DOMAIN s : s[i].type = "directory" => i \in DOMAIN e /\ s[i] = e[i]
        BY <1>3, <1>4, <1>5
      <2>2. /\ \A i, j \in DOMAIN e : e[i].type = "directory" /\ e[j].type = "directory"
                                       /\ e[i].path = e[j].path => i = j
            /\ \A i \in DOMAIN e : e[i].type = "directory" => e[i].path \in root
        BY DEF ShapeInv, OrderInv
      <2> QED
        BY <1>8, <2>1, <2>2 DEF OrderInv
    <1>10. SymlinkInv(s, symlinks)
      <2>1. /\ \A i \in DOMAIN e : e[i].type = "symlink" => e[i].path \in known
            /\ \A i, j \in DOMAIN e :
                 i < j /\ e[i].type = "symlink" => ~IsPrefixPath(e[i].path, e[j].path)
        BY DEF ShapeInv, SymlinkInv
      <2>2. ASSUME NEW i \in DOMAIN s, s[i].type = "symlink" PROVE s[i].path \in symlinks
        BY <1>3, <1>4, <2>1, <2>2
      <2>3. ASSUME NEW i \in DOMAIN s, NEW j \in DOMAIN s, i < j, s[i].type = "symlink"
            PROVE  ~IsPrefixPath(s[i].path, s[j].path)
        <3>1. i \in DOMAIN e
          BY <1>2, <2>3
        <3>2. CASE j \in DOMAIN e
          BY <1>4, <2>1, <2>3, <3>1, <3>2
        <3>3. CASE j = m + 1
          BY <1>3, <1>4, <2>1, <2>3, <3>1, <3>3
        <3> QED
          BY <1>4, <3>2, <3>3
      <2> QED
        BY <2>2, <2>3 DEF SymlinkInv
    <1>11. ShapeInv(s, root, symlinks, digests)
      BY <1>2, <1>7, <1>9, <1>10 DEF ShapeInv, E
    <1>12. AtInv(s, at, index)
      <2>1. \A i \in DOMAIN e : s[i].index < index
        BY <1>4 DEF PastInv
      <2>2. \A i \in DOMAIN s : s[i].index <= index /\ (s[i].index = index => i = m + 1)
        BY <1>3, <1>4, <1>6, <2>1
      <2>3. ASSUME NEW i \in DOMAIN s, NEW j \in DOMAIN s, IsFile(s[i]), IsFile(s[j]), s[i].index = s[j].index
            PROVE  i = j
        <3>1. CASE i = m + 1 \/ j = m + 1
          BY <1>3, <2>2, <2>3, <3>1
        <3>2. CASE i \in DOMAIN e /\ j \in DOMAIN e
          BY <1>4, <2>3, <3>2 DEF PastInv
        <3> QED
          BY <1>4, <3>1, <3>2
      <2>4. ASSUME NEW i \in DOMAIN s, IsFile(s[i]), s[i].index = index
            PROVE  s[i].own = at.header.body /\ Len(s[i].read) = at.read
        <3>1. s[i] = f /\ Len(<<>>) = 0
          BY <1>3, <2>2, <2>4
        <3> QED
          BY <3>1
      <2> QED
        BY <2>2, <2>3, <2>4 DEF AtInv
    <1>13. Files(s) = Files(e) \cup {m + 1} /\ m + 1 \notin Files(e)
      BY <1>3, <1>4, <1>5 DEF Files, IsFile
    <1>14. RootMade(s, root)
      <2> SUFFICES ASSUME NEW dir \in root
                   PROVE  \E j \in DOMAIN s : s[j].type = "directory" /\ s[j].path = dir
        BY DEF RootMade
      <2>1. PICK j \in DOMAIN e : e[j].type = "directory" /\ e[j].path = dir
        BY DEF RootMade
      <2> QED
        BY <1>4, <2>1
    <1> QED
      BY <1>11, <1>12, <1>13, <1>14 DEF s, m, q

\* Entries that differ only in what was read of them.
SameEntry(a, b) ==
  /\ a.type = b.type /\ a.path = b.path /\ a.index = b.index /\ a.digest = b.digest
  /\ a.size = b.size /\ a.own = b.own

SameFacts(e, f, root, symlinks, digests, next, index) ==
  /\ ShapeInv(f, root, symlinks, digests) /\ AtInv(f, next, index)
  /\ RootMade(e, root) => RootMade(f, root)
  /\ Files(f) = Files(e)

LEMMA SameShape ==
    ASSUME NEW e, NEW f \in Seq(EntryTypes), NEW root, NEW symlinks, NEW digests, NEW index,
           NEW at, NEW next, DOMAIN e = DOMAIN f,
           \A i \in DOMAIN e : SameEntry(e[i], f[i]) /\ ReadInv(f[i]),
           ShapeInv(e, root, symlinks, digests), AtInv(e, at, index),
           next.header = at.header,
           \A i \in DOMAIN e : IsFile(e[i]) /\ e[i].index = index => Len(f[i].read) = next.read
    PROVE  SameFacts(e, f, root, symlinks, digests, next, index)
    <1>1. ASSUME NEW i \in DOMAIN f PROVE EntryInv(f[i], digests)
      <2> DEFINE a == e[i]
                 b == f[i]
      <2>1. EntryInv(a, digests) /\ SameEntry(a, b) /\ ReadInv(b)
        BY DEF ShapeInv
      <2> HIDE DEF a, b
      <2>2. EntryInv(b, digests)
        BY <2>1, Zenon DEF EntryInv, IsFile, SameEntry
      <2> QED
        BY <2>2 DEF b
    <1>2. OrderInv(f, root)
      <2>1. ASSUME NEW i \in DOMAIN f PROVE HasParents(f, i)
        <3>1. HasParents(e, i)
          BY DEF ShapeInv, OrderInv
        <3>2. i \in Nat /\ \A j \in 1 .. i - 1 : j \in DOMAIN f
          BY LenProperties
        <3> QED
          BY <3>1, <3>2 DEF HasParents, SameEntry
      <2>2. \A i, j \in DOMAIN f :
              f[i].type = "directory" /\ f[j].type = "directory" /\ f[i].path = f[j].path => i = j
        BY DEF ShapeInv, OrderInv, SameEntry
      <2>3. \A i \in DOMAIN f : f[i].type = "directory" => f[i].path \in root
        BY DEF ShapeInv, OrderInv, SameEntry
      <2> QED
        BY <2>1, <2>2, <2>3 DEF OrderInv
    <1>3. SymlinkInv(f, symlinks)
      BY DEF ShapeInv, SymlinkInv, SameEntry
    <1>4. AtInv(f, next, index)
      BY DEF AtInv, SameEntry, IsFile
    <1>5. Files(f) = Files(e)
      BY DEF Files, SameEntry, IsFile
    <1>6. RootMade(e, root) => RootMade(f, root)
      BY DEF RootMade, SameEntry
    <1> QED
      BY <1>1, <1>2, <1>3, <1>4, <1>5, <1>6 DEF ShapeInv, SameFacts

\* The invariant, by its parts.
LEMMA ReaderParts ==
    ReaderInv <=>
      /\ TypeOK /\ WalkInv
      /\ IsFiniteSet(m_symlinks) /\ Cardinality(m_symlinks) <= MAX_SYMLINK_COUNT
      /\ ShapeInv(Entries, m_fstreeRoot, m_symlinks, m_digests)
      /\ AtInv(Entries, archive, entryIndex)
      /\ CountInv(Entries)
    <1>1. TypeOK => Entries \in Seq(EntryTypes)
      <2> DEFINE E == EntryTypes
      <2>1. TypeOK => returned \in Seq(E) /\ m_entryStack \in Seq(E)
        BY DEF TypeOK
      <2> HIDE DEF E
      <2>2. TypeOK => returned \o m_entryStack \in Seq(E)
        BY <2>1, ConcatProperties
      <2> QED
        BY <2>2 DEF E, Entries
    <1> QED
      BY <1>1 DEF ReaderInv, ShapeInv

LEMMA InitInv == Init => ReaderInv
    <1> SUFFICES ASSUME Init PROVE ReaderInv
      OBVIOUS
    <1> USE DEF Init
    <1>1. TypeOK
      <2>1. NoHeader.body = <<>> /\ Len(<<>>) = 0
        BY DEF NoHeader
      <2>2. archive.read \in 0 .. Len(archive.header.body) /\ archive \in [header : Headers \cup {NoHeader}, read : Nat]
        BY <2>1
      <2>3. <<>> \in Seq(EntryTypes)
        BY EmptySeq
      <2>4. 0 \in 0 .. MaxHeaders /\ 0 \in Nat
        BY LimitsAssumption
      <2> HIDE DEF Init
      <2>5. /\ m_digests \in DigestMaps \cup {NoDigests}
            /\ m_fstreeRoot = {} /\ m_symlinks = {} /\ m_fstreeSize = 0 /\ m_verifiedEntries = 0
            /\ m_entryStack = <<>> /\ returned = <<>> /\ entryIndex = 0 /\ error = "none"
            /\ endOfArchive = FALSE /\ walking = FALSE
        BY DEF Init
      <2>6. m_entryStack \in Seq(EntryTypes) /\ returned \in Seq(EntryTypes)
        BY <2>3, <2>5
      <2>7. entryIndex \in 0 .. MaxHeaders /\ m_fstreeSize \in Nat /\ m_verifiedEntries \in Nat
        BY <2>4, <2>5
      <2>8. m_fstreeRoot \subseteq Seq(STRING) /\ m_symlinks \subseteq {h.path : h \in Headers}
        BY <2>5
      <2> QED
        BY <2>2, <2>5, <2>6, <2>7, <2>8, Zenon DEF TypeOK
    <1>2. IsFiniteSet({}) /\ Cardinality({}) = 0
      BY FS_EmptySet
    <1>3. Entries = <<>> /\ DOMAIN Entries = {}
      BY DEF Entries
    <1>4. CountInv(Entries)
      <2>1. Files(Entries) = {}
        BY <1>3 DEF Files
      <2> QED
        BY <1>2, <2>1 DEF CountInv, RootMade
    <1> QED
      BY <1>1, <1>2, <1>3, <1>4, LimitsAssumption
      DEF ReaderInv, WalkInv, OrderInv, SymlinkInv, AtInv

\* The end of the archive, and errors, leave the entries alone.
LEMMA QuietInv ==
    ASSUME ReaderInv,
           UNCHANGED <<m_digests, m_fstreeRoot, m_fstreeSize, m_symlinks, m_verifiedEntries,
                       entryIndex, archive>>,
           Entries' = Entries, TypeOK', WalkInv', CountInv(Entries)'
    PROVE  ReaderInv'
    BY DEF ReaderInv

LEMMA QueuedInv == ReaderInv /\ NextQueued => ReaderInv'
    <1> SUFFICES ASSUME ReaderInv, NextQueued PROVE ReaderInv'
      OBVIOUS
    <1> DEFINE E == EntryTypes
    <1>1. /\ returned \in Seq(E) /\ m_entryStack \in Seq(E) /\ m_entryStack # <<>>
          /\ returned' = Append(returned, Head(m_entryStack)) /\ m_entryStack' = Tail(m_entryStack)
      BY DEF ReaderInv, TypeOK, NextQueued
    <1>2. returned' \o m_entryStack' = returned \o m_entryStack /\ returned' \in Seq(E)
          /\ m_entryStack' \in Seq(E)
      <2> HIDE DEF E
      <2> QED
        BY <1>1, Moved
    <1>3. Entries' = Entries
      BY <1>2 DEF Entries
    <1>4. /\ UNCHANGED <<m_digests, m_fstreeRoot, m_fstreeSize, m_symlinks, m_verifiedEntries,
                         entryIndex, archive, error, endOfArchive, walking>>
          /\ ~walking /\ ~endOfArchive
      BY DEF NextQueued, readState
    <1>5. TypeOK'
      BY <1>2, <1>4 DEF ReaderInv, TypeOK
    <1>6. WalkInv'
      BY <1>4 DEF WalkInv
    <1>7. CountInv(Entries)'
      BY <1>3, <1>4 DEF ReaderInv, CountInv
    <1> QED
      BY <1>3, <1>4, <1>5, <1>6, <1>7, QuietInv

LEMMA StepInv == ReaderInv /\ (NextNothing \/ NextWalk \/ HeaderEof \/ HeaderFails) => ReaderInv'
    <1> SUFFICES ASSUME ReaderInv, NextNothing \/ NextWalk \/ HeaderEof \/ HeaderFails PROVE ReaderInv'
      OBVIOUS
    <1> USE DEF ReaderInv
    <1>1. /\ UNCHANGED <<m_digests, m_fstreeRoot, m_fstreeSize, m_symlinks, m_verifiedEntries,
                         entryIndex, archive, m_entryStack, returned>>
      BY DEF NextNothing, NextWalk, HeaderEof, HeaderFails, vars, readState
    <1>2. Entries' = Entries
      BY <1>1 DEF Entries
    <1>3. walking' \in BOOLEAN /\ endOfArchive' \in BOOLEAN
          /\ error' \in {"none", "PackageInvalidEntry", "PackageContentsInvalid", "PackageSignatureInvalid"}
      BY DEF NextNothing, NextWalk, HeaderEof, HeaderFails, vars, readState, TypeOK, SetError
    <1>4. TypeOK'
      BY <1>1, <1>3 DEF TypeOK
    <1>5. WalkInv'
      BY <1>1 DEF NextNothing, NextWalk, HeaderEof, HeaderFails, vars, readState, WalkInv, SetError
    <1>6. CountInv(Entries)'
      <2>1. CASE HeaderEof
        <3>1. error = "none"
          BY <2>1 DEF HeaderEof, WalkInv
        <3> QED
          BY <1>1, <1>2, <2>1, <3>1 DEF HeaderEof, SetError, CountInv
      <2>2. CASE HeaderFails
        BY <2>2 DEF HeaderFails, SetError, CountInv
      <2>3. CASE NextNothing \/ NextWalk
        <3>1. UNCHANGED <<error, endOfArchive>>
          BY <2>3 DEF NextNothing, NextWalk, vars, readState
        <3> QED
          BY <1>1, <1>2, <3>1 DEF CountInv
      <2> QED
        BY <2>1, <2>2, <2>3
    <1> QED
      BY <1>1, <1>2, <1>4, <1>5, <1>6, QuietInv

-------------------------------------------------------------------------------
(* The headers                                                                 *)

LEMMA MovedOn ==
    ASSUME NEW e \in Seq(EntryTypes), NEW at, NEW next, NEW index \in Nat
    PROVE  /\ AtInv(e, at, index) => PastInv(e, index + 1)
           /\ PastInv(e, index) => AtInv(e, next, index)
    <1>1. ASSUME NEW i \in DOMAIN e PROVE e[i].index \in Nat
      <2> DEFINE E == EntryTypes
      <2> HIDE DEF E
      <2>1. e[i] \in E
        BY ElementOfSeq, LenProperties DEF E
      <2> QED
        BY <2>1, EntryFacts DEF E
    <1>2. AtInv(e, at, index) => PastInv(e, index + 1)
      BY <1>1 DEF AtInv, PastInv
    <1>3. ASSUME PastInv(e, index) PROVE AtInv(e, next, index)
      <2>1. \A i \in DOMAIN e : e[i].index <= index /\ e[i].index # index
        BY <1>1, <1>3 DEF PastInv
      <2> QED
        BY <1>3, <2>1 DEF PastInv, AtInv
    <1> QED
      BY <1>2, <1>3

LEMMA MoreSymlinks ==
    ASSUME NEW e, NEW root, NEW known, NEW symlinks, NEW digests, known \subseteq symlinks,
           ShapeInv(e, root, known, digests)
    PROVE  ShapeInv(e, root, symlinks, digests)
    BY DEF ShapeInv, SymlinkInv

\* While next() is in its loop nothing is queued, and the archive moves on.
LEMMA MoveFacts ==
    ASSUME ReaderInv, NEW h \in Headers, MoveTo(h)
    PROVE  /\ m_entryStack = <<>> /\ error = "none" /\ ~endOfArchive /\ Entries = returned
           /\ UNCHANGED <<m_digests, endOfArchive>> /\ entryIndex' = entryIndex + 1
           /\ entryIndex \in Nat /\ entryIndex' \in 0 .. MaxHeaders
           /\ archive'.header = h /\ archive'.read = 0
           /\ archive' \in [header : Headers \cup {NoHeader}, read : Nat]
           /\ archive'.read \in 0 .. Len(archive'.header.body)
           /\ h.type \in {"directory", "regular", "symlink", "other"}
           /\ h.path \in Seq(STRING) /\ h.body \in Seq(STRING) /\ NormalPath(h.path) /\ h.size \in Nat
           /\ m_symlinks \in SUBSET Seq(STRING)
           /\ RootMade(returned, m_fstreeRoot)
           /\ ShapeInv(returned, m_fstreeRoot, m_symlinks, m_digests)
           /\ AtInv(returned, archive, entryIndex)
           /\ returned \in Seq(EntryTypes)
    <1>1. walking /\ entryIndex < MaxHeaders /\ entryIndex \in 0 .. MaxHeaders /\ MaxHeaders \in Nat
      BY LimitsAssumption DEF MoveTo, ReaderInv, TypeOK
    <1>2. m_entryStack = <<>> /\ error = "none" /\ ~endOfArchive
      BY <1>1 DEF ReaderInv, WalkInv
    <1>3. returned \in Seq(EntryTypes)
      BY DEF ReaderInv, TypeOK
    <1>4. Entries = returned
      <2> DEFINE E == EntryTypes
      <2> HIDE DEF E
      <2>1. returned \o <<>> = returned
        BY <1>3, ConcatEmptySeq DEF E
      <2> QED
        BY <1>2, <2>1 DEF Entries
    <1>5. UNCHANGED <<m_digests, endOfArchive>> /\ archive' = [header |-> h, read |-> 0]
          /\ entryIndex' = entryIndex + 1
      BY DEF MoveTo
    <1>6. entryIndex \in Nat /\ entryIndex' \in 0 .. MaxHeaders
      BY <1>1, <1>5
    <1>7. /\ h.type \in {"directory", "regular", "symlink", "other"}
          /\ h.path \in Seq(STRING) /\ h.body \in Seq(STRING) /\ NormalPath(h.path) /\ h.size \in Nat
      BY HeadersAssumption
    <1>8. archive'.read \in 0 .. Len(archive'.header.body)
      <2>1. Len(h.body) \in Nat
        BY <1>7, LenProperties
      <2> QED
        BY <1>5, <2>1
    <1>9. m_symlinks \in SUBSET Seq(STRING)
      <2>1. m_symlinks \subseteq {g.path : g \in Headers}
        BY DEF ReaderInv, TypeOK
      <2>2. \A g \in Headers : g.path \in Seq(STRING)
        BY HeadersAssumption
      <2> QED
        BY <2>1, <2>2
    <1>10. /\ RootMade(Entries, m_fstreeRoot) /\ AtInv(Entries, archive, entryIndex)
           /\ ShapeInv(Entries, m_fstreeRoot, m_symlinks, m_digests)
      BY <1>2, ReaderParts DEF CountInv
    <1>11. archive' \in [header : Headers \cup {NoHeader}, read : Nat] /\ archive'.header = h /\ archive'.read = 0
      BY <1>5
    <1> QED
      BY <1>2, <1>3, <1>4, <1>5, <1>6, <1>7, <1>8, <1>9, <1>10, <1>11

LEMMA InvalidInv == ASSUME NEW h \in Headers PROVE ReaderInv /\ HeaderInvalid(h) => ReaderInv'
    <1> SUFFICES ASSUME ReaderInv, HeaderInvalid(h) PROVE ReaderInv'
      OBVIOUS
    <1>1. /\ MoveTo(h) /\ error' = "PackageInvalidEntry" /\ walking' = FALSE
          /\ UNCHANGED <<m_fstreeRoot, m_fstreeSize, m_entryStack, m_symlinks, m_verifiedEntries, returned>>
      BY DEF HeaderInvalid, SetError
    <1>2. /\ ~endOfArchive /\ UNCHANGED <<m_digests, endOfArchive>> /\ entryIndex' = entryIndex + 1
          /\ entryIndex \in Nat /\ entryIndex' \in 0 .. MaxHeaders
          /\ archive' \in [header : Headers \cup {NoHeader}, read : Nat]
          /\ archive'.read \in 0 .. Len(archive'.header.body)
          /\ returned \in Seq(EntryTypes) /\ AtInv(returned, archive, entryIndex)
          /\ Entries = returned
      BY <1>1, MoveFacts
    <1>3. Entries' = Entries
      BY <1>1 DEF Entries
    <1>4. AtInv(Entries', archive', entryIndex')
      <2>1. PastInv(returned, entryIndex + 1) /\ entryIndex + 1 \in Nat
        BY <1>2, MovedOn
      <2>2. AtInv(returned, archive', entryIndex + 1)
        BY <1>2, <2>1, MovedOn
      <2> QED
        BY <1>2, <1>3, <2>2
    <1>5. TypeOK'
      BY <1>1, <1>2 DEF ReaderInv, TypeOK
    <1>6. WalkInv' /\ CountInv(Entries)'
      BY <1>1, <1>2 DEF WalkInv, CountInv
    <1> QED
      BY <1>1, <1>2, <1>3, <1>4, <1>5, <1>6 DEF ReaderInv

LEMMA DirectoryInv == ASSUME NEW h \in Headers PROVE ReaderInv /\ HeaderDirectory(h) => ReaderInv'
    <1> SUFFICES ASSUME ReaderInv, HeaderDirectory(h) PROVE ReaderInv'
      OBVIOUS
    <1> DEFINE q == QueuedParents(h.path)
               many == TooManyDirectories(h.path)
    <1>1. /\ MoveTo(h) /\ ~InvalidPath(h) /\ UpdateTree(h.path)
          /\ error' = (IF many THEN "PackageContentsInvalid" ELSE error)
          /\ \/ /\ q = <<>> /\ walking' = ~many
                /\ UNCHANGED <<m_entryStack, returned>>
             \/ /\ q # <<>>
                /\ returned' = Append(returned, Head(q)) /\ m_entryStack' = Tail(q)
                /\ walking' = FALSE
          /\ UNCHANGED <<m_symlinks, m_verifiedEntries>>
      BY DEF HeaderDirectory, SetError
    <1>2. /\ m_entryStack = <<>> /\ error = "none" /\ ~endOfArchive /\ Entries = returned
          /\ UNCHANGED <<m_digests, endOfArchive>> /\ entryIndex' = entryIndex + 1
          /\ entryIndex \in Nat /\ entryIndex' \in 0 .. MaxHeaders
          /\ archive' \in [header : Headers \cup {NoHeader}, read : Nat]
          /\ archive'.read \in 0 .. Len(archive'.header.body)
          /\ h.path \in Seq(STRING) /\ NormalPath(h.path)
          /\ m_symlinks \in SUBSET Seq(STRING)
          /\ RootMade(returned, m_fstreeRoot)
          /\ ShapeInv(returned, m_fstreeRoot, m_symlinks, m_digests)
          /\ AtInv(returned, archive, entryIndex)
          /\ returned \in Seq(EntryTypes)
      BY <1>1, MoveFacts
    <1>3. TypeOK /\ many \in BOOLEAN
      BY DEF ReaderInv, TooManyDirectories
    <1>4. QueueFacts(q, m_fstreeRoot, h.path, ~many)
      BY <1>2, <1>3, Queued
    <1>5. /\ m_fstreeSize' \in Nat /\ m_fstreeRoot' \subseteq Seq(STRING)
          /\ m_fstreeRoot \subseteq m_fstreeRoot'
          /\ \A i \in 1 .. Len(q) : q[i].path \in m_fstreeRoot'
          /\ ~many =>
               \A dir \in m_fstreeRoot' : \/ dir \in m_fstreeRoot
                                          \/ \E j \in 1 .. Len(q) : q[j].path = dir
      BY <1>1, <1>2, <1>3, TreeUpdated
    <1>6. \A symlink \in m_symlinks : ~IsPrefixPath(symlink, h.path)
      BY <1>1 DEF InvalidPath, WithinSymLink
    <1> HIDE DEF q, many
    <1> DEFINE e == returned \o q
    <1>7. /\ ShapeInv(e, m_fstreeRoot', m_symlinks, m_digests)
          /\ PastInv(e, entryIndex + 1) /\ Files(e) = Files(returned)
          /\ (\A dir \in m_fstreeRoot' : dir \in m_fstreeRoot \/ \E j \in 1 .. Len(q) : q[j].path = dir) =>
                RootMade(e, m_fstreeRoot')
      <2> DEFINE grown == m_fstreeRoot'
      <2>1. m_fstreeRoot \subseteq grown /\ \A i \in 1 .. Len(q) : q[i].path \in grown
        BY <1>5
      <2> HIDE DEF grown
      <2>2. /\ ShapeInv(e, grown, m_symlinks, m_digests)
            /\ PastInv(e, entryIndex + 1) /\ Files(e) = Files(returned)
            /\ (\A dir \in grown : dir \in m_fstreeRoot \/ \E j \in 1 .. Len(q) : q[j].path = dir) =>
                  RootMade(e, grown)
        <3> DEFINE all == ~many
        <3>1. all \in BOOLEAN /\ QueueFacts(q, m_fstreeRoot, h.path, all)
          BY <1>3, <1>4
        <3> HIDE DEF all
        <3>2. /\ m_symlinks \in SUBSET Seq(STRING) /\ entryIndex \in Nat /\ h.path \in Seq(STRING)
              /\ ShapeInv(returned, m_fstreeRoot, m_symlinks, m_digests)
              /\ RootMade(returned, m_fstreeRoot) /\ AtInv(returned, archive, entryIndex)
          BY <1>2
        <3>3. GrownFacts(returned, q, e, m_fstreeRoot, grown, m_symlinks, m_digests, entryIndex, h.path, all)
          BY ONLY <1>6, <2>1, <3>1, <3>2, GrowDirs
        <3> QED
          BY <3>3 DEF GrownFacts
      <2> QED
        BY <2>2 DEF grown
    <1>8. q \in Seq(EntryTypes)
      BY <1>4 DEF QueueFacts
    <1>9. Entries' = e /\ returned' \in Seq(EntryTypes) /\ m_entryStack' \in Seq(EntryTypes)
      <2> DEFINE E == EntryTypes
      <2>0. returned \in Seq(E) /\ q \in Seq(E)
        BY <1>2, <1>8
      <2> HIDE DEF E
      <2>1. CASE q = <<>> /\ UNCHANGED <<m_entryStack, returned>>
        BY <1>2, <2>0, <2>1, EmptySeq DEF Entries, E
      <2>2. CASE q # <<>> /\ returned' = Append(returned, Head(q)) /\ m_entryStack' = Tail(q)
        <3>1. returned' \o m_entryStack' = e /\ returned' \in Seq(E) /\ m_entryStack' \in Seq(E)
          BY <2>0, <2>2, Moved
        <3> QED
          BY <3>1 DEF Entries, E
      <2> QED
        BY <1>1, <2>1, <2>2
    <1> HIDE DEF e
    <1>10. AtInv(e, archive', entryIndex')
      <2>1. e \in Seq(EntryTypes) /\ entryIndex + 1 \in Nat
        BY <1>2, <1>7 DEF ShapeInv
      <2> QED
        BY <1>2, <1>7, <2>1, MovedOn
    <1>11. TypeOK'
      <2>1. /\ m_digests' \in DigestMaps \cup {NoDigests} /\ m_verifiedEntries' \in Nat
            /\ endOfArchive' \in BOOLEAN /\ m_symlinks' \subseteq {g.path : g \in Headers}
        BY <1>1, <1>2, <1>3 DEF TypeOK
      <2>2. walking' \in BOOLEAN
        BY <1>1, <1>3
      <2>3. error' \in {"none", "PackageInvalidEntry", "PackageContentsInvalid", "PackageSignatureInvalid"}
        BY <1>1, <1>2
      <2> QED
        BY <1>2, <1>5, <1>9, <2>1, <2>2, <2>3 DEF TypeOK
    <1>12. WalkInv'
      BY <1>1, <1>2 DEF WalkInv
    <1>13. CountInv(Entries)'
      <2> SUFFICES ASSUME error' = "none" PROVE CountInv(Entries)'
        BY DEF CountInv
      <2>1. ~many
        BY <1>1
      <2>2. RootMade(e, m_fstreeRoot')
        BY <1>5, <1>7, <2>1
      <2>3. m_digests # NoDigests => m_verifiedEntries = Cardinality(Files(returned))
        BY <1>2 DEF ReaderInv, CountInv
      <2> QED
        BY <1>1, <1>2, <1>7, <1>9, <2>2, <2>3 DEF CountInv
    <1> QED
      <2>1. ShapeInv(Entries', m_fstreeRoot', m_symlinks', m_digests')
        BY <1>1, <1>2, <1>7, <1>9
      <2>2. IsFiniteSet(m_symlinks') /\ Cardinality(m_symlinks') <= MAX_SYMLINK_COUNT
        BY <1>1 DEF ReaderInv
      <2> QED
        BY <1>9, <1>10, <1>11, <1>12, <1>13, <2>1, <2>2 DEF ReaderInv, ShapeInv

\* The parents of a file: what is queued of them and what becomes of the tree.
ParentFacts(queue, root, grown, path, all) ==
  /\ QueueFacts(queue, root, path, all)
  /\ root \subseteq grown /\ grown \subseteq Seq(STRING)
  /\ \A i \in 1 .. Len(queue) : queue[i].path \in grown
  /\ all => \A dir \in grown : dir \in root \/ \E j \in 1 .. Len(queue) : queue[j].path = dir

LEMMA FileParents ==
    ASSUME TypeOK, NEW path \in Seq(STRING), NormalPath(path), path # <<>>,
           IF Len(path) > 1 THEN UpdateTree(ParentPath(path))
           ELSE UNCHANGED <<m_fstreeRoot, m_fstreeSize>>
    PROVE  /\ ParentFacts(IF Len(path) > 1 THEN QueuedParents(ParentPath(path)) ELSE <<>>,
                          m_fstreeRoot, m_fstreeRoot', ParentPath(path),
                          ~(Len(path) > 1 /\ TooManyDirectories(ParentPath(path))))
           /\ m_fstreeSize' \in Nat
    <1> DEFINE P == ParentPath(path)
               many == TooManyDirectories(P)
    <1>1. P \in Seq(STRING) /\ NormalPath(P) /\ Len(P) = Len(path) - 1
      BY ParentNormal
    <1>2. Len(path) \in Nat /\ Len(path) # 0
      BY EmptySeq
    <1>3. CASE Len(path) > 1
      <2>1. QueueFacts(QueuedParents(P), m_fstreeRoot, P, ~many)
        BY <1>1, Queued
      <2>2. /\ m_fstreeSize' \in Nat /\ m_fstreeRoot' \subseteq Seq(STRING)
            /\ m_fstreeRoot \subseteq m_fstreeRoot'
            /\ \A i \in 1 .. Len(QueuedParents(P)) : QueuedParents(P)[i].path \in m_fstreeRoot'
            /\ ~many =>
                 \A dir \in m_fstreeRoot' : \/ dir \in m_fstreeRoot
                                            \/ \E j \in 1 .. Len(QueuedParents(P)) : QueuedParents(P)[j].path = dir
        BY <1>1, <1>3, TreeUpdated
      <2>3. ParentFacts(QueuedParents(P), m_fstreeRoot, m_fstreeRoot', P, ~many)
        BY <2>1, <2>2 DEF ParentFacts
      <2>4. ~(Len(path) > 1 /\ many) <=> ~many
        BY <1>3
      <2> QED
        BY <1>3, <2>2, <2>3, <2>4
    <1>4. CASE ~(Len(path) > 1)
      <2>1. Len(P) = 0
        BY <1>1, <1>2, <1>4
      <2>2. DOMAIN DirectoriesOf(P) = {}
        <3> DEFINE dirs == DirectoriesOf(P)
        <3>1. dirs \in Seq(Seq(STRING)) /\ Len(dirs) <= 0
          BY <1>1, <2>1, Directories DEF DirectoryFacts
        <3> HIDE DEF dirs
        <3>2. DOMAIN dirs = 1 .. Len(dirs) /\ Len(dirs) \in Nat
          BY <3>1, LenProperties
        <3>3. DOMAIN dirs = {}
          BY <3>1, <3>2
        <3> QED
          BY <3>3 DEF dirs
      <2>3. <<>> \in Seq(EntryTypes) /\ Len(<<>>) = 0 /\ 1 .. 0 = {}
        BY EmptySeq
      <2>4. QueueFacts(<<>>, m_fstreeRoot, P, TRUE)
        BY <2>2, <2>3 DEF QueueFacts
      <2>5. UNCHANGED <<m_fstreeRoot, m_fstreeSize>> /\ m_fstreeRoot \subseteq Seq(STRING) /\ m_fstreeSize \in Nat
        BY <1>4 DEF TypeOK
      <2>6. ParentFacts(<<>>, m_fstreeRoot, m_fstreeRoot', P, TRUE)
        BY <2>3, <2>4, <2>5 DEF ParentFacts
      <2> QED
        BY <1>4, <2>5, <2>6
    <1> QED
      BY <1>3, <1>4

\* The entry of a file that is not refused.
LEMMA FileEntry ==
    ASSUME ReaderInv, NEW h \in Headers, MoveTo(h), h.type # "directory", CreateError(h) = "none",
           h.path # <<>>
    PROVE  LET f == Entry(h.type, h.path, entryIndex', SignedDigest(h.path),
                          IF h.type = "symlink" THEN Len(h.body) ELSE h.size, h.body)
           IN  /\ f \in EntryTypes /\ EntryInv(f, m_digests) /\ IsFile(f)
               /\ f.path = h.path /\ f.type = h.type /\ f.index = entryIndex' /\ f.own = h.body
               /\ f.read = <<>>
               /\ h.type \in {"regular", "symlink"} /\ Signed(h)
    <1> DEFINE size == IF h.type = "symlink" THEN Len(h.body) ELSE h.size
               f == Entry(h.type, h.path, entryIndex', SignedDigest(h.path), size, h.body)
               d == SignedDigest(h.path)
    <1>1. /\ h.type \in {"directory", "regular", "symlink", "other"}
          /\ h.path \in Seq(STRING) /\ h.body \in Seq(STRING) /\ NormalPath(h.path) /\ h.size \in Nat
          /\ entryIndex' \in 0 .. MaxHeaders
      BY MoveFacts
    <1>2. h.type \in {"regular", "symlink"} /\ Signed(h)
      BY <1>1 DEF CreateError
    <1>3. m_digests \in DigestMaps \cup {NoDigests}
      BY DEF ReaderInv, TypeOK
    <1>4. d \in Digests /\ IF m_digests = NoDigests THEN d = NoDigests
                           ELSE h.path \in DOMAIN m_digests /\ d = m_digests[h.path]
      <2>1. CASE m_digests = NoDigests
        BY <2>1 DEF SignedDigest, Digests
      <2>2. CASE m_digests # NoDigests
        <3>1. m_digests \in DigestMaps /\ h.path \in DOMAIN m_digests /\ d = m_digests[h.path]
          BY <1>2, <1>3, <2>2 DEF Signed, SignedDigest
        <3> QED
          BY <2>2, <3>1 DEF Digests
      <2> QED
        BY <2>1, <2>2
    <1>5. Len(h.body) \in Nat /\ size \in Nat
      <2>1. Len(h.body) \in Nat
        BY <1>1, LenProperties
      <2> QED
        BY <1>1, <2>1
    <1> HIDE DEF d, size
    <1>6. f = [type |-> h.type, path |-> h.path, index |-> entryIndex', digest |-> d, size |-> size,
               eof |-> FALSE, read |-> <<>>, own |-> h.body, answers |-> {}, reads |-> 0]
      BY DEF Entry, d
    <1>7. f \in EntryTypes
      <2>1. 0 \in 0 .. MaxReads /\ <<>> \in Seq(STRING)
        BY LimitsAssumption, EmptySeq
      <2> HIDE DEF f
      <2> QED
        BY <1>1, <1>2, <1>4, <1>5, <1>6, <2>1 DEF EntryTypes
    <1>8. /\ f.path = h.path /\ f.type = h.type /\ f.index = entryIndex' /\ f.own = h.body
          /\ f.read = <<>> /\ f.digest = d /\ f.size = size /\ f.eof = FALSE /\ f.answers = {}
      BY <1>6
    <1> HIDE DEF f
    <1>9. IsFile(f)
      BY <1>8 DEF IsFile
    <1>10. EntryInv(f, m_digests)
      <2>1. IsPrefixPath(<<>>, h.body)
        BY <1>1, Prefixes
      <2>2. \A k \in 1 .. Len(h.path) - 1 : h.path[k] \notin {".", ""}
        <3> SUFFICES ASSUME NEW k \in 1 .. Len(h.path) - 1 PROVE h.path[k] \notin {".", ""}
          OBVIOUS
        <3> DEFINE n == Len(h.path)
        <3>1. n \in Nat
          BY <1>1, LenProperties
        <3> HIDE DEF n
        <3>2. k \in 1 .. n /\ k # n
          BY <3>1 DEF n
        <3> QED
          BY <1>1, <3>2 DEF NormalPath, n
      <2>3. h.type = "symlink" => size = Len(h.body)
        BY DEF size
      <2>4. f.type # "directory" /\ (f.type = "symlink" => f.size = Len(f.own)) /\ f.path # <<>>
        BY <1>2, <1>8, <2>3
      <2>5. ReadInv(f)
        BY <1>8, <2>1 DEF ReadInv, EofInv
      <2>6. \A k \in 1 .. Len(f.path) - 1 : f.path[k] \notin {".", ""}
        BY <1>8, <2>2
      <2>7. IF m_digests = NoDigests THEN f.digest = NoDigests
            ELSE f.path \in DOMAIN m_digests /\ f.digest = m_digests[f.path]
        BY <1>4, <1>8
      <2> QED
        BY <2>4, <2>5, <2>6, <2>7, Zenon DEF EntryInv
    <1> QED
      BY <1>2, <1>7, <1>8, <1>9, <1>10 DEF f, size

\* What HeaderFile does, by cases: the path has no filename; the file is refused, its
\* parents are queued; or it waits behind them.
LEMMA FileCases ==
    ASSUME ReaderInv, NEW h \in Headers, HeaderFile(h), NEW q, NEW all,
           q = (IF Len(h.path) > 1 THEN QueuedParents(ParentPath(h.path)) ELSE <<>>),
           all = ~(Len(h.path) > 1 /\ TooManyDirectories(ParentPath(h.path))),
           NEW f, f = Entry(h.type, h.path, entryIndex', SignedDigest(h.path),
                            IF h.type = "symlink" THEN Len(h.body) ELSE h.size, h.body)
    PROVE  \/ /\ ~HasFilename(h.path) /\ error' # "none"
              /\ UNCHANGED <<m_fstreeRoot, m_fstreeSize, m_symlinks, m_verifiedEntries, returned>>
              /\ m_entryStack' = <<>>
           \/ /\ HasFilename(h.path) /\ error' # "none"
              /\ UNCHANGED returned /\ m_entryStack' = q
           \/ /\ HasFilename(h.path) /\ error' = "none" /\ all
              /\ ~TooManySymlinks(h) /\ CreateError(h) = "none"
              /\ returned' = Append(returned, Head(q \o <<f>>)) /\ m_entryStack' = Tail(q \o <<f>>)
              /\ m_symlinks' = IF h.type = "symlink" THEN m_symlinks \cup {h.path} ELSE m_symlinks
              /\ m_verifiedEntries' = IF m_digests # NoDigests /\ Signed(h)
                                         /\ h.type \in {"regular", "symlink"}
                                      THEN m_verifiedEntries + 1 ELSE m_verifiedEntries
    <1> DEFINE refused == IF ~HasFilename(h.path) THEN "PackageInvalidEntry"
                  ELSE IF TooManySymlinks(h) THEN "PackageContentsInvalid"
                  ELSE IF CreateError(h) # "none" THEN CreateError(h)
                  ELSE IF ~all THEN "PackageContentsInvalid"
                  ELSE "none"
    <1>1. /\ IF HasFilename(h.path) /\ Len(h.path) > 1
             THEN UpdateTree(ParentPath(h.path))
             ELSE UNCHANGED <<m_fstreeRoot, m_fstreeSize>>
          /\ m_symlinks' = IF h.type = "symlink" /\ HasFilename(h.path) /\ ~TooManySymlinks(h)
                           THEN m_symlinks \cup {h.path} ELSE m_symlinks
          /\ m_verifiedEntries' = IF /\ HasFilename(h.path) /\ ~TooManySymlinks(h)
                                     /\ m_digests # NoDigests /\ Signed(h)
                                     /\ h.type \in {"regular", "symlink"}
                                  THEN m_verifiedEntries + 1 ELSE m_verifiedEntries
          /\ error' = refused
          /\ IF refused = "none"
             THEN returned' = Append(returned, Head(q \o <<f>>)) /\ m_entryStack' = Tail(q \o <<f>>)
             ELSE m_entryStack' = (IF HasFilename(h.path) THEN q ELSE <<>>) /\ UNCHANGED returned
      BY DEF HeaderFile, SetError
    <1>2. CASE ~HasFilename(h.path)
      BY <1>1, <1>2
    <1>3. CASE HasFilename(h.path) /\ refused # "none"
      BY <1>1, <1>3
    <1>4. CASE HasFilename(h.path) /\ refused = "none"
      <2>1. ~TooManySymlinks(h) /\ CreateError(h) = "none" /\ all
        BY <1>4
      <2> QED
        BY <1>1, <1>4, <2>1
    <1> QED
      BY <1>2, <1>3, <1>4

LEMMA FileInv == ASSUME NEW h \in Headers PROVE ReaderInv /\ HeaderFile(h) => ReaderInv'
    <1> SUFFICES ASSUME ReaderInv, HeaderFile(h) PROVE ReaderInv'
      OBVIOUS
    <1> DEFINE P == ParentPath(h.path)
               q == IF Len(h.path) > 1 THEN QueuedParents(P) ELSE <<>>
               all == ~(Len(h.path) > 1 /\ TooManyDirectories(P))
               f == Entry(h.type, h.path, entryIndex', SignedDigest(h.path),
                          IF h.type = "symlink" THEN Len(h.body) ELSE h.size, h.body)
               e == returned \o q
               A == /\ ~HasFilename(h.path) /\ error' # "none"
                    /\ UNCHANGED <<m_fstreeRoot, m_fstreeSize, m_symlinks, m_verifiedEntries, returned>>
                    /\ m_entryStack' = <<>>
               B == /\ HasFilename(h.path) /\ error' # "none"
                    /\ UNCHANGED returned /\ m_entryStack' = q
               C == /\ HasFilename(h.path) /\ error' = "none" /\ all
                    /\ ~TooManySymlinks(h) /\ CreateError(h) = "none"
                    /\ returned' = Append(returned, Head(q \o <<f>>)) /\ m_entryStack' = Tail(q \o <<f>>)
                    /\ m_symlinks' = IF h.type = "symlink" THEN m_symlinks \cup {h.path} ELSE m_symlinks
                    /\ m_verifiedEntries' = IF m_digests # NoDigests /\ Signed(h)
                                               /\ h.type \in {"regular", "symlink"}
                                            THEN m_verifiedEntries + 1 ELSE m_verifiedEntries
    <1>1. A \/ B \/ C
      BY ZenonT(40), FileCases
    <1>2. /\ MoveTo(h) /\ ~InvalidPath(h) /\ h.type # "directory" /\ walking' = FALSE
          /\ IF HasFilename(h.path) /\ Len(h.path) > 1
             THEN UpdateTree(P) ELSE UNCHANGED <<m_fstreeRoot, m_fstreeSize>>
          /\ m_symlinks' = IF h.type = "symlink" /\ HasFilename(h.path) /\ ~TooManySymlinks(h)
                           THEN m_symlinks \cup {h.path} ELSE m_symlinks
          /\ m_verifiedEntries' \in {m_verifiedEntries, m_verifiedEntries + 1}
      BY DEF HeaderFile
    <1>3. error' \in {"none", "PackageInvalidEntry", "PackageContentsInvalid", "PackageSignatureInvalid"}
      BY DEF HeaderFile, SetError, CreateError
    <1>4. /\ m_entryStack = <<>> /\ error = "none" /\ ~endOfArchive /\ Entries = returned
          /\ UNCHANGED <<m_digests, endOfArchive>> /\ entryIndex' = entryIndex + 1
          /\ entryIndex \in Nat /\ entryIndex' \in 0 .. MaxHeaders
          /\ archive'.header = h /\ archive'.read = 0
          /\ archive' \in [header : Headers \cup {NoHeader}, read : Nat]
          /\ archive'.read \in 0 .. Len(archive'.header.body)
          /\ h.path \in Seq(STRING) /\ NormalPath(h.path)
          /\ m_symlinks \in SUBSET Seq(STRING)
          /\ RootMade(returned, m_fstreeRoot)
          /\ ShapeInv(returned, m_fstreeRoot, m_symlinks, m_digests)
          /\ AtInv(returned, archive, entryIndex)
          /\ returned \in Seq(EntryTypes)
      BY <1>2, MoveFacts
    <1>5. h.path # <<>> /\ \A symlink \in m_symlinks : ~IsPrefixPath(symlink, h.path)
      BY <1>2 DEF InvalidPath, WithinSymLink, VerifyPackagePath
    <1>6. /\ m_symlinks \subseteq m_symlinks' /\ m_symlinks' \in SUBSET Seq(STRING)
          /\ m_symlinks' \subseteq {g.path : g \in Headers}
          /\ IsFiniteSet(m_symlinks') /\ Cardinality(m_symlinks') <= MAX_SYMLINK_COUNT
      <2>1. /\ m_symlinks \subseteq {g.path : g \in Headers}
            /\ IsFiniteSet(m_symlinks) /\ Cardinality(m_symlinks) <= MAX_SYMLINK_COUNT
        BY DEF ReaderInv, TypeOK
      <2>2. CASE m_symlinks' = m_symlinks
        BY <1>4, <2>1, <2>2
      <2>3. CASE m_symlinks' = m_symlinks \cup {h.path} /\ h.type = "symlink" /\ ~TooManySymlinks(h)
        <3>1. /\ IsFiniteSet(m_symlinks')
              /\ Cardinality(m_symlinks') = IF h.path \in m_symlinks THEN Cardinality(m_symlinks)
                                            ELSE Cardinality(m_symlinks) + 1
          BY <2>1, <2>3, FS_AddElement
        <3>2. Cardinality(m_symlinks) \in Nat /\ ~(Cardinality(m_symlinks) >= MAX_SYMLINK_COUNT)
          BY <2>1, <2>3, FS_CardinalityType DEF TooManySymlinks
        <3>3. Cardinality(m_symlinks') <= MAX_SYMLINK_COUNT
          BY <2>1, <3>1, <3>2, LimitsAssumption
        <3> QED
          BY <1>4, <2>1, <2>3, <3>1, <3>3
      <2> QED
        BY <1>2, <2>2, <2>3
    <1>7. m_verifiedEntries' \in Nat /\ m_digests' \in DigestMaps \cup {NoDigests}
      BY <1>2, <1>4 DEF ReaderInv, TypeOK
    <1>8. /\ m_fstreeSize' \in Nat /\ m_fstreeRoot' \subseteq Seq(STRING)
          /\ HasFilename(h.path) => ParentFacts(q, m_fstreeRoot, m_fstreeRoot', P, all)
      <2>1. CASE ~HasFilename(h.path)
        BY <1>2, <2>1 DEF ReaderInv, TypeOK
      <2>2. CASE HasFilename(h.path)
        <3>1. TypeOK /\ IF Len(h.path) > 1 THEN UpdateTree(P)
                        ELSE UNCHANGED <<m_fstreeRoot, m_fstreeSize>>
          BY <1>2, <2>2 DEF ReaderInv
        <3>2. m_fstreeSize' \in Nat /\ ParentFacts(q, m_fstreeRoot, m_fstreeRoot', P, all)
          BY <1>4, <1>5, <3>1, FileParents
        <3> QED
          BY <3>2 DEF ParentFacts
      <2> QED
        BY <2>1, <2>2
    <1>9. all \in BOOLEAN
      OBVIOUS
    <1> HIDE DEF all, q, P
    <1>10. HasFilename(h.path) =>
             GrownFacts(returned, q, e, m_fstreeRoot, m_fstreeRoot', m_symlinks, m_digests, entryIndex, P, all)
      <2> SUFFICES ASSUME HasFilename(h.path)
                   PROVE  GrownFacts(returned, q, e, m_fstreeRoot, m_fstreeRoot', m_symlinks, m_digests,
                                     entryIndex, P, all)
        OBVIOUS
      <2> DEFINE grown == m_fstreeRoot'
      <2>1. QueueFacts(q, m_fstreeRoot, P, all) /\ m_fstreeRoot \subseteq grown
            /\ \A i \in 1 .. Len(q) : q[i].path \in grown
        BY <1>8 DEF ParentFacts
      <2> HIDE DEF grown
      <2>2. /\ P \in Seq(STRING) /\ Len(P) = Len(h.path) - 1
            /\ \A i \in 1 .. Len(h.path) - 1 : P[i] = h.path[i]
        BY <1>4, <1>5, ParentNormal DEF P
      <2>3. IsPrefixPath(P, h.path)
        <3> DEFINE n == Len(h.path)
        <3>1. n \in Nat
          BY <1>4, LenProperties
        <3> HIDE DEF n
        <3>2. Len(P) <= n
          BY <2>2, <3>1 DEF n
        <3> QED
          BY <2>2, <3>2 DEF n, IsPrefixPath
      <2>4. \A symlink \in m_symlinks : ~IsPrefixPath(symlink, P)
        BY <1>4, <1>5, <2>2, <2>3, Prefixes
      <2>5. /\ m_symlinks \in SUBSET Seq(STRING) /\ entryIndex \in Nat
            /\ ShapeInv(returned, m_fstreeRoot, m_symlinks, m_digests)
            /\ RootMade(returned, m_fstreeRoot) /\ AtInv(returned, archive, entryIndex)
            /\ P \in Seq(STRING)
        BY <1>4, <2>2
      <2>6. GrownFacts(returned, q, e, m_fstreeRoot, grown, m_symlinks, m_digests, entryIndex, P, all)
        BY ONLY <1>9, <2>1, <2>4, <2>5, GrowDirs
      <2> QED
        BY <2>6 DEF grown
    <1>11. WalkInv' <=> (endOfArchive' => m_entryStack' = <<>>)
      BY <1>2 DEF WalkInv
    <1>12. WalkInv'
      BY <1>4, <1>11
    <1>13. ASSUME returned' \in Seq(EntryTypes), m_entryStack' \in Seq(EntryTypes) PROVE TypeOK'
      <2>1. endOfArchive' \in BOOLEAN /\ walking' \in BOOLEAN
        BY <1>2, <1>4 DEF ReaderInv, TypeOK
      <2> QED
        BY <1>3, <1>4, <1>6, <1>7, <1>8, <1>13, <2>1 DEF TypeOK
    <1> DEFINE E == EntryTypes
    <1> HIDE DEF E, e, f
    <1>14. e = returned \o q
      BY DEF e
    <1>15. CASE A
      <2>1. returned' \in Seq(E) /\ m_entryStack' \in Seq(E) /\ Entries' = returned
        BY <1>4, <1>15, EmptySeq DEF Entries, E
      <2>2. AtInv(returned, archive', entryIndex')
        <3>1. PastInv(returned, entryIndex') /\ entryIndex' \in Nat
          BY <1>4, MovedOn
        <3> QED
          BY <1>4, <3>1, MovedOn
      <2>3. CountInv(Entries)'
        BY <1>15 DEF CountInv
      <2>4. ShapeInv(Entries', m_fstreeRoot', m_symlinks', m_digests')
        BY <1>4, <1>15, <2>1
      <2> QED
        BY <1>6, <1>12, <1>13, <2>1, <2>2, <2>3, <2>4 DEF ReaderInv, ShapeInv, E
    <1>16. CASE B
      <2>1. GrownFacts(returned, q, e, m_fstreeRoot, m_fstreeRoot', m_symlinks, m_digests, entryIndex, P, all)
            /\ QueueFacts(q, m_fstreeRoot, P, all)
        BY <1>8, <1>10, <1>16 DEF ParentFacts
      <2>2. /\ ShapeInv(e, m_fstreeRoot', m_symlinks, m_digests) /\ PastInv(e, entryIndex + 1)
            /\ q \in Seq(E)
        BY <2>1 DEF GrownFacts, QueueFacts, E
      <2>3. returned' \in Seq(E) /\ m_entryStack' \in Seq(E) /\ Entries' = e
        BY <1>4, <1>16, <2>2 DEF Entries, E, e
      <2>4. AtInv(e, archive', entryIndex')
        <3>1. e \in Seq(EntryTypes) /\ entryIndex' \in Nat
          BY <1>4, <2>2 DEF ShapeInv
        <3> QED
          BY <1>4, <2>2, <3>1, MovedOn
      <2>5. CountInv(Entries)'
        BY <1>16 DEF CountInv
      <2>6. ShapeInv(Entries', m_fstreeRoot', m_symlinks', m_digests')
        <3>1. ShapeInv(e, m_fstreeRoot', m_symlinks', m_digests)
          BY <1>6, <2>2, MoreSymlinks
        <3> QED
          BY <1>4, <2>3, <3>1
      <2> QED
        BY <1>6, <1>12, <1>13, <2>3, <2>4, <2>5, <2>6 DEF ReaderInv, ShapeInv, E
    <1>17. CASE C
      <2>1. GrownFacts(returned, q, e, m_fstreeRoot, m_fstreeRoot', m_symlinks, m_digests, entryIndex, P, all)
            /\ ParentFacts(q, m_fstreeRoot, m_fstreeRoot', P, all) /\ all
        BY <1>8, <1>10, <1>17
      <2>2. /\ ShapeInv(e, m_fstreeRoot', m_symlinks, m_digests) /\ PastInv(e, entryIndex + 1)
            /\ q \in Seq(E) /\ e \in Seq(E) /\ Files(e) = Files(returned)
        BY <2>1 DEF GrownFacts, ParentFacts, QueueFacts, E, ShapeInv
      <2>3. RootMade(e, m_fstreeRoot')
            /\ \A k \in DOMAIN DirectoriesOf(P) :
                 \E j \in DOMAIN e : e[j].type = "directory" /\ e[j].path = DirectoriesOf(P)[k]
        BY <2>1 DEF GrownFacts, ParentFacts
      <2>4. /\ f \in E /\ EntryInv(f, m_digests) /\ IsFile(f)
            /\ f.path = h.path /\ f.type = h.type /\ f.index = entryIndex' /\ f.own = h.body
            /\ f.read = <<>> /\ h.type \in {"regular", "symlink"} /\ Signed(h)
        BY <1>2, <1>5, <1>17, FileEntry DEF E, f
      <2>5. /\ ShapeInv(e \o <<f>>, m_fstreeRoot', m_symlinks', m_digests)
            /\ AtInv(e \o <<f>>, archive', entryIndex')
            /\ Files(e \o <<f>>) = Files(e) \cup {Len(e) + 1} /\ Len(e) + 1 \notin Files(e)
            /\ RootMade(e \o <<f>>, m_fstreeRoot')
        <3> DEFINE root == m_fstreeRoot'
                   symlinks == m_symlinks'
                   known == m_symlinks
                   at == archive'
                   index == entryIndex'
        <3>1. /\ symlinks \in SUBSET Seq(STRING) /\ known \in SUBSET symlinks /\ index \in Nat
              /\ ShapeInv(e, root, known, m_digests) /\ PastInv(e, index) /\ RootMade(e, root)
          BY <1>4, <1>6, <2>2, <2>3
        <3>2. /\ \A symlink \in known : ~IsPrefixPath(symlink, f.path)
              /\ f.type = "symlink" => f.path \in symlinks
              /\ f.index = index /\ f.own = at.header.body /\ f.read = <<>> /\ at.read = 0
          BY <1>4, <1>5, <1>17, <2>4
        <3>3. \A k \in DOMAIN DirectoriesOf(ParentPath(f.path)) :
                \E j \in DOMAIN e : e[j].type = "directory"
                                     /\ e[j].path = DirectoriesOf(ParentPath(f.path))[k]
          BY <2>3, <2>4 DEF P
        <3>4. f \in EntryTypes /\ EntryInv(f, m_digests) /\ IsFile(f)
          BY <2>4 DEF E
        <3> HIDE DEF root, symlinks, known, at, index
        <3>5. /\ ShapeInv(e \o <<f>>, root, symlinks, m_digests)
              /\ AtInv(e \o <<f>>, at, index)
              /\ Files(e \o <<f>>) = Files(e) \cup {Len(e) + 1} /\ Len(e) + 1 \notin Files(e)
              /\ RootMade(e \o <<f>>, root)
          BY ONLY <3>1, <3>2, <3>3, <3>4, GrowFile
        <3> QED
          BY <3>5 DEF root, symlinks, at, index
      <2>6. returned' \in Seq(E) /\ m_entryStack' \in Seq(E) /\ Entries' = e \o <<f>>
        <3> DEFINE r == q \o <<f>>
        <3>1. <<f>> \in Seq(E) /\ Len(<<f>>) = 1 /\ returned \in Seq(E)
          BY <1>4, <2>4 DEF E
        <3>2. r \in Seq(E) /\ Len(r) = Len(q) + 1 /\ Len(q) \in Nat
          BY <2>2, <3>1, ConcatProperties, LenProperties
        <3>3. r # <<>>
          BY <3>2
        <3>4. returned \o r = e \o <<f>>
          BY <2>2, <3>1, ConcatAssociative DEF e
        <3>5. returned' = Append(returned, Head(r)) /\ m_entryStack' = Tail(r)
          BY <1>17
        <3> HIDE DEF r
        <3>6. returned' \o m_entryStack' = returned \o r /\ returned' \in Seq(E) /\ m_entryStack' \in Seq(E)
          <4>1. returned \in Seq(E)
            BY <3>1
          <4>2. Append(returned, Head(r)) \o Tail(r) = returned \o r
                /\ Append(returned, Head(r)) \in Seq(E) /\ Tail(r) \in Seq(E)
            BY ONLY <3>2, <3>3, <4>1, Moved
          <4> QED
            BY <3>5, <4>2
        <3> QED
          BY <3>4, <3>6 DEF Entries
      <2>7. CountInv(Entries)'
        <3>1. m_digests # NoDigests => m_verifiedEntries = Cardinality(Files(e))
          BY <1>4, <2>2 DEF ReaderInv, CountInv
        <3>2. IsFiniteSet(Files(e)) /\ Cardinality(Files(e)) \in Nat
          <4>1. DOMAIN e = 1 .. Len(e) /\ Len(e) \in Nat
            BY <2>2, LenProperties
          <4>2. IsFiniteSet(DOMAIN e)
            BY <4>1, FS_Interval
          <4> QED
            BY <4>2, FS_Subset, FS_CardinalityType DEF Files
        <3>3. Cardinality(Files(e \o <<f>>)) = Cardinality(Files(e)) + 1
          BY <2>5, <3>2, FS_AddElement
        <3>4. m_digests # NoDigests => m_verifiedEntries' = m_verifiedEntries + 1
          BY <1>17, <2>4
        <3> QED
          BY <1>4, <2>5, <2>6, <3>1, <3>3, <3>4 DEF CountInv
      <2> QED
        BY <1>4, <1>6, <1>12, <1>13, <2>5, <2>6, <2>7 DEF ReaderInv, ShapeInv, E
    <1> QED
      BY <1>1, <1>15, <1>16, <1>17

-------------------------------------------------------------------------------
(* ArchiveFileEntry::read                                                      *)

\* A read changes one entry, and what was read of the archive if it is at that entry.
LEMMA OneRead ==
    ASSUME ReaderInv, NEW i \in 1 .. Len(returned), NEW new \in EntryTypes,
           SameEntry(returned[i], new), ReadInv(new), ~walking,
           returned' = [returned EXCEPT ![i] = new],
           UNCHANGED <<m_digests, m_fstreeRoot, m_fstreeSize, m_entryStack, m_symlinks,
                       m_verifiedEntries, walking, endOfArchive, entryIndex>>,
           error' \in {error, "PackageContentsInvalid"},
           \/ UNCHANGED archive /\ new.read = returned[i].read
           \/ /\ IsFile(returned[i]) /\ returned[i].index = entryIndex
              /\ Len(new.read) = archive'.read /\ archive'.header = archive.header
              /\ archive' \in [header : Headers \cup {NoHeader}, read : Nat]
              /\ archive'.read \in 0 .. Len(archive'.header.body)
    PROVE  ReaderInv'
    <1> DEFINE E == EntryTypes
               k == Len(returned)
               e == Entries
               n == Len(e)
    <1>1. returned \in Seq(E) /\ m_entryStack \in Seq(E) /\ TypeOK
      BY DEF ReaderInv, TypeOK
    <1>2. new \in E
      OBVIOUS
    <1> HIDE DEF E
    <1>3. /\ e \in Seq(E) /\ DOMAIN e = 1 .. n /\ k \in Nat /\ n \in Nat /\ k <= n
          /\ \A j \in 1 .. k : e[j] = returned[j]
          /\ n = k + Len(m_entryStack) /\ Len(m_entryStack) \in Nat
      <2>1. /\ returned \o m_entryStack \in Seq(E) /\ k \in Nat /\ Len(m_entryStack) \in Nat
            /\ DOMAIN (returned \o m_entryStack) = 1 .. (k + Len(m_entryStack))
            /\ Len(returned \o m_entryStack) = k + Len(m_entryStack)
            /\ \A j \in 1 .. k : (returned \o m_entryStack)[j] = returned[j]
        BY ONLY <1>1, Joined
      <2> HIDE DEF k
      <2> QED
        BY <2>1 DEF Entries
    <1>4. returned' \in Seq(E) /\ Len(returned') = k /\ DOMAIN returned' = 1 .. k
      BY <1>1, <1>2, ExceptSeq, LenProperties
    <1>5. \A j \in 1 .. k : returned'[j] = IF j = i THEN new ELSE returned[j]
      <2>1. DOMAIN returned = 1 .. k
        BY <1>1, LenProperties
      <2> QED
        BY <2>1
    <1>6. /\ Entries' \in Seq(E) /\ DOMAIN Entries' = 1 .. n
          /\ \A j \in 1 .. n : Entries'[j] = IF j = i THEN new ELSE e[j]
      <2> DEFINE r == returned'
                 t == m_entryStack
                 s == returned
      <2>1. r \in Seq(E) /\ t \in Seq(E) /\ s \in Seq(E) /\ Len(r) = k /\ Len(s) = k
            /\ Entries' = r \o t /\ e = s \o t /\ \A j \in 1 .. k : r[j] = IF j = i THEN new ELSE s[j]
        BY <1>1, <1>4, <1>5 DEF Entries
      <2>2. i \in 1 .. k
        OBVIOUS
      <2> HIDE DEF r, t, s, k, e
      <2>3. /\ r \o t \in Seq(E) /\ DOMAIN (r \o t) = 1 .. (Len(r) + Len(t))
            /\ \A j \in 1 .. Len(r) : (r \o t)[j] = r[j]
            /\ \A j \in 1 .. Len(t) : (r \o t)[Len(r) + j] = t[j]
        <3>1. r \in Seq(E) /\ t \in Seq(E)
          BY <2>1
        <3> QED
          BY ONLY <3>1, Joined
      <2>4. /\ DOMAIN (s \o t) = 1 .. (Len(s) + Len(t))
            /\ \A j \in 1 .. Len(s) : (s \o t)[j] = s[j]
            /\ \A j \in 1 .. Len(t) : (s \o t)[Len(s) + j] = t[j]
        <3>1. s \in Seq(E) /\ t \in Seq(E)
          BY <2>1
        <3> QED
          BY ONLY <3>1, Joined
      <2>5. DOMAIN Entries' = 1 .. n /\ n = k + Len(t) /\ Len(t) \in Nat
        BY <1>3, <2>1, <2>3 DEF t
      <2>6. ASSUME NEW j \in 1 .. n PROVE Entries'[j] = IF j = i THEN new ELSE e[j]
        <3> HIDE DEF n
        <3>1. CASE j \in 1 .. k
          BY <2>1, <2>3, <2>4, <3>1
        <3>2. CASE j \notin 1 .. k
          <4>1. j - k \in 1 .. Len(t) /\ k + (j - k) = j /\ j # i
            BY <1>3, <2>2, <2>5, <3>2
          <4>2. (r \o t)[k + (j - k)] = t[j - k] /\ (s \o t)[k + (j - k)] = t[j - k]
            BY <2>1, <2>3, <2>4, <4>1
          <4> QED
            BY <2>1, <4>1, <4>2
        <3> QED
          BY <3>1, <3>2
      <2> QED
        BY <2>1, <2>3, <2>5, <2>6
    <1>7. i \in 1 .. n /\ e[i] = returned[i]
      BY <1>3
    <1>8. /\ ShapeInv(e, m_fstreeRoot, m_symlinks, m_digests) /\ AtInv(e, archive, entryIndex)
          /\ CountInv(e) /\ WalkInv
      BY ReaderParts
    <1> HIDE DEF n, k, e
    <1>9. \A j \in DOMAIN e : SameEntry(e[j], Entries'[j]) /\ ReadInv(Entries'[j])
      <2>1. \A j \in DOMAIN e : ReadInv(e[j])
        BY <1>8 DEF ShapeInv, EntryInv
      <2>2. \A j \in DOMAIN e : SameEntry(e[j], e[j])
        BY DEF SameEntry
      <2> QED
        BY <1>3, <1>6, <1>7, <2>1, <2>2
    <1>10. archive'.header = archive.header
      OBVIOUS
    <1>11. \A j \in DOMAIN e : IsFile(e[j]) /\ e[j].index = entryIndex => Len(Entries'[j].read) = archive'.read
      <2> SUFFICES ASSUME NEW j \in DOMAIN e, IsFile(e[j]), e[j].index = entryIndex
                   PROVE  Len(Entries'[j].read) = archive'.read
        OBVIOUS
      <2>1. Len(e[j].read) = archive.read
        BY <1>8 DEF AtInv
      <2>2. CASE UNCHANGED archive /\ new.read = returned[i].read
        BY <1>3, <1>6, <1>7, <2>1, <2>2
      <2>3. CASE IsFile(returned[i]) /\ returned[i].index = entryIndex /\ Len(new.read) = archive'.read
        <3>1. j = i
          BY <1>3, <1>7, <1>8, <2>3 DEF AtInv
        <3> QED
          BY <1>6, <1>7, <2>3, <3>1
      <2> QED
        BY <2>2, <2>3
    <1>12. /\ ShapeInv(Entries', m_fstreeRoot, m_symlinks, m_digests) /\ AtInv(Entries', archive', entryIndex)
           /\ RootMade(e, m_fstreeRoot) => RootMade(Entries', m_fstreeRoot)
           /\ Files(Entries') = Files(e)
      <2> DEFINE f == Entries'
                 next == archive'
      <2>1. f \in Seq(EntryTypes) /\ DOMAIN e = DOMAIN f
        BY <1>3, <1>6 DEF E
      <2> HIDE DEF f, next
      <2>2. SameFacts(e, f, m_fstreeRoot, m_symlinks, m_digests, next, entryIndex)
        <3>1. \A j \in DOMAIN e : SameEntry(e[j], f[j]) /\ ReadInv(f[j])
          BY <1>9 DEF f
        <3>2. \A j \in DOMAIN e : IsFile(e[j]) /\ e[j].index = entryIndex => Len(f[j].read) = next.read
          BY <1>11 DEF f, next
        <3>3. next.header = archive.header
          BY <1>10 DEF next
        <3> QED
          BY ONLY <1>8, <2>1, <3>1, <3>2, <3>3, SameShape
      <2> QED
        BY <2>2 DEF f, next, SameFacts
    <1>13. TypeOK'
      <2>1. /\ archive' \in [header : Headers \cup {NoHeader}, read : Nat]
            /\ archive'.read \in 0 .. Len(archive'.header.body)
        BY <1>1 DEF TypeOK
      <2>2. returned' \in Seq(EntryTypes)
        BY <1>4 DEF E
      <2>3. error' \in {"none", "PackageInvalidEntry", "PackageContentsInvalid", "PackageSignatureInvalid"}
        BY <1>1 DEF TypeOK
      <2> QED
        BY <1>1, <2>1, <2>2, <2>3 DEF TypeOK
    <1>14. CountInv(Entries)'
      <2> SUFFICES ASSUME error' = "none" PROVE CountInv(Entries)'
        BY DEF CountInv
      <2>1. error = "none"
        OBVIOUS
      <2> QED
        BY <1>8, <1>12, <2>1 DEF CountInv
    <1>15. WalkInv'
      BY <1>8 DEF WalkInv
    <1> QED
      BY <1>12, <1>13, <1>14, <1>15 DEF ReaderInv, ShapeInv

\* More of an entry's own data.
LEMMA ReadMore ==
    ASSUME NEW read \in Seq(STRING), NEW own \in Seq(STRING), IsPrefixPath(read, own),
           Len(read) < Len(own)
    PROVE  /\ Append(read, own[Len(read) + 1]) \in Seq(STRING)
           /\ Len(Append(read, own[Len(read) + 1])) = Len(read) + 1
           /\ IsPrefixPath(Append(read, own[Len(read) + 1]), own)
    <1> DEFINE n == Len(read)
               m == Len(own)
               more == Append(read, own[n + 1])
    <1>1. n \in Nat /\ m \in Nat /\ n < m
      BY LenProperties
    <1>2. n + 1 \in 1 .. m
      <2> HIDE DEF n, m
      <2> QED
        BY <1>1
    <1>3. own[n + 1] \in STRING
      BY <1>2, ElementOfSeq
    <1>4. /\ more \in Seq(STRING) /\ Len(more) = n + 1 /\ more[n + 1] = own[n + 1]
          /\ \A i \in 1 .. n : more[i] = read[i]
      BY <1>3, AppendProperties
    <1>5. \A i \in 1 .. n : read[i] = own[i]
      BY DEF IsPrefixPath
    <1> HIDE DEF more, n, m
    <1>6. n + 1 <= m /\ \A i \in 1 .. n + 1 : i \in 1 .. n \/ i = n + 1
      BY <1>1
    <1>7. \A i \in 1 .. n + 1 : more[i] = own[i]
      BY <1>4, <1>5, <1>6
    <1>8. IsPrefixPath(more, own)
      BY <1>4, <1>6, <1>7 DEF IsPrefixPath, m
    <1> QED
      BY <1>4, <1>8 DEF more, n

\* An answer of a read is recorded.
Answered(entry, n, value) ==
  [entry EXCEPT !.answers = IF n > 0 THEN @ \cup {value} ELSE @, !.reads = @ + 1]

AnswerValues == {"data", "eof", "mismatch", "error"}
AfterRead(entry, n, value, eof, chunks) ==
  [Answered(entry, n, value) EXCEPT !.eof = eof, !.read = chunks]

Truths == BOOLEAN
AfterReadFacts(entry, new, n, value, eof, chunks) ==
  /\ new \in EntryTypes /\ SameEntry(entry, new) /\ new.read = chunks /\ new.eof = eof
  /\ new.answers = IF n > 0 THEN entry.answers \cup {value} ELSE entry.answers

LEMMA AnswerFacts ==
    ASSUME NEW entry \in EntryTypes, entry.reads < MaxReads, NEW n, NEW value \in AnswerValues,
           NEW chunks \in Seq(STRING), NEW eof \in Truths, NEW new,
           new = AfterRead(entry, n, value, eof, chunks)
    PROVE  AfterReadFacts(entry, new, n, value, eof, chunks)
    <1>1. entry.reads + 1 \in 0 .. MaxReads
      BY LimitsAssumption, EntryFacts
    <1>2. entry.answers \cup {value} \subseteq {"data", "eof", "mismatch", "error"}
      BY EntryFacts DEF AnswerValues
    <1> QED
      BY <1>1, <1>2 DEF Answered, EntryTypes, SameEntry, AfterRead, AfterReadFacts, Truths

\* What a read makes of the entry: it answers, and may have read a chunk of its own
\* data or found the end of it.
ReadFacts(old, new, n, value) ==
  /\ SameEntry(old, new)
  /\ new.answers = IF n > 0 THEN old.answers \cup {value} ELSE old.answers
  /\ \/ /\ new.read = old.read /\ new.eof = old.eof
        /\ value = "error" \/ (value = "eof" /\ old.eof)
     \/ /\ ~old.eof /\ ~new.eof /\ value = "data" /\ Len(old.read) < Len(old.own)
        /\ new.read = Append(old.read, old.own[Len(old.read) + 1])
     \/ /\ ~old.eof /\ new.eof /\ new.read = old.read
        /\ n > 0 => old.read = old.own
        /\ value = ReadAnswer(old, "eof", old.read)

LEMMA ReadKeeps ==
    ASSUME NEW old, NEW new, NEW n \in BufferSizes, NEW value, ReadInv(old),
           IsPrefixPath(new.read, new.own), ReadFacts(old, new, n, value)
    PROVE  ReadInv(new)
    <1> SUFFICES ASSUME 0 \notin BufferSizes PROVE EofInv(new)
      BY DEF ReadInv
    <1>1. n > 0
      BY LimitsAssumption
    <1>2. /\ SameEntry(old, new) /\ EofInv(old)
          /\ new.answers = old.answers \cup {value}
      BY <1>1 DEF ReadFacts, ReadInv
    <1>3. CASE /\ new.read = old.read /\ new.eof = old.eof
               /\ value = "error" \/ (value = "eof" /\ old.eof)
      BY <1>2, <1>3 DEF EofInv, SameEntry
    <1>4. CASE ~old.eof /\ ~new.eof /\ value = "data"
      BY <1>2, <1>4 DEF EofInv
    <1>5. CASE /\ ~old.eof /\ new.eof /\ new.read = old.read /\ old.read = old.own
               /\ value = ReadAnswer(old, "eof", old.read)
      BY <1>2, <1>5 DEF EofInv, SameEntry, ReadAnswer
    <1> QED
      BY <1>1, <1>3, <1>4, <1>5 DEF ReadFacts

LEMMA ReadEntryInv ==
    ASSUME NEW i \in 1 .. Len(returned), NEW n \in BufferSizes, ReaderInv, ReadEntry(i, n)
    PROVE  ReaderInv'
    <1> DEFINE entry == returned[i]
               body == archive.header.body
               rd == IF n > 0 /\ archive.read < Len(body) THEN "data" ELSE "eof"
               chunks == IF rd = "data" THEN Append(entry.read, body[archive.read + 1]) ELSE entry.read
               E == EntryTypes
    <1>1. /\ ~walking /\ entry.type = "regular" /\ entry.reads < MaxReads
          /\ \/ /\ ~CheckReadState(entry)
                /\ returned' = [returned EXCEPT ![i] = Answered(entry, n, "error")]
                /\ UNCHANGED readState
             \/ /\ CheckReadState(entry) /\ entry.eof
                /\ returned' = [returned EXCEPT ![i] = Answered(entry, n, "eof")]
                /\ UNCHANGED readState
             \/ /\ CheckReadState(entry) /\ ~entry.eof
                /\ returned' = [returned EXCEPT ![i] = [Answered(entry, n, ReadAnswer(entry, rd, chunks)) EXCEPT
                                                         !.eof = (rd = "eof"), !.read = chunks]]
                /\ archive' = [archive EXCEPT !.read = IF rd = "data" THEN @ + 1 ELSE @]
                /\ UNCHANGED <<error, endOfArchive, entryIndex>>
             \/ /\ CheckReadState(entry) /\ ~entry.eof
                /\ error' = "PackageContentsInvalid"
                /\ returned' = [returned EXCEPT ![i] = Answered(entry, n, "error")]
                /\ UNCHANGED <<endOfArchive, entryIndex, archive>>
          /\ UNCHANGED <<m_digests, m_fstreeRoot, m_fstreeSize, m_entryStack, m_symlinks,
                         m_verifiedEntries, walking>>
      BY DEF ReadEntry, Answered, SetError
    <1>2. entry \in E /\ returned \in Seq(E)
      <2>1. returned \in Seq(E)
        BY DEF ReaderInv, TypeOK
      <2> HIDE DEF E
      <2> QED
        BY <2>1, ElementOfSeq
    <1>3. /\ entry.read \in Seq(STRING) /\ entry.own \in Seq(STRING) /\ entry.eof \in BOOLEAN
          /\ n \in Nat
      BY <1>2, LimitsAssumption, EntryFacts
    <1>4. IsPrefixPath(entry.read, entry.own) /\ ReadInv(entry) /\ IsFile(entry)
          /\ (entry.index = entryIndex => entry.own = body /\ Len(entry.read) = archive.read)
      <2>1. m_entryStack \in Seq(E)
        BY DEF ReaderInv, TypeOK
      <2>2. i \in DOMAIN Entries /\ Entries[i] = entry
        <3> HIDE DEF E
        <3>1. /\ DOMAIN (returned \o m_entryStack) = 1 .. (Len(returned) + Len(m_entryStack))
              /\ Len(returned) \in Nat /\ Len(m_entryStack) \in Nat
              /\ \A j \in 1 .. Len(returned) : (returned \o m_entryStack)[j] = returned[j]
          BY ONLY <1>2, <2>1, Joined
        <3> QED
          BY <3>1 DEF Entries
      <2>3. IsFile(entry)
        BY <1>1 DEF IsFile
      <2> QED
        BY <2>2, <2>3 DEF ReaderInv, EntryInv, AtInv, ReadInv
    <1>5. ASSUME NEW value \in {"data", "eof", "mismatch", "error"}
          PROVE  /\ Answered(entry, n, value) \in E /\ SameEntry(entry, Answered(entry, n, value))
                 /\ Answered(entry, n, value).read = entry.read /\ Answered(entry, n, value).eof = entry.eof
                 /\ Answered(entry, n, value).answers = IF n > 0 THEN entry.answers \cup {value} ELSE entry.answers
      <2>1. Answered(entry, n, value) = [Answered(entry, n, value) EXCEPT !.eof = entry.eof, !.read = entry.read]
        BY <1>2 DEF Answered, EntryTypes
      <2>2. entry \in EntryTypes /\ entry.reads < MaxReads /\ entry.read \in Seq(STRING) /\ entry.eof \in Truths
            /\ value \in AnswerValues
        BY <1>1, <1>2, <1>3 DEF AnswerValues, Truths
      <2> DEFINE new == Answered(entry, n, value)
      <2>3. new = AfterRead(entry, n, value, entry.eof, entry.read)
        BY <2>1 DEF AfterRead
      <2> HIDE DEF entry, E, new
      <2>4. AfterReadFacts(entry, new, n, value, entry.eof, entry.read)
        BY ONLY <2>2, <2>3, AnswerFacts
      <2> QED
        BY <2>4 DEF E, new, AfterReadFacts
    <1> HIDE DEF entry
    <1>7. ASSUME NEW value \in {"eof", "error"}, value = "eof" => entry.eof,
                 returned' = [returned EXCEPT ![i] = Answered(entry, n, value)],
                 UNCHANGED <<archive, endOfArchive, entryIndex>>, error' \in {error, "PackageContentsInvalid"}
          PROVE  ReaderInv'
      <2> DEFINE new == Answered(entry, n, value)
      <2>1. /\ new \in E /\ SameEntry(entry, new) /\ new.read = entry.read /\ new.eof = entry.eof
            /\ new.answers = IF n > 0 THEN entry.answers \cup {value} ELSE entry.answers
        BY <1>5
      <2> HIDE DEF new
      <2>2. IsPrefixPath(new.read, new.own)
        BY <1>4, <2>1 DEF SameEntry
      <2>3. returned' = [returned EXCEPT ![i] = new]
        BY <1>7 DEF new
      <2>4. ReadFacts(entry, new, n, value)
        BY <1>7, <2>1 DEF ReadFacts
      <2>5. ReadInv(new)
        BY <1>4, <2>2, <2>4, ReadKeeps
      <2>6. ReaderInv'
        BY <1>1, <1>7, <2>1, <2>3, <2>5, OneRead DEF E, entry
      <2> QED
        BY <2>6
    <1>8. ASSUME CheckReadState(entry), ~entry.eof,
                 returned' = [returned EXCEPT ![i] = [Answered(entry, n, ReadAnswer(entry, rd, chunks)) EXCEPT
                                                         !.eof = (rd = "eof"), !.read = chunks]],
                 archive' = [archive EXCEPT !.read = IF rd = "data" THEN @ + 1 ELSE @],
                 UNCHANGED <<error, endOfArchive, entryIndex>>
          PROVE  ReaderInv'
      <2> DEFINE value == ReadAnswer(entry, rd, chunks)
                 eof == rd = "eof"
                 new == [Answered(entry, n, value) EXCEPT !.eof = eof, !.read = chunks]
      <2>1. entry.index = entryIndex /\ entry.own = body /\ Len(entry.read) = archive.read
        BY <1>4, <1>8 DEF CheckReadState
      <2>2. rd \in {"data", "eof"} /\ (rd = "data" => archive.read < Len(body))
            /\ (rd = "eof" => chunks = entry.read)
        OBVIOUS
      <2>3. /\ archive \in [header : Headers \cup {NoHeader}, read : Nat]
            /\ archive.read \in 0 .. Len(body)
        BY DEF ReaderInv, TypeOK
      <2>4. rd = "data" =>
              /\ Len(entry.read) < Len(entry.own) /\ chunks = Append(entry.read, entry.own[Len(entry.read) + 1])
              /\ chunks \in Seq(STRING) /\ Len(chunks) = Len(entry.read) + 1 /\ IsPrefixPath(chunks, entry.own)
        <3> SUFFICES ASSUME rd = "data"
                     PROVE  /\ Len(entry.read) < Len(entry.own)
                            /\ chunks = Append(entry.read, entry.own[Len(entry.read) + 1])
                            /\ chunks \in Seq(STRING) /\ Len(chunks) = Len(entry.read) + 1
                            /\ IsPrefixPath(chunks, entry.own)
          BY Zenon
        <3>1. Len(entry.read) < Len(entry.own)
          BY <2>1, <2>2
        <3>2. chunks = Append(entry.read, entry.own[Len(entry.read) + 1])
          BY <2>1
        <3> HIDE DEF chunks
        <3> QED
          BY <1>3, <1>4, <3>1, <3>2, ReadMore
      <2>5. rd = "eof" /\ n > 0 => entry.read = entry.own
        <3> SUFFICES ASSUME rd = "eof", n > 0 PROVE entry.read = entry.own
          BY Zenon
        <3>0. ~(archive.read < Len(body))
          OBVIOUS
        <3>1. Len(entry.read) = Len(entry.own)
          <4>1. Len(body) \in Nat
            BY <1>3, <2>1, LenProperties
          <4> QED
            BY <2>1, <2>3, <3>0, <4>1
        <3>2. \A j \in 1 .. Len(entry.read) : entry.read[j] = entry.own[j]
          BY <1>4 DEF IsPrefixPath
        <3> QED
          BY <1>3, <3>1, <3>2, SeqEqual
      <2> HIDE DEF chunks, rd, body
      <2>6. value \in {"data", "eof", "mismatch", "error"} /\ (rd = "data" => value = "data")
        BY <2>2 DEF ReadAnswer
      <2>7. eof \in BOOLEAN /\ chunks \in Seq(STRING) /\ IsPrefixPath(chunks, entry.own)
        BY <1>3, <1>4, <2>2, <2>4
      <2>8. (eof => rd = "eof") /\ (~eof => rd = "data")
        BY <2>2
      <2> HIDE DEF value, eof
      <2>9. /\ new \in EntryTypes /\ SameEntry(entry, new) /\ new.read = chunks /\ new.eof = eof
            /\ new.answers = IF n > 0 THEN entry.answers \cup {value} ELSE entry.answers
        <3>1. entry \in EntryTypes /\ entry.reads < MaxReads /\ value \in AnswerValues
          BY <1>1, <1>2, <2>6 DEF AnswerValues
        <3>2. new = AfterRead(entry, n, value, eof, chunks)
          BY DEF AfterRead
        <3> HIDE DEF new
        <3>3. eof \in Truths /\ chunks \in Seq(STRING)
          BY <2>7 DEF Truths
        <3>4. AfterReadFacts(entry, new, n, value, eof, chunks)
          BY ONLY <3>1, <3>2, <3>3, AnswerFacts
        <3> QED
          BY <3>4 DEF AfterReadFacts
      <2>10. returned' = [returned EXCEPT ![i] = new]
        BY <1>8 DEF value, eof
      <2> HIDE DEF new
      <2>11. IsPrefixPath(new.read, new.own)
        BY <2>7, <2>9 DEF SameEntry
      <2>12. /\ Len(new.read) = archive'.read /\ archive'.header = archive.header
             /\ archive' \in [header : Headers \cup {NoHeader}, read : Nat]
             /\ archive'.read \in 0 .. Len(archive'.header.body)
        <3>1. Len(body) \in Nat
          BY <1>3, <2>1, LenProperties
        <3>2. CASE rd = "data"
          <4>1. archive' = [archive EXCEPT !.read = @ + 1]
            BY <1>8, <3>2
          <4>2. archive.read + 1 \in 0 .. Len(body) /\ archive.read + 1 \in Nat
            BY <2>2, <2>3, <3>1, <3>2
          <4> QED
            BY <2>1, <2>3, <2>4, <2>9, <3>2, <4>1, <4>2 DEF body
        <3>3. CASE rd = "eof"
          <4>1. archive' = archive
            BY <1>8, <2>3, <3>3
          <4> QED
            BY <2>1, <2>2, <2>3, <2>9, <3>3, <4>1 DEF body
        <3> QED
          BY <2>2, <3>2, <3>3
      <2>13. ReadFacts(entry, new, n, value)
        <3>1. CASE rd = "data"
          BY <1>8, <2>2, <2>4, <2>6, <2>9, <3>1 DEF ReadFacts, eof
        <3>2. CASE rd = "eof"
          <4>1. value = ReadAnswer(entry, "eof", entry.read) /\ eof
            BY <2>2, <3>2 DEF value, eof
          <4> QED
            BY <1>8, <2>2, <2>5, <2>9, <3>2, <4>1 DEF ReadFacts
        <3> QED
          BY <2>2, <3>1, <3>2
      <2>14. ReadInv(new)
        BY <1>4, <2>11, <2>13, ReadKeeps
      <2>15. ReaderInv'
        <3>1. SameEntry(returned[i], new) /\ IsFile(returned[i]) /\ returned[i].index = entryIndex
          BY <1>4, <2>1, <2>9 DEF entry
        <3> QED
          BY <1>1, <1>8, <2>9, <2>10, <2>12, <2>14, <3>1, OneRead
      <2> QED
        BY <2>15
    <1> QED
      BY <1>1, <1>7, <1>8 DEF readState, entry

-------------------------------------------------------------------------------
(* The reader                                                                  *)

LEMMA ReaderStep == ReaderInv /\ [Next]_vars => ReaderInv'
    <1> SUFFICES ASSUME ReaderInv, [Next]_vars PROVE ReaderInv'
      OBVIOUS
    <1>1. CASE UNCHANGED vars
      <2>1. UNCHANGED <<m_digests, m_fstreeRoot, m_fstreeSize, m_entryStack, m_symlinks,
                        m_verifiedEntries, error, endOfArchive, entryIndex, archive, walking, returned>>
        BY <1>1 DEF vars, readState
      <2>2. Entries' = Entries
        BY <2>1 DEF Entries
      <2>3. TypeOK' /\ WalkInv' /\ CountInv(Entries)'
        BY <2>1, <2>2 DEF ReaderInv, TypeOK, WalkInv, CountInv
      <2> QED
        BY <2>1, <2>2, <2>3, QuietInv
    <1>2. CASE NextStep
      BY <1>2, QueuedInv, StepInv, InvalidInv, DirectoryInv, FileInv DEF NextStep, HeaderStep
    <1>3. CASE \E i \in 1 .. Len(returned), n \in BufferSizes : ReadEntry(i, n)
      BY <1>3, ReadEntryInv
    <1> QED
      BY <1>1, <1>2, <1>3 DEF Next

\* The reader keeps its inductive invariant, whatever the archive holds and in whatever
\* order the client calls next() and read().
THEOREM ReaderInvariant == Spec => []ReaderInv
    BY InitInv, ReaderStep, PTL DEF Spec

\* The variables of the reader have their types.
THEOREM ReaderTypeCorrect == Spec => []TypeOK
    <1>1. ReaderInv => TypeOK
      BY DEF ReaderInv
    <1> QED
      BY <1>1, ReaderInvariant, PTL

\* The entries that were returned, among all that were made.
LEMMA ReturnedEntries ==
    ASSUME ReaderInv
    PROVE  /\ returned \in Seq(EntryTypes) /\ Len(returned) \in Nat /\ DOMAIN returned = 1 .. Len(returned)
           /\ \A i \in 1 .. Len(returned) :
                /\ returned[i] \in EntryTypes
                /\ i \in DOMAIN Entries /\ Entries[i] = returned[i]
                /\ EntryInv(returned[i], m_digests)
           /\ m_entryStack = <<>> => Entries = returned
    <1> DEFINE E == EntryTypes
    <1>1. returned \in Seq(E) /\ m_entryStack \in Seq(E)
      BY DEF ReaderInv, TypeOK
    <1> HIDE DEF E
    <1>2. /\ DOMAIN (returned \o m_entryStack) = 1 .. (Len(returned) + Len(m_entryStack))
          /\ Len(returned) \in Nat /\ Len(m_entryStack) \in Nat /\ DOMAIN returned = 1 .. Len(returned)
          /\ \A j \in 1 .. Len(returned) : (returned \o m_entryStack)[j] = returned[j]
      BY ONLY <1>1, Joined
    <1>3. ASSUME NEW i \in 1 .. Len(returned)
          PROVE  returned[i] \in E /\ i \in DOMAIN Entries /\ Entries[i] = returned[i]
      <2>1. returned[i] \in E
        BY <1>1, ElementOfSeq
      <2> QED
        BY <1>2, <2>1 DEF Entries
    <1>4. \A i \in DOMAIN Entries : EntryInv(Entries[i], m_digests)
      BY DEF ReaderInv
    <1>5. returned \o <<>> = returned
      BY <1>1, ConcatEmptySeq
    <1> QED
      BY <1>1, <1>2, <1>3, <1>4, <1>5 DEF E, Entries

\* ArchiveReader::next returns each directory once, and every parent directory before
\* what is in it, for any archive (updateParentEntryStack).
THEOREM DirectoriesOrdered == Spec => []DirectoryOrder
    <1>1. ReaderInv => DirectoryOrder
      <2> SUFFICES ASSUME ReaderInv PROVE DirectoryOrder
        OBVIOUS
      <2>1. ParentsFirst
        <3> SUFFICES ASSUME NEW i \in 1 .. Len(returned),
                            NEW k \in 1 .. Len(DirectoriesOf(ParentPath(returned[i].path)))
                     PROVE  \E j \in 1 .. i - 1 :
                              /\ returned[j].type = "directory"
                              /\ returned[j].path = DirectoriesOf(ParentPath(returned[i].path))[k]
          BY DEF ParentsFirst
        <3> DEFINE dirs == DirectoriesOf(ParentPath(returned[i].path))
        <3>1. HasParents(Entries, i) /\ Entries[i] = returned[i]
          BY ReturnedEntries DEF ReaderInv, OrderInv
        <3>2. k \in DOMAIN dirs
          <4> DEFINE P == ParentPath(returned[i].path)
                     N == Named(P)
          <4>1. returned[i].path \in Seq(STRING) /\ returned[i].path # <<>>
            BY ReturnedEntries, EntryFacts DEF EntryInv
          <4>2. P \in Seq(STRING)
            <5>1. Len(returned[i].path) \in Nat /\ Len(returned[i].path) # 0
              BY <4>1, EmptySeq, LenProperties
            <5>2. Len(returned[i].path) - 1 \in 0 .. Len(returned[i].path)
              BY <5>1
            <5> QED
              BY <4>1, <5>2, Beginning DEF ParentPath
          <4> HIDE DEF P
          <4>3. N \in Seq(STRING) /\ Len(N) \in Nat
            BY <4>2, ExcludingSelects, LenProperties DEF Named
          <4>4. dirs = [l \in 1 .. Len(N) |-> SubSeq(N, 1, l)]
            BY DEF DirectoriesOf, P
          <4> HIDE DEF dirs, N
          <4>5. Len(dirs) = Len(N) /\ DOMAIN dirs = 1 .. Len(N)
            BY <4>3, <4>4
          <4> QED
            BY <4>5 DEF dirs
        <3>3. PICK j \in 1 .. i - 1 : Entries[j].type = "directory" /\ Entries[j].path = dirs[k]
          BY <3>1, <3>2 DEF HasParents
        <3>4. j \in 1 .. Len(returned)
          BY ReturnedEntries
        <3> QED
          BY <3>3, <3>4, ReturnedEntries
      <2>2. DirectoriesOnce
        BY ReturnedEntries DEF ReaderInv, OrderInv, DirectoriesOnce
      <2> QED
        BY <2>1, <2>2 DEF DirectoryOrder
    <1> QED
      BY <1>1, ReaderInvariant, PTL

\* No entry is returned whose path is within a symlink returned before it, for any
\* archive (isWithinSymLink).
THEOREM NothingThroughSymlinks == Spec => []NothingWithinSymlinks
    <1>1. ReaderInv => NothingWithinSymlinks
      <2> SUFFICES ASSUME ReaderInv PROVE NothingWithinSymlinks
        OBVIOUS
      <2> QED
        BY ReturnedEntries DEF ReaderInv, SymlinkInv, NothingWithinSymlinks
    <1> QED
      BY <1>1, ReaderInvariant, PTL

\* Whatever entry objects the client keeps and reads, in any order: they return their own
\* data, all of it before the end, and the end only when it matches the signed digest
\* (ArchiveFileEntry::read, checkReadState) -- unless the client reads into an empty
\* buffer, which libarchive answers as it does the end.
THEOREM ReadsAreOwn == ASSUME 0 \notin BufferSizes PROVE Spec => []EntryReads
    <1>1. ReaderInv => EntryReads
      <2> SUFFICES ASSUME ReaderInv PROVE EntryReads
        OBVIOUS
      <2>1. \A i \in 1 .. Len(returned) :
              IsPrefixPath(returned[i].read, returned[i].own) /\ EofInv(returned[i])
        BY ReturnedEntries DEF EntryInv, ReadInv
      <2> QED
        BY <2>1 DEF EntryReads, ReadsOwnData, EofIsEnd, EndIsVerified, EofInv
    <1> QED
      BY <1>1, ReaderInvariant, PTL

\* ... and their own data it is whatever the buffers are.
THEOREM ReadsNothingElse == Spec => []ReadsOwnData
    <1>1. ReaderInv => ReadsOwnData
      BY ReturnedEntries DEF EntryInv, ReadInv, ReadsOwnData
    <1> QED
      BY <1>1, ReaderInvariant, PTL

\* A verified package yields the signed files only, and all of them when it ends without
\* an error and has no path twice (m_verifiedEntries against the size of the digest map).
THEOREM FilesAreSigned == Spec => []SignedFiles
    <1>1. ReaderInv => SignedFiles
      <2> SUFFICES ASSUME ReaderInv PROVE SignedFiles
        OBVIOUS
      <2>1. OnlySignedFiles
        BY ReturnedEntries DEF EntryInv, IsFile, OnlySignedFiles
      <2>2. AllSignedFilesFoundOnce
        <3> SUFFICES ASSUME NoPathRepeated, endOfArchive, error = "none", m_digests # NoDigests,
                            NEW path \in DOMAIN m_digests
                     PROVE  \E i \in 1 .. Len(returned) :
                              returned[i].path = path /\ returned[i].type # "directory"
          BY DEF AllSignedFilesFoundOnce, AllSignedFilesFound
        <3> DEFINE F == Files(returned)
                   D == DOMAIN m_digests
                   f == [i \in F |-> returned[i].path]
        <3>1. Entries = returned
          BY ReturnedEntries DEF ReaderInv, WalkInv
        <3>2. Cardinality(F) = Cardinality(D)
          BY <3>1 DEF ReaderInv, CountInv
        <3>3. F \subseteq 1 .. Len(returned) /\ \A i \in F : returned[i].type # "directory"
          BY ReturnedEntries DEF Files, IsFile
        <3>4. \A i \in F : returned[i].path \in D
          BY <2>1, <3>3 DEF OnlySignedFiles
        <3>5. IsFiniteSet(D)
          BY DigestsAssumption DEF ReaderInv, TypeOK
        <3>6. \A i, j \in F : f[i] = f[j] => i = j
          BY <3>3 DEF NoPathRepeated
        <3> HIDE DEF F, D
        <3>7. f \in Injection(F, D)
          BY <3>4, <3>6 DEF Injection, IsInjective
        <3> HIDE DEF f
        <3>8. f \in Surjection(F, D)
          BY <3>2, <3>5, <3>7, FS_Injection
        <3>9. PICK i \in F : f[i] = path
          BY <3>8 DEF Surjection, D
        <3> QED
          BY <3>3, <3>9 DEF f
      <2> QED
        BY <2>1, <2>2 DEF SignedFiles
    <1> QED
      BY <1>1, ReaderInvariant, PTL

\* The symlinks that were returned are no more than MAX_SYMLINK_COUNT.
LEMMA SymlinksCounted == ReaderInv => SymlinkLimit
    <1> SUFFICES ASSUME ReaderInv PROVE SymlinkLimit
      OBVIOUS
    <1> DEFINE L == {i \in 1 .. Len(returned) : returned[i].type = "symlink"}
               f == [i \in L |-> returned[i].path]
    <1>1. IsFiniteSet(m_symlinks) /\ Cardinality(m_symlinks) <= MAX_SYMLINK_COUNT
      BY DEF ReaderInv
    <1>2. \A i \in L : returned[i].path \in m_symlinks
      BY ReturnedEntries DEF ReaderInv, SymlinkInv
    <1>3. ASSUME NEW i \in L, NEW j \in L, returned[i].path = returned[j].path, i < j PROVE FALSE
      <2>1. ~IsPrefixPath(returned[i].path, returned[j].path)
        BY <1>3, ReturnedEntries DEF ReaderInv, SymlinkInv
      <2>2. returned[i].path \in Seq(STRING)
        BY ReturnedEntries, EntryFacts
      <2> QED
        BY <1>3, <2>1, <2>2, Prefixes
    <1>4. L \subseteq Nat
      BY ReturnedEntries
    <1> HIDE DEF L
    <1>5. \A i, j \in L : returned[i].path = returned[j].path => i = j
      BY <1>3, <1>4
    <1>6. f \in Injection(L, m_symlinks)
      BY <1>2, <1>5 DEF Injection, IsInjective
    <1> HIDE DEF f
    <1>7. Cardinality(L) <= Cardinality(m_symlinks) /\ IsFiniteSet(L)
      BY <1>1, <1>6, FS_Injection
    <1>8. Cardinality(L) \in Nat /\ Cardinality(m_symlinks) \in Nat
      BY <1>1, <1>7, FS_CardinalityType
    <1> QED
      BY <1>1, <1>7, <1>8, LimitsAssumption DEF SymlinkLimit, L

-------------------------------------------------------------------------------
(* The extraction and its reader                                               *)

LEMMA ExtractReads == ExtractNext => [Next]_vars
    BY DEF ExtractNext, Start, CreateReader, Iterate, ReaderNext, Next, SizeLimitExceeded, WriteSkipped,
           WriteEntry, WriteFails, ReaderFailed, SetDirectoryTimes, SameCall

\* Package::extractTo uses the reader as any client may: what is proved of the reader holds
\* during an extraction.
THEOREM ReaderDriven == ExtractSpec => Spec
    <1>1. ExtractInit => Init
      BY DEF ExtractInit
    <1>2. [ExtractNext]_allVars => [Next]_vars
      BY ExtractReads DEF allVars
    <1> QED
      BY <1>1, <1>2, PTL DEF ExtractSpec, Spec

-------------------------------------------------------------------------------
(* The target directory                                                        *)

LEMMA NotOwnParent ==
    ASSUME NEW path \in Seq(STRING)
    PROVE  path \notin ParentsOf(path)
    <1> SUFFICES ASSUME NEW i \in 1 .. Len(path) - 1, path = SubSeq(path, 1, i) PROVE FALSE
      BY DEF ParentsOf
    <1>1. Len(path) \in Nat
      OBVIOUS
    <1>2. i \in 0 .. Len(path) /\ i # Len(path)
      BY <1>1
    <1>3. Len(SubSeq(path, 1, i)) = i
      BY <1>2, Beginning
    <1> QED
      BY <1>2, <1>3

\* A node is put where nothing is below it.
LEMMA PutTree ==
    ASSUME IsFileSystem(target), NEW path \in Seq(STRING), NEW node \in Nodes,
           node.type = "directory" => node.body = <<>>, Reachable(path), IsEmptyDir(path)
    PROVE  IsFileSystem(Put(path, node))
    <1> DEFINE files == Put(path, node)
    <1>1. /\ DOMAIN files = DOMAIN target \cup {path} /\ files[path] = node
          /\ \A p \in DOMAIN target : p # path => files[p] = target[p]
      BY DEF Put
    <1> HIDE DEF files
    <1>2. /\ DOMAIN files \subseteq Seq(STRING) /\ \A p \in DOMAIN files : files[p] \in Nodes
          /\ \A p \in DOMAIN files : files[p].type = "directory" => files[p].body = <<>>
      BY <1>1 DEF IsFileSystem
    <1>3. ASSUME NEW p \in DOMAIN files, NEW dir \in ParentsOf(p)
          PROVE  dir \in DOMAIN files /\ files[dir].type = "directory"
      <2>1. dir \in DOMAIN target /\ target[dir].type = "directory"
        BY <1>1, <1>3 DEF IsFileSystem, IsTree, Reachable, Exists
      <2>2. dir # path
        BY <1>1, <1>3, NotOwnParent DEF IsEmptyDir
      <2> QED
        BY <1>1, <2>1, <2>2
    <1> QED
      BY <1>2, <1>3 DEF IsFileSystem, IsTree, files

LEMMA WithoutTree ==
    ASSUME IsFileSystem(target), NEW path, IsEmptyDir(path)
    PROVE  IsFileSystem(Without(path))
    <1> DEFINE files == Without(path)
    <1>1. /\ DOMAIN files = DOMAIN target \ {path} /\ \A p \in DOMAIN files : files[p] = target[p]
      BY DEF Without
    <1> HIDE DEF files
    <1>2. /\ DOMAIN files \subseteq Seq(STRING) /\ \A p \in DOMAIN files : files[p] \in Nodes
          /\ \A p \in DOMAIN files : files[p].type = "directory" => files[p].body = <<>>
      BY <1>1 DEF IsFileSystem
    <1>3. ASSUME NEW p \in DOMAIN files, NEW dir \in ParentsOf(p)
          PROVE  dir \in DOMAIN files /\ files[dir].type = "directory"
      <2>1. dir \in DOMAIN target /\ target[dir].type = "directory"
        BY <1>1, <1>3 DEF IsFileSystem, IsTree
      <2>2. dir # path
        BY <1>1, <1>3 DEF IsEmptyDir
      <2> QED
        BY <1>1, <2>1, <2>2
    <1> QED
      BY <1>2, <1>3 DEF IsFileSystem, IsTree, files

\* Mode and times change.
SameFiles(old, new) ==
  /\ DOMAIN new = DOMAIN old
  /\ \A p \in DOMAIN old : new[p] \in Nodes /\ new[p].type = old[p].type /\ new[p].body = old[p].body

LEMMA SameTree ==
    ASSUME NEW old, NEW new, IsFileSystem(old), SameFiles(old, new)
    PROVE  IsFileSystem(new)
    <1>1. IsTree(new)
      BY DEF IsFileSystem, SameFiles, IsTree
    <1> QED
      BY <1>1 DEF IsFileSystem, SameFiles

\* What checkExtraction lets an entry replace has nothing below it.
LEMMA Replaceable ==
    ASSUME IsFileSystem(target), NEW path, NEW type, CheckExtraction(path, type) = "Extract"
    PROVE  Reachable(path) /\ IsEmptyDir(path)
           /\ (KeepExistingFiles \in options => ~Exists(path))
    <1>1. Reachable(path) /\ (KeepExistingFiles \in options => ~Exists(path))
      BY DEF CheckExtraction
    <1>2. \/ ~Exists(path) \/ target[path].type # "directory" \/ IsEmptyDir(path)
      BY DEF CheckExtraction
    <1>3. ASSUME NEW other \in DOMAIN target, path \in ParentsOf(other), ~IsEmptyDir(path) PROVE FALSE
      BY <1>2, <1>3 DEF IsFileSystem, IsTree, Exists
    <1> QED
      BY <1>1, <1>3 DEF IsEmptyDir

\* What is skipped is there: for a directory, a directory; unless files are to be skipped,
\* only a directory is.
LEMMA Skippable ==
    ASSUME NEW path, NEW type, CheckExtraction(path, type) = "Skip"
    PROVE  /\ Exists(path) /\ KeepExistingFiles \notin options
           /\ type = "directory" => target[path].type = "directory"
           /\ SkipExistingFiles \notin options => type = "directory"
    BY DEF CheckExtraction

-------------------------------------------------------------------------------
(* The inductive invariant of the extraction                                   *)

CallInv ==
  /\ totalEntries \in 0 .. Len(returned)
  /\ totalExtracted \in Nat /\ sizeLimit \in Nat /\ entriesLimit \in Nat
  /\ IsFileSystem(target)
  /\ dirModTimes \in Seq(Seq(STRING))
  /\ options = Bits(wanted)

\* Before the call nothing was counted; then it stays within its limits.
CountsInv ==
  /\ result \in {"idle", "reader"} =>
       target = initial /\ totalEntries = 0 /\ totalExtracted = 0 /\ dirModTimes = <<>>
  /\ totalExtracted <= sizeLimit
  /\ result \in {"none", "ok"} => totalEntries = 0 \/ totalEntries < entriesLimit
  /\ result = "ok" => totalEntries = Len(returned)

\* The directories whose times will be set.
Timed == {dirModTimes[i] : i \in DOMAIN dirModTimes}

\* A file is the one that was there, or has the signed contents; a file that took the
\* place of a directory of the package is one of the package.
Untouched(path) == path \in DOMAIN initial /\ target[path] = initial[path]
HasSignedContents(path) ==
  path \in DOMAIN m_digests /\ m_digests[path] = sha256Digest(target[path].body)

ContentsInv ==
  m_digests # NoDigests =>
    \A path \in DOMAIN target \ unremoved :
      target[path].type = "regular" =>
        /\ Untouched(path) \/ HasSignedContents(path)
        /\ path \in Timed => HasSignedContents(path)

\* What could not be removed is what the failed writeTo was about.
RemovalInv == unremoved # {} => result = "error" /\ unremoved = {Current.path}

\* What was counted is there, unless it was replaced or is skipped.
Written(j) ==
  /\ Exists(returned[j].path)
  /\ target[returned[j].path].type = returned[j].type
  /\ target[returned[j].path].body = returned[j].own

WrittenInv ==
  result \in {"none", "ok"} =>
    \A j \in 1 .. totalEntries : SkipExistingFiles \notin options /\ ~Superseded(j) => Written(j)

\* A directory of the package is no symlink in the target directory, unless the package has
\* replaced it by one.
WayInv ==
  result \in {"none", "ok"} =>
    \A j \in 1 .. totalEntries :
      returned[j].type = "directory" =>
        \/ Exists(returned[j].path) /\ target[returned[j].path].type # "symlink"
        \/ \E k \in 1 .. totalEntries : returned[k].type = "symlink" /\ returned[k].path = returned[j].path

\* KeepExistingFiles.
KeepInv ==
  "KeepExistingFiles" \in wanted =>
    /\ \A path \in DOMAIN initial : Exists(path) /\ Untouched(path)
    /\ Timed \cap DOMAIN initial = {}

ExtractInv ==
  /\ ReaderInv /\ CallInv /\ CountsInv /\ ContentsInv /\ RemovalInv /\ WrittenInv /\ WayInv
  /\ KeepInv /\ NoWriteThroughSymlink

LEMMA ExtractInitInv == ExtractInit => ExtractInv
    <1> SUFFICES ASSUME ExtractInit PROVE ExtractInv
      OBVIOUS
    <1>1. ReaderInv /\ returned = <<>>
      BY InitInv DEF ExtractInit, Init
    <1>2. DOMAIN target = {} /\ DOMAIN initial = {}
      BY DEF ExtractInit
    <1>3. IsFileSystem(target)
      BY <1>2 DEF IsFileSystem, IsTree
    <1>4. Bits({}) = {}
      BY DEF Bits
    <1>5. CallInv
      <2>1. dirModTimes \in Seq(Seq(STRING))
        BY EmptySeq DEF ExtractInit
      <2> QED
        BY <1>1, <1>3, <1>4, <2>1 DEF ExtractInit, CallInv
    <1>6. CountsInv
      BY DEF ExtractInit, CountsInv
    <1>7. WrittenInv /\ WayInv /\ ContentsInv /\ NoWriteThroughSymlink
      BY <1>2 DEF ExtractInit, WrittenInv, WayInv, ContentsInv, NoWriteThroughSymlink
    <1>8. KeepInv /\ RemovalInv
      BY <1>2 DEF ExtractInit, KeepInv, RemovalInv
    <1> QED
      BY <1>1, <1>5, <1>6, <1>7, <1>8 DEF ExtractInv

\* Only the result changes.
LEMMA ResultInv ==
    ASSUME ExtractInv,
           UNCHANGED <<vars, target, initial, options, wanted, sizeLimit, entriesLimit,
                       totalExtracted, totalEntries, dirModTimes, outside, unremoved>>,
           \/ UNCHANGED result
           \/ result = "idle" /\ result' = "reader"
           \/ result = "none" /\ result' \in {"error", "PackageExtractLimitExceeded"}
    PROVE  ExtractInv'
    <1>1. ReaderInv'
      BY ReaderStep DEF ExtractInv
    <1>2. UNCHANGED returned /\ UNCHANGED m_digests
      BY DEF vars
    <1>3. CallInv' /\ CountsInv' /\ NoWriteThroughSymlink'
      BY <1>2 DEF ExtractInv, CallInv, CountsInv, NoWriteThroughSymlink
    <1>4. ContentsInv' /\ KeepInv' /\ RemovalInv'
      BY <1>2 DEF ExtractInv, ContentsInv, KeepInv, RemovalInv, Current, Timed, Untouched,
                  HasSignedContents, Exists
    <1>5. WrittenInv' /\ WayInv'
      BY <1>2 DEF ExtractInv, WrittenInv, WayInv, Written, Exists, Superseded
    <1> QED
      BY <1>1, <1>3, <1>4, <1>5 DEF ExtractInv

\* The reader goes on.
LEMMA ReaderGrows ==
    ASSUME ReaderInv, [Next]_vars
    PROVE  /\ UNCHANGED m_digests
           /\ NextStep => /\ Len(returned) <= Len(returned')
                          /\ \A j \in 1 .. Len(returned) : returned'[j] = returned[j]
    <1>1. UNCHANGED m_digests
      BY DEF Next, NextStep, HeaderStep, NextNothing, NextQueued, NextWalk, HeaderEof, HeaderFails,
             HeaderInvalid, HeaderDirectory, HeaderFile, MoveTo, ReadEntry, vars
    <1>2. ASSUME NextStep PROVE returned' = returned \/ \E x : returned' = Append(returned, x)
      BY <1>2 DEF NextStep, HeaderStep, NextNothing, NextQueued, NextWalk, HeaderEof, HeaderFails,
             HeaderInvalid, HeaderDirectory, HeaderFile, vars
    <1>3. ASSUME NEW x, returned' = Append(returned, x)
          PROVE  /\ Len(returned) <= Len(returned')
                 /\ \A j \in 1 .. Len(returned) : returned'[j] = returned[j]
      BY <1>3, ReturnedEntries
    <1>4. Len(returned) \in Nat
      BY ReturnedEntries
    <1> QED
      BY <1>1, <1>2, <1>3, <1>4

LEMMA ReadingInv == ExtractInv /\ (Iterate \/ ReaderNext) => ExtractInv'
    <1> SUFFICES ASSUME ExtractInv, Iterate \/ ReaderNext PROVE ExtractInv'
      OBVIOUS
    <1>1. [Next]_vars /\ UNCHANGED extractVars
      BY DEF Iterate, ReaderNext, Next
    <1>2. UNCHANGED <<target, initial, options, wanted, sizeLimit, entriesLimit, totalExtracted,
                      totalEntries, dirModTimes, result, outside, unremoved>>
      BY <1>1 DEF extractVars
    <1>3. ReaderInv'
      BY <1>1, ReaderStep DEF ExtractInv
    <1>4. UNCHANGED m_digests /\ Len(returned) \in Nat
      BY <1>1, ReaderGrows, ReturnedEntries DEF ExtractInv
    <1>5. Len(returned') \in Nat
      BY <1>3 DEF ReaderInv, TypeOK
    <1>6. /\ totalEntries \in 0 .. Len(returned')
          /\ \A j \in 1 .. totalEntries : returned'[j] = returned[j]
          /\ result \notin {"ok", "error"}
      <2>1. CASE Iterate
        BY <1>5, <2>1 DEF Iterate, ExtractInv, CountsInv
      <2>2. CASE ReaderNext
        <3>1. Len(returned) <= Len(returned') /\ \A j \in 1 .. Len(returned) : returned'[j] = returned[j]
          BY <1>1, <2>2, ReaderGrows DEF ReaderNext, ExtractInv
        <3>2. totalEntries \in 0 .. Len(returned)
          BY DEF ExtractInv, CallInv
        <3> QED
          BY <1>4, <1>5, <2>2, <3>1, <3>2 DEF ReaderNext, Extracting
      <2> QED
        BY <2>1, <2>2
    <1>7. CallInv' /\ CountsInv' /\ NoWriteThroughSymlink'
      BY <1>2, <1>6 DEF ExtractInv, CallInv, CountsInv, NoWriteThroughSymlink
    <1>8. ContentsInv' /\ KeepInv' /\ RemovalInv'
      BY <1>2, <1>4, <1>6 DEF ExtractInv, ContentsInv, KeepInv, RemovalInv, Timed, Untouched,
                              HasSignedContents, Exists
    <1>9. WrittenInv'
      <2> SUFFICES ASSUME result' \in {"none", "ok"}, NEW j \in 1 .. totalEntries,
                          SkipExistingFiles \notin options, ~Superseded(j)'
                   PROVE  Written(j)'
        BY <1>2 DEF WrittenInv
      <2>0. totalEntries \in Nat
        BY DEF ExtractInv, CallInv
      <2>1. returned'[j] = returned[j] /\ \A k \in j + 1 .. totalEntries : returned'[k] = returned[k]
        BY <1>6, <2>0
      <2>2. ~Superseded(j)
        BY <1>2, <2>1 DEF Superseded
      <2>3. Written(j)
        BY <1>2, <2>2 DEF ExtractInv, WrittenInv
      <2> QED
        BY <1>2, <2>1, <2>3 DEF Written, Exists
    <1>10. WayInv'
      BY <1>2, <1>6 DEF ExtractInv, WayInv, Exists
    <1> QED
      BY <1>3, <1>7, <1>8, <1>9, <1>10 DEF ExtractInv

LEMMA StartInv == ExtractInv /\ Start => ExtractInv'
    <1> SUFFICES ASSUME ExtractInv, Start PROVE ExtractInv'
      OBVIOUS
    <1>1. /\ result = "idle" /\ target' \in InitialTargets /\ initial' = target'
          /\ options' = Bits(wanted') /\ sizeLimit' \in SizeLimits /\ entriesLimit' \in EntriesLimits
          /\ result' = "none"
          /\ UNCHANGED <<totalExtracted, totalEntries, dirModTimes, outside, unremoved>>
          /\ UNCHANGED vars
      BY DEF Start, Finish
    <1>2. totalEntries = 0 /\ totalExtracted = 0 /\ dirModTimes = <<>>
      BY <1>1 DEF ExtractInv, CountsInv
    <1>3. ReaderInv' /\ UNCHANGED <<returned, m_digests>>
      BY <1>1, ReaderStep DEF ExtractInv, vars
    <1>4. IsFileSystem(target') /\ sizeLimit' \in Nat /\ entriesLimit' \in Nat
      BY <1>1, CallsAssumption
    <1>5. CallInv'
      BY <1>1, <1>3, <1>4 DEF ExtractInv, CallInv
    <1>6. CountsInv'
      BY <1>1, <1>2, <1>4 DEF CountsInv
    <1>7. Timed' = {}
      BY <1>1, <1>2 DEF Timed
    <1>8. ContentsInv' /\ KeepInv' /\ RemovalInv'
      BY <1>1, <1>7 DEF ExtractInv, ContentsInv, KeepInv, RemovalInv, Untouched, Exists
    <1>9. WrittenInv' /\ WayInv'
      BY <1>1, <1>2 DEF WrittenInv, WayInv
    <1>10. NoWriteThroughSymlink'
      BY <1>1 DEF ExtractInv, NoWriteThroughSymlink
    <1> QED
      BY <1>3, <1>5, <1>6, <1>8, <1>9, <1>10 DEF ExtractInv

\* The entry that is written.
LEMMA CurrentFacts ==
    ASSUME ExtractInv, MayWrite
    PROVE  /\ result = "none" /\ totalEntries \in Nat /\ totalEntries + 1 \in 1 .. Len(returned)
           /\ Len(returned) \in Nat
           /\ Current = returned[totalEntries + 1]
           /\ Current \in EntryTypes /\ EntryInv(Current, m_digests)
           /\ Current.path \in Seq(STRING) /\ Current.own \in Seq(STRING) /\ Current.size \in Nat
           /\ Current.type \in {"directory", "regular", "symlink"}
           /\ totalExtracted \in Nat /\ sizeLimit \in Nat /\ totalExtracted + Current.size <= sizeLimit
    <1>1. /\ totalEntries \in 0 .. Len(returned) /\ totalEntries < Len(returned) /\ ReaderInv
          /\ result = "none" /\ totalExtracted \in Nat /\ sizeLimit \in Nat
          /\ totalExtracted + Current.size <= sizeLimit
      BY DEF ExtractInv, CallInv, MayWrite, Writing, Extracting
    <1>2. Len(returned) \in Nat
      BY <1>1, ReturnedEntries
    <1>3. totalEntries + 1 \in 1 .. Len(returned) /\ totalEntries \in Nat
      BY <1>1, <1>2
    <1>4. Current \in EntryTypes /\ EntryInv(Current, m_digests)
      BY <1>1, <1>3, ReturnedEntries DEF Current
    <1> QED
      BY <1>1, <1>2, <1>3, <1>4, EntryFacts DEF Current

\* An entry is counted.
LEMMA Counted ==
    ASSUME ExtractInv, MayWrite, NEW amount \in Nat, amount <= Current.size, CountEntry(Current, amount),
           SameCall
    PROVE  /\ UNCHANGED <<m_digests, returned, initial, options, wanted, sizeLimit, entriesLimit>>
           /\ totalEntries' = totalEntries + 1 /\ totalEntries' \in 0 .. Len(returned)
           /\ totalExtracted' \in Nat
           /\ result' # "ok"
           /\ dirModTimes' \in Seq(Seq(STRING))
           /\ Timed' \subseteq Timed \cup (IF Current.type = "directory" THEN {Current.path} ELSE {})
           /\ CountsInv'
    <1>1. UNCHANGED <<m_digests, returned, initial, options, wanted, sizeLimit, entriesLimit>>
      BY DEF SameCall, vars
    <1>2. /\ totalExtracted' = totalExtracted + amount /\ totalEntries' = totalEntries + 1
          /\ \/ result' = "PackageExtractLimitExceeded" /\ dirModTimes' = dirModTimes
             \/ /\ totalEntries' < entriesLimit /\ result' = "none"
                /\ dirModTimes' = IF Current.type = "directory" THEN Append(dirModTimes, Current.path)
                                  ELSE dirModTimes
      BY DEF CountEntry, Finish
    <1>3. /\ totalEntries \in Nat /\ totalEntries + 1 \in 1 .. Len(returned) /\ Current.path \in Seq(STRING)
          /\ Len(returned) \in Nat /\ totalExtracted \in Nat /\ Current.size \in Nat /\ sizeLimit \in Nat
          /\ totalExtracted + Current.size <= sizeLimit
      BY CurrentFacts
    <1>4. totalExtracted' \in Nat /\ totalExtracted' <= sizeLimit
      BY <1>2, <1>3
    <1>5. /\ dirModTimes' \in Seq(Seq(STRING))
          /\ Timed' \subseteq Timed \cup (IF Current.type = "directory" THEN {Current.path} ELSE {})
      <2> DEFINE U == Seq(STRING)
                 path == Current.path
      <2>1. dirModTimes \in Seq(U) /\ path \in U
        BY <1>3 DEF ExtractInv, CallInv
      <2> HIDE DEF U, path
      <2>2. CASE dirModTimes' = dirModTimes
        BY <2>1, <2>2 DEF Timed, U
      <2>3. CASE Current.type = "directory" /\ dirModTimes' = Append(dirModTimes, path)
        <3>1. /\ Append(dirModTimes, path) \in Seq(U) /\ Len(Append(dirModTimes, path)) = Len(dirModTimes) + 1
              /\ \A i \in 1 .. Len(dirModTimes) : Append(dirModTimes, path)[i] = dirModTimes[i]
              /\ Append(dirModTimes, path)[Len(dirModTimes) + 1] = path
          BY <2>1, AppendProperties
        <3>2. Len(dirModTimes) \in Nat /\ DOMAIN dirModTimes = 1 .. Len(dirModTimes)
              /\ DOMAIN dirModTimes' = 1 .. (Len(dirModTimes) + 1)
          BY <2>1, <2>3, <3>1, LenProperties
        <3>3. ASSUME NEW i \in DOMAIN dirModTimes' PROVE dirModTimes'[i] \in Timed \cup {path}
          <4>1. i \in DOMAIN dirModTimes \/ i = Len(dirModTimes) + 1
            BY <3>2
          <4> QED
            BY <2>3, <3>1, <3>2, <4>1 DEF Timed
        <3>4. Timed' \subseteq Timed \cup {path}
          BY <3>3 DEF Timed
        <3> QED
          BY <2>3, <3>1, <3>4 DEF path, U
      <2> QED
        BY <1>2, <2>2, <2>3 DEF path
    <1>6. CountsInv'
      BY <1>1, <1>2, <1>4 DEF CountsInv
    <1> QED
      BY <1>1, <1>2, <1>3, <1>4, <1>5, <1>6

\* The entries that were counted.
LEMMA CountedEntries ==
    ASSUME ExtractInv, MayWrite, totalEntries' = totalEntries + 1, UNCHANGED returned
    PROVE  /\ \A j \in 1 .. totalEntries' : j \in 1 .. totalEntries \/ j = totalEntries + 1
           /\ \A j \in 1 .. totalEntries :
                ~Superseded(j)' => ~Superseded(j) /\ returned[j].path # Current.path
           /\ \A j \in 1 .. totalEntries : j \in 1 .. totalEntries'
           /\ totalEntries + 1 \in 1 .. totalEntries'
    <1>1. totalEntries \in Nat /\ Current = returned[totalEntries + 1]
      BY CurrentFacts
    <1>2. ASSUME NEW j \in 1 .. totalEntries, ~Superseded(j)'
          PROVE  ~Superseded(j) /\ returned[j].path # Current.path
      <2>1. \A k \in j + 1 .. totalEntries + 1 : returned[k].path # returned[j].path
        BY <1>2 DEF Superseded
      <2>2. totalEntries + 1 \in j + 1 .. totalEntries + 1
            /\ \A k \in j + 1 .. totalEntries : k \in j + 1 .. totalEntries + 1
        BY <1>1
      <2> QED
        BY <1>1, <2>1, <2>2 DEF Superseded
    <1> QED
      BY <1>1, <1>2

\* No symlink is on the way to an entry: its parents are directories of the package, and
\* nothing of the package is within its symlinks.
LEMMA NoSymlinkOnTheWay ==
    ASSUME ExtractInv, MayWrite
    PROVE  ~ThroughSymlink(Current.path)
    <1> SUFFICES ASSUME NEW dir \in ParentsOf(Current.path), Exists(dir), target[dir].type = "symlink"
                 PROVE  FALSE
      BY DEF ThroughSymlink
    <1> DEFINE c == totalEntries + 1
               path == Current.path
               n == Len(path)
    <1>1. /\ result = "none" /\ totalEntries \in Nat /\ c \in 1 .. Len(returned)
          /\ Current = returned[c] /\ path \in Seq(STRING) /\ path # <<>> /\ ReaderInv
          /\ \A k \in 1 .. n - 1 : path[k] \notin {".", ""}
      BY CurrentFacts DEF EntryInv, ExtractInv
    <1>2. PICK k \in 1 .. n - 1 : dir = SubSeq(path, 1, k)
      BY DEF ParentsOf
    <1>3. n \in Nat /\ n # 0
      BY <1>1, EmptySeq, LenProperties
    <1> HIDE DEF path
    <1> DEFINE P == ParentPath(path)
    <1>4. /\ P \in Seq(STRING) /\ Len(P) = n - 1 /\ \A i \in 1 .. n - 1 : P[i] = path[i]
          /\ \A l \in 0 .. n - 1 : SubSeq(P, 1, l) = SubSeq(path, 1, l)
      <2>1. n - 1 \in 0 .. n
        BY <1>3
      <2> QED
        BY <1>1, <2>1, Beginning DEF ParentPath
    <1> HIDE DEF P
    <1>5. Named(P) = P
      <2>1. \A i \in 1 .. Len(P) : P[i] \notin {".", ""}
        BY <1>1, <1>4
      <2> QED
        BY <1>4, <2>1, ExcludingNothing DEF Named
    <1>6. k \in DOMAIN DirectoriesOf(P) /\ DirectoriesOf(P)[k] = dir
      <2>1. DirectoriesOf(P) = [i \in 1 .. n - 1 |-> SubSeq(P, 1, i)]
        BY <1>4, <1>5 DEF DirectoriesOf
      <2>2. k \in 0 .. n - 1
        BY <1>3
      <2> QED
        BY <1>2, <1>4, <2>1, <2>2
    <1>7. PICK j \in 1 .. c - 1 : Entries[j].type = "directory" /\ Entries[j].path = dir
      <2>1. HasParents(Entries, c) /\ Entries[c] = returned[c]
        BY <1>1, ReturnedEntries DEF ReaderInv, OrderInv
      <2> QED
        BY <1>1, <1>6, <2>1 DEF HasParents, P, path
    <1>8. j \in 1 .. totalEntries /\ j \in 1 .. Len(returned) /\ Len(returned) \in Nat
      <2> DEFINE m == Len(returned)
      <2>1. m \in Nat /\ totalEntries \in Nat /\ totalEntries + 1 \in 1 .. m
        BY <1>1, CurrentFacts
      <2> HIDE DEF m
      <2>2. j \in 1 .. totalEntries /\ j \in 1 .. m
        BY <2>1
      <2> QED
        BY <2>1, <2>2 DEF m
    <1>9. returned[j].type = "directory" /\ returned[j].path = dir
      BY <1>1, <1>7, <1>8, ReturnedEntries
    <1>10. PICK l \in 1 .. totalEntries : returned[l].type = "symlink" /\ returned[l].path = dir
      BY <1>1, <1>8, <1>9 DEF ExtractInv, WayInv
    <1>11. l \in 1 .. Len(returned) /\ l < c
      <2> DEFINE m == Len(returned)
      <2>1. m \in Nat /\ totalEntries \in Nat /\ totalEntries + 1 \in 1 .. m
        BY <1>1, CurrentFacts
      <2> HIDE DEF m
      <2>2. l \in 1 .. m /\ l < totalEntries + 1
        BY <2>1
      <2> QED
        BY <2>2 DEF m
    <1>12. ~IsPrefixPath(dir, path)
      BY <1>1, <1>10, <1>11, ReturnedEntries DEF ReaderInv, SymlinkInv, path
    <1>13. IsPrefixPath(dir, path)
      <2>1. k \in 0 .. n /\ k <= n
        BY <1>3
      <2>2. Len(dir) = k /\ \A i \in 1 .. k : dir[i] = path[i]
        BY <1>1, <1>2, <2>1, Beginning
      <2> QED
        BY <2>1, <2>2 DEF IsPrefixPath
    <1> QED
      BY <1>12, <1>13

\* What an entry counts for: no more than the size that was compared with the limit.
LEMMA AmountFacts ==
    ASSUME NEW type, NEW own \in Seq(STRING), NEW size \in Nat,
           type = "directory" => own = <<>> /\ size = 0,
           type = "symlink" => size = Len(own)
    PROVE  /\ Len(own) \in Nat
           /\ type \in {"directory", "symlink"} => Len(own) <= size
           /\ (IF type = "symlink" THEN Len(own) ELSE 0) \in Nat
           /\ (IF type = "symlink" THEN Len(own) ELSE 0) <= size
    <1> DEFINE m == Len(own)
    <1>1. m \in Nat
      BY LenProperties
    <1>2. type = "directory" => m = 0 /\ size = 0
      BY EmptySeq
    <1>3. type = "symlink" => size = m
      OBVIOUS
    <1> HIDE DEF m
    <1>4. /\ type \in {"directory", "symlink"} => m <= size
          /\ (IF type = "symlink" THEN m ELSE 0) \in Nat
          /\ (IF type = "symlink" THEN m ELSE 0) <= size
      BY <1>1, <1>2, <1>3
    <1> QED
      BY <1>1, <1>4 DEF m

\* A node with another mode, or other times.
LEMMA NodeFacts ==
    ASSUME NEW old \in Nodes, NEW new,
           new = [old EXCEPT !.mode = "package"] \/ new = [old EXCEPT !.times = "package"]
    PROVE  new \in Nodes /\ new.type = old.type /\ new.body = old.body
    <1> DEFINE M == {"old", "package"}
               S == {"old", "now", "package"}
               U == Seq(STRING)
               T == {"directory", "regular", "symlink"}
    <1>1. old \in [type : T, body : U, mode : M, times : S] /\ "package" \in S /\ "package" \in M
      BY DEF Nodes
    <1> HIDE DEF M, S, U, T
    <1>2. /\ new \in [type : T, body : U, mode : M, times : S]
          /\ new.type = old.type /\ new.body = old.body
      <2>1. CASE new = [old EXCEPT !.mode = "package"]
        BY <1>1, <2>1
      <2>2. CASE new = [old EXCEPT !.times = "package"]
        BY <1>1, <2>2
      <2> QED
        BY <2>1, <2>2
    <1> QED
      BY <1>2 DEF Nodes, M, S, U, T

\* The node of an entry.
LEMMA NodeOfFacts ==
    ASSUME NEW entry, entry.type \in {"directory", "regular", "symlink"}, entry.own \in Seq(STRING),
           NEW new, new = NodeOf(entry)
    PROVE  new \in Nodes /\ new.type = entry.type /\ new.body = entry.own
    <1> DEFINE M == {"old", "package"}
               S == {"old", "now", "package"}
               U == Seq(STRING)
               T == {"directory", "regular", "symlink"}
               t == entry.type
               b == entry.own
               w == IF t = "directory" THEN "now" ELSE "package"
    <1>1. t \in T /\ b \in U
      OBVIOUS
    <1>2. new = [[type |-> t, body |-> b, mode |-> "package", times |-> "package"]
                   EXCEPT !.times = IF t = "directory" THEN "now" ELSE @]
      BY DEF NodeOf, Node
    <1>3. "package" \in M /\ "package" \in S /\ "now" \in S
      OBVIOUS
    <1> HIDE DEF M, S, U, T, t, b
    <1>4. new = [type |-> t, body |-> b, mode |-> "package", times |-> w]
      <2>1. CASE t = "directory"
        BY <1>2, <2>1
      <2>2. CASE t # "directory"
        BY <1>2, <2>2
      <2> QED
        BY <2>1, <2>2
    <1>5. w \in S
      BY <1>3
    <1> HIDE DEF w
    <1>6. /\ new \in [type : T, body : U, mode : M, times : S]
          /\ new.type = t /\ new.body = b
      BY <1>1, <1>3, <1>4, <1>5
    <1> QED
      BY <1>6 DEF Nodes, M, S, U, T, t, b

LEMMA SkippedInv == ExtractInv /\ WriteSkipped => ExtractInv'
    <1> SUFFICES ASSUME ExtractInv, WriteSkipped PROVE ExtractInv'
      OBVIOUS
    <1> DEFINE c == Current
               amount == IF c.type = "symlink" THEN Len(c.own) ELSE 0
    <1>1. /\ MayWrite /\ CheckExtraction(c.path, c.type) = "Skip" /\ CountEntry(c, amount) /\ SameCall
          /\ target' = IF {SkipExistingFiles, NoOverwriteDirectories} \cap options = {}
                       THEN [target EXCEPT ![c.path].mode = "package"] ELSE target
          /\ UNCHANGED <<outside, unremoved>>
      BY DEF WriteSkipped
    <1>2. /\ result = "none" /\ c = returned[totalEntries + 1] /\ totalEntries \in Nat
          /\ c.path \in Seq(STRING) /\ c.own \in Seq(STRING) /\ c.size \in Nat
          /\ EntryInv(c, m_digests)
      BY <1>1, CurrentFacts
    <1>3. amount \in Nat /\ amount <= c.size
      <2> HIDE DEF c
      <2>1. /\ c.type = "directory" => c.own = <<>> /\ c.size = 0
            /\ c.type = "symlink" => c.size = Len(c.own)
        BY <1>2 DEF EntryInv
      <2> QED
        BY <1>2, <2>1, AmountFacts
    <1> HIDE DEF amount
    <1>4. /\ UNCHANGED <<m_digests, returned, initial, options, wanted, sizeLimit, entriesLimit>>
          /\ totalEntries' = totalEntries + 1 /\ totalEntries' \in 0 .. Len(returned)
          /\ totalExtracted' \in Nat /\ result' # "ok"
          /\ dirModTimes' \in Seq(Seq(STRING))
          /\ Timed' \subseteq Timed \cup (IF c.type = "directory" THEN {c.path} ELSE {})
          /\ CountsInv'
      BY <1>1, <1>3, Counted
    <1>5. /\ Exists(c.path) /\ KeepExistingFiles \notin options
          /\ c.type = "directory" => target[c.path].type = "directory"
          /\ SkipExistingFiles \notin options => c.type = "directory"
      BY <1>1, Skippable
    <1>6. /\ DOMAIN target' = DOMAIN target
          /\ \A p \in DOMAIN target :
               /\ target'[p] \in Nodes /\ target'[p].type = target[p].type /\ target'[p].body = target[p].body
               /\ target[p].type # "directory" => target'[p] = target[p]
      <2>1. \A p \in DOMAIN target : target[p] \in Nodes
        BY DEF ExtractInv, CallInv, IsFileSystem
      <2>2. CASE target' = target
        BY <2>1, <2>2
      <2>3. CASE target' = [target EXCEPT ![c.path].mode = "package"] /\ SkipExistingFiles \notin options
        <3>1. c.path \in DOMAIN target /\ target[c.path].type = "directory"
          BY <1>5, <2>3 DEF Exists
        <3> DEFINE old == target[c.path]
                   new == target'[c.path]
        <3>2. /\ DOMAIN target' = DOMAIN target
              /\ new = [old EXCEPT !.mode = "package"]
              /\ \A p \in DOMAIN target : p # c.path => target'[p] = target[p]
          BY <2>3, <3>1
        <3>3. old \in Nodes
          BY <2>1, <3>1
        <3>4. new \in Nodes /\ new.type = old.type /\ new.body = old.body
          <4> HIDE DEF old, new
          <4> QED
            BY <3>2, <3>3, NodeFacts
        <3> QED
          BY <2>1, <3>1, <3>2, <3>4
      <2> QED
        BY <1>1, <2>2, <2>3
    <1> HIDE DEF c
    <1>7. ReaderInv'
      BY <1>1, ReaderStep DEF ExtractInv, SameCall
    <1>8. CallInv'
      <2>1. IsFileSystem(target')
        BY <1>6, SameTree DEF SameFiles, ExtractInv, CallInv
      <2> QED
        BY <1>4, <2>1 DEF ExtractInv, CallInv
    <1>9. ContentsInv'
      <2> SUFFICES ASSUME m_digests # NoDigests, NEW path \in DOMAIN target \ unremoved,
                          target'[path].type = "regular"
                   PROVE  /\ Untouched(path)' \/ HasSignedContents(path)'
                          /\ path \in Timed' => HasSignedContents(path)'
        BY <1>1, <1>4, <1>6 DEF ContentsInv
      <2>1. target[path].type = "regular" /\ target'[path] = target[path]
        BY <1>6
      <2>2. path \in Timed' => path \in Timed
        BY <1>4, <1>5, <2>1
      <2>3. /\ Untouched(path) \/ HasSignedContents(path)
            /\ path \in Timed => HasSignedContents(path)
        BY <2>1 DEF ExtractInv, ContentsInv
      <2> QED
        BY <1>4, <2>1, <2>2, <2>3 DEF Untouched, HasSignedContents
    <1>10. /\ \A j \in 1 .. totalEntries' : j \in 1 .. totalEntries \/ j = totalEntries + 1
           /\ \A j \in 1 .. totalEntries : ~Superseded(j)' => ~Superseded(j) /\ returned[j].path # c.path
           /\ \A j \in 1 .. totalEntries : j \in 1 .. totalEntries'
      BY <1>1, <1>4, CountedEntries DEF c
    <1>11. WrittenInv'
      <2> SUFFICES ASSUME NEW j \in 1 .. totalEntries', SkipExistingFiles \notin options, ~Superseded(j)'
                   PROVE  Written(j)'
        BY <1>4 DEF WrittenInv
      <2>1. Written(j)
        <3>1. CASE j \in 1 .. totalEntries
          BY <1>2, <1>10, <3>1 DEF ExtractInv, WrittenInv
        <3>2. CASE j = totalEntries + 1
          <4>1. c.type = "directory" /\ target[c.path].type = "directory" /\ c.own = <<>> /\ Exists(c.path)
            BY <1>2, <1>5 DEF EntryInv
          <4>2. target[c.path].body = <<>>
            BY <4>1 DEF ExtractInv, CallInv, IsFileSystem, Exists
          <4> QED
            BY <1>2, <3>2, <4>1, <4>2 DEF Written
        <3> QED
          BY <1>10, <3>1, <3>2
      <2> QED
        BY <1>4, <1>6, <2>1 DEF Written, Exists
    <1>12. WayInv'
      <2> SUFFICES ASSUME NEW j \in 1 .. totalEntries', returned[j].type = "directory"
                   PROVE  \/ Exists(returned[j].path)' /\ target'[returned[j].path].type # "symlink"
                          \/ \E k \in 1 .. totalEntries' :
                               returned[k].type = "symlink" /\ returned[k].path = returned[j].path
        BY <1>4 DEF WayInv, Exists
      <2>1. CASE j \in 1 .. totalEntries
        <3>1. \/ Exists(returned[j].path) /\ target[returned[j].path].type # "symlink"
              \/ \E k \in 1 .. totalEntries : returned[k].type = "symlink" /\ returned[k].path = returned[j].path
          BY <1>2, <2>1 DEF ExtractInv, WayInv
        <3> QED
          BY <1>4, <1>6, <1>10, <3>1 DEF Exists
      <2>2. CASE j = totalEntries + 1
        BY <1>2, <1>4, <1>5, <1>6, <2>2 DEF Exists
      <2> QED
        BY <1>10, <2>1, <2>2
    <1>13. KeepInv'
      <2>1. "KeepExistingFiles" \notin wanted
        BY <1>5 DEF ExtractInv, CallInv, Bits
      <2> QED
        BY <1>4, <2>1 DEF KeepInv
    <1>14. NoWriteThroughSymlink' /\ RemovalInv'
      BY <1>1, <1>2 DEF ExtractInv, NoWriteThroughSymlink, RemovalInv
    <1> QED
      BY <1>4, <1>7, <1>8, <1>9, <1>11, <1>12, <1>13, <1>14 DEF ExtractInv

LEMMA WriteEntryInv == ExtractInv /\ WriteEntry => ExtractInv'
    <1> SUFFICES ASSUME ExtractInv, WriteEntry PROVE ExtractInv'
      OBVIOUS
    <1> DEFINE c == Current
               node == NodeOf(c)
               amount == Len(c.own)
    <1>1. /\ MayWrite /\ CheckExtraction(c.path, c.type) = "Extract" /\ CountEntry(c, amount) /\ SameCall
          /\ c.type = "regular" => ContentsValid(c)
          /\ target' = Put(c.path, node) /\ UNCHANGED <<outside, unremoved>>
      BY DEF WriteEntry
    <1>2. /\ result = "none" /\ c = returned[totalEntries + 1] /\ totalEntries \in Nat
          /\ c.path \in Seq(STRING) /\ c.own \in Seq(STRING) /\ c.size \in Nat
          /\ EntryInv(c, m_digests) /\ c.type \in {"directory", "regular", "symlink"}
      BY <1>1, CurrentFacts
    <1>3. amount \in Nat /\ amount <= c.size
      <2> HIDE DEF c
      <2>1. /\ c.type = "directory" => c.own = <<>> /\ c.size = 0
            /\ c.type = "symlink" => c.size = Len(c.own)
        BY <1>2 DEF EntryInv
      <2>2. c.type = "regular" => amount <= c.size
        BY <1>1 DEF ContentsValid
      <2>3. /\ amount \in Nat
            /\ c.type \in {"directory", "symlink"} => amount <= c.size
        BY <1>2, <2>1, AmountFacts
      <2> HIDE DEF amount
      <2> QED
        BY <1>2, <2>2, <2>3
    <1> HIDE DEF amount
    <1>4. /\ UNCHANGED <<m_digests, returned, initial, options, wanted, sizeLimit, entriesLimit>>
          /\ totalEntries' = totalEntries + 1 /\ totalEntries' \in 0 .. Len(returned)
          /\ totalExtracted' \in Nat /\ result' # "ok"
          /\ dirModTimes' \in Seq(Seq(STRING))
          /\ Timed' \subseteq Timed \cup (IF c.type = "directory" THEN {c.path} ELSE {})
          /\ CountsInv'
      BY <1>1, <1>3, Counted
    <1>5. Reachable(c.path) /\ IsEmptyDir(c.path) /\ (KeepExistingFiles \in options => ~Exists(c.path))
      BY <1>1, Replaceable DEF ExtractInv, CallInv
    <1>6. node \in Nodes /\ node.type = c.type /\ node.body = c.own
      <2> HIDE DEF c
      <2>1. node = NodeOf(c)
        OBVIOUS
      <2> HIDE DEF node
      <2> QED
        BY <1>2, <2>1, NodeOfFacts
    <1>7. /\ DOMAIN target' = DOMAIN target \cup {c.path} /\ target'[c.path] = node
          /\ \A p \in DOMAIN target : p # c.path => target'[p] = target[p]
      BY <1>1 DEF Put
    <1>8. IsFileSystem(target')
      <2>1. node.type = "directory" => node.body = <<>>
        BY <1>2, <1>6 DEF EntryInv
      <2>2. IsFileSystem(target)
        BY DEF ExtractInv, CallInv
      <2> HIDE DEF node, c
      <2>3. IsFileSystem(Put(c.path, node))
        BY <1>2, <1>5, <1>6, <2>1, <2>2, PutTree
      <2> QED
        BY <1>1, <2>3
    <1> HIDE DEF c, node
    <1>9. ReaderInv' /\ CallInv'
      <2>1. ReaderInv'
        BY <1>1, ReaderStep DEF ExtractInv, SameCall
      <2> QED
        BY <1>4, <1>8, <2>1 DEF ExtractInv, CallInv
    <1>10. ContentsInv'
      <2> SUFFICES ASSUME m_digests # NoDigests, NEW path \in DOMAIN target' \ unremoved,
                          target'[path].type = "regular"
                   PROVE  /\ Untouched(path)' \/ HasSignedContents(path)'
                          /\ path \in Timed' => HasSignedContents(path)'
        BY <1>1, <1>4 DEF ContentsInv
      <2>1. CASE path = c.path
        <3>1. c.type = "regular" /\ target'[path].body = c.own
          BY <1>6, <1>7, <2>1
        <3>2. /\ c.path \in DOMAIN m_digests /\ c.digest = m_digests[c.path]
          BY <1>2, <3>1 DEF EntryInv, IsFile
        <3>3. m_digests[c.path] # NoDigests
          BY <3>2, DigestsAssumption DEF ExtractInv, ReaderInv, TypeOK
        <3>4. sha256Digest(c.own) = c.digest
          BY <1>1, <3>1, <3>2, <3>3 DEF ContentsValid
        <3> QED
          BY <1>4, <2>1, <3>1, <3>2, <3>4 DEF HasSignedContents
      <2>2. CASE path # c.path
        <3>1. path \in DOMAIN target /\ target'[path] = target[path]
          BY <1>7, <2>2
        <3>2. /\ Untouched(path) \/ HasSignedContents(path)
              /\ path \in Timed => HasSignedContents(path)
          BY <3>1 DEF ExtractInv, ContentsInv
        <3>3. path \in Timed' => path \in Timed
          BY <1>4, <2>2
        <3> QED
          BY <1>4, <3>1, <3>2, <3>3 DEF Untouched, HasSignedContents
      <2> QED
        BY <2>1, <2>2
    <1>11. /\ \A j \in 1 .. totalEntries' : j \in 1 .. totalEntries \/ j = totalEntries + 1
           /\ \A j \in 1 .. totalEntries : ~Superseded(j)' => ~Superseded(j) /\ returned[j].path # c.path
           /\ \A j \in 1 .. totalEntries : j \in 1 .. totalEntries'
           /\ totalEntries + 1 \in 1 .. totalEntries'
      BY <1>1, <1>4, CountedEntries DEF c
    <1>12. WrittenInv'
      <2> SUFFICES ASSUME NEW j \in 1 .. totalEntries', SkipExistingFiles \notin options, ~Superseded(j)'
                   PROVE  Written(j)'
        BY <1>4 DEF WrittenInv
      <2>1. CASE j \in 1 .. totalEntries
        <3>1. Written(j) /\ returned[j].path # c.path
          BY <1>2, <1>11, <2>1 DEF ExtractInv, WrittenInv
        <3> QED
          BY <1>4, <1>7, <3>1 DEF Written, Exists
      <2>2. CASE j = totalEntries + 1
        BY <1>2, <1>4, <1>6, <1>7, <2>2 DEF Written, Exists
      <2> QED
        BY <1>11, <2>1, <2>2
    <1>13. WayInv'
      <2> SUFFICES ASSUME NEW j \in 1 .. totalEntries', returned[j].type = "directory"
                   PROVE  \/ Exists(returned[j].path)' /\ target'[returned[j].path].type # "symlink"
                          \/ \E k \in 1 .. totalEntries' :
                               returned[k].type = "symlink" /\ returned[k].path = returned[j].path
        BY <1>4 DEF WayInv, Exists
      <2>1. CASE returned[j].path = c.path
        <3>1. CASE c.type = "symlink"
          BY <1>2, <1>11, <2>1, <3>1
        <3>2. CASE c.type # "symlink"
          BY <1>4, <1>6, <1>7, <2>1, <3>2 DEF Exists
        <3> QED
          BY <3>1, <3>2
      <2>2. CASE returned[j].path # c.path
        <3>1. j \in 1 .. totalEntries
          BY <1>2, <1>11, <2>2
        <3>2. \/ Exists(returned[j].path) /\ target[returned[j].path].type # "symlink"
              \/ \E k \in 1 .. totalEntries : returned[k].type = "symlink" /\ returned[k].path = returned[j].path
          BY <1>2, <3>1 DEF ExtractInv, WayInv
        <3> QED
          BY <1>4, <1>7, <1>11, <2>2, <3>2 DEF Exists
      <2> QED
        BY <2>1, <2>2
    <1>14. KeepInv'
      <2> SUFFICES ASSUME "KeepExistingFiles" \in wanted
                   PROVE  /\ \A path \in DOMAIN initial : Exists(path)' /\ Untouched(path)'
                          /\ Timed' \cap DOMAIN initial = {}
        BY <1>4 DEF KeepInv
      <2>1. ~Exists(c.path)
        BY <1>5 DEF ExtractInv, CallInv, Bits
      <2>2. c.path \notin DOMAIN initial
        BY <2>1 DEF ExtractInv, KeepInv
      <2>3. \A path \in DOMAIN initial : Exists(path)' /\ Untouched(path)'
        BY <1>4, <1>7, <2>2 DEF ExtractInv, KeepInv, Exists, Untouched
      <2>4. Timed' \cap DOMAIN initial = {}
        BY <1>4, <2>2 DEF ExtractInv, KeepInv
      <2> QED
        BY <2>3, <2>4
    <1>15. NoWriteThroughSymlink' /\ RemovalInv'
      BY <1>1, <1>2 DEF ExtractInv, NoWriteThroughSymlink, RemovalInv
    <1> QED
      BY <1>4, <1>9, <1>10, <1>12, <1>13, <1>14, <1>15 DEF ExtractInv

\* What a failed write leaves of a file is one too.
LEMMA PartFacts ==
    ASSUME NEW entry, entry.own \in Seq(STRING), NEW part \in PartOf(entry)
    PROVE  part \in Nodes /\ part.type = "regular"
    <1> DEFINE M == {"old", "package"}
               S == {"old", "now", "package"}
               U == Seq(STRING)
               T == {"directory", "regular", "symlink"}
    <1>1. PICK n \in 0 .. Len(entry.own), time \in {"now", "package"} :
            part = [Node("regular", SubSeq(entry.own, 1, n)) EXCEPT !.times = time]
      BY DEF PartOf
    <1>2. SubSeq(entry.own, 1, n) \in U
      BY Beginning
    <1>3. part = [[type |-> "regular", body |-> SubSeq(entry.own, 1, n), mode |-> "package",
                   times |-> "package"] EXCEPT !.times = time]
      BY <1>1 DEF Node
    <1>4. "regular" \in T /\ "package" \in M /\ time \in S
      OBVIOUS
    <1> HIDE DEF M, S, U, T
    <1>5. part \in [type : T, body : U, mode : M, times : S] /\ part.type = "regular"
      BY <1>2, <1>3, <1>4
    <1> QED
      BY <1>5 DEF Nodes, M, S, U, T

LEMMA FailsInv == ExtractInv /\ WriteFails => ExtractInv'
    <1> SUFFICES ASSUME ExtractInv, WriteFails PROVE ExtractInv'
      OBVIOUS
    <1> DEFINE path == Current.path
    <1>1. /\ MayWrite /\ SameCall /\ result' = "error"
          /\ \/ target' \in LeftAfterFailure(Current) /\ UNCHANGED unremoved
             \/ target' \in LeftUnremoved(Current) /\ unremoved' = {path}
          /\ outside' = outside \cup (IF ThroughSymlink(path) THEN {"write"} ELSE {})
          /\ UNCHANGED <<totalExtracted, totalEntries, dirModTimes>>
      BY DEF WriteFails, Finish
    <1>2. /\ UNCHANGED <<m_digests, returned, initial, options, wanted, sizeLimit, entriesLimit>>
      BY <1>1 DEF SameCall, vars
    <1>3. \/ target' = target /\ UNCHANGED unremoved
          \/ /\ target' = Without(path) /\ CheckExtraction(path, Current.type) = "Extract"
             /\ UNCHANGED unremoved
          \/ /\ \E part \in PartOf(Current) : target' = Put(path, part)
             /\ CheckExtraction(path, Current.type) = "Extract" /\ unremoved' = {path}
      BY <1>1 DEF LeftAfterFailure, LeftUnremoved
    <1>4. IsFileSystem(target')
      <2>1. IsFileSystem(target) /\ path \in Seq(STRING) /\ Current.own \in Seq(STRING)
        BY <1>1, CurrentFacts DEF ExtractInv, CallInv
      <2>2. CASE CheckExtraction(path, Current.type) = "Extract" /\ target' = Without(path)
        <3>1. IsEmptyDir(path)
          BY <2>1, <2>2, Replaceable
        <3>2. IsFileSystem(Without(path))
          BY <2>1, <3>1, WithoutTree
        <3> QED
          BY <2>2, <3>2
      <2>3. ASSUME CheckExtraction(path, Current.type) = "Extract", NEW part \in PartOf(Current)
            PROVE  IsFileSystem(Put(path, part))
        <3>1. Reachable(path) /\ IsEmptyDir(path)
          BY <2>1, <2>3, Replaceable
        <3>2. part \in Nodes /\ part.type = "regular"
          BY <2>1, PartFacts
        <3> HIDE DEF path
        <3> QED
          BY <2>1, <3>1, <3>2, PutTree
      <2> QED
        BY <1>3, <2>1, <2>2, <2>3
    <1>5. \A p \in DOMAIN target' \ unremoved' :
             p \in DOMAIN target \ unremoved /\ target'[p] = target[p]
      <2>1. unremoved = {}
        BY <1>1, CurrentFacts DEF ExtractInv, RemovalInv
      <2> QED
        BY <1>3, <2>1 DEF Without, Put
    <1>6. ReaderInv'
      BY <1>1, ReaderStep DEF ExtractInv, SameCall
    <1>7. CallInv' /\ CountsInv'
      BY <1>1, <1>2, <1>4 DEF ExtractInv, CallInv, CountsInv
    <1>8. ContentsInv'
      BY <1>1, <1>2, <1>5 DEF ExtractInv, ContentsInv, Timed, Untouched, HasSignedContents
    <1>9. WrittenInv' /\ WayInv'
      BY <1>1 DEF WrittenInv, WayInv
    <1>10. KeepInv'
      <2> SUFFICES ASSUME "KeepExistingFiles" \in wanted PROVE KeepInv'
        BY <1>2 DEF KeepInv
      <2>1. KeepExistingFiles \in options
        BY DEF ExtractInv, CallInv, Bits
      <2>2. CheckExtraction(path, Current.type) = "Extract" => ~Exists(path)
        BY <2>1, Replaceable DEF ExtractInv, CallInv
      <2>3. \A p \in DOMAIN target : p \in DOMAIN target' /\ target'[p] = target[p]
        BY <1>3, <2>2 DEF Without, Put, Exists
      <2> QED
        BY <1>1, <1>2, <2>3 DEF ExtractInv, KeepInv, Timed, Untouched, Exists
    <1>11. NoWriteThroughSymlink'
      BY <1>1, NoSymlinkOnTheWay DEF ExtractInv, NoWriteThroughSymlink
    <1>12. RemovalInv'
      <2>1. Current' = Current
        BY <1>1, <1>2 DEF Current
      <2>2. unremoved = {}
        BY <1>1, CurrentFacts DEF ExtractInv, RemovalInv
      <2> QED
        BY <1>1, <2>1, <2>2 DEF RemovalInv
    <1> QED
      BY <1>6, <1>7, <1>8, <1>9, <1>10, <1>11, <1>12 DEF ExtractInv

LEMMA TimesInv == ExtractInv /\ SetDirectoryTimes => ExtractInv'
    <1> SUFFICES ASSUME ExtractInv, SetDirectoryTimes PROVE ExtractInv'
      OBVIOUS
    <1> DEFINE dirs  == {dirModTimes[i] : i \in 1 .. Len(dirModTimes)}
               found == {dir \in dirs : Exists(dir) /\ Reachable(dir)}
    <1>1. /\ result = "none" /\ totalEntries = Len(returned) /\ result' = "ok" /\ SameCall
          /\ target' = [p \in DOMAIN target |->
                          IF p \in found /\ target[p].type # "symlink"
                          THEN [target[p] EXCEPT !.times = "package"] ELSE target[p]]
          /\ UNCHANGED <<totalExtracted, totalEntries, dirModTimes, unremoved>>
      BY DEF SetDirectoryTimes, Finish, Extracting
    <1>2. "write" \in outside' => "write" \in outside
      BY DEF SetDirectoryTimes
    <1>3. UNCHANGED <<m_digests, returned, initial, options, wanted, sizeLimit, entriesLimit>>
      BY <1>1 DEF SameCall, vars
    <1>4. found \subseteq Timed
      <2>1. DOMAIN dirModTimes = 1 .. Len(dirModTimes)
        BY LenProperties DEF ExtractInv, CallInv
      <2> QED
        BY <2>1 DEF Timed
    <1> HIDE DEF found
    <1>5. /\ DOMAIN target' = DOMAIN target
          /\ \A p \in DOMAIN target : p \notin Timed => target'[p] = target[p]
      BY <1>1, <1>4
    <1>6. ASSUME NEW p \in DOMAIN target
          PROVE  target'[p] \in Nodes /\ target'[p].type = target[p].type /\ target'[p].body = target[p].body
      <2> DEFINE old == target[p]
                 new == target'[p]
      <2>1. old \in Nodes
        BY DEF ExtractInv, CallInv, IsFileSystem
      <2>2. new = [old EXCEPT !.times = "package"] \/ new = old
        BY <1>1
      <2> HIDE DEF old, new
      <2>3. new \in Nodes /\ new.type = old.type /\ new.body = old.body
        BY <2>1, <2>2, NodeFacts
      <2> QED
        BY <2>3 DEF old, new
    <1>7. IsFileSystem(target')
      BY <1>5, <1>6, SameTree DEF SameFiles, ExtractInv, CallInv
    <1>8. ReaderInv'
      BY <1>1, ReaderStep DEF ExtractInv, SameCall
    <1>9. CallInv' /\ CountsInv'
      BY <1>1, <1>3, <1>7 DEF ExtractInv, CallInv, CountsInv
    <1>10. ContentsInv'
      <2> SUFFICES ASSUME m_digests # NoDigests, NEW p \in DOMAIN target \ unremoved,
                          target'[p].type = "regular"
                   PROVE  /\ Untouched(p)' \/ HasSignedContents(p)'
                          /\ p \in Timed' => HasSignedContents(p)'
        BY <1>1, <1>3, <1>5 DEF ContentsInv
      <2>1. Timed' = Timed
        BY <1>1 DEF Timed
      <2>2. /\ Untouched(p) \/ HasSignedContents(p)
            /\ p \in Timed => HasSignedContents(p)
        BY <1>6 DEF ExtractInv, ContentsInv
      <2>3. HasSignedContents(p) => HasSignedContents(p)'
        BY <1>3, <1>6 DEF HasSignedContents
      <2>4. p \notin Timed /\ Untouched(p) => Untouched(p)'
        BY <1>3, <1>5 DEF Untouched
      <2> QED
        BY <2>1, <2>2, <2>3, <2>4
    <1>11. WrittenInv' /\ WayInv'
      <2>1. \A j \in 1 .. totalEntries : Written(j) => Written(j)'
        BY <1>3, <1>5, <1>6 DEF Written, Exists
      <2>2. \A j : Superseded(j)' <=> Superseded(j)
        BY <1>1, <1>3 DEF Superseded
      <2>3. WrittenInv'
        BY <1>1, <1>3, <2>1, <2>2 DEF ExtractInv, WrittenInv
      <2>4. \A j \in 1 .. totalEntries :
              Exists(returned[j].path) /\ target[returned[j].path].type # "symlink" =>
                (Exists(returned[j].path) /\ target[returned[j].path].type # "symlink")'
        BY <1>3, <1>5, <1>6 DEF Exists
      <2>5. WayInv'
        BY <1>1, <1>3, <2>4 DEF ExtractInv, WayInv
      <2> QED
        BY <2>3, <2>5
    <1>12. KeepInv'
      <2>1. Timed' = Timed
        BY <1>1 DEF Timed
      <2> QED
        BY <1>3, <1>5, <2>1 DEF ExtractInv, KeepInv, Untouched, Exists
    <1>13. NoWriteThroughSymlink' /\ RemovalInv'
      BY <1>1, <1>2 DEF ExtractInv, NoWriteThroughSymlink, RemovalInv
    <1> QED
      BY <1>8, <1>9, <1>10, <1>11, <1>12, <1>13 DEF ExtractInv

LEMMA ExtractStep == ExtractInv /\ [ExtractNext]_allVars => ExtractInv'
    <1> SUFFICES ASSUME ExtractInv, [ExtractNext]_allVars PROVE ExtractInv'
      OBVIOUS
    <1>1. CASE Start
      BY <1>1, StartInv
    <1>2. CASE CreateReader
      BY <1>2, ResultInv DEF CreateReader, Finish
    <1>3. CASE Iterate \/ ReaderNext
      BY <1>3, ReadingInv
    <1>4. CASE SizeLimitExceeded
      BY <1>4, ResultInv DEF SizeLimitExceeded, Finish, Writing, Extracting
    <1>5. CASE WriteSkipped
      BY <1>5, SkippedInv
    <1>6. CASE WriteEntry
      BY <1>6, WriteEntryInv
    <1>7. CASE WriteFails
      BY <1>7, FailsInv
    <1>8. CASE ReaderFailed
      BY <1>8, ResultInv DEF ReaderFailed, Finish, Extracting
    <1>9. CASE SetDirectoryTimes
      BY <1>9, TimesInv
    <1>10. CASE UNCHANGED allVars
      BY <1>10, ResultInv DEF allVars, extractVars
    <1> QED
      BY <1>1, <1>2, <1>3, <1>4, <1>5, <1>6, <1>7, <1>8, <1>9, <1>10 DEF ExtractNext

\* ExtractInv, from which the theorems about the target directory follow, holds at every
\* moment of every extraction.
THEOREM ExtractInvariant == ExtractSpec => []ExtractInv
    BY ExtractInitInv, ExtractStep, PTL DEF ExtractSpec

\* Every file below the target directory was there before the call of extractTo, untouched,
\* or has contents with the digest the package signs for its path: also while the extraction
\* runs, and after one that failed, hit a limit or met a damaged archive.  The one exception is
\* the entry at which it failed, when its file could not be removed.
THEOREM ContentsVerified == ExtractSpec => []OnlyVerifiedContents
    <1>1. ExtractInv => OnlyVerifiedContents
      BY DEF ExtractInv, ContentsInv, RemovalInv, OnlyVerifiedContents, Untouched, HasSignedContents
    <1> QED
      BY <1>1, ExtractInvariant, PTL

\* Whatever the archive lists and whatever the target directory held, writeTo of an entry
\* never follows a symlink out of the target directory, and what is in it stays a tree.
THEOREM ExtractionStaysInTarget == ExtractSpec => []StaysInTarget
    <1>1. ExtractInv => NoWriteThroughSymlink /\ TargetIsTree
      BY DEF ExtractInv, CallInv, IsFileSystem, TargetIsTree
    <1> QED
      BY <1>1, ExtractInvariant, ReaderDriven, NothingThroughSymlinks, PTL DEF StaysInTarget

\* When extractTo succeeds and no existing files were to be skipped, every entry that no later
\* entry of the same path replaced is in the target directory, with its type and contents.
THEOREM SuccessComplete == ExtractSpec => []SuccessIsComplete
    <1>1. ExtractInv => SuccessIsComplete
      BY DEF ExtractInv, CountsInv, WrittenInv, Written, SuccessIsComplete
    <1> QED
      BY <1>1, ExtractInvariant, PTL

\* With KeepExistingFiles nothing of what the target directory held changes, and the limits
\* on the bytes, on the entries and on the symlinks are kept, whatever fails on the way.
THEOREM OptionsKept == ExtractSpec => []OptionsHonoured
    <1>1. ASSUME ExtractInv PROVE KeepKeepsFiles
      BY <1>1 DEF ExtractInv, KeepInv, KeepKeepsFiles, Untouched
    <1>2. ASSUME ExtractInv PROVE WithinLimits
      <2>1. SymlinkLimit
        BY <1>2, SymlinksCounted DEF ExtractInv
      <2>2. totalExtracted <= sizeLimit
        BY <1>2 DEF ExtractInv, CountsInv
      <2>3. result = "ok" => totalEntries <= entriesLimit
        <3>1. entriesLimit \in Nat
          BY <1>2 DEF ExtractInv, CallInv
        <3>2. totalEntries \in Int
          BY <1>2 DEF ExtractInv, CallInv
        <3>3. result = "ok" => totalEntries = 0 \/ totalEntries < entriesLimit
          BY <1>2 DEF ExtractInv, CountsInv
        <3> QED
          BY <3>1, <3>2, <3>3
      <2> QED
        BY <2>1, <2>2, <2>3 DEF WithinLimits
    <1>3. ExtractInv => OptionsHonoured
      BY <1>1, <1>2 DEF OptionsHonoured
    <1> QED
      BY <1>3, ExtractInvariant, PTL

================================================================================
