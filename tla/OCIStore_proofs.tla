---------------------------- MODULE OCIStore_proofs ----------------------------
(***************************************************************************)
(* Proofs about OCIImageLayerReader: for every layer, every way in which   *)
(* libarchive reads and skips, and every change of the file, the end       *)
(* without an error means that the signed layer was read.                  *)
(*                                                                         *)
(* And about OCIArchiveBackingStore: for every archive, and any number of  *)
(* readers, what comes out of the store is the file that was asked for.    *)
(***************************************************************************)
EXTENDS MCOCIStore, Induction, SequenceTheorems, FiniteSetTheorems, TLAPS

\* What libarchive was handed is what was digested, block by block; only the rest
\* that is read at the end is digested and not handed on.
HandedInv ==
    /\ Len(digested) = offset
    /\ IF finalised THEN Len(handed) <= offset ELSE Len(handed) = offset
    /\ \A i \in 1..Len(handed) : handed[i] \in {digested[i], "skipped"}

\* After the digest was compared, libarchive is called again only when it matched.
FinalInv ==
    /\ answer = "null" /\ ~error => finalised
    /\ finalised => answer = "null" /\ running # "data"
    /\ finalised /\ ~error => digested = Image
    /\ finalised /\ error => running = "no"

LayerInv == TypeOK /\ HandedInv /\ FinalInv

-------------------------------------------------------------------------------

\* Appending to what was digested: its length and its elements.
LEMMA Appended ==
    ASSUME NEW S, NEW s \in Seq(S), NEW t \in Seq(S)
    PROVE  /\ s \o t \in Seq(S) /\ Len(s \o t) = Len(s) + Len(t)
           /\ \A i \in 1..(Len(s) + Len(t)) :
                (s \o t)[i] = IF i <= Len(s) THEN s[i] ELSE t[i - Len(s)]
    BY ConcatProperties

\* Blocks of the file are a sequence of values, as long as was asked for.
LEMMA BlocksType ==
    ASSUME LayerConstants, TypeOK, NEW n \in 0..(Size - offset)
    PROVE  /\ Blocks(offset, n) \in Seq(Values)
           /\ Len(Blocks(offset, n)) = n
    <1>1. Size \in Nat /\ offset \in 0..Size /\ file \in [1..Size -> Values]
      BY DEF LayerConstants, TypeOK, Size
    <1>2. \A i \in (offset + 1)..(offset + n) : file[i] \in Values
      BY <1>1
    <1>3. offset + 1 \in Int /\ offset + n \in Int
      BY <1>1
    <1> QED
      BY <1>1, <1>2, <1>3, SubSeqProperties DEF Blocks

\* A callback digests the next blocks and hands them on, or says they were skipped.
LEMMA CallbackKeeps ==
    ASSUME LayerConstants, LayerInv, ~finalised,
           NEW n \in 0..(Size - offset), Digest(n),
           NEW given \in Seq(Values \union {"skipped"}), Len(given) = n,
           \A i \in 1..n : given[i] \in {Blocks(offset, n)[i], "skipped"},
           handed' = handed \o given, error' \in BOOLEAN, error => error',
           UNCHANGED <<file, changes, finalised, running, answer>>
    PROVE  LayerInv'
    <1> DEFINE more == Blocks(offset, n)
    <1>1. more \in Seq(Values) /\ Len(more) = n
      BY BlocksType DEF LayerInv
    <1>0. \A i \in 1..n : given[i] \in {more[i], "skipped"}
      OBVIOUS
    <1>2. digested \in Seq(Values) /\ handed \in Seq(Values \union {"skipped"})
      BY DEF LayerInv, TypeOK
    <1>3. digested' = digested \o more /\ offset' = offset + n
      BY DEF Digest
    <1> HIDE DEF more
    <1>4. /\ digested' \in Seq(Values) /\ Len(digested') = Len(digested) + n
          /\ \A i \in 1..(Len(digested) + n) :
                digested'[i] = IF i <= Len(digested) THEN digested[i] ELSE more[i - Len(digested)]
      <2>1. /\ digested \o more \in Seq(Values) /\ Len(digested \o more) = Len(digested) + Len(more)
            /\ \A i \in 1..(Len(digested) + Len(more)) :
                 (digested \o more)[i] = IF i <= Len(digested) THEN digested[i] ELSE more[i - Len(digested)]
        BY ONLY <1>1, <1>2, Appended
      <2> QED
        BY <2>1, <1>1, <1>3
    <1>5. /\ handed' \in Seq(Values \union {"skipped"}) /\ Len(handed') = Len(handed) + n
          /\ \A i \in 1..(Len(handed) + n) :
                handed'[i] = IF i <= Len(handed) THEN handed[i] ELSE given[i - Len(handed)]
      BY <1>2, ConcatProperties
    <1>6. Size \in Nat /\ offset \in 0..Size /\ Len(digested) = offset /\ Len(handed) = offset
      BY DEF LayerInv, HandedInv, TypeOK, LayerConstants, Size
    <1>7. TypeOK'
      BY <1>3, <1>4, <1>5, <1>6 DEF LayerInv, TypeOK
    <1>8. HandedInv'
      <2> SUFFICES ASSUME NEW i \in 1..Len(handed') PROVE handed'[i] \in {digested'[i], "skipped"}
        BY <1>3, <1>4, <1>5, <1>6 DEF HandedInv
      <2>2. CASE i <= offset
        BY <2>2, <1>4, <1>5, <1>6 DEF LayerInv, HandedInv
      <2>3. CASE i > offset
        <3>1. i - offset \in 1..n /\ i \in 1..(offset + n)
          BY <2>3, <1>5, <1>6
        <3>2. handed'[i] = given[i - offset] /\ digested'[i] = more[i - offset]
          BY <3>1, <2>3, <1>4, <1>5, <1>6
        <3> QED
          BY <3>1, <3>2, <1>0
      <2> QED
        BY <2>2, <2>3, <1>6
    <1>9. FinalInv'
      BY DEF LayerInv, FinalInv
    <1> QED
      BY <1>7, <1>8, <1>9 DEF LayerInv

\* No callback runs once the digest was compared: there is nothing left to read.
LEMMA NoCallbackAtEnd ==
    ASSUME LayerConstants, LayerInv, running # "no", offset < Size
    PROVE  ~finalised
    BY DEF LayerInv, FinalInv, HandedInv, TypeOK, LayerConstants, Size

LEMMA ReadCallbackKeeps ==
    ASSUME LayerConstants, LayerInv, ReadCallback PROVE LayerInv'
    <1>1. ~finalised
      BY NoCallbackAtEnd DEF ReadCallback
    <1>2. ASSUME NEW n \in 1..(Size - offset), Digest(n),
                 handed' = handed \o Blocks(offset, n), UNCHANGED error
          PROVE  LayerInv'
      <2>1. n \in 0..(Size - offset) /\ error' \in BOOLEAN /\ (error => error')
        BY <1>2 DEF LayerInv, TypeOK
      <2>2. Blocks(offset, n) \in Seq(Values) /\ Len(Blocks(offset, n)) = n
        BY <2>1, BlocksType DEF LayerInv
      <2>3. Blocks(offset, n) \in Seq(Values \union {"skipped"})
        BY <2>2, SeqMonotonic
      <2> QED
        BY <1>1, <1>2, <2>1, <2>2, <2>3, CallbackKeeps DEF ReadCallback
    <1>3. CASE error' = TRUE /\ UNCHANGED <<offset, digested, handed>>
      BY <1>1, <1>3 DEF ReadCallback, LayerInv, TypeOK, HandedInv, FinalInv
    <1> QED
      BY <1>2, <1>3 DEF ReadCallback

LEMMA SkipCallbackKeeps ==
    ASSUME LayerConstants, LayerInv, SkipCallback PROVE LayerInv'
    <1>1. ~finalised
      BY NoCallbackAtEnd DEF SkipCallback
    <1>2. PICK n \in 0..(Size - offset), mismatch \in BOOLEAN :
              /\ Digest(n)
              /\ handed' = handed \o [i \in 1..n |-> "skipped"]
              /\ error' = (error \/ mismatch)
      BY DEF SkipCallback
    <1> DEFINE given == [i \in 1..n |-> "skipped"]
    <1>3. n \in Nat
      BY <1>2 DEF LayerInv, TypeOK, LayerConstants, Size
    <1>4. given \in Seq(Values \union {"skipped"}) /\ Len(given) = n
      BY <1>3
    <1>5. error' \in BOOLEAN /\ (error => error')
      BY <1>2 DEF LayerInv, TypeOK
    <1>6. \A i \in 1..n : given[i] \in {Blocks(offset, n)[i], "skipped"}
      OBVIOUS
    <1> HIDE DEF given
    <1>7. handed' = handed \o given
      BY <1>2 DEF given
    <1> QED
      BY <1>1, <1>2, <1>4, <1>5, <1>6, <1>7, CallbackKeeps DEF SkipCallback

\* next() at the end: the digest is compared over everything that was read.
LEMMA NextEndKeeps ==
    ASSUME LayerConstants, LayerInv, Next_End PROVE LayerInv'
    <1>1. PICK n \in 0..(Size - offset), mismatch \in BOOLEAN :
              /\ mismatch \/ n = Size - offset
              /\ Digest(n)
              /\ error' = (error \/ mismatch \/ Finalise(digested') # Expected)
      BY DEF Next_End
    <1> DEFINE more == Blocks(offset, n)
    <1>2. more \in Seq(Values) /\ Len(more) = n
      BY BlocksType DEF LayerInv
    <1>3. /\ digested \in Seq(Values) /\ handed \in Seq(Values \union {"skipped"})
          /\ Size \in Nat /\ offset \in 0..Size /\ Len(digested) = offset
      BY DEF LayerInv, HandedInv, TypeOK, LayerConstants, Size
    <1>4. /\ digested' \in Seq(Values) /\ Len(digested') = offset + n
          /\ \A i \in 1..offset : digested'[i] = digested[i]
      <2>1. /\ digested \o more \in Seq(Values) /\ Len(digested \o more) = Len(digested) + Len(more)
            /\ \A i \in 1..(Len(digested) + Len(more)) :
                 (digested \o more)[i] = IF i <= Len(digested) THEN digested[i] ELSE more[i - Len(digested)]
        BY <1>2, <1>3, Appended
      <2> QED
        BY <2>1, <1>1, <1>2, <1>3 DEF Digest
    <1>5. TypeOK'
      BY <1>1, <1>3, <1>4 DEF LayerInv, TypeOK, Next_End, Digest
    <1>6. HandedInv'
      <2>1. Len(handed) <= offset /\ \A i \in 1..Len(handed) : handed[i] \in {digested[i], "skipped"}
        BY <1>3 DEF LayerInv, HandedInv
      <2>2. Len(handed) \in Nat
        BY <1>3
      <2> QED
        BY <2>1, <2>2, <1>1, <1>3, <1>4 DEF HandedInv, Next_End, Digest
    <1>7. ~error' => digested' = Image
      <2> SUFFICES ASSUME ~error' PROVE digested' = Image
        OBVIOUS
      <2>1. ~error /\ n = Size - offset /\ Finalise(digested') = Image
        BY <1>1 DEF Expected
      <2>2. CASE ~finalised
        BY <2>1, <2>2 DEF Finalise
      <2>3. CASE finalised
        <3>1. digested = Image
          BY <2>1, <2>3 DEF LayerInv, FinalInv
        <3>2. n = 0
          BY <2>1, <3>1, <1>3 DEF Size
        <3>3. more = <<>>
          BY <3>2, <1>2
        <3> QED
          BY <3>1, <3>3, <1>1, <1>3 DEF Digest
      <2> QED
        BY <2>2, <2>3
    <1>8. FinalInv'
      BY <1>7 DEF FinalInv, Next_End
    <1> QED
      BY <1>5, <1>6, <1>8 DEF LayerInv

\* The steps that touch neither the digest nor what was handed on.
LEMMA OtherStepsKeep ==
    ASSUME LayerConstants, LayerInv,
           Next_Begin \/ Next_Entry \/ ReadEntry \/ ReadEntryReturns \/ ChangeFile
    PROVE  LayerInv'
    <1>1. CASE Next_Begin
      BY <1>1 DEF Next_Begin, LayerInv, TypeOK, HandedInv, FinalInv
    <1>2. CASE Next_Entry
      BY <1>2 DEF Next_Entry, LayerInv, TypeOK, HandedInv, FinalInv
    <1>3. CASE ReadEntry
      BY <1>3 DEF ReadEntry, LayerInv, TypeOK, HandedInv, FinalInv
    <1>4. CASE ReadEntryReturns
      BY <1>4 DEF ReadEntryReturns, LayerInv, TypeOK, HandedInv, FinalInv
    <1>5. CASE ChangeFile
      <2>1. file' \in [1..Size -> Values] /\ changes' \in 0..MaxChanges
        BY <1>5 DEF ChangeFile, LayerInv, TypeOK, LayerConstants
      <2> QED
        BY <1>5, <2>1 DEF ChangeFile, LayerInv, TypeOK, HandedInv, FinalInv
    <1> QED
      BY <1>1, <1>2, <1>3, <1>4, <1>5

LEMMA InitLayer == ASSUME LayerConstants, Init PROVE LayerInv
    <1>1. Size \in Nat /\ 0 \in 0..Size /\ 0 \in 0..MaxChanges
      BY DEF LayerConstants, Size
    <1>2. TypeOK
      <2>1. <<>> \in Seq(Values) /\ <<>> \in Seq(Values \union {"skipped"}) /\ Len(<<>>) = 0
        BY EmptySeq
      <2>2. Len(digested) <= Size
        BY <1>1, <2>1 DEF Init
      <2> QED
        BY <1>1, <2>1, <2>2 DEF Init, TypeOK
    <1>3. HandedInv
      BY DEF Init, HandedInv
    <1>4. FinalInv
      BY DEF Init, FinalInv
    <1> QED
      BY <1>2, <1>3, <1>4 DEF LayerInv

LEMMA StepLayer == ASSUME LayerConstants, LayerInv, [Next]_vars PROVE LayerInv'
    <1>1. CASE UNCHANGED vars
      BY <1>1 DEF vars, LayerInv, TypeOK, HandedInv, FinalInv, Blocks
    <1> QED
      BY <1>1, ReadCallbackKeeps, SkipCallbackKeeps, NextEndKeeps, OtherStepsKeep DEF Next

\* The inductive invariant of the reader.
THEOREM LayerInvariant == ASSUME LayerConstants PROVE Spec => []LayerInv
    <1>1. Init => LayerInv
      BY InitLayer
    <1>2. LayerInv /\ [Next]_vars => LayerInv'
      BY StepLayer
    <1> QED
      BY <1>1, <1>2, PTL DEF Spec

\* next() returns null without an error only when every block that libarchive was
\* handed is the signed layer's, and the whole layer was read: whatever libarchive
\* skipped, however the file changed meanwhile, and however often next() is called.
THEOREM LayerEndVerified == ASSUME LayerConstants PROVE Spec => []EndMeansVerified
    <1>1. LayerInv => EndMeansVerified
      <2> SUFFICES ASSUME LayerInv, answer = "null", ~error
                   PROVE  offset = Size /\ \A i \in DOMAIN handed : handed[i] \in {Image[i], "skipped"}
        BY DEF EndMeansVerified
      <2>1. digested = Image /\ Len(digested) = offset
        BY DEF LayerInv, FinalInv, HandedInv
      <2>2. DOMAIN handed = 1..Len(handed)
        BY DEF LayerInv, TypeOK
      <2> QED
        BY <2>1, <2>2 DEF LayerInv, HandedInv, Size
    <1> QED
      BY <1>1, LayerInvariant, PTL

\* What libarchive saw of the layer was digested, in the order of the layer.
THEOREM LayerDigestCovers == ASSUME LayerConstants PROVE Spec => []DigestCoversHanded
    <1>1. LayerInv => DigestCoversHanded
      BY DEF LayerInv, HandedInv, TypeOK, DigestCoversHanded
    <1> QED
      BY <1>1, LayerInvariant, PTL

-------------------------------------------------------------------------------
(* The layout of an archive                                                    *)

H == archive.headers

N == Len(H)

LEMMA HeadersType ==
    ASSUME archive \in Archives
    PROVE  /\ H \in Seq(Store!Header) /\ N \in Nat /\ DOMAIN H = 1..N
           /\ \A i \in 1..N : H[i] \in Store!Header /\ H[i].size \in Nat
           /\ archive.format \in {"tar", "tgz", "zip"}
           /\ archive.format = "zip" => \A i \in 1..N : H[i].kind # "ext"
    <1>1. H \in Seq(Store!Header) /\ archive.format \in {"tar", "tgz", "zip"}
      BY StoreAssumption DEF Store!StoreConstants, H
    <1>2. N \in Nat /\ DOMAIN H = 1..N
      BY <1>1, LenProperties DEF N
    <1>3. \A i \in 1..N : H[i] \in Store!Header
      BY <1>1, <1>2, ElementOfSeq DEF N
    <1>4. \A i \in 1..N : H[i].size \in Nat
      BY <1>3 DEF Store!Header
    <1>5. archive.format = "zip" => \A i \in 1..N : H[i].kind # "ext"
      BY <1>2, StoreAssumption DEF Store!StoreConstants, H
    <1> QED
      BY <1>1, <1>2, <1>3, <1>4, <1>5

LEMMA RoundedUp == ASSUME NEW n \in Nat PROVE Store!RoundUp(n) \in Nat
    <1>1. Block \in Nat /\ Block > 0
      BY StoreAssumption DEF Store!StoreConstants
    <1>2. (n + Block - 1) \div Block \in Nat
      BY <1>1
    <1> DEFINE q == (n + Block - 1) \div Block
    <1> HIDE DEF q
    <1>3. q * Block \in Nat
      BY <1>1, <1>2 DEF q
    <1> QED
      BY <1>3 DEF Store!RoundUp, q

LEMMA SpaceOfData ==
    ASSUME archive \in Archives, NEW i \in 1..N
    PROVE  Store!DataSpace(i) \in Nat
    BY HeadersType, RoundedUp DEF Store!DataSpace, Store!Headers, H

\* Each header is behind the data of the one before it.
LEMMA HeaderOffsets ==
    ASSUME archive \in Archives
    PROVE  /\ \A i \in 0..N : Store!HeaderOffset[i] \in Nat
           /\ \A i \in 2..N : Store!HeaderOffset[i] =
                  Store!HeaderOffset[i - 1] + Block + Store!DataSpace(i - 1)
    <1> DEFINE rule(prev, i) == IF i <= 1 THEN 0 ELSE prev + Block + Store!DataSpace(i - 1)
               step == [pair \in Nat \X (1..N) |-> rule(pair[1], pair[2])]
               Def(f) == f = [i \in 0..N |-> IF i <= 1 THEN 0 ELSE f[i - 1] + Block + Store!DataSpace(i - 1)]
               offsets == CHOOSE f : Def(f)
    <1>0. N \in Nat /\ Block \in Nat /\ 0 \in Nat
      BY HeadersType, StoreAssumption DEF Store!StoreConstants
    <1>1. ASSUME NEW prev \in Nat, NEW i \in 1..N PROVE rule(prev, i) \in Nat
      <2>1. i > 1 => i - 1 \in 1..N
        BY <1>0
      <2>2. i > 1 => Store!DataSpace(i - 1) \in Nat
        BY <2>1, SpaceOfData
      <2> HIDE DEF N
      <2> QED
        BY <1>0, <2>2
    <1>2. Store!HeaderOffset = offsets
      BY Zenon DEF Store!HeaderOffset, N, H, Store!Headers
    <1>3. \E f : Def(f) /\ f \in [0..N -> Nat]
      <2>1. step \in [Nat \X (1..N) -> Nat]
        BY <1>1
      <2>2. ASSUME NEW prev \in Nat, NEW i \in 1..N PROVE step[<<prev, i>>] = rule(prev, i)
        OBVIOUS
      <2> HIDE DEF step
      <2>3. PICK f : IsRecursive(f, N, Nat, 0, step)
        BY <1>0, <2>1, RecursionExists
      <2> HIDE DEF rule
      <2>4. ASSUME NEW i \in 1..N PROVE f[i] = rule(f[i - 1], i)
        <3>1. i - 1 \in 0..N
          BY <1>0
        <3> QED
          BY <2>2, <2>3, <3>1 DEF IsRecursive
      <2> HIDE DEF N
      <2>5. ASSUME NEW i \in 0..N
            PROVE  f[i] = IF i <= 1 THEN 0 ELSE f[i - 1] + Block + Store!DataSpace(i - 1)
        <3>1. CASE i = 0
          BY <2>3, <3>1 DEF IsRecursive
        <3>2. CASE i # 0
          <4>1. i \in 1..N
            BY <1>0, <3>2
          <4> QED
            BY <2>4, <4>1 DEF rule
        <3> QED
          BY <3>1, <3>2
      <2>6. f \in [0..N -> Nat]
        BY <2>3 DEF IsRecursive
      <2>7. f = [i \in 0..N |-> IF i <= 1 THEN 0 ELSE f[i - 1] + Block + Store!DataSpace(i - 1)]
        BY <2>5, <2>6
      <2> QED
        BY <2>6, <2>7
    <1> HIDE DEF N
    <1>4. Def(offsets)
      BY <1>3, Zenon DEF offsets
    <1> HIDE DEF offsets
    <1>5. offsets[0] = 0 /\ \A i \in 1..N : offsets[i] = rule(offsets[i - 1], i)
      <2>1. \A i \in 0..N : offsets[i] = IF i <= 1 THEN 0 ELSE offsets[i - 1] + Block + Store!DataSpace(i - 1)
        BY <1>4
      <2> QED
        BY <1>0, <2>1
    <1>6. \A i \in 0..N : offsets[i] \in Nat
      <2> HIDE DEF rule
      <2> DEFINE T == Nat
      <2>1. offsets[0] \in T /\ \A i \in 1..N : offsets[i - 1] \in T => offsets[i] \in T
        BY <1>1, <1>5
      <2> HIDE DEF T
      <2>2. \A i \in 0..N : offsets[i] \in T
        BY <1>0, <2>1, RecursionType
      <2> QED
        BY <2>2 DEF T
    <1>7. ASSUME NEW i \in 2..N PROVE offsets[i] = offsets[i - 1] + Block + Store!DataSpace(i - 1)
      <2>1. i \in 1..N /\ ~(i <= 1)
        BY <1>0
      <2> QED
        BY <1>5, <2>1
    <1> QED
      BY <1>2, <1>6, <1>7

\* No two headers are at the same place.
LEMMA OffsetsGrow ==
    ASSUME archive \in Archives, NEW i \in 1..N, NEW j \in 1..N, i < j
    PROVE  Store!HeaderOffset[i] < Store!HeaderOffset[j]
    <1> DEFINE O(k) == Store!HeaderOffset[k]
               S == {k \in 0..N : \A h \in 1..N : h < k => O(h) < O(k)}
    <1>0. N \in Nat /\ Block \in Nat /\ Block > 0
      BY HeadersType, StoreAssumption DEF Store!StoreConstants
    <1>1. 0 \in S
      BY <1>0
    <1>2. ASSUME NEW k \in 1..N, k - 1 \in S PROVE k \in S
      <2> SUFFICES ASSUME NEW h \in 1..N, h < k PROVE O(h) < O(k)
        BY <1>0
      <2>1. k \in 2..N /\ k - 1 \in 1..N /\ k - 1 \in 0..N /\ h \in 0..N
        BY <1>0
      <2>2. /\ O(k) = O(k - 1) + Block + Store!DataSpace(k - 1)
            /\ O(k) \in Nat /\ O(k - 1) \in Nat /\ O(h) \in Nat /\ Store!DataSpace(k - 1) \in Nat
        BY <2>1, HeaderOffsets, SpaceOfData
      <2>3. h = k - 1 \/ O(h) < O(k - 1)
        BY <1>2, <2>1
      <2> HIDE DEF O
      <2> QED
        BY <1>0, <2>2, <2>3
    <1> HIDE DEF S
    <1>3. 0..N \subseteq S
      BY <1>0, <1>1, <1>2, BoundedInduction
    <1>4. j \in S
      BY <1>0, <1>3
    <1> QED
      BY <1>4 DEF S

LEMMA HeaderFound ==
    ASSUME archive \in Archives, NEW i \in 1..N
    PROVE  Store!HeaderAt(Store!HeaderOffset[i]) = i
    <1> DEFINE at == {j \in DOMAIN Store!Headers : Store!HeaderOffset[j] = Store!HeaderOffset[i]}
    <1>1. DOMAIN Store!Headers = 1..N /\ N \in Nat
      BY HeadersType DEF Store!Headers, H
    <1>2. ASSUME NEW j \in at PROVE j = i
      <2>1. j \in 1..N /\ Store!HeaderOffset[j] = Store!HeaderOffset[i]
        BY <1>1
      <2>2. ~(i < j) /\ ~(j < i)
        <3>1. Store!HeaderOffset[j] \in Nat /\ Store!HeaderOffset[i] \in Nat
          BY <1>1, <2>1, HeaderOffsets
        <3> QED
          BY <2>1, <3>1, OffsetsGrow
      <2> QED
        BY <1>1, <2>1, <2>2
    <1>3. i \in at
      BY <1>1
    <1>4. at = {i}
      BY <1>2, <1>3
    <1>5. Store!HeaderAt(Store!HeaderOffset[i]) = IF at = {} THEN 0 ELSE CHOOSE j \in at : TRUE
      BY DEF Store!HeaderAt
    <1> HIDE DEF at
    <1> QED
      BY <1>4, <1>5


\* Only extension headers are between the first header of an entry and its last.
LEMMA FirstOfEntry ==
    ASSUME archive \in Archives, NEW i \in 1..N
    PROVE  /\ Store!FirstHeader(i) \in 1..i
           /\ \A k \in Store!FirstHeader(i)..(i - 1) : ~Store!IsEntry(k)
    <1> DEFINE Starts(j) == /\ \A k \in j..(i - 1) : ~Store!IsEntry(k)
                            /\ j = 1 \/ Store!IsEntry(j - 1)
               S == {j \in 1..i : \A k \in j..(i - 1) : ~Store!IsEntry(k)}
    <1>0. N \in Nat /\ i \in Nat /\ i >= 1
      BY HeadersType
    <1>1. PICK j \in S : \A k \in S : j <= k
      <2>1. i \in S /\ S \subseteq Nat
        BY <1>0
      <2> HIDE DEF S
      <2> QED
        BY <2>1, LeastNumber
    <1>2. j = 1 \/ Store!IsEntry(j - 1)
      <2> SUFFICES ASSUME j # 1, ~Store!IsEntry(j - 1) PROVE FALSE
        OBVIOUS
      <2>1. j \in 1..i /\ \A k \in j..(i - 1) : ~Store!IsEntry(k)
        OBVIOUS
      <2>2. ASSUME NEW k \in (j - 1)..(i - 1) PROVE ~Store!IsEntry(k)
        <3>1. k = j - 1 \/ k \in j..(i - 1)
          BY <1>0, <2>1
        <3> QED
          BY <2>1, <3>1
      <2>3. j - 1 \in 1..i
        BY <1>0, <2>1
      <2>4. j - 1 \in S
        BY <2>2, <2>3
      <2> HIDE DEF S
      <2>5. j <= j - 1
        BY <1>1, <2>4
      <2> QED
        BY <1>0, <2>1, <2>5
    <1>3. \E k \in 1..i : Starts(k)
      BY <1>1, <1>2
    <1>4. Store!FirstHeader(i) = CHOOSE k \in 1..i : Starts(k)
      BY DEF Store!FirstHeader
    <1> HIDE DEF Starts
    <1>5. Store!FirstHeader(i) \in 1..i /\ Starts(Store!FirstHeader(i))
      BY <1>3, <1>4
    <1> QED
      BY <1>5 DEF Starts

\* One turn of the loop over the headers at an offset; g gives the turns after it.
Turn(g, place) ==
    LET i == Store!HeaderAt(place)
    IN  IF i = 0 \/ H[i].size = 0 THEN 0
        ELSE IF H[i].kind = "file" THEN place + Block
        ELSE IF H[i].kind = "ext" THEN g[place + Block + Store!RoundUp(H[i].size)]
        ELSE 0

\* What the loop gives for each offset in at most n turns.
Walks(f) ==
    /\ \A place \in Nat : f[0][place] = 0
    /\ \A n \in 1..N : \A place \in Nat : f[n][place] = Turn(f[n - 1], place)

LEMMA HeaderAtType ==
    ASSUME archive \in Archives, NEW place
    PROVE  Store!HeaderAt(place) = 0 \/ Store!HeaderAt(place) \in 1..N
    <1>1. DOMAIN Store!Headers = 1..N
      BY HeadersType DEF Store!Headers, H
    <1> QED
      BY <1>1 DEF Store!HeaderAt

LEMMA TurnType ==
    ASSUME archive \in Archives, NEW g \in [Nat -> Nat], NEW place \in Nat
    PROVE  Turn(g, place) \in Nat
    <1> DEFINE i == Store!HeaderAt(place)
    <1>1. CASE i = 0
      BY <1>1 DEF Turn
    <1>2. CASE i \in 1..N
      <2>1. Block \in Nat /\ H[i].size \in Nat /\ Store!RoundUp(H[i].size) \in Nat
        BY <1>2, HeadersType, RoundedUp, StoreAssumption DEF Store!StoreConstants
      <2> HIDE DEF i
      <2>2. place + Block \in Nat /\ place + Block + Store!RoundUp(H[i].size) \in Nat
        BY <2>1
      <2>3. Turn(g, place) \in {0, place + Block, g[place + Block + Store!RoundUp(H[i].size)]}
        BY DEF Turn, i
      <2> QED
        BY <2>2, <2>3
    <1> QED
      BY <1>1, <1>2, HeaderAtType

LEMMA WalksExist ==
    ASSUME archive \in Archives
    PROVE  \E f : Walks(f) /\ \A start : Store!TarDataOffset(start) = f[N][start]
    <1> DEFINE Def(f) == f = [n \in 0..N |-> [place \in Nat |->
                             LET i == Store!HeaderAt(place)
                             IN  IF n = 0 \/ i = 0 \/ H[i].size = 0 THEN 0
                                 ELSE IF H[i].kind = "file" THEN place + Block
                                 ELSE IF H[i].kind = "ext"
                                      THEN f[n - 1][place + Block + Store!RoundUp(H[i].size)]
                                 ELSE 0]]
               walk == CHOOSE f : Def(f)
               T == [Nat -> Nat]
               base == [place \in Nat |-> 0]
               step == [pair \in T \X (1..N) |-> [place \in Nat |-> Turn(pair[1], place)]]
    <1>0. N \in Nat
      BY HeadersType
    <1>1. ASSUME NEW start PROVE Store!TarDataOffset(start) = walk[N][start]
      BY Zenon DEF Store!TarDataOffset, N, H, Store!Headers
    <1>2. \E f : Def(f)
      <2>1. ASSUME NEW g \in T PROVE [place \in Nat |-> Turn(g, place)] \in T
        BY TurnType
      <2>2. step \in [T \X (1..N) -> T]
        <3> HIDE DEF T
        <3> QED
          BY <2>1
      <2>3. ASSUME NEW g \in T, NEW n \in 1..N
            PROVE  step[<<g, n>>] = [place \in Nat |-> Turn(g, place)]
        <3> HIDE DEF T
        <3> QED
          OBVIOUS
      <2>4. base \in T
        OBVIOUS
      <2> HIDE DEF step, T
      <2>5. PICK f : IsRecursive(f, N, T, base, step)
        BY <1>0, <2>2, <2>4, RecursionExists
      <2>6. f \in [0..N -> T] /\ f[0] = base /\ \A n \in 1..N : f[n] = step[<<f[n - 1], n>>]
        BY <2>5 DEF IsRecursive
      <2>7. ASSUME NEW n \in 1..N PROVE f[n] = [place \in Nat |-> Turn(f[n - 1], place)]
        <3>1. n - 1 \in 0..N
          BY <1>0
        <3>2. f[n - 1] \in T
          BY <2>6, <3>1
        <3> QED
          BY <2>3, <2>6, <3>2
      <2> HIDE DEF N
      <2> DEFINE Body(g, n, place) ==
                   LET i == Store!HeaderAt(place)
                   IN  IF n = 0 \/ i = 0 \/ H[i].size = 0 THEN 0
                       ELSE IF H[i].kind = "file" THEN place + Block
                       ELSE IF H[i].kind = "ext" THEN g[place + Block + Store!RoundUp(H[i].size)]
                       ELSE 0
      <2>8. ASSUME NEW n \in 0..N PROVE f[n] = [place \in Nat |-> Body(f[n - 1], n, place)]
        <3>1. CASE n = 0
          BY <2>6, <3>1
        <3>2. CASE n # 0
          <4>1. n \in 1..N
            BY <1>0, <3>2
          <4>2. ASSUME NEW place \in Nat PROVE Turn(f[n - 1], place) = Body(f[n - 1], n, place)
            BY <3>2 DEF Turn
          <4> HIDE DEF Body
          <4> QED
            BY <2>7, <4>1, <4>2
        <3> QED
          BY <3>1, <3>2
      <2>9. f = [n \in 0..N |-> [place \in Nat |-> Body(f[n - 1], n, place)]]
        <3> HIDE DEF Body
        <3> QED
          BY <2>6, <2>8
      <2> QED
        BY <2>9, Zenon
    <1> HIDE DEF N, base, step, T
    <1>3. Def(walk)
      BY <1>2, Zenon DEF walk
    <1> HIDE DEF walk
    <1>4. Walks(walk)
      <2> DEFINE Body(n, place) ==
                   LET i == Store!HeaderAt(place)
                   IN  IF n = 0 \/ i = 0 \/ H[i].size = 0 THEN 0
                       ELSE IF H[i].kind = "file" THEN place + Block
                       ELSE IF H[i].kind = "ext"
                            THEN walk[n - 1][place + Block + Store!RoundUp(H[i].size)]
                       ELSE 0
      <2>0. walk = [n \in 0..N |-> [place \in Nat |-> Body(n, place)]]
        BY <1>3, Zenon
      <2>1. ASSUME NEW n \in 0..N, NEW place \in Nat PROVE walk[n][place] = Body(n, place)
        <3> HIDE DEF Body
        <3> QED
          BY <2>0, Zenon
      <2>2. ASSUME NEW place \in Nat PROVE walk[0][place] = 0
        <3>1. 0 \in 0..N
          BY <1>0
        <3> QED
          BY <2>1, <3>1
      <2>3. ASSUME NEW n \in 1..N, NEW place \in Nat PROVE walk[n][place] = Turn(walk[n - 1], place)
        <3>1. n \in 0..N /\ n # 0
          BY <1>0
        <3> QED
          BY <2>1, <3>1 DEF Turn
      <2> QED
        BY <2>2, <2>3 DEF Walks
    <1> QED
      BY <1>1, <1>4

\* From the first header of a file's entry the loop comes to its data, or gives up.
LEMMA TarData ==
    ASSUME archive \in Archives, archive.format # "zip", NEW i \in 1..N, Store!IsFile(i)
    PROVE  Store!TarDataOffset(Store!HeaderPosition(i)) \in {0, Store!HeaderOffset[i] + Block}
    <1> DEFINE first == Store!FirstHeader(i)
               O(j) == Store!HeaderOffset[j]
               goal == {0, O(i) + Block}
    <1>0. N \in Nat /\ Block \in Nat
      BY HeadersType, StoreAssumption DEF Store!StoreConstants
    <1>1. first \in 1..i /\ \A k \in first..(i - 1) : ~Store!IsEntry(k)
      BY FirstOfEntry
    <1>2. PICK f : Walks(f) /\ \A start : Store!TarDataOffset(start) = f[N][start]
      BY WalksExist
    <1> HIDE DEF first
    <1> DEFINE S == {n \in 0..N : \A j \in first..i : f[n][O(j)] \in goal}
    <1>3. \A j \in first..i : j \in 1..N /\ O(j) \in Nat
      <2>1. \A j \in first..i : j \in 1..N /\ j \in 0..N
        BY <1>0, <1>1
      <2> QED
        BY <2>1, HeaderOffsets
    <1>4. 0 \in S
      BY <1>0, <1>2, <1>3 DEF Walks
    <1>5. ASSUME NEW n \in 1..N, n - 1 \in S PROVE n \in S
      <2> SUFFICES ASSUME NEW j \in first..i PROVE f[n][O(j)] \in goal
        BY <1>0
      <2>1. j \in 1..N /\ O(j) \in Nat /\ Store!HeaderAt(O(j)) = j
        BY <1>3, HeaderFound
      <2>2. f[n][O(j)] = Turn(f[n - 1], O(j))
        BY <1>2, <2>1 DEF Walks
      <2>3. j # 0
        BY <2>1
      <2>4. CASE j = i
        <3>1. H[j].kind = "file"
          BY <2>4 DEF Store!IsFile, Store!Headers, H
        <3>2. Turn(f[n - 1], O(j)) \in {0, O(j) + Block}
          BY <2>1, <2>3, <3>1 DEF Turn
        <3> QED
          BY <2>2, <2>4, <3>2
      <2>5. CASE j # i
        <3>1. j \in first..(i - 1) /\ j + 1 \in first..i /\ j + 1 \in 2..N /\ (j + 1) - 1 = j
          BY <1>0, <1>1, <2>1, <2>5
        <3>2. H[j].kind = "ext"
          BY <1>1, <3>1 DEF Store!IsEntry, Store!Headers, H
        <3>3. Store!DataSpace(j) = Store!RoundUp(H[j].size)
          BY DEF Store!DataSpace, Store!Headers, H
        <3>4. O(j + 1) = O(j) + Block + Store!RoundUp(H[j].size)
          BY <3>1, <3>3, HeaderOffsets
        <3>5. f[n - 1][O(j + 1)] \in goal
          BY <1>5, <3>1
        <3>6. Turn(f[n - 1], O(j)) \in {0, f[n - 1][O(j) + Block + Store!RoundUp(H[j].size)]}
          BY <2>1, <2>3, <3>2 DEF Turn
        <3> QED
          BY <2>2, <3>4, <3>5, <3>6
      <2> QED
        BY <2>4, <2>5
    <1> HIDE DEF S
    <1>6. 0..N \subseteq S
      BY <1>0, <1>4, <1>5, BoundedInduction
    <1>7. N \in S /\ first \in first..i
      BY <1>0, <1>1, <1>6
    <1> QED
      BY <1>2, <1>7 DEF S, Store!HeaderPosition, first

LEMMA ZipData ==
    ASSUME archive \in Archives, archive.format = "zip", NEW i \in 1..N
    PROVE  Store!ZipDataOffset(Store!HeaderPosition(i)) \in {0, Store!HeaderOffset[i] + Block}
    <1>1. \A k \in 1..N : Store!IsEntry(k)
      BY HeadersType DEF Store!IsEntry, Store!Headers, H
    <1>2. Store!FirstHeader(i) = i
      <2> DEFINE first == Store!FirstHeader(i)
      <2>1. first \in 1..i /\ \A k \in first..(i - 1) : ~Store!IsEntry(k)
        BY FirstOfEntry
      <2> HIDE DEF first
      <2>2. N \in Nat
        BY HeadersType
      <2>3. first < i => first \in first..(i - 1) /\ first \in 1..N
        BY <2>1, <2>2
      <2>4. ~(first < i)
        BY <1>1, <2>1, <2>3
      <2>5. first = i
        BY <2>1, <2>4
      <2> QED
        BY <2>5 DEF first
    <1> QED
      BY <1>2 DEF Store!ZipDataOffset, Store!HeaderPosition

\* The data of an entry is behind its last header.
LEMMA DataIsBehindHeader ==
    ASSUME archive \in Archives, NEW i \in 1..N, Store!IsFile(i), Store!DataOffset(i) # 0
    PROVE  Store!DataOffset(i) = Store!HeaderOffset[i] + Block
    <1>1. CASE archive.format = "zip"
      BY <1>1, ZipData DEF Store!DataOffset
    <1>2. CASE archive.format # "zip"
      BY <1>2, TarData DEF Store!DataOffset
    <1> QED
      BY <1>1, <1>2

-------------------------------------------------------------------------------
(* The inductive invariant of the store                                        *)

\* A header that is the file of a path.
IsFileOf(p, i) == i \in 1..N /\ H[i].kind = "file" /\ H[i].path = p

Whole(f) == failed \/ f.size = H[f.entry].size

Given == Seq(Nat \X Nat)

ReaderRecord ==
    [kind : {"none", "buffer", "entry"}, entry : Nat, path : Paths \union {"none"},
     pos : Nat, clone : Nat, got : Given]

CloneRecord == [entry : Nat, pos : Nat]

\* Descriptors are given in turn.
StoreTypes ==
    /\ archive \in Archives
    /\ phase \in {"caching", "open"}
    /\ failed \in BOOLEAN
    /\ \E n \in 0..MaxFds : DOMAIN clones = 0..n
    /\ clones \in [DOMAIN clones -> CloneRecord]
    /\ readers \in [Readers -> ReaderRecord]

\* A cached file is a file of its path, and complete unless a read has failed.
CacheInv ==
    \A p \in DOMAIN cache : IsFileOf(p, cache[p].entry) /\ Whole(cache[p])

\* A reader of an entry has a clone of its own, which is where the reader is: so no other
\* reader moves it. What a reader has given is its entry so far.
OwnClone(r) ==
    /\ readers[r].clone \in DOMAIN clones \ {0}
    /\ clones[readers[r].clone] = [entry |-> readers[r].entry, pos |-> Len(readers[r].got)]
    /\ \A s \in Readers : readers[s].kind = "entry" /\ readers[s].clone = readers[r].clone => s = r

InOrder(rd) == \A k \in 1..Len(rd.got) : rd.got[k] = <<rd.entry, k - 1>>

ReaderOK(r) ==
    LET rd == readers[r]
    IN  /\ rd.kind = "none" => rd = Store!NoReader
        /\ rd.kind # "none" => phase = "open" /\ IsFileOf(rd.path, rd.entry)
        /\ rd.kind = "buffer" => rd.pos = Len(rd.got)
        /\ rd.kind = "entry" => OwnClone(r)
        /\ InOrder(rd)

\* An answer is about a file of the path that was asked for.
AnswerOK ==
    /\ reply.op = "read" => IsFileOf(reply.path, reply.entry) /\ Whole(reply)
    /\ reply.op = "map" =>
          \E i \in Store!Found(reply.path) :
              reply.offset = Store!HeaderOffset[i] + Block /\ reply.size = H[i].size

StoreInv ==
    /\ StoreTypes /\ CacheInv /\ AnswerOK
    /\ \A r \in Readers : ReaderOK(r)

-------------------------------------------------------------------------------

LEMMA SameCardinality == ASSUME NEW S PROVE Store!Cardinality(S) = Cardinality(S)
    BY Zenon DEF Store!Cardinality, Cardinality

\* The archive does not change, and so its layout does not.
LEMMA SameLayout ==
    ASSUME archive' = archive
    PROVE  /\ H' = H /\ N' = N
           /\ Store!HeaderOffset' = Store!HeaderOffset
           /\ \A p : Store!Found(p)' = Store!Found(p)
           /\ \A p, i : IsFileOf(p, i)' <=> IsFileOf(p, i)
    <1>1. H' = H /\ N' = N
      BY DEF N, H
    <1>2. Store!HeaderOffset' = Store!HeaderOffset
      BY DEF Store!HeaderOffset, Store!Headers, Store!DataSpace
    <1>3. \A p : Store!Found(p)' = Store!Found(p)
      BY DEF Store!Found, Store!IsFile, Store!Headers
    <1>4. \A p, i : IsFileOf(p, i)' <=> IsFileOf(p, i)
      BY <1>1 DEF IsFileOf
    <1> QED
      BY <1>1, <1>2, <1>3, <1>4

\* Where a walk for a path stops is a file of the path.
LEMMA FoundIsFile ==
    ASSUME archive \in Archives, NEW p, NEW i \in Store!Found(p)
    PROVE  IsFileOf(p, i) /\ Store!IsFile(i) /\ Store!Headers = H
    BY HeadersType DEF Store!Found, Store!IsFile, Store!Headers, H, IsFileOf

LEMMA CacheStays ==
    ASSUME CacheInv, UNCHANGED <<archive, cache>>, failed => failed'
    PROVE  CacheInv'
    BY SameLayout DEF CacheInv, Whole

LEMMA NothingAnswered == ASSUME reply' = Store!NoAnswer PROVE AnswerOK'
    BY DEF AnswerOK, Store!NoAnswer

\* The clones of the readers stay where they are.
LEMMA ReadersStay ==
    ASSUME \A r \in Readers : ReaderOK(r), UNCHANGED <<archive, readers>>,
           phase = "open" => phase' = "open", DOMAIN clones \subseteq DOMAIN clones',
           \A c \in DOMAIN clones \ {0} : clones'[c] = clones[c]
    PROVE  \A r \in Readers : ReaderOK(r)'
    <1> SUFFICES ASSUME NEW r \in Readers PROVE ReaderOK(r)'
      OBVIOUS
    <1>1. ReaderOK(r)
      OBVIOUS
    <1>2. readers' = readers /\ \A p, i : IsFileOf(p, i)' <=> IsFileOf(p, i)
      BY SameLayout
    <1>3. OwnClone(r) => OwnClone(r)'
      BY <1>2 DEF OwnClone
    <1>4. InOrder(readers[r]) => InOrder(readers[r])'
      BY <1>2 DEF InOrder
    <1> QED
      BY <1>1, <1>2, <1>3, <1>4 DEF ReaderOK

\* A descriptor for the next clone.
LEMMA NextFd ==
    ASSUME StoreTypes
    PROVE  /\ Store!FreshFd \in Nat \ {0} /\ Store!FreshFd \notin DOMAIN clones
           /\ DOMAIN clones \union {Store!FreshFd} = 0..Store!FreshFd
           /\ 0 \in DOMAIN clones
    <1>1. PICK n \in 0..MaxFds : DOMAIN clones = 0..n
      BY DEF StoreTypes
    <1>2. n \in Nat
      BY <1>1, StoreAssumption DEF Store!StoreConstants
    <1>3. Cardinality(0..n) = n + 1
      BY <1>2, FS_Interval
    <1>4. Store!FreshFd = n + 1
      BY <1>1, <1>3, SameCardinality DEF Store!FreshFd
    <1> QED
      BY <1>1, <1>2, <1>4

LEMMA CloneAdded ==
    ASSUME StoreTypes, Store!FreshFd <= MaxFds, NEW entry \in Nat,
           clones' = Store!CloneAt(Store!FreshFd, entry)
    PROVE  /\ \E n \in 0..MaxFds : DOMAIN clones' = 0..n
           /\ clones' \in [DOMAIN clones' -> CloneRecord]
           /\ DOMAIN clones \subseteq DOMAIN clones'
           /\ \A c \in DOMAIN clones : clones'[c] = clones[c]
           /\ Store!FreshFd \in DOMAIN clones'
           /\ clones'[Store!FreshFd] = [entry |-> entry, pos |-> 0]
    <1> DEFINE fd == Store!FreshFd
    <1>1. fd \in Nat \ {0} /\ fd \notin DOMAIN clones /\ DOMAIN clones \union {fd} = 0..fd
      BY NextFd
    <1> HIDE DEF fd
    <1>2. /\ DOMAIN clones' = DOMAIN clones \union {fd}
          /\ \A c \in DOMAIN clones \union {fd} :
                clones'[c] = IF c = fd THEN [entry |-> entry, pos |-> 0] ELSE clones[c]
          /\ clones' = [c \in DOMAIN clones' |-> clones'[c]]
      BY DEF Store!CloneAt, fd
    <1>3. fd \in 0..MaxFds
      BY <1>1, StoreAssumption DEF Store!StoreConstants, fd
    <1>4. \A c \in DOMAIN clones : clones'[c] = clones[c] /\ clones[c] \in CloneRecord
      BY <1>1, <1>2 DEF StoreTypes
    <1>5. clones'[fd] = [entry |-> entry, pos |-> 0] /\ clones'[fd] \in CloneRecord
      BY <1>2 DEF CloneRecord
    <1>6. clones' \in [DOMAIN clones' -> CloneRecord]
      BY <1>2, <1>4, <1>5
    <1> QED
      BY <1>1, <1>2, <1>3, <1>4, <1>5, <1>6 DEF fd

LEMMA StoreInit == Store!Init => StoreInv
    <1> SUFFICES ASSUME Store!Init PROVE StoreInv
      OBVIOUS
    <1>1. MaxFds \in Nat
      BY StoreAssumption DEF Store!StoreConstants
    <1>2. clones = [c \in {0} |-> [entry |-> 0, pos |-> 0]] /\ DOMAIN clones = 0..0
      BY DEF Store!Init
    <1>3. Store!NoReader \in ReaderRecord
      BY DEF Store!NoReader, ReaderRecord, Given
    <1>4. readers = [r \in Readers |-> Store!NoReader]
      BY DEF Store!Init
    <1>5. StoreTypes
      <2>1. archive \in Archives /\ phase \in {"caching", "open"} /\ failed \in BOOLEAN
        BY DEF Store!Init
      <2>2. \E n \in 0..MaxFds : DOMAIN clones = 0..n
        BY <1>1, <1>2
      <2>3. clones \in [DOMAIN clones -> CloneRecord]
        BY <1>2 DEF CloneRecord
      <2>4. readers \in [Readers -> ReaderRecord]
        BY <1>3, <1>4
      <2> QED
        BY <2>1, <2>2, <2>3, <2>4 DEF StoreTypes
    <1>6. CacheInv
      BY DEF CacheInv, Store!Init
    <1>7. AnswerOK
      BY DEF AnswerOK, Store!Init, Store!NoAnswer
    <1>8. ASSUME NEW r \in Readers PROVE ReaderOK(r)
      BY <1>4 DEF ReaderOK, Store!NoReader, InOrder
    <1> QED
      BY <1>5, <1>6, <1>7, <1>8 DEF StoreInv

LEMMA CacheSmallFileKeeps == ASSUME StoreInv, Store!CacheSmallFile PROVE StoreInv'
    <1> DEFINE i == clones[0].entry + 1
    <1>0. /\ archive \in Archives /\ phase = "caching" /\ clones[0].entry < Len(Store!Headers)
          /\ clones' = [clones EXCEPT ![0].entry = i]
          /\ UNCHANGED <<archive, phase, readers, reply, fds>>
          /\ failed' \in BOOLEAN /\ (failed => failed')
      BY DEF Store!CacheSmallFile, StoreInv, StoreTypes
    <1>1. 0 \in DOMAIN clones /\ clones[0] \in CloneRecord
      BY NextFd DEF StoreInv, StoreTypes
    <1>2. i \in 1..N /\ Store!Headers = H /\ i \in Nat
      <2>1. N \in Nat /\ Store!Headers = H /\ clones[0].entry \in Nat
        BY <1>0, <1>1, HeadersType DEF Store!Headers, H, CloneRecord
      <2>2. clones[0].entry < N
        BY <1>0, <2>1 DEF N
      <2> QED
        BY <2>1, <2>2
    <1> HIDE DEF i
    <1>3. DOMAIN clones' = DOMAIN clones /\ \A c \in DOMAIN clones \ {0} : clones'[c] = clones[c]
      BY <1>0
    <1>4. clones' \in [DOMAIN clones' -> CloneRecord]
      <2>1. clones'[0] = [clones[0] EXCEPT !.entry = i]
        BY <1>0, <1>1
      <2>2. clones'[0] \in CloneRecord
        BY <1>1, <1>2, <2>1 DEF CloneRecord
      <2>3. \A c \in DOMAIN clones : clones'[c] \in CloneRecord
        BY <1>3, <2>2 DEF StoreInv, StoreTypes
      <2>4. clones' = [c \in DOMAIN clones |-> clones'[c]]
        BY <1>0
      <2> QED
        BY <1>3, <2>3, <2>4
    <1>5. StoreTypes'
      <2>1. \E n \in 0..MaxFds : DOMAIN clones' = 0..n
        BY <1>3 DEF StoreInv, StoreTypes
      <2> QED
        BY <1>0, <1>4, <2>1 DEF StoreInv, StoreTypes
    <1>6. CacheInv'
      <2>1. CASE UNCHANGED cache
        BY <1>0, <2>1, CacheStays DEF StoreInv
      <2>2. CASE Store!CachesFile(i) /\ \E n \in Store!ReadLengths(i) :
                    cache' = Store!CachePut(H[i].path, [entry |-> i, size |-> n])
        <3>1. PICK n \in Store!ReadLengths(i) :
                  cache' = Store!CachePut(H[i].path, [entry |-> i, size |-> n])
          BY <2>2
        <3>2. IsFileOf(H[i].path, i)
          BY <1>2, <2>2 DEF Store!CachesFile, Store!IsFile, IsFileOf
        <3>3. failed' \/ n = H[i].size
          BY <1>2, <3>1 DEF Store!ReadLengths
        <3> SUFFICES ASSUME NEW p \in DOMAIN cache'
                     PROVE  IsFileOf(p, cache'[p].entry) /\ (failed' \/ cache'[p].size = H[cache'[p].entry].size)
          BY <1>0, SameLayout DEF CacheInv, Whole
        <3>4. CASE p = H[i].path
          <4>1. cache'[p] = [entry |-> i, size |-> n]
            BY <3>1, <3>4 DEF Store!CachePut
          <4> QED
            BY <3>2, <3>3, <3>4, <4>1
        <3>5. CASE p # H[i].path
          <4>1. p \in DOMAIN cache /\ cache'[p] = cache[p]
            BY <3>1, <3>5 DEF Store!CachePut
          <4> QED
            BY <1>0, <4>1 DEF StoreInv, CacheInv, Whole
        <3> QED
          BY <3>4, <3>5
      <2>3. \/ UNCHANGED cache
            \/ Store!CachesFile(i) /\ \E n \in Store!ReadLengths(i) :
                    cache' = Store!CachePut(H[i].path, [entry |-> i, size |-> n])
        BY <1>2 DEF Store!CacheSmallFile, i
      <2> QED
        BY <2>1, <2>2, <2>3
    <1>7. AnswerOK'
      BY <1>0, SameLayout DEF StoreInv, AnswerOK, Whole
    <1>8. \A r \in Readers : ReaderOK(r)'
      BY <1>0, <1>3, ReadersStay DEF StoreInv
    <1> QED
      BY <1>5, <1>6, <1>7, <1>8 DEF StoreInv

LEMMA EndCachingKeeps == ASSUME StoreInv, Store!EndCaching PROVE StoreInv'
    <1>1. /\ phase' = "open" /\ (failed => failed') /\ failed' \in BOOLEAN
          /\ UNCHANGED <<archive, cache, clones, readers, reply>>
      BY DEF Store!EndCaching, StoreInv, StoreTypes
    <1>2. StoreTypes'
      BY <1>1 DEF StoreInv, StoreTypes
    <1>3. AnswerOK'
      BY <1>1, SameLayout DEF StoreInv, AnswerOK, Whole
    <1>4. \A r \in Readers : ReaderOK(r)'
      BY <1>1, ReadersStay DEF StoreInv
    <1> QED
      BY <1>1, <1>2, <1>3, <1>4, CacheStays DEF StoreInv

LEMMA CloneFailsKeeps == ASSUME StoreInv, Store!CloneFails PROVE StoreInv'
    <1>1. /\ Store!FreshFd <= MaxFds /\ clones' = Store!CloneAt(Store!FreshFd, 0)
          /\ failed' = TRUE /\ reply' = Store!NoAnswer
          /\ UNCHANGED <<archive, phase, cache, readers>> /\ StoreTypes
      BY DEF Store!CloneFails, StoreInv
    <1>2. /\ \E n \in 0..MaxFds : DOMAIN clones' = 0..n
          /\ clones' \in [DOMAIN clones' -> CloneRecord]
          /\ DOMAIN clones \subseteq DOMAIN clones'
          /\ \A c \in DOMAIN clones : clones'[c] = clones[c]
      BY <1>1, CloneAdded
    <1>3. StoreTypes'
      BY <1>1, <1>2 DEF StoreTypes
    <1>4. \A r \in Readers : ReaderOK(r)'
      BY <1>1, <1>2, ReadersStay DEF StoreInv
    <1> QED
      BY <1>1, <1>3, <1>4, CacheStays, NothingAnswered DEF StoreInv

LEMMA ReadFileKeeps ==
    ASSUME StoreInv, NEW p \in Paths, NEW max, Store!ReadFile(p, max) PROVE StoreInv'
    <1>1. /\ UNCHANGED <<archive, phase, space, cache, clones, readers, fds>>
          /\ archive \in Archives
      BY DEF Store!ReadFile, StoreInv, StoreTypes
    <1>2. failed' \in BOOLEAN /\ (failed => failed')
      BY DEF Store!ReadFile, StoreInv, StoreTypes
    <1>3. AnswerOK'
      <2>1. CASE reply' = Store!NoAnswer
        BY <2>1, NothingAnswered
      <2>2. CASE /\ p \in DOMAIN cache /\ failed' = failed
                 /\ reply' = [op |-> "read", path |-> p, entry |-> cache[p].entry, size |-> cache[p].size]
        BY <1>1, <2>2, SameLayout DEF StoreInv, CacheInv, AnswerOK, Whole
      <2>3. CASE \E i \in Store!Found(p) : \E n \in Store!ReadLengths(i) :
                    reply' = [op |-> "read", path |-> p, entry |-> i, size |-> n]
        <3>0. PICK i \in Store!Found(p) : \E n \in Store!ReadLengths(i) :
                 reply' = [op |-> "read", path |-> p, entry |-> i, size |-> n]
          BY <2>3
        <3>1. PICK n \in Store!ReadLengths(i) :
                 reply' = [op |-> "read", path |-> p, entry |-> i, size |-> n]
          BY <3>0
        <3>2. IsFileOf(p, i) /\ Store!Headers = H
          BY <1>1, FoundIsFile
        <3>3. failed' \/ n = H[i].size
          BY <3>2 DEF Store!ReadLengths
        <3> QED
          BY <1>1, <3>1, <3>2, <3>3, SameLayout DEF AnswerOK, Whole
      <2> QED
        BY <2>1, <2>2, <2>3 DEF Store!ReadFile
    <1>4. StoreTypes'
      BY <1>1, <1>2 DEF StoreInv, StoreTypes
    <1>5. \A r \in Readers : ReaderOK(r)'
      BY <1>1, ReadersStay DEF StoreInv
    <1> QED
      BY <1>1, <1>2, <1>3, <1>4, <1>5, CacheStays DEF StoreInv

LEMMA GetMappableFileKeeps ==
    ASSUME StoreInv, NEW p \in Paths, Store!GetMappableFile(p) PROVE StoreInv'
    <1>1. /\ UNCHANGED <<archive, phase, space, cache, clones, readers, failed, fds>>
          /\ archive \in Archives
      BY DEF Store!GetMappableFile, StoreInv, StoreTypes
    <1>2. AnswerOK'
      <2>1. PICK i \in Store!Found(p) :
               /\ Store!DataOffset(i) # 0
               /\ reply' = [op |-> "map", path |-> p, offset |-> Store!DataOffset(i),
                            size |-> Store!Headers[i].size]
        BY DEF Store!GetMappableFile
      <2>2. i \in 1..N /\ Store!IsFile(i) /\ Store!Headers = H
        BY <1>1, FoundIsFile DEF IsFileOf
      <2>3. Store!DataOffset(i) = Store!HeaderOffset[i] + Block
        BY <1>1, <2>1, <2>2, DataIsBehindHeader
      <2> QED
        BY <1>1, <2>1, <2>2, <2>3, SameLayout DEF AnswerOK
    <1>3. StoreTypes'
      BY <1>1 DEF StoreInv, StoreTypes
    <1>4. \A r \in Readers : ReaderOK(r)'
      BY <1>1, ReadersStay DEF StoreInv
    <1> QED
      BY <1>1, <1>2, <1>3, <1>4, CacheStays DEF StoreInv
\* A reader that is not touched stays as it is, when its clone stays where it is and no other
\* reader gets it.
LEMMA ReaderStays ==
    ASSUME NEW r \in Readers, ReaderOK(r), archive' = archive, readers'[r] = readers[r],
           phase = "open" => phase' = "open", DOMAIN clones \subseteq DOMAIN clones',
           readers[r].kind = "entry" => clones'[readers[r].clone] = clones[readers[r].clone],
           readers[r].kind = "entry" =>
              \A s \in Readers \ {r} :
                 ~(readers'[s].kind = "entry" /\ readers'[s].clone = readers[r].clone)
    PROVE  ReaderOK(r)'
    <1>2. \A p, i : IsFileOf(p, i)' <=> IsFileOf(p, i)
      BY SameLayout
    <1>3. readers[r].kind = "entry" => (OwnClone(r) => OwnClone(r)')
      BY DEF OwnClone
    <1>4. InOrder(readers[r]) => InOrder(readers[r])'
      BY DEF InOrder
    <1> QED
      BY <1>2, <1>3, <1>4 DEF ReaderOK

LEMMA GetFileKeeps ==
    ASSUME StoreInv, NEW r \in Readers, NEW p \in Paths, Store!GetFile(r, p) PROVE StoreInv'
    <1>1. /\ UNCHANGED <<archive, phase, space, cache, failed>> /\ reply' = Store!NoAnswer
          /\ archive \in Archives /\ phase = "open" /\ readers[r].kind = "none"
          /\ readers \in [Readers -> ReaderRecord] /\ readers[r].kind # "entry"
      BY DEF Store!GetFile, StoreInv, StoreTypes
    <1>2. CacheInv' /\ AnswerOK'
      BY <1>1, CacheStays, NothingAnswered DEF StoreInv
    <1>3. CASE p \in DOMAIN cache
      <2> DEFINE new == [Store!NoReader EXCEPT !.kind = "buffer", !.path = p, !.entry = cache[p].entry]
      <2>1. readers' = [readers EXCEPT ![r] = new] /\ UNCHANGED <<clones, fds>>
        BY <1>3 DEF Store!GetFile
      <2>2. IsFileOf(p, cache[p].entry) /\ cache[p].entry \in Nat
        BY <1>1, <1>3, HeadersType DEF StoreInv, CacheInv, IsFileOf
      <2>3. /\ new.kind = "buffer" /\ new.entry = cache[p].entry /\ new.path = p
            /\ new.pos = 0 /\ new.got = <<>>
        BY DEF Store!NoReader
      <2>4. new \in ReaderRecord
        <3>1. Store!NoReader \in ReaderRecord
          BY DEF Store!NoReader, ReaderRecord, Given
        <3> QED
          BY <2>2, <3>1 DEF ReaderRecord
      <2> HIDE DEF new
      <2>5. readers' \in [Readers -> ReaderRecord] /\ readers'[r] = new
            /\ \A s \in Readers \ {r} : readers'[s] = readers[s]
        BY <1>1, <2>1, <2>4
      <2>6. StoreTypes'
        BY <1>1, <2>1, <2>5 DEF StoreInv, StoreTypes
      <2>7. ReaderOK(r)'
        <3>1. IsFileOf(p, cache[p].entry)'
          BY <1>1, <2>2, SameLayout
        <3> QED
          BY <1>1, <2>3, <2>5, <3>1 DEF ReaderOK, InOrder
      <2>8. ASSUME NEW s \in Readers \ {r} PROVE ReaderOK(s)'
        <3>1. ReaderOK(s) /\ readers'[s] = readers[s]
          BY <2>5 DEF StoreInv
        <3>2. readers[s].kind = "entry" =>
                 \A t \in Readers \ {s} :
                    ~(readers'[t].kind = "entry" /\ readers'[t].clone = readers[s].clone)
          BY <2>3, <2>5, <3>1 DEF ReaderOK, OwnClone
        <3> QED
          BY <1>1, <2>1, <3>1, <3>2, ReaderStays
      <2> QED
        BY <1>2, <2>6, <2>7, <2>8 DEF StoreInv
    <1>4. CASE p \notin DOMAIN cache
      <2> DEFINE fd == Store!FreshFd
      <2>1. PICK i \in Store!Found(p) :
               /\ fd <= MaxFds
               /\ readers' = [readers EXCEPT ![r] = [Store!NoReader EXCEPT
                                 !.kind = "entry", !.path = p, !.entry = i, !.clone = fd]]
               /\ clones' = Store!CloneAt(fd, i)
        BY <1>4 DEF Store!GetFile, Store!ReaderFd
      <2>2. IsFileOf(p, i) /\ i \in Nat
        BY <1>1, FoundIsFile, HeadersType DEF IsFileOf
      <2>3. StoreTypes
        BY DEF StoreInv
      <2>4. /\ \E n \in 0..MaxFds : DOMAIN clones' = 0..n
            /\ clones' \in [DOMAIN clones' -> CloneRecord]
            /\ DOMAIN clones \subseteq DOMAIN clones'
            /\ \A c \in DOMAIN clones : clones'[c] = clones[c]
            /\ fd \in DOMAIN clones' /\ clones'[fd] = [entry |-> i, pos |-> 0]
        BY <2>1, <2>2, <2>3, CloneAdded
      <2>5. fd \in Nat \ {0} /\ fd \notin DOMAIN clones
        BY <2>3, NextFd
      <2> HIDE DEF fd
      <2> DEFINE new == [Store!NoReader EXCEPT !.kind = "entry", !.path = p, !.entry = i, !.clone = fd]
      <2>6. /\ new.kind = "entry" /\ new.entry = i /\ new.path = p
            /\ new.clone = fd /\ new.got = <<>>
        BY DEF Store!NoReader
      <2>7. new \in ReaderRecord
        <3>1. Store!NoReader \in ReaderRecord
          BY DEF Store!NoReader, ReaderRecord, Given
        <3> QED
          BY <2>2, <2>5, <3>1 DEF ReaderRecord
      <2>8. readers' = [readers EXCEPT ![r] = new]
        BY <2>1
      <2> HIDE DEF new
      <2>9. readers' \in [Readers -> ReaderRecord] /\ readers'[r] = new
            /\ \A s \in Readers \ {r} : readers'[s] = readers[s]
        BY <1>1, <2>7, <2>8
      <2>10. StoreTypes'
        BY <1>1, <2>4, <2>9 DEF StoreInv, StoreTypes
      <2>11. \A s \in Readers \ {r} :
                readers[s].kind = "entry" => readers[s].clone \in DOMAIN clones \ {0}
        BY DEF StoreInv, ReaderOK, OwnClone
      <2>12. ReaderOK(r)'
        <3>1. IsFileOf(p, i)'
          BY <1>1, <2>2, SameLayout
        <3>2. Len(new.got) = 0
          BY <2>6
        <3>3. OwnClone(r)'
          BY <2>4, <2>5, <2>6, <2>9, <2>11, <3>2 DEF OwnClone
        <3> QED
          BY <1>1, <2>6, <2>9, <3>1, <3>2, <3>3 DEF ReaderOK, InOrder
      <2>13. ASSUME NEW s \in Readers \ {r} PROVE ReaderOK(s)'
        <3>1. ReaderOK(s) /\ readers'[s] = readers[s]
          BY <2>9 DEF StoreInv
        <3>2. readers[s].kind = "entry" =>
                 \A t \in Readers \ {s} :
                    ~(readers'[t].kind = "entry" /\ readers'[t].clone = readers[s].clone)
          BY <1>1, <2>5, <2>6, <2>9, <2>11, <3>1 DEF ReaderOK, OwnClone
        <3>3. readers[s].kind = "entry" => clones'[readers[s].clone] = clones[readers[s].clone]
          BY <2>4, <2>11
        <3> QED
          BY <1>1, <2>4, <3>1, <3>2, <3>3, ReaderStays
      <2> QED
        BY <1>2, <2>10, <2>12, <2>13 DEF StoreInv
    <1> QED
      BY <1>3, <1>4

\* One more unit of its own entry.
LEMMA GivesNext ==
    ASSUME NEW rd \in ReaderRecord, InOrder(rd), rd.entry \in Nat,
           NEW new, new.entry = rd.entry, new.got = Append(rd.got, <<rd.entry, Len(rd.got)>>)
    PROVE  /\ InOrder(new) /\ new.got \in Given /\ Len(new.got) = Len(rd.got) + 1
    <1>1. rd.got \in Seq(Nat \X Nat) /\ Len(rd.got) \in Nat
      BY DEF ReaderRecord, Given
    <1>2. /\ new.got \in Given /\ Len(new.got) = Len(rd.got) + 1
          /\ new.got[Len(rd.got) + 1] = <<rd.entry, Len(rd.got)>>
          /\ \A k \in 1..Len(rd.got) : new.got[k] = rd.got[k]
      BY <1>1 DEF Given
    <1>3. ASSUME NEW k \in 1..Len(new.got) PROVE new.got[k] = <<new.entry, k - 1>>
      <2>1. CASE k \in 1..Len(rd.got)
        BY <1>2, <2>1 DEF InOrder
      <2>2. CASE k = Len(rd.got) + 1
        BY <1>1, <1>2, <2>2
      <2> QED
        BY <1>1, <1>2, <2>1, <2>2
    <1> QED
      BY <1>2, <1>3 DEF InOrder

LEMMA ReadSomeKeeps == ASSUME StoreInv, NEW r \in Readers, Store!ReadSome(r) PROVE StoreInv'
    <1> DEFINE rd == readers[r]
               fd == rd.clone
    <1>1. /\ UNCHANGED <<archive, phase, space, cache, failed, fds>> /\ reply' = Store!NoAnswer
          /\ archive \in Archives /\ ReaderOK(r) /\ rd.kind # "none"
          /\ readers \in [Readers -> ReaderRecord] /\ rd \in ReaderRecord
      BY DEF Store!ReadSome, StoreInv, StoreTypes
    <1>2. CacheInv' /\ AnswerOK'
      BY <1>1, CacheStays, NothingAnswered DEF StoreInv
    <1>3. phase = "open" /\ IsFileOf(rd.path, rd.entry) /\ InOrder(rd) /\ Len(rd.got) \in Nat
          /\ \A p, i : IsFileOf(p, i)' <=> IsFileOf(p, i)
      <2>1. phase = "open" /\ IsFileOf(rd.path, rd.entry) /\ InOrder(rd)
        BY <1>1 DEF ReaderOK
      <2>2. Len(rd.got) \in Nat
        BY <1>1 DEF ReaderRecord, Given
      <2> QED
        BY <1>1, <2>1, <2>2, SameLayout
    <1>4. ASSUME NEW new, readers' = [readers EXCEPT ![r] = new], new \in ReaderRecord,
                 new.kind = rd.kind, new.path = rd.path, new.entry = rd.entry, new.clone = rd.clone
          PROVE  /\ readers' \in [Readers -> ReaderRecord] /\ readers'[r] = new
                 /\ \A s \in Readers \ {r} : readers'[s] = readers[s]
                 /\ \A s \in Readers : readers'[s].kind = readers[s].kind /\ readers'[s].clone = readers[s].clone
      BY <1>1, <1>4
    <1>5. CASE rd.kind = "buffer"
      <2> DEFINE next == rd.pos + 1
                 given == Append(rd.got, <<rd.entry, rd.pos>>)
                 new == [rd EXCEPT !.pos = next, !.got = given]
      <2>1. readers' = [readers EXCEPT ![r] = new] /\ UNCHANGED clones
        BY <1>1, <1>5 DEF Store!ReadSome
      <2>2. /\ new.kind = rd.kind /\ new.path = rd.path /\ new.entry = rd.entry /\ new.clone = rd.clone
            /\ new.got = Append(rd.got, <<rd.entry, rd.pos>>) /\ new.pos = rd.pos + 1
            /\ rd.pos = Len(rd.got)
        BY <1>1, <1>5 DEF ReaderRecord, ReaderOK
      <2>3. InOrder(new) /\ new.got \in Given /\ Len(new.got) = Len(rd.got) + 1
        BY <1>1, <1>3, <2>2, GivesNext DEF ReaderRecord
      <2>4. new \in ReaderRecord
        <3>1. next \in Nat /\ given \in Given
          BY <1>1, <1>3, <2>2, <2>3
        <3> HIDE DEF next, given
        <3> QED
          BY <1>1, <3>1 DEF ReaderRecord
      <2> HIDE DEF new
      <2>5. /\ readers' \in [Readers -> ReaderRecord] /\ readers'[r] = new
            /\ \A s \in Readers \ {r} : readers'[s] = readers[s]
            /\ \A s \in Readers : readers'[s].kind = readers[s].kind /\ readers'[s].clone = readers[s].clone
        BY <1>4, <2>1, <2>2, <2>4
      <2>6. StoreTypes'
        BY <1>1, <2>1, <2>5 DEF StoreInv, StoreTypes
      <2>7. ReaderOK(r)'
        <3>1. InOrder(readers[r])'
          BY <2>3, <2>5 DEF InOrder
        <3> QED
          BY <1>1, <1>3, <1>5, <2>2, <2>3, <2>5, <3>1 DEF ReaderOK
      <2>8. ASSUME NEW s \in Readers \ {r} PROVE ReaderOK(s)'
        <3>1. ReaderOK(s) /\ readers'[s] = readers[s]
          BY <2>5 DEF StoreInv
        <3>2. readers[s].kind = "entry" =>
                 \A t \in Readers \ {s} :
                    ~(readers'[t].kind = "entry" /\ readers'[t].clone = readers[s].clone)
          BY <2>5, <3>1 DEF ReaderOK, OwnClone
        <3> QED
          BY <1>1, <2>1, <3>1, <3>2, ReaderStays
      <2> QED
        BY <1>2, <2>6, <2>7, <2>8 DEF StoreInv
    <1>6. CASE rd.kind = "entry"
      <2> DEFINE c == clones[fd]
                 new == [rd EXCEPT !.got = Append(@, <<c.entry, c.pos>>)]
      <2>1. /\ readers' = [readers EXCEPT ![r] = new]
            /\ clones' = [clones EXCEPT ![fd].pos = @ + 1]
        BY <1>1, <1>6 DEF Store!ReadSome
      <2>2. /\ fd \in DOMAIN clones \ {0}
            /\ c = [entry |-> rd.entry, pos |-> Len(rd.got)]
            /\ \A s \in Readers : readers[s].kind = "entry" /\ readers[s].clone = fd => s = r
        BY <1>1, <1>6 DEF ReaderOK, OwnClone
      <2>3. /\ new.kind = rd.kind /\ new.path = rd.path /\ new.entry = rd.entry /\ new.clone = rd.clone
            /\ new.got = Append(rd.got, <<rd.entry, Len(rd.got)>>) /\ new.pos = rd.pos
        BY <1>1, <2>2 DEF ReaderRecord
      <2>4. InOrder(new) /\ new.got \in Given /\ Len(new.got) = Len(rd.got) + 1
        BY <1>1, <1>3, <2>3, GivesNext DEF ReaderRecord
      <2>5. new \in ReaderRecord
        BY <1>1, <2>3, <2>4 DEF ReaderRecord
      <2> HIDE DEF new
      <2>6. /\ readers' \in [Readers -> ReaderRecord] /\ readers'[r] = new
            /\ \A s \in Readers \ {r} : readers'[s] = readers[s]
            /\ \A s \in Readers : readers'[s].kind = readers[s].kind /\ readers'[s].clone = readers[s].clone
        BY <1>4, <2>1, <2>3, <2>5
      <2>7. clones \in [DOMAIN clones -> CloneRecord]
        BY DEF StoreInv, StoreTypes
      <2>8. /\ DOMAIN clones' = DOMAIN clones
            /\ clones'[fd] = [entry |-> rd.entry, pos |-> Len(rd.got) + 1]
            /\ \A d \in DOMAIN clones \ {fd} : clones'[d] = clones[d]
        <3>1. clones'[fd] = [c EXCEPT !.pos = @ + 1]
          BY <2>1, <2>2
        <3> QED
          BY <2>1, <2>2, <3>1
      <2>9. clones' \in [DOMAIN clones' -> CloneRecord]
        <3>1. clones'[fd] \in CloneRecord
          BY <1>1, <1>3, <2>8 DEF CloneRecord, ReaderRecord
        <3>2. clones' = [d \in DOMAIN clones |-> clones'[d]]
          BY <2>1
        <3> QED
          BY <2>2, <2>7, <2>8, <3>1, <3>2
      <2>10. StoreTypes'
        <3>1. \E n \in 0..MaxFds : DOMAIN clones' = 0..n
          BY <2>8 DEF StoreInv, StoreTypes
        <3> QED
          BY <1>1, <2>6, <2>9, <3>1 DEF StoreInv, StoreTypes
      <2>11. ReaderOK(r)'
        <3>1. InOrder(readers[r])'
          BY <2>4, <2>6 DEF InOrder
        <3>2. OwnClone(r)'
          BY <2>2, <2>3, <2>4, <2>6, <2>8 DEF OwnClone
        <3> QED
          BY <1>1, <1>3, <1>6, <2>3, <2>6, <3>1, <3>2 DEF ReaderOK
      <2>12. ASSUME NEW s \in Readers \ {r} PROVE ReaderOK(s)'
        <3>1. ReaderOK(s) /\ readers'[s] = readers[s]
          BY <2>6 DEF StoreInv
        <3>2. readers[s].kind = "entry" =>
                 /\ clones'[readers[s].clone] = clones[readers[s].clone]
                 /\ \A t \in Readers \ {s} :
                       ~(readers'[t].kind = "entry" /\ readers'[t].clone = readers[s].clone)
          BY <2>2, <2>6, <2>8, <3>1 DEF ReaderOK, OwnClone
        <3> QED
          BY <1>1, <2>8, <3>1, <3>2, ReaderStays
      <2> QED
        BY <1>2, <2>10, <2>11, <2>12 DEF StoreInv
    <1> QED
      BY <1>1, <1>5, <1>6 DEF ReaderRecord

LEMMA CloseReaderKeeps == ASSUME StoreInv, NEW r \in Readers, Store!CloseReader(r) PROVE StoreInv'
    <1>1. /\ UNCHANGED <<archive, phase, space, cache, clones, failed>> /\ reply' = Store!NoAnswer
          /\ readers' = [readers EXCEPT ![r] = Store!NoReader]
          /\ readers \in [Readers -> ReaderRecord]
      BY DEF Store!CloseReader, StoreInv, StoreTypes
    <1>2. CacheInv' /\ AnswerOK'
      BY <1>1, CacheStays, NothingAnswered DEF StoreInv
    <1>3. Store!NoReader \in ReaderRecord
      BY DEF Store!NoReader, ReaderRecord, Given
    <1>4. /\ readers' \in [Readers -> ReaderRecord] /\ readers'[r] = Store!NoReader
          /\ \A s \in Readers \ {r} : readers'[s] = readers[s]
      BY <1>1, <1>3
    <1>5. StoreTypes'
      BY <1>1, <1>4 DEF StoreInv, StoreTypes
    <1>6. ReaderOK(r)'
      BY <1>4 DEF ReaderOK, Store!NoReader, InOrder
    <1>7. ASSUME NEW s \in Readers \ {r} PROVE ReaderOK(s)'
      <2>1. ReaderOK(s) /\ readers'[s] = readers[s] /\ readers'[r].kind = "none"
        BY <1>4 DEF StoreInv, Store!NoReader
      <2>2. readers[s].kind = "entry" =>
               \A t \in Readers \ {s} :
                  ~(readers'[t].kind = "entry" /\ readers'[t].clone = readers[s].clone)
        BY <1>4, <2>1 DEF ReaderOK, OwnClone
      <2> QED
        BY <1>1, <2>1, <2>2, ReaderStays
    <1> QED
      BY <1>2, <1>5, <1>6, <1>7 DEF StoreInv

LEMMA StoreStep == StoreInv /\ [Store!Next]_Store!vars => StoreInv'
    <1> SUFFICES ASSUME StoreInv, [Store!Next]_Store!vars PROVE StoreInv'
      OBVIOUS
    <1>1. CASE Store!CacheSmallFile
      BY <1>1, CacheSmallFileKeeps
    <1>2. CASE Store!EndCaching
      BY <1>2, EndCachingKeeps
    <1>3. CASE Store!CloneFails
      BY <1>3, CloneFailsKeeps
    <1>4. ASSUME NEW p \in Paths, NEW max \in {Threshold, CacheSpace}, Store!ReadFile(p, max)
          PROVE  StoreInv'
      BY <1>4, ReadFileKeeps
    <1>5. ASSUME NEW r \in Readers, NEW p \in Paths, Store!GetFile(r, p) PROVE StoreInv'
      BY <1>5, GetFileKeeps
    <1>6. ASSUME NEW r \in Readers, Store!ReadSome(r) \/ Store!CloseReader(r) PROVE StoreInv'
      BY <1>6, ReadSomeKeeps, CloseReaderKeeps
    <1>7. ASSUME NEW p \in Paths, Store!GetMappableFile(p) PROVE StoreInv'
      BY <1>7, GetMappableFileKeeps
    <1>8. CASE UNCHANGED Store!vars
      <2>1. UNCHANGED <<archive, phase, cache, clones, readers, reply, failed>>
        BY <1>8 DEF Store!vars
      <2>2. StoreTypes' /\ CacheInv'
        BY <2>1, CacheStays DEF StoreInv, StoreTypes
      <2>3. AnswerOK'
        BY <2>1, SameLayout DEF StoreInv, AnswerOK, Whole
      <2>4. \A r \in Readers : ReaderOK(r)'
        BY <2>1, ReadersStay DEF StoreInv
      <2> QED
        BY <2>2, <2>3, <2>4 DEF StoreInv
    <1> QED
      BY <1>1, <1>2, <1>3, <1>4, <1>5, <1>6, <1>7, <1>8 DEF Store!Next

(* What StoreInv says is so of a store on any archive: the cache and the      *)
(* answers are about the files asked for, and every reader of an entry is     *)
(* alone on its clone and at the unit that comes next.                        *)
THEOREM StoreInvariant == Store!Spec => []StoreInv
    <1>1. Store!Init => StoreInv
      BY StoreInit
    <1>2. StoreInv /\ [Store!Next]_Store!vars => StoreInv'
      BY StoreStep
    <1> QED
      BY <1>1, <1>2, PTL DEF Store!Spec

(* A range of the archive file that getMappableFile() hands out is the data   *)
(* of the file asked for, however many extension headers of whatever size     *)
(* precede it, in every archive.                                              *)
THEOREM MappedAreEntries == Store!Spec => []MappedIsEntry
    <1>1. StoreInv => MappedIsEntry
      <2>1. StoreInv => Store!Headers = H
        BY HeadersType DEF StoreInv, StoreTypes, Store!Headers, H
      <2> QED
        BY <2>1 DEF MappedIsEntry, Store!MappedIsEntry, StoreInv, AnswerOK
    <1> QED
      BY <1>1, StoreInvariant, PTL

\* Of a path that is in the archive once, there is one file, and a walk stops there.
LEMMA OnlyOnceIsFound ==
    ASSUME archive \in Archives, NEW p, Store!OnlyOnce(p)
    PROVE  \A i : IsFileOf(p, i) => i = CHOOSE j \in Store!Found(p) : TRUE
    <1> DEFINE S == {i \in DOMAIN Store!Headers : Store!IsFile(i) /\ Store!Headers[i].path = p}
    <1>1. Store!Headers = H /\ DOMAIN H = 1..N /\ N \in Nat
      BY HeadersType DEF Store!Headers, H
    <1>2. Cardinality(S) = 1
      BY SameCardinality DEF Store!OnlyOnce
    <1>3. \A i : i \in S <=> IsFileOf(p, i)
      BY <1>1 DEF Store!IsFile, IsFileOf
    <1>4. IsFiniteSet(S)
      <2>1. S \subseteq 1..N
        BY <1>1
      <2>2. IsFiniteSet(1..N)
        BY <1>1, FS_Interval
      <2> HIDE DEF S
      <2> QED
        BY <2>1, <2>2, FS_Subset
    <1> HIDE DEF S
    <1>5. PICK x : S = {x}
      BY <1>2, <1>4, FS_Singleton
    <1>6. Store!Found(p) = {x}
      <2>1. x \in S /\ \A j \in 1..N : Store!IsFile(j) /\ Store!Headers[j].path = p => j = x
        BY <1>1, <1>3, <1>5 DEF IsFileOf, Store!IsFile
      <2>2. x \in 1..N /\ Store!IsFile(x) /\ Store!Headers[x].path = p
        BY <1>1, <1>3, <2>1 DEF IsFileOf, Store!IsFile
      <2>3. \A j \in 1..(x - 1) : j \in 1..N /\ j # x
        BY <1>1, <2>2
      <2> QED
        BY <1>1, <2>1, <2>2, <2>3 DEF Store!Found
    <1> QED
      BY <1>3, <1>5, <1>6

(* However calls on several readers of one store interleave and whichever     *)
(* reads fail, each reader gives its own file in order, and a path that is in *)
(* the archive once is the same file by the cache, readFile() and getFile().  *)
THEOREM ReadersGiveTheirFiles == Store!Spec => []ReadersGiveFile
    <1>1. StoreInv => Store!ReadersInOrder
      <2> SUFFICES ASSUME StoreInv, NEW r \in Readers, NEW k \in DOMAIN readers[r].got
                   PROVE  readers[r].got[k] = <<readers[r].entry, k - 1>>
        BY DEF Store!ReadersInOrder
      <2>1. readers[r].got \in Seq(Nat \X Nat) /\ ReaderOK(r)
        BY DEF StoreInv, StoreTypes, ReaderRecord, Given
      <2>2. k \in 1..Len(readers[r].got)
        BY <2>1
      <2> QED
        BY <2>1, <2>2 DEF ReaderOK, InOrder
    <1>2. StoreInv => Store!SameFileEveryWay
      <2> DEFINE theFile(p) == CHOOSE i \in Store!Found(p) : TRUE
      <2> SUFFICES ASSUME StoreInv, NEW p \in Paths, Store!OnlyOnce(p), NEW i, i = theFile(p)
                   PROVE  /\ p \in DOMAIN cache =>
                                cache[p].entry = i /\ (failed \/ cache[p].size = Store!Headers[i].size)
                          /\ (reply.op = "read" /\ reply.path = p) =>
                                reply.entry = i /\ (failed \/ reply.size = Store!Headers[i].size)
                          /\ \A r \in Readers : readers[r].path = p => readers[r].entry = i
        BY DEF Store!SameFileEveryWay
      <2>1. \A j : IsFileOf(p, j) => j = i
        BY OnlyOnceIsFound DEF StoreInv, StoreTypes
      <2>2. Store!Headers = H
        BY HeadersType DEF StoreInv, StoreTypes, Store!Headers, H
      <2>3. p \in DOMAIN cache =>
               cache[p].entry = i /\ (failed \/ cache[p].size = Store!Headers[i].size)
        BY <2>1, <2>2 DEF StoreInv, CacheInv, Whole
      <2>4. (reply.op = "read" /\ reply.path = p) =>
               reply.entry = i /\ (failed \/ reply.size = Store!Headers[i].size)
        BY <2>1, <2>2 DEF StoreInv, AnswerOK, Whole
      <2>5. ASSUME NEW r \in Readers, readers[r].path = p PROVE readers[r].entry = i
        <3>1. readers[r].kind # "none"
          BY <2>5, StoreAssumption DEF StoreInv, ReaderOK, Store!NoReader, Store!StoreConstants
        <3> QED
          BY <2>1, <2>5, <3>1 DEF StoreInv, ReaderOK
      <2> QED
        BY <2>3, <2>4, <2>5
    <1> QED
      BY <1>1, <1>2, StoreInvariant, PTL DEF ReadersGiveFile

===============================================================================
