--------------------------- MODULE OCIPackage_proofs ---------------------------
(***************************************************************************)
(* What an OCI package that was opened with a verification bundle hands    *)
(* out goes back to a manifest that the bundle vouches for, for any        *)
(* contents of the package, any index, any bounds and any number of        *)
(* changes to the file while it is in use.                                 *)
(***************************************************************************)
EXTENDS OCIPackage, MetaDataBuild, Induction, FiniteSetTheorems, SequenceTheorems, TLAPS

-------------------------------------------------------------------------------
(* The layers of a manifest                                                    *)

\* Layers that are taken out keep their type.
LEMMA OtherLayersType ==
    ASSUME NEW S, NEW layers \in Seq(S)
    PROVE  OtherLayers(layers) \in Seq(S)
    <1> DEFINE n == Len(layers)
               T == Seq(S)
               base == <<>>
               rule(prev, i) == IF IsImage(layers[i].type) THEN prev ELSE Append(prev, layers[i])
               step == [pair \in T \X (1..n) |-> rule(pair[1], pair[2])]
               Def(f) == f = [i \in 0..n |-> IF i = 0 THEN base ELSE rule(f[i - 1], i)]
               others == CHOOSE f : Def(f)
    <1>0. n \in Nat /\ base \in T
      OBVIOUS
    <1>1. ASSUME NEW prev \in T, NEW i \in 1..n PROVE rule(prev, i) \in T
      BY ElementOfSeq, AppendProperties
    <1>2. OtherLayers(layers) = others[n]
      BY Zenon DEF OtherLayers
    <1> SUFFICES others[n] \in T
      BY <1>2
    <1> HIDE DEF n, T, base, rule, others
    <1>3. \E f : Def(f)
      <2>1. step \in [T \X (1..n) -> T]
        BY <1>1
      <2>2. ASSUME NEW prev \in T, NEW i \in 1..n PROVE step[<<prev, i>>] = rule(prev, i)
        OBVIOUS
      <2> HIDE DEF step
      <2>3. PICK f : IsRecursive(f, n, T, base, step)
        BY <1>0, <2>1, RecursionExists
      <2>4. ASSUME NEW i \in 1..n PROVE f[i] = rule(f[i - 1], i)
        <3>1. i - 1 \in 0..n
          BY <1>0
        <3> QED
          BY <2>2, <2>3, <3>1 DEF IsRecursive
      <2>5. ASSUME NEW i \in 0..n PROVE f[i] = IF i = 0 THEN base ELSE rule(f[i - 1], i)
        <3>1. i # 0 => i \in 1..n
          BY <1>0
        <3> QED
          BY <2>3, <2>4, <3>1 DEF IsRecursive
      <2>6. f = [i \in 0..n |-> IF i = 0 THEN base ELSE rule(f[i - 1], i)]
        BY <2>3, <2>5 DEF IsRecursive
      <2> QED
        BY <2>6
    <1>4. Def(others)
      BY <1>3, Zenon DEF others
    <1>5. others[0] = base
      BY <1>0, <1>4
    <1>6. ASSUME NEW i \in 1..n PROVE others[i] = rule(others[i - 1], i)
      <2>1. i \in 0..n /\ i # 0
        BY <1>0
      <2> QED
        BY <1>4, <2>1
    <1>7. \A i \in 0..n : others[i] \in T
      BY <1>0, <1>1, <1>5, <1>6, RecursionType
    <1> QED
      BY <1>0, <1>7

\* The last of the layers that are images, or signatures.
LEMMA LastIsLayer ==
    ASSUME NEW S, NEW layers \in Seq(S)
    PROVE  /\ (\E i \in DOMAIN layers : IsImage(layers[i].type)) =>
                 LastOf(layers, IsImage) \in DOMAIN layers
           /\ (\E i \in DOMAIN layers : layers[i].type = "signature") =>
                 LastOf(layers, LAMBDA ty : ty = "signature") \in DOMAIN layers
    <1>0. Len(layers) \in Nat /\ DOMAIN layers = 1..Len(layers)
      OBVIOUS
    <1>1. ASSUME NEW i \in DOMAIN layers, IsImage(layers[i].type)
          PROVE  LastOf(layers, IsImage) \in DOMAIN layers
      <2> DEFINE I == {k \in 1..Len(layers) : IsImage(layers[k].type)}
      <2>1. I \subseteq 1..Len(layers) /\ I # {}
        BY <1>0, <1>1
      <2>2. LastOf(layers, IsImage) = Max(I)
        BY <2>1 DEF LastOf, SelectLastInSeq
      <2> HIDE DEF I
      <2> QED
        BY <1>0, <2>1, <2>2, MaxIsMember
    <1>2. ASSUME NEW i \in DOMAIN layers, layers[i].type = "signature"
          PROVE  LastOf(layers, LAMBDA ty : ty = "signature") \in DOMAIN layers
      <2> DEFINE I == {k \in 1..Len(layers) : layers[k].type = "signature"}
      <2>1. I \subseteq 1..Len(layers) /\ I # {}
        BY <1>0, <1>2
      <2>2. LastOf(layers, LAMBDA ty : ty = "signature") = Max(I)
        BY <2>1 DEF LastOf, SelectLastInSeq
      <2> HIDE DEF I
      <2> QED
        BY <1>0, <2>1, <2>2, MaxIsMember
    <1> QED
      BY <1>1, <1>2

IsManifest(b) == b \in Blobs /\ Meaning[b].kind = "manifest"

\* What a manifest names are descriptors.
LEMMA ManifestParts ==
    ASSUME NEW b, IsManifest(b)
    PROVE  /\ Meaning[b].config \in Descriptors
           /\ Meaning[b].layers \in Seq(Descriptors)
           /\ Range(Meaning[b].layers) \subseteq Descriptors
           /\ Meaning[b].layers \in Seq(Range(Meaning[b].layers))
    <1> DEFINE layers == Meaning[b].layers
               P == ParsedDescriptors
    <1>1. layers \in Seq(P)
      BY PackageAssumption DEF IsManifest
    <1> HIDE DEF P
    <1>2. Meaning[b].config \in Descriptors /\ Range(layers) \subseteq Descriptors
      BY DEF IsManifest, Descriptors
    <1>3. layers \in Seq(Range(layers))
      <2>1. Len(layers) \in Nat /\ DOMAIN layers = 1..Len(layers) /\ layers = [i \in 1..Len(layers) |-> layers[i]]
        BY <1>1, LenProperties
      <2>2. \A i \in 1..Len(layers) : layers[i] \in Range(layers)
        BY <2>1 DEF Range
      <2> HIDE DEF layers
      <2> QED
        BY <2>1, <2>2, IsASeq
    <1>4. layers \in Seq(Descriptors)
      <2> HIDE DEF layers
      <2> QED
        BY <1>2, <1>3, SeqMonotonic
    <1> QED
      BY <1>2, <1>3, <1>4

\* A descriptor names a blob.
LEMMA DescriptorDigest ==
    ASSUME NEW desc \in Descriptors PROVE desc.digest \in Blobs
    <1>1. PICK b : /\ b \in {c \in Blobs : Meaning[c].kind = "manifest"}
                   /\ desc \in {Meaning[b].config} \union Range(Meaning[b].layers)
      BY DEF Descriptors
    <1>2. Meaning[b].config \in ParsedDescriptors /\ Meaning[b].layers \in Seq(ParsedDescriptors)
      BY <1>1, PackageAssumption
    <1>3. desc \in ParsedDescriptors
      <2>1. CASE desc = Meaning[b].config
        BY <1>2, <2>1
      <2>2. CASE desc \in Range(Meaning[b].layers)
        <3> DEFINE P == ParsedDescriptors
        <3>1. Meaning[b].layers \in Seq(P)
          BY <1>2
        <3> HIDE DEF P
        <3>2. PICK i \in DOMAIN Meaning[b].layers : desc = Meaning[b].layers[i]
          BY <2>2 DEF Range
        <3>3. desc \in P
          BY <3>1, <3>2, ElementOfSeq, LenProperties
        <3> QED
          BY <3>3 DEF P
      <2> QED
        BY <1>1, <2>1, <2>2
    <1> QED
      BY <1>3 DEF ParsedDescriptors

\* The other layers of one manifest, after those of the ones before it.
LEMMA MoreOthers ==
    ASSUME NEW b, IsManifest(b), NEW others \in Seq(Descriptors)
    PROVE  LET more == others \o OtherLayers(Meaning[b].layers)
           IN  /\ more \in Seq(Descriptors)
               /\ \A k \in DOMAIN more : \/ \E j \in DOMAIN others : more[k] = others[j]
                                         \/ more[k] \in Range(Meaning[b].layers)
    <1> DEFINE R == Range(Meaning[b].layers)
               o == OtherLayers(Meaning[b].layers)
               more == others \o o
    <1>1. R \subseteq Descriptors /\ o \in Seq(R)
      BY ManifestParts, OtherLayersType
    <1> HIDE DEF R, o
    <1>2. o \in Seq(Descriptors)
      BY <1>1, SeqMonotonic
    <1>3. /\ more \in Seq(Descriptors)
          /\ Len(more) = Len(others) + Len(o)
          /\ \A i \in 1..Len(more) : more[i] = IF i <= Len(others) THEN others[i] ELSE o[i - Len(others)]
      BY <1>2, ConcatProperties
    <1>4. /\ Len(others) \in Nat /\ DOMAIN others = 1..Len(others)
          /\ Len(o) \in Nat /\ DOMAIN more = 1..Len(more)
      BY <1>1, <1>3, LenProperties
    <1> HIDE DEF more
    <1>5. ASSUME NEW k \in DOMAIN more
          PROVE  (\E j \in DOMAIN others : more[k] = others[j]) \/ more[k] \in R
      <2>1. CASE k <= Len(others)
        <3>1. k \in DOMAIN others
          BY <1>3, <1>4, <2>1
        <3> QED
          BY <1>3, <1>4, <2>1, <3>1
      <2>2. CASE ~(k <= Len(others))
        <3>1. k - Len(others) \in 1..Len(o)
          BY <1>3, <1>4, <2>2
        <3>2. more[k] = o[k - Len(others)]
          BY <1>3, <1>4, <2>2
        <3> QED
          BY <1>1, <3>1, <3>2, ElementOfSeq
      <2> QED
        BY <2>1, <2>2
    <1> QED
      BY <1>3, <1>5 DEF R, o, more

\* What processManifest() does to a tree t.
Added(t, s, b, m) ==
    /\ s \in TreeTypes
    /\ IsPackageDataManifest(m) =>
          /\ s.manifest = b /\ s.config = m.config /\ s.image \in Range(m.layers)
          /\ \A k \in DOMAIN s.others : \/ \E j \in DOMAIN t.others : s.others[k] = t.others[j]
                                        \/ s.others[k] \in Range(m.layers)
    /\ ~IsPackageDataManifest(m) =>
          /\ s.manifest = t.manifest /\ s.config = t.config /\ s.image = t.image
          /\ s.others = t.others

LEMMA ManifestAdded ==
    ASSUME NEW b, IsManifest(b), NEW t \in TreeTypes
    PROVE  Added(t, AddManifest(t, b, Meaning[b]), b, Meaning[b])
    <1> DEFINE m == Meaning[b]
               s == AddManifest(t, b, m)
    <1>1. /\ m.config \in Descriptors /\ m.layers \in Seq(Descriptors)
          /\ Range(m.layers) \subseteq Descriptors
      BY ManifestParts
    <1>2. b \in Blobs
      BY DEF IsManifest
    <1>3. CASE IsPackageDataManifest(m)
      <2> DEFINE last == LastOf(m.layers, IsImage)
                 image == m.layers[last]
                 others == t.others \o OtherLayers(m.layers)
      <2>1. last \in DOMAIN m.layers
        <3>1. \E i \in DOMAIN m.layers : IsImage(m.layers[i].type)
          BY <1>3 DEF IsPackageDataManifest
        <3> HIDE DEF m
        <3> QED
          BY <1>1, <3>1, LastIsLayer
      <2>2. image \in Range(m.layers)
        BY <2>1 DEF Range
      <2>3. /\ others \in Seq(Descriptors)
            /\ \A k \in DOMAIN others : \/ \E j \in DOMAIN t.others : others[k] = t.others[j]
                                        \/ others[k] \in Range(m.layers)
        BY MoreOthers DEF TreeTypes
      <2>4. s = [t EXCEPT !.manifest = b, !.config = m.config, !.image = image, !.others = others]
        BY <1>3 DEF AddManifest
      <2> HIDE DEF others, image, last, m, s
      <2>5. /\ s.manifest = b /\ s.config = m.config /\ s.image = image /\ s.others = others
            /\ s \in TreeTypes
        BY <1>1, <1>2, <2>2, <2>3, <2>4 DEF TreeTypes
      <2> QED
        BY <1>3, <2>2, <2>3, <2>5 DEF m, s, Added
    <1>4. CASE ~IsPackageDataManifest(m) /\ IsSignatureManifest(m)
      <2> DEFINE last == LastOf(m.layers, LAMBDA ty : ty = "signature")
                 signature == m.layers[last]
      <2>1. last \in DOMAIN m.layers
        <3>1. \E i \in DOMAIN m.layers : m.layers[i].type = "signature"
          BY <1>4 DEF IsSignatureManifest
        <3> HIDE DEF m
        <3> QED
          BY <1>1, <3>1, LastIsLayer
      <2>2. signature \in Descriptors
        BY <1>1, <2>1 DEF Range
      <2>3. s = [t EXCEPT !.signature = signature]
        BY <1>4 DEF AddManifest
      <2> HIDE DEF signature, m, s
      <2>4. /\ s.manifest = t.manifest /\ s.config = t.config /\ s.image = t.image /\ s.others = t.others
            /\ s \in TreeTypes
        BY <2>2, <2>3 DEF TreeTypes
      <2> QED
        BY <1>4, <2>4 DEF m, s, Added
    <1>5. CASE ~IsPackageDataManifest(m) /\ ~IsSignatureManifest(m)
      BY <1>5 DEF AddManifest, Added
    <1> QED
      BY <1>3, <1>4, <1>5

-------------------------------------------------------------------------------
(* The inductive invariant                                                     *)

Opened == {"open", "verifying"}

\* What is in the tree came from data manifests in the index.
FromManifest(i) ==
    LET m == Meaning[index[i].digest]
    IN  /\ i \in DataManifestsInIndex
        /\ tree.manifest = index[i].digest
        /\ tree.config = m.config
        /\ tree.image \in Range(m.layers)

TreeInv ==
    /\ IsFiniteSet(DOMAIN index)
    /\ \A i \in DOMAIN index : index[i].digest \in Blobs
    /\ tree.manifest # None => \E i \in DOMAIN index : FromManifest(i)
    /\ \A k \in DOMAIN tree.others : \E i \in DataManifestsInIndex :
          tree.others[k] \in Range(Meaning[index[i].digest].layers)
    /\ phase = "closed" => tree = EmptyTree

\* What opening the package has established.
PhaseInv ==
    /\ phase \in Opened \union {"signature"} => tree.manifest # None
    /\ phase = "signature" => bundle
    /\ phase \in Opened /\ bundle => tree.manifest \in SignedManifests
    /\ verifiedManifest => bundle
    /\ phase \notin Opened => metaData = None /\ answer = [op |-> None]

\* What was read is what the tree names.
AnswerInv ==
    /\ metaData # None => metaData = tree.config.digest
    /\ answer.op \in {"reader", "archive reader", "mount"} => answer.descriptor = tree.image
    /\ answer.op = "aux" => \E desc \in AuxDescriptors : desc.digest = answer.blob

\* verify() has seen every blob before the one it is at.
VerifyInv ==
    /\ phase = "verifying" =>
          /\ verifiedManifest
          /\ answer = [op |-> "verifying", matched |-> answer.matched]
          /\ \A k \in DOMAIN BlobsToVerify : k < next => BlobsToVerify[k].digest \in answer.matched
    /\ VerifySound

PackageInv == TypeOK /\ TreeInv /\ PhaseInv /\ AnswerInv /\ VerifyInv

-------------------------------------------------------------------------------
(* Opening                                                                     *)

\* A result of processIndexFile() is a finite list of descriptors of blobs.
LEMMA IndexFound ==
    ASSUME NEW json \in Indexes, NEW list \in ProcessIndexFile(json)
    PROVE  IsFiniteSet(DOMAIN list) /\ \A i \in DOMAIN list : list[i].digest \in Blobs
    <1> DEFINE array == json[2].manifests[2]
    <1>1. /\ json[1] = "object" /\ "manifests" \in DOMAIN json[2] /\ json[2].manifests[1] = "array"
          /\ \A i \in DOMAIN array : ParseDescriptor(array[i]) # {}
          /\ list = [i \in DOMAIN array |-> CHOOSE d \in ParseDescriptor(array[i]) : TRUE]
      BY DEF ProcessIndexFile
    <1>2. Len(array) \in Nat /\ DOMAIN array = 1..Len(array)
      BY <1>1, IndexAssumption
    <1> HIDE DEF array
    <1>3. IsFiniteSet(DOMAIN list)
      <2>1. DOMAIN list = 1..Len(array)
        BY <1>1, <1>2
      <2> QED
        BY <1>2, <2>1, FS_Interval
    <1>4. ASSUME NEW i \in DOMAIN list PROVE list[i].digest \in Blobs
      <2>1. list[i] \in ParseDescriptor(array[i])
        BY <1>1
      <2> DEFINE members == array[i][2]
      <2>2. "digest" \in DOMAIN members /\ members["digest"][2] \in Blobs
        BY <2>1, PackageAssumption DEF ParseDescriptor
      <2>3. list[i].digest = members.digest[2]
        BY <2>1 DEF ParseDescriptor, NoDescriptor
      <2> QED
        BY <2>2, <2>3
    <1> QED
      BY <1>3, <1>4

LEMMA InitInv == Init => PackageInv
    <1> SUFFICES ASSUME Init PROVE PackageInv
      OBVIOUS
    <1>1. TypeOK
      <2>1. Unlimited \in Nat
        BY PackageAssumption, FS_CardinalityType DEF Unlimited
      <2>2. tree \in TreeTypes
        BY EmptySeq DEF Init, EmptyTree, TreeTypes
      <2>3. DOMAIN cache = {}
        BY DEF Init
      <2>4. changes \in 0..MaxChanges /\ files \in [Blobs -> Blobs \union {None}]
        BY PackageAssumption DEF Init
      <2> QED
        BY <2>1, <2>2, <2>3, <2>4 DEF Init, TypeOK
    <1>2. TreeInv
      <2>1. DOMAIN index = {} /\ DOMAIN tree.others = {} /\ tree.manifest = None
        BY DEF Init, EmptyTree
      <2> QED
        BY <2>1, FS_EmptySet DEF Init, TreeInv
    <1>3. PhaseInv /\ AnswerInv /\ VerifyInv
      BY DEF Init, PhaseInv, AnswerInv, VerifyInv, VerifySound, Opened, None
    <1> QED
      BY <1>1, <1>2, <1>3 DEF PackageInv

\* Before the package is open there is no answer.
LEMMA NoAnswerYet ==
    ASSUME PackageInv, phase \notin Opened, UNCHANGED <<metaData, answer>>, phase' # "verifying"
    PROVE  AnswerInv' /\ VerifyInv'
    <1>1. metaData' = None /\ answer' = [op |-> None]
      BY DEF PackageInv, PhaseInv
    <1>2. answer'.op = "none"
      BY <1>1 DEF None
    <1> QED
      BY <1>1, <1>2 DEF AnswerInv, VerifyInv, VerifySound

LEMMA OpenKeeps == ASSUME PackageInv, Open PROVE PackageInv'
    <1>0. phase = "closed" /\ UNCHANGED <<named, files, changes, bundle, tree, verifiedManifest, metaData, limit, answer>>
      BY DEF Open
    <1>1. TypeOK'
      <2>1. CASE phase' = "failed" /\ UNCHANGED <<cache, next>>
        BY <1>0, <2>1 DEF PackageInv, TypeOK, named
      <2>2. CASE /\ cache' = [d \in {b \in Small : store # "directory" /\ files[b] # None} |-> files[d]]
                 /\ next' = 1 /\ phase' = "tree"
        <3>1. DOMAIN cache' \subseteq Small
          BY <2>2
        <3>2. ASSUME NEW d \in DOMAIN cache' PROVE cache'[d] \in Blobs
          <4>1. d \in Small /\ files[d] # None /\ cache'[d] = files[d]
            BY <2>2
          <4> QED
            BY <4>1, PackageAssumption DEF PackageInv, TypeOK, named
        <3> QED
          BY <1>0, <2>2, <3>1, <3>2 DEF PackageInv, TypeOK, named
      <2> QED
        BY <2>1, <2>2 DEF Open
    <1>2. TreeInv'
      <2>1. tree = EmptyTree /\ tree' = EmptyTree
        BY <1>0 DEF PackageInv, TreeInv
      <2>2. tree'.manifest = None /\ DOMAIN tree'.others = {}
        BY <2>1 DEF EmptyTree
      <2>3. IsFiniteSet(DOMAIN index') /\ \A i \in DOMAIN index' : index'[i].digest \in Blobs
        BY IndexFound DEF Open, PackageInv, TreeInv, TypeOK
      <2> QED
        BY <2>1, <2>2, <2>3 DEF TreeInv
    <1>3. PhaseInv' /\ phase' \notin Opened
      BY <1>0 DEF Open, PackageInv, PhaseInv, Opened
    <1>4. AnswerInv' /\ VerifyInv'
      BY <1>0, <1>3, NoAnswerYet DEF Opened
    <1> QED
      BY <1>1, <1>2, <1>3, <1>4 DEF PackageInv

LEMMA ManifestKeeps == ASSUME PackageInv, ProcessManifest PROVE PackageInv'
    <1>0. /\ phase = "tree" /\ next \in DOMAIN index
          /\ UNCHANGED <<named, files, changes, cache, index, bundle, verifiedManifest, metaData, limit, answer>>
      BY DEF ProcessManifest
    <1>1. phase' \in {"tree", "failed"}
      BY DEF ProcessManifest
    <1>2. PhaseInv' /\ AnswerInv' /\ VerifyInv'
      BY <1>0, <1>1, NoAnswerYet DEF PackageInv, PhaseInv, Opened
    <1>3. CASE phase' = "failed" /\ UNCHANGED <<tree, next>>
      BY <1>0, <1>2, <1>3 DEF PackageInv, TypeOK, named, TreeInv, FromManifest, DataManifestsInIndex
    <1>4. CASE /\ Meaning[index[next].digest].kind = "manifest"
               /\ tree' = AddManifest(tree, index[next].digest, Meaning[index[next].digest])
               /\ next' = next + 1 /\ UNCHANGED phase
      <2> DEFINE b == index[next].digest
                 m == Meaning[b]
      <2>1. IsManifest(b)
        BY <1>0, <1>4 DEF PackageInv, TreeInv, IsManifest
      <2>2. tree \in TreeTypes
        BY DEF PackageInv, TypeOK, named
      <2>3. /\ tree' \in TreeTypes
            /\ IsPackageDataManifest(m) =>
                  /\ tree'.manifest = b /\ tree'.config = m.config /\ tree'.image \in Range(m.layers)
                  /\ \A k \in DOMAIN tree'.others : \/ \E j \in DOMAIN tree.others : tree'.others[k] = tree.others[j]
                                                    \/ tree'.others[k] \in Range(m.layers)
            /\ ~IsPackageDataManifest(m) =>
                  /\ tree'.manifest = tree.manifest /\ tree'.config = tree.config /\ tree'.image = tree.image
                  /\ tree'.others = tree.others
        <3>1. Added(tree, tree', b, m)
          BY <1>4, <2>1, <2>2, ManifestAdded
        <3> QED
          BY <3>1 DEF Added
      <2>4. TypeOK'
        BY <1>0, <1>4, <2>3 DEF PackageInv, TypeOK, named
      <2>5. IsPackageDataManifest(m) => next \in DataManifestsInIndex
        BY <1>0, <1>4 DEF DataManifestsInIndex
      <2>6. DataManifestsInIndex' = DataManifestsInIndex
        BY <1>0 DEF DataManifestsInIndex
      <2>7. tree'.manifest # None => \E i \in DOMAIN index' : FromManifest(i)'
        <3>1. CASE IsPackageDataManifest(m)
          BY <1>0, <2>3, <2>5, <2>6, <3>1 DEF FromManifest
        <3>2. CASE ~IsPackageDataManifest(m)
          BY <1>0, <2>3, <2>6, <3>2 DEF PackageInv, TreeInv, FromManifest
        <3> QED
          BY <3>1, <3>2
      <2>8. ASSUME NEW k \in DOMAIN tree'.others
            PROVE  \E i \in DataManifestsInIndex : tree'.others[k] \in Range(Meaning[index[i].digest].layers)
        <3>1. CASE IsPackageDataManifest(m)
          <4>1. CASE \E j \in DOMAIN tree.others : tree'.others[k] = tree.others[j]
            BY <4>1 DEF PackageInv, TreeInv
          <4>2. CASE tree'.others[k] \in Range(m.layers)
            BY <2>5, <3>1, <4>2
          <4> QED
            BY <2>3, <3>1, <4>1, <4>2
        <3>2. CASE ~IsPackageDataManifest(m)
          BY <2>3, <3>2 DEF PackageInv, TreeInv
        <3> QED
          BY <3>1, <3>2
      <2>9. TreeInv'
        BY <1>0, <1>4, <2>6, <2>7, <2>8 DEF PackageInv, TreeInv
      <2> QED
        BY <1>2, <2>4, <2>9 DEF PackageInv
    <1> QED
      BY <1>3, <1>4 DEF ProcessManifest

LEMMA FinishKeeps == ASSUME PackageInv, FinishTree PROVE PackageInv'
    <1>0. phase = "tree" /\ UNCHANGED <<named, files, changes, cache, index, bundle, next, tree,
                                        verifiedManifest, metaData, limit, answer>>
      BY DEF FinishTree
    <1>1. /\ phase' \in {"failed", "signature", "open"}
          /\ phase' # "failed" => tree.manifest # None
          /\ phase' = "signature" => bundle
          /\ phase' = "open" => ~bundle
      BY DEF FinishTree, PackageInv, TypeOK
    <1>2. TypeOK' /\ TreeInv'
      BY <1>0, <1>1 DEF PackageInv, TypeOK, TreeInv, FromManifest, DataManifestsInIndex, named
    <1>3. PhaseInv'
      BY <1>0, <1>1 DEF PackageInv, PhaseInv, Opened
    <1> QED
      BY <1>0, <1>1, <1>2, <1>3, NoAnswerYet DEF PackageInv, Opened

\* A bundle opens the package only with a signed payload for its manifest.
LEMMA SignatureKeeps == ASSUME PackageInv, ReadAndVerifySignature PROVE PackageInv'
    <1>0. phase = "signature" /\ UNCHANGED <<named, files, changes, cache, index, bundle, next, tree,
                                             metaData, limit, answer>>
      BY DEF ReadAndVerifySignature
    <1>1. bundle /\ tree.manifest # None /\ metaData = None /\ answer = [op |-> None]
      BY <1>0 DEF PackageInv, PhaseInv, Opened
    <1>2. \/ phase' = "failed" /\ UNCHANGED verifiedManifest
          \/ phase' = "open" /\ verifiedManifest' = TRUE /\ tree.manifest \in SignedManifests
      BY DEF ReadAndVerifySignature, PayloadIsSigned, VerifySignaturePayload, SignedManifests
    <1>3. TypeOK' /\ TreeInv'
      BY <1>0, <1>2 DEF PackageInv, TypeOK, TreeInv, FromManifest, DataManifestsInIndex, named
    <1>4. PhaseInv'
      BY <1>0, <1>1, <1>2 DEF PackageInv, PhaseInv, Opened
    <1> QED
      BY <1>0, <1>2, <1>3, <1>4, NoAnswerYet DEF PackageInv, Opened

-------------------------------------------------------------------------------
(* The open package                                                            *)

\* The tree of an open package stays as it is.
LEMMA OpenStays ==
    ASSUME PackageInv, phase \in Opened, phase' \in Opened,
           UNCHANGED <<index, bundle, tree, verifiedManifest>>,
           TypeOK', AnswerInv', VerifyInv'
    PROVE  PackageInv'
    <1>1. TreeInv'
      BY DEF PackageInv, TreeInv, FromManifest, DataManifestsInIndex, Opened
    <1>2. PhaseInv'
      BY DEF PackageInv, PhaseInv, Opened
    <1> QED
      BY <1>1, <1>2 DEF PackageInv

\* The config, the image and the other layers are blobs.
LEMMA TreeNamesBlobs ==
    ASSUME PackageInv, phase \in Opened
    PROVE  /\ tree.config.digest \in Blobs /\ tree.image.digest \in Blobs
           /\ \A desc \in AuxDescriptors : desc.digest \in Blobs
    <1>1. PICK i \in DOMAIN index : FromManifest(i)
      BY DEF PackageInv, PhaseInv, TreeInv
    <1>2. IsManifest(index[i].digest)
      BY <1>1 DEF FromManifest, DataManifestsInIndex, IsManifest, PackageInv, TreeInv
    <1>3. tree.config \in Descriptors /\ tree.image \in Descriptors
      BY <1>1, <1>2, ManifestParts DEF FromManifest
    <1>4. tree.others \in Seq(Descriptors)
      BY DEF PackageInv, TypeOK, TreeTypes
    <1>5. \A k \in DOMAIN tree.others : tree.others[k] \in Descriptors
      BY <1>4, ElementOfSeq, LenProperties
    <1> QED
      BY <1>3, <1>5, DescriptorDigest DEF AuxDescriptors, Range

\* What LoadMetaData leaves is the config of the tree.
LEMMA Loaded ==
    ASSUME PackageInv, phase \in Opened, LoadMetaData \/ UNCHANGED metaData
    PROVE  /\ metaData' \in Blobs \union {None}
           /\ metaData' # None => metaData' = tree.config.digest
    BY TreeNamesBlobs DEF LoadMetaData, ReadBlob, PackageInv, TypeOK, AnswerInv

\* An operation that reads, whatever it answers.
LEMMA ReadKeeps ==
    ASSUME PackageInv, phase = "open",
           UNCHANGED <<named, files, changes, cache, index, bundle, phase, next, tree, verifiedManifest, limit>>,
           LoadMetaData \/ UNCHANGED metaData,
           answer'.op \notin {"verifying", "verified"},
           answer'.op \in {"reader", "archive reader", "mount"} => answer'.descriptor = tree.image,
           answer'.op = "aux" => \E desc \in AuxDescriptors : desc.digest = answer'.blob
    PROVE  PackageInv'
    <1>1. metaData' \in Blobs \union {None} /\ (metaData' # None => metaData' = tree.config.digest)
      BY Loaded DEF Opened
    <1>2. TypeOK'
      BY <1>1 DEF PackageInv, TypeOK, named
    <1>3. AnswerInv'
      BY <1>1 DEF AnswerInv, AuxDescriptors
    <1>4. VerifyInv'
      BY DEF VerifyInv, VerifySound
    <1> QED
      BY <1>2, <1>3, <1>4, OpenStays DEF Opened

LEMMA AnswersKeep ==
    ASSUME PackageInv, GetMetaData \/ AuxMetaDataFile \/ CreateReader \/ Mount PROVE PackageInv'
    <1> DEFINE Rest == <<named, files, changes, cache, index, bundle, phase, next, tree, verifiedManifest, limit>>
    <1>0. Failure.op = "error"
      BY DEF Failure
    <1>1. CASE GetMetaData
      <2>1. phase = "open" /\ UNCHANGED Rest /\ (LoadMetaData \/ UNCHANGED metaData)
        BY <1>1 DEF GetMetaData
      <2>2. answer'.op \in {"metaData", "error"}
        BY <1>0, <1>1 DEF GetMetaData
      <2> QED
        BY <2>1, <2>2, ReadKeeps
    <1>2. CASE AuxMetaDataFile
      <2>1. phase = "open" /\ UNCHANGED Rest /\ UNCHANGED metaData
        BY <1>2 DEF AuxMetaDataFile
      <2>2. PICK desc \in AuxDescriptors :
               \/ ReadBlob(desc.digest, desc.size) /\ answer' = [op |-> "aux", blob |-> ReadFile(desc.digest)]
               \/ answer' = Failure
        BY <1>2 DEF AuxMetaDataFile
      <2>3. answer'.op = "error" \/ (answer'.op = "aux" /\ answer'.blob = desc.digest)
        BY <1>0, <2>2 DEF ReadBlob
      <2> QED
        BY <2>1, <2>3, ReadKeeps
    <1>3. CASE CreateReader
      <2>1. phase = "open" /\ UNCHANGED Rest /\ UNCHANGED metaData
        BY <1>3 DEF CreateReader
      <2>2. \/ answer'.op \in {"reader", "archive reader"} /\ answer'.descriptor = tree.image
            \/ answer'.op = "error"
        <3>1. CASE \E file, sb : answer' = [op |-> "reader", descriptor |-> tree.image, file |-> file, super |-> sb]
          BY <3>1
        <3>2. CASE answer' = [op |-> "archive reader", descriptor |-> tree.image]
          BY <3>2
        <3>3. CASE answer' = Failure
          BY <1>0, <3>3
        <3> QED
          BY <1>3, <3>1, <3>2, <3>3, Zenon DEF CreateReader
      <2> QED
        BY <2>1, <2>2, ReadKeeps
    <1>4. CASE Mount
      <2>1. phase = "open" /\ UNCHANGED Rest /\ (LoadMetaData \/ UNCHANGED metaData)
        BY <1>4 DEF Mount
      <2>2. \/ answer'.op = "mount" /\ answer'.descriptor = tree.image
            \/ answer'.op = "error"
        BY <1>0, <1>4 DEF Mount
      <2> QED
        BY <2>1, <2>2, ReadKeeps
    <1> QED
      BY <1>1, <1>2, <1>3, <1>4

-------------------------------------------------------------------------------
(* verify()                                                                    *)

\* The elements of two sequences, one after the other.
LEMMA Concatenated ==
    ASSUME NEW S, NEW s \in Seq(S), NEW t \in Seq(S)
    PROVE  /\ s \o t \in Seq(S) /\ Len(s \o t) = Len(s) + Len(t)
           /\ \A i \in 1..Len(s \o t) : (s \o t)[i] = IF i <= Len(s) THEN s[i] ELSE t[i - Len(s)]
    BY ConcatProperties

\* The blobs that verify() reads: the config, the image and the other layers.
LEMMA BlobsInOrder ==
    ASSUME TypeOK
    PROVE  /\ DOMAIN BlobsToVerify = 1..(Len(tree.others) + 2) /\ Len(tree.others) \in Nat
           /\ Len(BlobsToVerify) = Len(tree.others) + 2
           /\ BlobsToVerify[1] = tree.config /\ BlobsToVerify[2] = tree.image
           /\ \A i \in DOMAIN tree.others : i + 2 \in DOMAIN BlobsToVerify /\ BlobsToVerify[i + 2] = tree.others[i]
    <1> DEFINE D == Descriptors \union {NoDescriptor}
               first == <<tree.config, tree.image>>
               rest == tree.others
    <1>1. tree.config \in D /\ tree.image \in D /\ rest \in Seq(Descriptors)
      BY DEF TypeOK, TreeTypes
    <1>2. Descriptors \subseteq D
      OBVIOUS
    <1> HIDE DEF D, rest
    <1>3. first \in Seq(D) /\ Len(first) = 2 /\ first[1] = tree.config /\ first[2] = tree.image
      BY <1>1
    <1>4. rest \in Seq(D)
      BY <1>1, <1>2, SeqMonotonic
    <1> HIDE DEF first
    <1>5. /\ first \o rest \in Seq(D)
          /\ Len(first \o rest) = Len(first) + Len(rest)
          /\ \A i \in 1..Len(first \o rest) :
                (first \o rest)[i] = IF i <= Len(first) THEN first[i] ELSE rest[i - Len(first)]
      BY <1>3, <1>4, Concatenated
    <1>6. BlobsToVerify = first \o rest
      BY DEF BlobsToVerify, first, rest
    <1> DEFINE all == BlobsToVerify
               n == Len(rest)
    <1>7. n \in Nat /\ DOMAIN rest = 1..n /\ Len(all) = n + 2 /\ DOMAIN all = 1..Len(all)
      BY <1>3, <1>4, <1>5, <1>6, LenProperties
    <1>8. \A i \in 1..(n + 2) : all[i] = IF i <= 2 THEN first[i] ELSE rest[i - 2]
      BY <1>3, <1>5, <1>6, <1>7
    <1> HIDE DEF all, n
    <1>9. all[1] = tree.config /\ all[2] = tree.image
      BY <1>3, <1>7, <1>8
    <1>10. ASSUME NEW i \in DOMAIN rest PROVE i + 2 \in DOMAIN all /\ all[i + 2] = rest[i]
      <2>1. i \in 1..n /\ i + 2 \in 1..(n + 2) /\ ~(i + 2 <= 2) /\ (i + 2) - 2 = i
        BY <1>7
      <2> QED
        BY <1>7, <1>8, <2>1
    <1> QED
      BY <1>7, <1>9, <1>10 DEF all, n, rest

LEMMA VerifyKeeps ==
    ASSUME PackageInv, BeginVerify \/ VerifyBlob \/ FinishVerify PROVE PackageInv'
    <1> DEFINE Seen(n, blobs) == \A k \in DOMAIN BlobsToVerify : k < n => BlobsToVerify[k].digest \in blobs
    <1>0. Failure.op = "error" /\ TypeOK /\ next \in Nat
      BY DEF Failure, PackageInv, TypeOK
    <1>1. ASSUME UNCHANGED <<named, files, changes, cache, index, bundle, tree, verifiedManifest, metaData, limit>>,
                 phase \in Opened, phase' \in Opened, next' \in Nat,
                 answer'.op \in {"error", "verifying", "verified"}
          PROVE  TypeOK' /\ AnswerInv' /\ BlobsToVerify' = BlobsToVerify
      BY <1>1 DEF PackageInv, TypeOK, AnswerInv, named, Opened, BlobsToVerify
    <1>2. CASE BeginVerify
      <2>1. /\ UNCHANGED <<named, files, changes, cache, index, bundle, tree, verifiedManifest, metaData, limit>>
            /\ phase = "open"
        BY <1>2 DEF BeginVerify
      <2>2. \/ verifiedManifest /\ phase' = "verifying" /\ next' = 1 /\ answer' = [op |-> "verifying", matched |-> {}]
            \/ answer' = Failure /\ UNCHANGED <<phase, next>>
        BY <1>2 DEF BeginVerify
      <2>3. /\ phase \in Opened /\ phase' \in Opened /\ next' \in Nat
            /\ answer'.op \in {"error", "verifying"}
        BY <1>0, <2>1, <2>2 DEF Opened
      <2>4. TypeOK' /\ AnswerInv' /\ BlobsToVerify' = BlobsToVerify
        BY <1>1, <2>1, <2>3
      <2>5. Seen(1, {})
        BY <1>0, BlobsInOrder
      <2>6. VerifyInv'
        BY <2>1, <2>2, <2>3, <2>4, <2>5 DEF VerifyInv, VerifySound
      <2> QED
        BY <2>1, <2>3, <2>4, <2>6, OpenStays
    <1>3. CASE VerifyBlob
      <2>1. /\ UNCHANGED <<named, files, changes, cache, index, bundle, tree, verifiedManifest, metaData, limit>>
            /\ phase = "verifying" /\ next \in DOMAIN BlobsToVerify
        BY <1>3 DEF VerifyBlob
      <2>2. /\ verifiedManifest /\ answer = [op |-> "verifying", matched |-> answer.matched]
            /\ Seen(next, answer.matched)
        BY <2>1 DEF PackageInv, VerifyInv
      <2> DEFINE d == BlobsToVerify[next].digest
      <2>3. \/ /\ next' = next + 1 /\ phase' = "verifying"
               /\ answer' = [answer EXCEPT !.matched = @ \union {d}]
            \/ phase' = "open" /\ answer' = Failure /\ UNCHANGED next
        BY <1>3, <2>1 DEF VerifyBlob, CalcAndCheckBlobDigest
      <2>4. CASE phase' = "open" /\ answer' = Failure /\ UNCHANGED next
        <3>1. TypeOK' /\ AnswerInv'
          BY <1>0, <1>1, <2>1, <2>4 DEF Opened
        <3>2. VerifyInv'
          BY <1>0, <2>4 DEF VerifyInv, VerifySound
        <3> QED
          BY <2>1, <2>4, <3>1, <3>2, OpenStays DEF Opened
      <2>5. CASE /\ next' = next + 1 /\ phase' = "verifying"
                 /\ answer' = [answer EXCEPT !.matched = @ \union {d}]
        <3> DEFINE blobs == answer.matched
        <3>1. answer' = [op |-> "verifying", matched |-> blobs \union {d}]
          BY <2>2, <2>5
        <3>2. TypeOK' /\ AnswerInv' /\ BlobsToVerify' = BlobsToVerify
          BY <1>0, <1>1, <2>1, <2>5, <3>1 DEF Opened
        <3>3. Seen(next + 1, blobs \union {d})
          <4> SUFFICES ASSUME NEW k \in DOMAIN BlobsToVerify, k < next + 1
                       PROVE  BlobsToVerify[k].digest \in blobs \union {d}
            OBVIOUS
          <4>1. k \in Nat
            BY <1>0, BlobsInOrder
          <4>2. k = next \/ k < next
            BY <1>0, <4>1
          <4> QED
            BY <2>2, <4>2
        <3>4. VerifyInv'
          BY <2>1, <2>2, <2>5, <3>1, <3>2, <3>3 DEF VerifyInv, VerifySound
        <3> QED
          BY <2>1, <2>5, <3>2, <3>4, OpenStays DEF Opened
      <2> QED
        BY <2>3, <2>4, <2>5
    <1>4. CASE FinishVerify
      <2>1. /\ UNCHANGED <<named, files, changes, cache, index, bundle, next, tree, verifiedManifest, metaData, limit>>
            /\ phase = "verifying" /\ next > Len(BlobsToVerify) /\ phase' = "open"
            /\ answer' = [op |-> "verified", matched |-> answer.matched]
        BY <1>4 DEF FinishVerify
      <2>2. bundle /\ Seen(next, answer.matched)
        BY <2>1 DEF PackageInv, VerifyInv, PhaseInv
      <2>3. TypeOK' /\ AnswerInv' /\ BlobsToVerify' = BlobsToVerify
        BY <1>0, <1>1, <2>1 DEF Opened
      <2>4. \A k \in DOMAIN BlobsToVerify : BlobsToVerify[k].digest \in answer.matched
        <3> SUFFICES ASSUME NEW k \in DOMAIN BlobsToVerify PROVE k < next
          BY <2>2
        <3>1. k \in 1..(Len(tree.others) + 2) /\ next > Len(tree.others) + 2 /\ Len(tree.others) \in Nat
          BY <1>0, <2>1, BlobsInOrder
        <3> QED
          BY <1>0, <3>1
      <2>5. {tree.config.digest, tree.image.digest} \subseteq answer.matched
        <3>1. 1 \in DOMAIN BlobsToVerify /\ 2 \in DOMAIN BlobsToVerify
          BY <1>0, BlobsInOrder
        <3> QED
          BY <1>0, <2>4, <3>1, BlobsInOrder
      <2>6. \A i \in DOMAIN tree.others : tree.others[i].digest \in answer.matched
        BY <1>0, <2>4, BlobsInOrder
      <2>7. VerifyInv'
        BY <2>1, <2>2, <2>5, <2>6 DEF VerifyInv, VerifySound
      <2> QED
        BY <2>1, <2>3, <2>7, OpenStays DEF Opened
    <1> QED
      BY <1>2, <1>3, <1>4

LEMMA NextKeeps == PackageInv /\ [Next]_vars => PackageInv'
    <1> SUFFICES ASSUME PackageInv, [Next]_vars PROVE PackageInv'
      OBVIOUS
    <1>1. ASSUME UNCHANGED <<store, layout, indexJson, cache, index, bundle, phase, next, tree, verifiedManifest,
                             metaData, answer>>,
                 files' \in [Blobs -> Blobs \union {None}], changes' \in 0..MaxChanges, limit' \in Nat
          PROVE  PackageInv'
      <2>1. TypeOK'
        BY <1>1 DEF PackageInv, TypeOK
      <2>2. TreeInv' /\ PhaseInv'
        BY <1>1 DEF PackageInv, TreeInv, FromManifest, DataManifestsInIndex, PhaseInv
      <2>3. AnswerInv' /\ VerifyInv'
        BY <1>1 DEF PackageInv, AnswerInv, AuxDescriptors, VerifyInv, VerifySound, BlobsToVerify
      <2> QED
        BY <2>1, <2>2, <2>3 DEF PackageInv
    <1>2. CASE SetMaxExtractionEntries(1)
      BY <1>1, <1>2 DEF SetMaxExtractionEntries, PackageInv, TypeOK, named
    <1>3. ASSUME NEW d \in Blobs, NEW c \in Blobs \union {None}, ChangeFile(d, c) PROVE PackageInv'
      <2>1. files' \in [Blobs -> Blobs \union {None}]
        BY <1>3 DEF ChangeFile, PackageInv, TypeOK
      <2>2. changes' \in 0..MaxChanges
        <3>1. MaxChanges \in Nat
          BY PackageAssumption
        <3> QED
          BY <1>3, <3>1 DEF ChangeFile, PackageInv, TypeOK
      <2> QED
        BY <1>1, <1>3, <2>1, <2>2 DEF ChangeFile, PackageInv, TypeOK, named
    <1>4. CASE UNCHANGED vars
      BY <1>1, <1>4 DEF vars, PackageInv, TypeOK
    <1> QED
      BY <1>2, <1>3, <1>4, OpenKeeps, ManifestKeeps, FinishKeeps, SignatureKeeps, AnswersKeep, VerifyKeeps
      DEF Next

\* The invariant of an OCI package.
THEOREM PackageInvariant == Spec => []PackageInv
    BY InitInv, NextKeeps, PTL DEF Spec

\* A package that was opened with a bundle has the manifest, the config and the
\* image that the bundle vouches for.
THEOREM TreesAreSigned == Spec => []TreeIsSigned
    <1>1. PackageInv => TreeIsSigned
      <2> SUFFICES ASSUME PackageInv, phase \in Opened, bundle
                   PROVE  /\ tree.manifest \in SignedManifests
                          /\ tree.config = Meaning[tree.manifest].config
                          /\ tree.image \in Range(Meaning[tree.manifest].layers)
        BY DEF TreeIsSigned, Opened
      <2>1. tree.manifest \in SignedManifests /\ tree.manifest # None
        BY DEF PackageInv, PhaseInv
      <2> QED
        BY <2>1 DEF PackageInv, TreeInv, FromManifest
    <1> QED
      BY <1>1, PackageInvariant, PTL

\* Meta data, images and (with one data manifest in the index) the other files
\* that such a package hands out are named in a signed manifest.
THEOREM HandedOutSigned == Spec => []HandedOutIsSigned
    <1>1. PackageInv => HandedOutIsSigned
      <2> SUFFICES ASSUME PackageInv PROVE HandedOutIsSigned
        OBVIOUS
      <2>1. metaData # None \/ answer # [op |-> None] => phase \in Opened
        BY DEF PackageInv, PhaseInv
      <2>2. ASSUME bundle, phase \in Opened
            PROVE  /\ tree.manifest \in SignedManifests
                   /\ \E i \in DOMAIN index : FromManifest(i)
        BY <2>2 DEF PackageInv, PhaseInv, TreeInv
      <2>3. MetaDataIsSigned
        <3> SUFFICES ASSUME bundle, metaData # None
                     PROVE  \E m \in SignedManifests : Meaning[m].config.digest = metaData
          BY DEF MetaDataIsSigned
        <3>1. PICK i \in DOMAIN index : FromManifest(i)
          BY <2>1, <2>2
        <3> QED
          BY <2>1, <2>2, <3>1 DEF FromManifest, PackageInv, AnswerInv
      <2>4. ImageIsSigned
        <3> SUFFICES ASSUME bundle, answer.op \in {"reader", "archive reader", "mount"}
                     PROVE  answer.descriptor \in SignedDescriptors
          BY DEF ImageIsSigned
        <3>0. [op |-> None].op = "none"
          BY DEF None
        <3>1. answer # [op |-> None]
          BY <3>0
        <3>2. PICK i \in DOMAIN index : FromManifest(i)
          BY <2>1, <2>2, <3>1
        <3>3. tree.manifest \in SignedManifests /\ tree.image \in Range(Meaning[tree.manifest].layers)
          BY <2>1, <2>2, <3>1, <3>2 DEF FromManifest
        <3>4. answer.descriptor = tree.image
          BY DEF PackageInv, AnswerInv
        <3>5. tree.image \in SignedDescriptors
          <4> DEFINE m == tree.manifest
          <4>1. m \in SignedManifests /\ tree.image \in {Meaning[m].config} \union Range(Meaning[m].layers)
            BY <3>3
          <4> HIDE DEF m
          <4> QED
            BY <4>1 DEF SignedDescriptors
        <3> QED
          BY <3>4, <3>5
      <2>5. AuxIsSignedOneManifest
        <3> SUFFICES ASSUME bundle, answer.op = "aux", Cardinality(DataManifestsInIndex) = 1
                     PROVE  \E desc \in SignedDescriptors : desc.digest = answer.blob
          BY DEF AuxIsSignedOneManifest
        <3>1. answer # [op |-> None]
          BY DEF None
        <3>2. PICK i \in DOMAIN index : FromManifest(i)
          BY <2>1, <2>2, <3>1
        <3>3. IsFiniteSet(DataManifestsInIndex)
          BY FS_Subset DEF PackageInv, TreeInv, DataManifestsInIndex
        <3>4. DataManifestsInIndex = {i}
          BY <3>2, <3>3, FS_Singleton DEF FromManifest
        <3>5. PICK desc \in AuxDescriptors : desc.digest = answer.blob
          BY DEF PackageInv, AnswerInv
        <3> DEFINE m == tree.manifest
        <3>6. m \in SignedManifests /\ m = index[i].digest /\ tree.config = Meaning[m].config
          BY <2>1, <2>2, <3>1, <3>2 DEF FromManifest
        <3>7. desc \in {Meaning[m].config} \union Range(Meaning[m].layers)
          <4>1. CASE desc = tree.config
            BY <3>6, <4>1
          <4>2. CASE desc \in Range(tree.others)
            <5>1. PICK k \in DOMAIN tree.others : desc = tree.others[k]
              BY <4>2 DEF Range
            <5> QED
              BY <3>4, <3>6, <5>1 DEF PackageInv, TreeInv
          <4> QED
            BY <4>1, <4>2 DEF AuxDescriptors
        <3> QED
          BY <3>5, <3>6, <3>7 DEF SignedDescriptors
      <2> QED
        BY <2>3, <2>4, <2>5 DEF HandedOutIsSigned
    <1> QED
      BY <1>1, PackageInvariant, PTL

\* verify() succeeds only after it has found every blob of the package with the
\* digest it should have.
THEOREM VerifyIsSound == Spec => []VerifySound
    <1>1. PackageInv => VerifySound
      BY DEF PackageInv, VerifyInv
    <1> QED
      BY <1>1, PackageInvariant, PTL
-------------------------------------------------------------------------------
(* The hash blocks of a tree                                                   *)

LEMMA TimesGrows ==
    ASSUME NEW a \in Nat, NEW b \in Nat, NEW d \in Nat, a < b
    PROVE  a * d + d <= b * d
    <1>1. PICK c \in Nat : b = a + 1 + c
      <2>1. b - a - 1 \in Nat /\ b = a + 1 + (b - a - 1)
        OBVIOUS
      <2> QED
        BY <2>1
    <1>2. b * d = a * d + d + c * d
      BY <1>1
    <1>3. c * d \in Nat /\ a * d \in Nat
      OBVIOUS
    <1> QED
      BY <1>2, <1>3

\* How many blocks of d it takes for n.
CeilDiv(n, d) == (n + d - 1) \div d

LEMMA CeilDivIs ==
    ASSUME NEW n \in Nat, NEW d \in Nat \ {0}
    PROVE  /\ CeilDiv(n, d) \in Nat
           /\ n <= CeilDiv(n, d) * d
           /\ CeilDiv(n, d) * d < n + d
    <1> DEFINE m == n + d - 1
               q == m \div d
    <1>1. m \in Nat
      OBVIOUS
    <1>2. m < q * d + d /\ q * d <= m /\ q \in Nat
      BY <1>1
    <1>3. q * d \in Nat
      BY <1>2
    <1>4. CeilDiv(n, d) = q
      BY DEF CeilDiv
    <1> HIDE DEF q
    <1> QED
      BY <1>2, <1>3, <1>4

LEMMA CeilDivOnly ==
    ASSUME NEW n \in Nat, NEW d \in Nat \ {0}, NEW c \in Nat, n <= c * d, c * d < n + d
    PROVE  CeilDiv(n, d) = c
    <1> DEFINE q == CeilDiv(n, d)
    <1>1. q \in Nat /\ n <= q * d /\ q * d < n + d
      BY CeilDivIs
    <1> HIDE DEF q
    <1>2. q * d \in Nat /\ c * d \in Nat
      BY <1>1
    <1>3. ~(q < c)
      <2> SUFFICES ASSUME q < c PROVE FALSE
        OBVIOUS
      <2>1. q * d + d <= c * d
        BY <1>1, TimesGrows
      <2> QED
        BY <1>1, <1>2, <2>1
    <1>4. ~(c < q)
      <2> SUFFICES ASSUME c < q PROVE FALSE
        OBVIOUS
      <2>1. c * d + d <= q * d
        BY <1>1, TimesGrows
      <2> QED
        BY <1>1, <1>2, <2>1
    <1> QED
      BY <1>1, <1>3, <1>4 DEF q

\* Blocks of blocks.
LEMMA CeilDivTwice ==
    ASSUME NEW n \in Nat, NEW d \in Nat \ {0}, NEW e \in Nat \ {0}
    PROVE  CeilDiv(CeilDiv(n, d), e) = CeilDiv(n, e * d)
    <1> DEFINE c == CeilDiv(n, d)
               f == CeilDiv(c, e)
    <1>1. c \in Nat /\ n <= c * d /\ c * d < n + d
      BY CeilDivIs
    <1> HIDE DEF c
    <1>2. f \in Nat /\ c <= f * e /\ f * e < c + e
      BY <1>1, CeilDivIs
    <1> HIDE DEF f
    <1>3. f * (e * d) = (f * e) * d /\ f * e \in Nat /\ e * d \in Nat \ {0} /\ (f * e) * d \in Nat
          /\ c * d \in Nat
      BY <1>1, <1>2
    <1>4. c * d <= (f * e) * d
      <2>1. CASE c = f * e
        BY <1>3, <2>1
      <2>2. CASE c < f * e
        BY <1>1, <1>3, <2>2, TimesGrows
      <2> QED
        BY <1>1, <1>2, <1>3, <2>1, <2>2
    <1>5. (f * e) * d < n + e * d
      <2>1. (f * e) * d + d <= (c + e) * d
        BY <1>1, <1>2, <1>3, TimesGrows
      <2>2. (c + e) * d = c * d + e * d
        BY <1>1
      <2> QED
        BY <1>1, <1>3, <2>1, <2>2
    <1>6. CeilDiv(n, e * d) = f
      BY <1>2, <1>3, <1>4, <1>5, <1>1, CeilDivOnly
    <1> QED
      BY <1>6 DEF c, f

\* A number of blocks that has a size in bytes has a next level, and that is smaller.
LEMMA NextLevel ==
    ASSUME NEW n \in Nat, n * Block < Word
    PROVE  /\ HashBlocksFor(n) = CeilDiv(n, HashesPerBlock)
           /\ HashBlocksFor(n) \in Nat /\ HashBlocksFor(n) <= n
           /\ HashBlocksFor(n) > 1 => 2 * HashBlocksFor(n) <= n + 1
           /\ HashBlocksFor(n) * Block < Word
    <1> DEFINE h == HashesPerBlock
               c == CeilDiv(n, h)
    <1>1. /\ Block \in Nat /\ Word \in Nat /\ h \in Nat \ {0} /\ h >= 2 /\ h <= Block /\ Block > 0
          /\ Word % Block = 0
      BY VerityAssumption
    <1>2. n + h - 1 < Word
      <2>1. n * Block \in Nat
        BY <1>1
      <2>2. Word = (Word \div Block) * Block /\ Word \div Block \in Nat
        BY <1>1
      <2>3. n < Word \div Block
        <3> DEFINE w == Word \div Block
        <3> SUFFICES ASSUME ~(n < w) PROVE FALSE
          OBVIOUS
        <3>1. w * Block <= n * Block
          <4> HIDE DEF w
          <4>1. w \in Nat
            BY <2>2 DEF w
          <4>2. CASE w = n
            BY <1>1, <4>2
          <4>3. CASE w < n
            BY <1>1, <4>1, <4>3, TimesGrows
          <4> QED
            BY <4>1, <4>2, <4>3
        <3> HIDE DEF w
        <3> QED
          BY <1>1, <2>1, <2>2, <3>1 DEF w
      <2>4. n * Block + Block <= Word
        BY <1>1, <2>2, <2>3, TimesGrows
      <2>5. n <= n * Block
        <3>1. CASE n = 0
          BY <1>1, <3>1
        <3>2. CASE n > 0
          <4>1. PICK m \in Nat : Block = 1 + m
            <5>1. Block - 1 \in Nat /\ Block = 1 + (Block - 1)
              BY <1>1
            <5> QED
              BY <5>1
          <4>2. n * Block = n + n * m /\ n * m \in Nat
            BY <4>1
          <4> QED
            BY <4>2
        <3> QED
          BY <3>1, <3>2
      <2> QED
        BY <1>1, <2>1, <2>4, <2>5
    <1>3. HashBlocksFor(n) = c
      <2>1. n + h - 1 \in Nat
        BY <1>1
      <2>2. Wrap(n + h - 1) = n + h - 1
        BY <1>1, <1>2, <2>1 DEF Wrap
      <2> QED
        BY <2>2 DEF HashBlocksFor, CeilDiv
    <1>4. c \in Nat /\ n <= c * h /\ c * h < n + h
      BY <1>1, CeilDivIs
    <1> HIDE DEF c, h
    <1>5. c <= n /\ (c > 1 => 2 * c <= n + 1)
      <2>1. CASE c = 0
        BY <2>1
      <2>2. CASE c > 0
        <3>1. PICK b \in Nat : c = b + 1
          <4>1. c - 1 \in Nat /\ c = (c - 1) + 1
            BY <1>4, <2>2
          <4> QED
            BY <4>1
        <3>2. PICK k \in Nat : h = 2 + k
          <4>1. h - 2 \in Nat /\ h = 2 + (h - 2)
            BY <1>1
          <4> QED
            BY <4>1
        <3>3. c * h = b * h + h /\ b * h = 2 * b + b * k /\ b * k \in Nat
          BY <3>1, <3>2
        <3>4. 2 * b < n
          BY <1>1, <1>4, <3>3
        <3> QED
          BY <3>1, <3>4
      <2> QED
        BY <1>4, <2>1, <2>2
    <1>6. c * Block < Word
      <2>1. CASE c = n
        BY <2>1
      <2>2. CASE c < n
        <3>1. c * Block + Block <= n * Block /\ c * Block \in Nat /\ n * Block \in Nat
          BY <1>1, <1>4, <2>2, TimesGrows
        <3> QED
          BY <1>1, <3>1
      <2> QED
        BY <1>4, <1>5, <2>1, <2>2
    <1> QED
      BY <1>3, <1>4, <1>5, <1>6 DEF c, h
\* Also where the number wraps, a level is smaller than the one below: the loop ends.
LEMMA LevelsShrink ==
    ASSUME NEW n \in Nat
    PROVE  HashBlocksFor(n) \in Nat /\ (HashBlocksFor(n) > 1 => HashBlocksFor(n) < n)
    <1> DEFINE h == HashesPerBlock
               m == Wrap(n + h - 1)
               c == m \div h
    <1>1. h \in Nat \ {0} /\ h >= 2 /\ Word \in Nat \ {0}
      BY VerityAssumption
    <1>2. n + h - 1 \in Nat
      BY <1>1
    <1>3. m \in Nat /\ m <= n + h - 1
      BY <1>1, <1>2 DEF Wrap
    <1> HIDE DEF m
    <1>4. c \in Nat /\ c * h <= m
      BY <1>1, <1>3
    <1>5. HashBlocksFor(n) = c
      BY DEF HashBlocksFor, m
    <1> HIDE DEF c, h
    <1>6. ASSUME c > 1 PROVE c < n
      <2>1. PICK b \in Nat : c = b + 1
        <3>1. c - 1 \in Nat /\ c = (c - 1) + 1
          BY <1>4, <1>6
        <3> QED
          BY <3>1
      <2>2. PICK k \in Nat : h = 2 + k
        <3>1. h - 2 \in Nat /\ h = 2 + (h - 2)
          BY <1>1
        <3> QED
          BY <3>1
      <2>3. c * h = b * h + h /\ b * h = 2 * b + b * k /\ b * k \in Nat
        BY <2>1, <2>2
      <2>4. 2 * b < n
        BY <1>1, <1>3, <1>4, <2>3
      <2> QED
        BY <1>6, <2>1, <2>4
    <1> QED
      BY <1>4, <1>5, <1>6

LEMMA HashBlocksIs ==
    /\ HashBlocks \in [Nat -> Nat]
    /\ \A n \in Nat :
          HashBlocks[n] = IF HashBlocksFor(n) > 1 THEN HashBlocksFor(n) + HashBlocks[HashBlocksFor(n)]
                          ELSE HashBlocksFor(n)
    <1> DEFINE up == [n \in Nat |-> HashBlocksFor(n)]
               more == [pair \in Nat \X Nat |-> up[pair[1]] + pair[2]]
               S == {n \in Nat : up[n] > 1}
               Def(f) == f = [n \in Nat |-> IF HashBlocksFor(n) > 1
                                            THEN HashBlocksFor(n) + f[HashBlocksFor(n)]
                                            ELSE HashBlocksFor(n)]
    <1>1. up \in [Nat -> Nat] /\ \A n \in Nat : up[n] = HashBlocksFor(n)
      BY LevelsShrink
    <1> HIDE DEF up
    <1>2. more \in [Nat \X Nat -> Nat] /\ \A a, b \in Nat : more[<<a, b>>] = up[a] + b
      BY <1>1
    <1>3. \A n \in Nat : n \in S => up[n] < n
      BY <1>1, LevelsShrink
    <1>3a. \A n \in Nat : n \in S <=> HashBlocksFor(n) > 1
      BY <1>1
    <1> HIDE DEF more, S
    <1>4. PICK f \in [Nat -> Nat] : FromSmaller(f, Nat, S, up, up, more)
      BY <1>1, <1>2, <1>3, SmallerRecursionExists
    <1>5. ASSUME NEW n \in Nat
          PROVE  f[n] = IF HashBlocksFor(n) > 1 THEN HashBlocksFor(n) + f[HashBlocksFor(n)]
                        ELSE HashBlocksFor(n)
      <2>1. f[n] = IF n \in S THEN more[<<n, f[up[n]]>>] ELSE up[n]
        BY <1>4 DEF FromSmaller
      <2>2. up[n] \in Nat /\ f[up[n]] \in Nat /\ up[n] = HashBlocksFor(n)
        BY <1>1
      <2>3. more[<<n, f[up[n]]>>] = up[n] + f[up[n]]
        BY <1>2, <2>2
      <2> QED
        BY <1>3a, <2>1, <2>2, <2>3
    <1>6. Def(f)
      BY <1>5
    <1>7. HashBlocks = CHOOSE g : Def(g)
      BY DEF HashBlocks
    <1>8. Def(HashBlocks)
      BY <1>6, <1>7, Zenon
    <1> HIDE DEF Def
    <1>9. \A n \in Nat :
             HashBlocks[n] = IF HashBlocksFor(n) > 1 THEN HashBlocksFor(n) + HashBlocks[HashBlocksFor(n)]
                             ELSE HashBlocksFor(n)
      BY <1>8 DEF Def
    <1>10. \A n \in Nat : HashBlocks[n] \in Nat
      <2> DEFINE T == {n \in Nat : HashBlocks[n] \in Nat}
      <2>1. ASSUME NEW n \in Nat, \A m \in 0..(n - 1) : m \in T PROVE n \in T
        <3>1. HashBlocksFor(n) \in Nat /\ (HashBlocksFor(n) > 1 => HashBlocksFor(n) \in 0..(n - 1))
          BY LevelsShrink
        <3> QED
          BY <1>9, <2>1, <3>1
      <2> HIDE DEF T
      <2>2. Nat \subseteq T
        BY <2>1, StrongInduction
      <2> QED
        BY <2>2 DEF T
    <1>11. HashBlocks = [n \in Nat |-> HashBlocks[n]]
      BY <1>8 DEF Def
    <1> QED
      BY <1>9, <1>10, <1>11

\* There are at most twice as many hash blocks as data blocks.
LEMMA HashBlocksBound ==
    ASSUME NEW n \in Nat, n * Block < Word, n # 0
    PROVE  HashBlocks[n] \in 0..(2 * n)
    <1> DEFINE T == {k \in Nat : k * Block < Word /\ k # 0 => HashBlocks[k] <= 2 * k}
    <1>1. ASSUME NEW k \in Nat, \A m \in 0..(k - 1) : m \in T PROVE k \in T
      <2> SUFFICES ASSUME k * Block < Word, k # 0 PROVE HashBlocks[k] <= 2 * k
        OBVIOUS
      <2> DEFINE c == HashBlocksFor(k)
      <2>1. c \in Nat /\ c <= k /\ (c > 1 => 2 * c <= k + 1) /\ c * Block < Word
        BY NextLevel
      <2>2. HashBlocks[k] = IF c > 1 THEN c + HashBlocks[c] ELSE c
        BY HashBlocksIs
      <2> HIDE DEF c
      <2>3. CASE c > 1
        <3>1. c \in 0..(k - 1) /\ c # 0
          BY <2>1, <2>3
        <3>2. HashBlocks[c] <= 2 * c
          BY <1>1, <2>1, <3>1
        <3>3. HashBlocks[c] \in Nat
          BY <2>1, HashBlocksIs
        <3> QED
          BY <2>1, <2>2, <2>3, <3>2, <3>3
      <2>4. CASE ~(c > 1)
        BY <2>1, <2>2, <2>4
      <2> QED
        BY <2>3, <2>4
    <1> HIDE DEF T
    <1>2. Nat \subseteq T
      BY <1>1, StrongInduction
    <1>3. n \in T
      BY <1>2
    <1>4. HashBlocks[n] \in Nat /\ HashBlocks[n] <= 2 * n
      BY <1>3, HashBlocksIs DEF T
    <1> QED
      BY <1>4
\* What TreeBlocks() is made of: powers of the number of hashes in a block, ...
IsCovered(f, n) ==
    /\ f \in [0..n -> Nat \ {0}] /\ f[0] = 1
    /\ \A k \in 1..n : f[k] = HashesPerBlock * f[k - 1]

\* ... the first level with a single block, and the blocks of all levels up to one.
IsTotal(f, n, levels, covered) ==
    /\ f[0] = 0
    /\ \A k \in 1..levels : f[k] = f[k - 1] + CeilDiv(n, covered[k])

LEMMA TreeBlocksAre ==
    ASSUME NEW n \in Nat
    PROVE  \E covered, levels, total :
              /\ IsCovered(covered, n)
              /\ levels \in 0..n /\ covered[levels] >= n
              /\ \A k \in 0..n : covered[k] >= n => levels <= k
              /\ IsTotal(total, n, levels, covered)
              /\ TreeBlocks(n) = total[levels]
    <1> DEFINE h == HashesPerBlock
               CoveredDef(f) == f = [k \in 0..n |-> IF k = 0 THEN 1 ELSE h * f[k - 1]]
               covered == CHOOSE f : CoveredDef(f)
               levels == Min({k \in 0..n : covered[k] >= n})
               TotalDef(f) == f = [k \in 0..levels |->
                                     IF k = 0 THEN 0
                                     ELSE f[k - 1] + (n + covered[k] - 1) \div covered[k]]
               total == CHOOSE f : TotalDef(f)
    <1>1. TreeBlocks(n) = total[levels]
      BY Zenon DEF TreeBlocks
    <1>2. h \in Nat \ {0} /\ h >= 2
      BY VerityAssumption
    <1> HIDE DEF h
    <1>3. IsCovered(covered, n)
      <2> DEFINE T == Nat \ {0}
                 step == [pair \in T \X (1..n) |-> h * pair[1]]
      <2>1. step \in [T \X (1..n) -> T] /\ 1 \in T
            /\ \A a \in T : \A k \in 1..n : step[<<a, k>>] = h * a
        BY <1>2
      <2> HIDE DEF step, T
      <2>2. PICK f : IsRecursive(f, n, T, 1, step)
        BY <2>1, RecursionExists
      <2>3. f \in [0..n -> T] /\ f[0] = 1 /\ \A k \in 1..n : f[k] = h * f[k - 1]
        <3>1. \A k \in 1..n : k - 1 \in 0..n
          OBVIOUS
        <3> QED
          BY <2>1, <2>2, <3>1 DEF IsRecursive
      <2>4. CoveredDef(f)
        <3>1. \A k \in 0..n : f[k] = IF k = 0 THEN 1 ELSE h * f[k - 1]
          BY <2>3
        <3> QED
          BY <2>3, <3>1
      <2>5. CoveredDef(covered)
        BY <2>4, Zenon DEF covered
      <2> HIDE DEF covered
      <2>6. covered[0] = 1 /\ \A k \in 1..n : covered[k] = h * covered[k - 1]
        BY <2>5
      <2>7. \A k \in 0..n : covered[k] \in T
        <3>1. \A k \in 1..n : covered[k - 1] \in T => covered[k] \in T
          BY <1>2, <2>6 DEF T
        <3>2. covered[0] \in T
          BY <2>6 DEF T
        <3> QED
          BY <3>1, <3>2, RecursionType
      <2>8. covered \in [0..n -> T]
        BY <2>5, <2>7
      <2> QED
        BY <2>6, <2>8 DEF IsCovered, T, h
    <1> HIDE DEF covered
    <1>4. levels \in 0..n /\ covered[levels] >= n /\ \A k \in 0..n : covered[k] >= n => levels <= k
      <2> DEFINE S == {k \in 0..n : covered[k] > k}
                 L == {k \in 0..n : covered[k] >= n}
      <2>1. 0 \in S
        BY <1>3 DEF IsCovered
      <2>2. ASSUME NEW k \in 1..n, k - 1 \in S PROVE k \in S
        <3>1. /\ covered[k - 1] \in Nat /\ covered[k - 1] > k - 1
              /\ covered[k] = h * covered[k - 1]
          BY <1>3, <2>2 DEF IsCovered, h
        <3>2. h * covered[k - 1] >= covered[k - 1] + covered[k - 1]
          <4>1. PICK m \in Nat : h = 2 + m
            <5>1. h - 2 \in Nat /\ h = 2 + (h - 2)
              BY <1>2
            <5> QED
              BY <5>1
          <4>2. h * covered[k - 1] = 2 * covered[k - 1] + m * covered[k - 1]
                /\ m * covered[k - 1] \in Nat
            BY <3>1, <4>1
          <4> QED
            BY <3>1, <4>2
        <3>3. h * covered[k - 1] \in Nat
          BY <1>2, <3>1
        <3> QED
          BY <3>1, <3>2, <3>3
      <2> HIDE DEF S
      <2>3. 0..n \subseteq S
        BY <2>1, <2>2, BoundedInduction
      <2>4. n \in L
        BY <1>3, <2>3 DEF S, IsCovered
      <2>5. L \subseteq Nat
        OBVIOUS
      <2>6. Min(L) \in L /\ \A m \in L : Min(L) <= m
        <3> HIDE DEF L
        <3> QED
          BY <2>4, <2>5, MinIsLeast
      <2> QED
        BY <2>6
    <1> HIDE DEF levels
    <1>5. IsTotal(total, n, levels, covered)
      <2> DEFINE step == [pair \in Nat \X (1..levels) |-> pair[1] + CeilDiv(n, covered[pair[2]])]
      <2>1. levels \in Nat /\ \A k \in 1..levels : k \in 0..n
        BY <1>4
      <2>2. \A k \in 1..levels : covered[k] \in Nat \ {0}
        BY <1>3, <2>1 DEF IsCovered
      <2>3. \A k \in 1..levels : CeilDiv(n, covered[k]) \in Nat
        BY <2>2, CeilDivIs
      <2>4. step \in [Nat \X (1..levels) -> Nat]
            /\ \A a \in Nat : \A k \in 1..levels : step[<<a, k>>] = a + CeilDiv(n, covered[k])
        BY <2>3
      <2> HIDE DEF step
      <2>5. PICK f : IsRecursive(f, levels, Nat, 0, step)
        BY <2>1, <2>4, RecursionExists
      <2>6. f \in [0..levels -> Nat] /\ f[0] = 0
            /\ \A k \in 1..levels : f[k] = f[k - 1] + CeilDiv(n, covered[k])
        <3>1. \A k \in 1..levels : k - 1 \in 0..levels
          BY <2>1
        <3> QED
          BY <2>4, <2>5, <3>1 DEF IsRecursive
      <2>7. TotalDef(f)
        <3>1. \A k \in 0..levels : f[k] = IF k = 0 THEN 0
                                          ELSE f[k - 1] + (n + covered[k] - 1) \div covered[k]
          BY <2>1, <2>6 DEF CeilDiv
        <3> QED
          BY <2>6, <3>1
      <2>8. TotalDef(total)
        BY <2>7, Zenon DEF total
      <2> HIDE DEF total
      <2> QED
        BY <2>1, <2>8 DEF IsTotal, CeilDiv
    <1> HIDE DEF total
    <1> QED
      BY <1>1, <1>3, <1>4, <1>5

\* The loops of the mounter and the verifier count the blocks of the tree.
LEMMA HashBlocksCounted ==
    ASSUME NEW n \in Nat, n > 0, n * Block < Word
    PROVE  TreeBlocks(n) = IF n = 1 THEN 0 ELSE HashBlocks[n]
    <1>1. PICK covered, levels, total :
              /\ IsCovered(covered, n)
              /\ levels \in 0..n /\ covered[levels] >= n
              /\ \A k \in 0..n : covered[k] >= n => levels <= k
              /\ IsTotal(total, n, levels, covered)
              /\ TreeBlocks(n) = total[levels]
      BY TreeBlocksAre
    <1>2. HashesPerBlock \in Nat \ {0} /\ HashesPerBlock >= 2
      BY VerityAssumption
    <1>3. CASE n = 1
      <2>1. levels = 0
        BY <1>1, <1>3 DEF IsCovered
      <2> QED
        BY <1>1, <1>3, <2>1 DEF IsTotal
    <1>4. CASE n > 1
      <2> DEFINE c(k) == CeilDiv(n, covered[k])
      <2>1. /\ levels \in Nat /\ \A k \in 0..levels : k \in 0..n /\ covered[k] \in Nat \ {0}
            /\ levels # 0
        BY <1>1, <1>4 DEF IsCovered
      <2>2. c(0) = n
        BY <1>1, CeilDivOnly DEF IsCovered
      <2>3. c(levels) = 1
        <3> DEFINE d == covered[levels]
        <3>1. d \in Nat \ {0} /\ d >= n
          BY <1>1, <2>1
        <3> HIDE DEF d
        <3>2. n <= 1 * d /\ 1 * d < n + d
          BY <1>4, <3>1
        <3>3. CeilDiv(n, d) = 1
          BY <3>1, <3>2, CeilDivOnly
        <3> QED
          BY <3>3 DEF d
      <2>4. ASSUME NEW k \in 0..(levels - 1) PROVE c(k) > 1
        <3> DEFINE d == covered[k]
                   q == CeilDiv(n, d)
        <3>1. d \in Nat \ {0} /\ d < n
          BY <1>1, <2>1
        <3> HIDE DEF d
        <3>2. q \in Nat /\ n <= q * d
          BY <3>1, CeilDivIs
        <3> HIDE DEF q
        <3>3. q # 0 /\ q # 1
          BY <1>4, <3>1, <3>2
        <3>4. q > 1
          BY <3>2, <3>3
        <3> QED
          BY <3>4 DEF d, q
      <2>5. ASSUME NEW k \in 1..levels PROVE c(k) = CeilDiv(c(k - 1), HashesPerBlock)
        <3>1. k \in 1..n /\ k - 1 \in 0..levels
          BY <2>1
        <3>2. covered[k] = HashesPerBlock * covered[k - 1] /\ covered[k - 1] \in Nat \ {0}
          BY <1>1, <2>1, <3>1 DEF IsCovered
        <3> DEFINE d == covered[k - 1]
        <3> HIDE DEF d
        <3>3. CeilDiv(CeilDiv(n, d), HashesPerBlock) = CeilDiv(n, HashesPerBlock * d)
          BY <1>2, <3>2, CeilDivTwice DEF d
        <3> QED
          BY <3>2, <3>3 DEF d
      <2>6. \A k \in 0..levels : c(k) \in Nat
        BY <2>1, CeilDivIs
      <2> DEFINE rest(k) == IF k < levels THEN HashBlocks[c(k)] ELSE 0
                 S == {k \in 0..levels : c(k) * Block < Word /\ total[k] + rest(k) = HashBlocks[n]
                                         /\ total[k] \in Nat}
      <2> HIDE DEF c
      <2>7. 0 \in S
        BY <1>1, <2>1, <2>2, HashBlocksIs DEF IsTotal
      <2>8. ASSUME NEW k \in 1..levels, k - 1 \in S PROVE k \in S
        <3>1. /\ c(k - 1) \in Nat /\ c(k - 1) * Block < Word /\ c(k) \in Nat
              /\ total[k - 1] + HashBlocks[c(k - 1)] = HashBlocks[n] /\ total[k - 1] \in Nat
          BY <2>1, <2>6, <2>8
        <3>2. HashBlocksFor(c(k - 1)) = c(k) /\ c(k) * Block < Word
          BY <2>5, <3>1, NextLevel
        <3>3. HashBlocks[c(k - 1)] = IF c(k) > 1 THEN c(k) + HashBlocks[c(k)] ELSE c(k)
          BY <3>1, <3>2, HashBlocksIs
        <3>4. total[k] = total[k - 1] + c(k)
          BY <1>1 DEF IsTotal, c
        <3>5. CASE k = levels
          <4>1. c(k) = 1
            BY <2>3, <3>5
          <4> QED
            BY <3>1, <3>2, <3>3, <3>4, <3>5, <4>1
        <3>6. CASE k < levels
          <4>1. c(k) > 1 /\ HashBlocks[c(k)] \in Nat
            BY <2>1, <2>4, <3>1, <3>6, HashBlocksIs
          <4> QED
            BY <3>1, <3>2, <3>3, <3>4, <3>6, <4>1
        <3> QED
          BY <2>1, <3>5, <3>6
      <2> HIDE DEF S
      <2>9. 0..levels \subseteq S
        BY <2>1, <2>7, <2>8, BoundedInduction
      <2>10. levels \in S
        BY <2>1, <2>9
      <2> QED
        BY <1>1, <1>4, <2>10, HashBlocksIs DEF S
    <1> QED
      BY <1>3, <1>4
-------------------------------------------------------------------------------
(* What a reader or a mount was created for                                    *)

\* A range of a file.
MappedFiles == {file \in [offset : Nat, size : Nat, end : Nat] : file.offset + file.size <= file.end}

\* The descriptor, file and superblock have passed the checks.
Accepted(op, desc, file, sb) ==
    /\ desc.offset \in Block..MaxImageSize
    /\ file \in MappedFiles /\ sb \in SuperBlocks
    /\ OffsetInFile(file.size, desc.offset)
    /\ op = "reader" => ReaderAccepts(sb, file.end, DataRange(file, desc), HashesRange(file, desc))
    /\ op = "mount" => MounterAccepts(sb, file.end, DataRange(file, desc), HashesRange(file, desc))

AcceptedInv ==
    answer.op \in {"reader", "mount"} =>
        Accepted(answer.op, answer.descriptor, answer.file, answer.super)

\* What getMappableFile() gives for an image.
LEMMA MappableFile ==
    ASSUME PackageInv, tree.image.type = "erofs", NEW file \in GetMappableFile(tree.image.digest)
    PROVE  file \in MappedFiles
    <1> DEFINE d == tree.image.digest
    <1>1. tree.image \in Descriptors
      <2>1. tree.image \in Descriptors \union {NoDescriptor}
        BY DEF PackageInv, TypeOK, TreeTypes
      <2> QED
        BY <2>1 DEF NoDescriptor, None
    <1>2. d \in Blobs
      BY <1>1, DescriptorDigest
    <1> HIDE DEF d
    <1>3. file \in GetMappableFile(d)
      BY DEF d
    <1>4. files[d] # None => files[d] \in Blobs
      BY <1>2 DEF PackageInv, TypeOK
    <1>5. CASE store = "directory"
      <2>1. files[d] # None /\ file = [offset |-> 0, size |-> SizeOf[files[d]], end |-> SizeOf[files[d]]]
        BY <1>3, <1>5 DEF GetMappableFile, DirectoryMappableFile
      <2>2. SizeOf[files[d]] \in Nat
        BY <1>4, <2>1, PackageAssumption
      <2> QED
        BY <2>1, <2>2 DEF MappedFiles
    <1>6. CASE store # "directory"
      <2>1. files[d] # None /\ file = [offset |-> OffsetOf[d], size |-> SizeOf[files[d]], end |-> ArchiveSize]
        BY <1>3, <1>6 DEF GetMappableFile
      <2>2. /\ SizeOf[files[d]] \in Nat /\ OffsetOf[d] \in Nat /\ ArchiveSize \in Nat
            /\ OffsetOf[d] + SizeOf[files[d]] <= ArchiveSize
        BY <1>2, <1>4, <2>1, PackageAssumption
      <2> QED
        BY <2>1, <2>2 DEF MappedFiles
    <1> QED
      BY <1>5, <1>6

LEMMA AcceptedStep == PackageInv /\ AcceptedInv /\ [Next]_vars => AcceptedInv'
    <1> SUFFICES ASSUME PackageInv, AcceptedInv, [Next]_vars PROVE AcceptedInv'
      OBVIOUS
    <1>1. CASE UNCHANGED answer
      BY <1>1 DEF AcceptedInv
    <1>2. CASE answer'.op \notin {"reader", "mount"}
      BY <1>2 DEF AcceptedInv
    <1>3. Open \/ ProcessManifest \/ FinishTree \/ ReadAndVerifySignature
          \/ SetMaxExtractionEntries(1)
          \/ (\E d \in Blobs : \E c \in Blobs \union {None} : ChangeFile(d, c))
          \/ UNCHANGED vars => UNCHANGED answer
      BY DEF Open, ProcessManifest, FinishTree, ReadAndVerifySignature, SetMaxExtractionEntries,
             ChangeFile, vars
    <1>4. Failure.op = "error"
      BY DEF Failure
    <1>5. GetMetaData \/ AuxMetaDataFile => answer'.op \notin {"reader", "mount"}
      BY <1>4 DEF GetMetaData, AuxMetaDataFile
    <1>6. BeginVerify \/ VerifyBlob \/ FinishVerify => answer'.op \notin {"reader", "mount"}
      BY <1>4 DEF BeginVerify, VerifyBlob, FinishVerify, PackageInv, VerifyInv
    <1>7. CASE CreateReader
      <2> DEFINE desc == tree.image
      <2>1. CASE \E file \in GetMappableFile(desc.digest), sb \in SuperBlocks :
                    /\ AnnotationsOK(desc)
                    /\ OffsetInFile(file.size, desc.offset)
                    /\ ReaderAccepts(sb, file.end, DataRange(file, desc), HashesRange(file, desc))
                    /\ answer' = [op |-> "reader", descriptor |-> desc, file |-> file, super |-> sb]
        <3>1. PICK file \in GetMappableFile(desc.digest), sb \in SuperBlocks :
                    /\ AnnotationsOK(desc)
                    /\ OffsetInFile(file.size, desc.offset)
                    /\ ReaderAccepts(sb, file.end, DataRange(file, desc), HashesRange(file, desc))
                    /\ answer' = [op |-> "reader", descriptor |-> desc, file |-> file, super |-> sb]
          BY <2>1
        <3>2. file \in MappedFiles /\ desc.offset \in Block..MaxImageSize
          BY <3>1, MappableFile DEF AnnotationsOK
        <3>3. Accepted("reader", desc, file, sb)
          BY <3>1, <3>2 DEF Accepted
        <3> QED
          BY <3>1, <3>3 DEF AcceptedInv
      <2>2. CASE answer' = [op |-> "archive reader", descriptor |-> desc] \/ answer' = Failure
        <3> DEFINE r == [op |-> "archive reader", descriptor |-> desc]
        <3>1. r.op = "archive reader"
          OBVIOUS
        <3> HIDE DEF r
        <3>2. answer' = r \/ answer' = Failure
          BY <2>2 DEF r
        <3>3. answer'.op = "archive reader" \/ answer'.op = "error"
          BY <1>4, <3>1, <3>2
        <3> QED
          BY <3>3 DEF AcceptedInv
      <2> QED
        BY <1>7, <2>1, <2>2 DEF CreateReader
    <1>8. CASE Mount
      <2> DEFINE desc == tree.image
      <2>1. CASE \E file \in GetMappableFile(desc.digest), sb \in SuperBlocks :
                    /\ AnnotationsOK(desc)
                    /\ OffsetInFile(file.size, desc.offset)
                    /\ MounterAccepts(sb, file.end, DataRange(file, desc), HashesRange(file, desc))
                    /\ answer' = [op |-> "mount", descriptor |-> desc, file |-> file, super |-> sb]
        <3>1. PICK file \in GetMappableFile(desc.digest), sb \in SuperBlocks :
                    /\ AnnotationsOK(desc)
                    /\ OffsetInFile(file.size, desc.offset)
                    /\ MounterAccepts(sb, file.end, DataRange(file, desc), HashesRange(file, desc))
                    /\ answer' = [op |-> "mount", descriptor |-> desc, file |-> file, super |-> sb]
          BY <2>1
        <3>2. file \in MappedFiles /\ desc.offset \in Block..MaxImageSize
          BY <3>1, MappableFile DEF AnnotationsOK
        <3>3. Accepted("mount", desc, file, sb)
          BY <3>1, <3>2 DEF Accepted
        <3> QED
          BY <3>1, <3>3 DEF AcceptedInv
      <2>2. CASE answer' = Failure
        BY <1>2, <1>4, <2>2
      <2> QED
        BY <1>8, <2>1, <2>2 DEF Mount
    <1> QED
      BY <1>1, <1>2, <1>3, <1>5, <1>6, <1>7, <1>8 DEF Next

\* A number that the word holds, and one that was shifted into the word.
LEMMA Wrapped ==
    ASSUME NEW m \in Nat
    PROVE  /\ m < Word => Wrap(m) = m
           /\ Wrap(m) \in Nat /\ Wrap(m) <= m
           /\ Wrap(m + Word) <= m
    <1>1. Word \in Nat \ {0}
      BY VerityAssumption
    <1>2. (m < Word => Wrap(m) = m) /\ Wrap(m) \in Nat /\ Wrap(m) <= m
      BY <1>1 DEF Wrap
    <1>3. Wrap(m + Word) <= m
      <2> DEFINE k == m + Word
                 q == k \div Word
      <2>1. k \in Nat /\ q \in Nat /\ k = q * Word + (k % Word) /\ k % Word \in 0..(Word - 1)
        BY <1>1
      <2>2. q # 0
        BY <1>1, <2>1
      <2>3. PICK p \in Nat : q = p + 1
        <3>1. q - 1 \in Nat /\ q = (q - 1) + 1
          BY <2>1, <2>2
        <3> QED
          BY <3>1
      <2> HIDE DEF q
      <2>4. q * Word = p * Word + Word /\ p * Word \in Nat
        BY <1>1, <2>3
      <2> QED
        BY <1>1, <2>1, <2>4 DEF Wrap
    <1> QED
      BY <1>2, <1>3

\* The checks leave room for the tree.
LEMMA AcceptedTree ==
    ASSUME NEW op \in {"reader", "mount"}, NEW desc, NEW file, NEW sb, Accepted(op, desc, file, sb),
           sb.dataBlocks * Block < Word
    PROVE  /\ desc.offset <= sb.dataBlocks * Block
           /\ desc.offset + (1 + TreeBlocks(sb.dataBlocks)) * Block <= file.size
           /\ op = "mount" =>
                 /\ desc.offset = sb.dataBlocks * Block
                 /\ desc.offset <= MaxDataSize =>
                       ReaderAccepts(sb, file.end, DataRange(file, desc), HashesRange(file, desc))
    <1> DEFINE n == sb.dataBlocks
               o == desc.offset
               t == TreeBlocks(n)
               data == DataRange(file, desc)
               hashes == HashesRange(file, desc)
    <1>1. /\ n \in Nat /\ n * Block \in Nat
          /\ Block \in Nat /\ Block > 0 /\ Word \in Nat
          /\ MaxImageSize \in Nat /\ 2 * MaxImageSize + Block < Word
          /\ MaxDataSize \in Nat
      BY VerityAssumption, PackageAssumption DEF Accepted
    <1>2. /\ o \in Nat /\ o >= Block /\ o <= MaxImageSize /\ o <= file.size - Block
          /\ file.size \in Nat /\ file.offset \in Nat /\ file.end \in Nat
          /\ file.offset + file.size <= file.end
      BY <1>1 DEF Accepted, OffsetInFile, MappedFiles
    <1>3. DataSize(sb) = n * Block
      BY <1>1, Wrapped DEF DataSize
    <1>4. /\ data.offset = file.offset /\ data.size = o
          /\ hashes.offset = file.offset + o
          /\ hashes.size \in Nat /\ hashes.size <= file.size - o
      <2>1. file.size - o \in Nat /\ file.size + Word - o = (file.size - o) + Word
        BY <1>1, <1>2
      <2>2. hashes.size = Wrap((file.size - o) + Word)
        BY <2>1 DEF HashesRange
      <2>3. (file.size - o) + Word \in Nat
        BY <1>1, <2>1
      <2> QED
        BY <2>1, <2>2, <2>3, Wrapped DEF DataRange, HashesRange
    <1>5. o <= n * Block /\ n > 0 /\ (op = "mount" => o = n * Block)
      <2>1. CASE op = "reader"
        BY <1>1, <1>2, <1>3, <1>4, <2>1 DEF Accepted, ReaderAccepts
      <2>2. CASE op = "mount"
        BY <1>1, <1>2, <1>3, <1>4, <2>2 DEF Accepted, MounterAccepts
      <2>3. o <= n * Block /\ (op = "mount" => o = n * Block)
        BY <2>1, <2>2
      <2>4. n # 0
        BY <1>1, <1>2, <2>3
      <2> QED
        BY <1>1, <2>3, <2>4
    <1>6. t = (IF n = 1 THEN 0 ELSE HashBlocks[n]) /\ t \in Nat /\ t <= 2 * n
      BY <1>1, <1>5, HashBlocksCounted, HashBlocksBound
    <1>7. /\ t * Block \in Nat /\ (1 + t) * Block = Block + t * Block /\ (1 + t) * Block \in Nat
          /\ t * Block <= 2 * (n * Block)
      <2>1. PICK m \in Nat : 2 * n = t + m
        <3>1. 2 * n - t \in Nat /\ 2 * n = t + (2 * n - t)
          BY <1>1, <1>6
        <3> QED
          BY <3>1
      <2>2. (2 * n) * Block = t * Block + m * Block /\ m * Block \in Nat /\ t * Block \in Nat
        BY <1>1, <1>6, <2>1
      <2>3. (2 * n) * Block = 2 * (n * Block) /\ (1 + t) * Block = Block + t * Block
        BY <1>1, <1>6
      <2> QED
        BY <1>1, <2>2, <2>3
    <1> HIDE DEF t, o, n, data, hashes
    <1>8. CASE op = "reader"
      <2>1. ReaderAccepts(sb, file.end, data, hashes)
        BY <1>8 DEF Accepted, data, hashes
      <2>2. (1 + t) * Block <= file.size - o
        <3>1. CASE n = 1
          BY <1>1, <1>2, <1>6, <1>7, <3>1
        <3>2. CASE n # 1
          <4>1. n * Block <= MaxDataSize /\ Wrap((1 + t) * Block) <= hashes.size
            BY <1>3, <1>6, <2>1, <3>2 DEF ReaderAccepts, parseDmVeritySuperBlock, n
          <4>2. (1 + t) * Block < Word
            BY <1>1, <1>7, <4>1, VerityAssumption
          <4>3. Wrap((1 + t) * Block) = (1 + t) * Block
            BY <1>7, <4>2, Wrapped
          <4> QED
            BY <1>1, <1>2, <1>4, <1>7, <4>1, <4>3
        <3> QED
          BY <3>1, <3>2
      <2> QED
        BY <1>2, <1>5, <1>7, <1>8, <2>2 DEF t, o, n
    <1>9. CASE op = "mount"
      <2>1. MounterAccepts(sb, file.end, data, hashes)
        BY <1>9 DEF Accepted, data, hashes
      <2>2. /\ hashes.size >= Block /\ hashes.offset + Block <= file.end
            /\ checkSuperBlock(sb)
            /\ Wrap(t * Block) <= hashes.size - Block
        BY <1>6, <2>1 DEF MounterAccepts, readDmVeritySuperBlock, calcRequiredHashBlocks, n
      <2>3. n * Block = o
        BY <1>5, <1>9
      <2>4. t * Block < Word
        BY <1>1, <1>2, <1>7, <2>3
      <2>5. Wrap(t * Block) = t * Block
        BY <1>7, <2>4, Wrapped
      <2>6. (1 + t) * Block <= hashes.size
        BY <1>1, <1>4, <1>7, <2>2, <2>5
      <2>7. (1 + t) * Block <= file.size - o
        BY <1>2, <1>4, <1>7, <2>6
      <2>8. ASSUME o <= MaxDataSize PROVE ReaderAccepts(sb, file.end, data, hashes)
        <3>1. RangeInFile(data, file.end) /\ RangeInFile(hashes, file.end)
          BY <1>1, <1>2, <1>4, <2>2 DEF RangeInFile
        <3>2. sb.dataBlocks # 0 /\ DataSize(sb) <= MaxDataSize /\ data.size <= DataSize(sb)
          BY <1>2, <1>3, <1>4, <1>5, <2>3, <2>8 DEF n
        <3>3. sb.dataBlocks # 1 => Wrap((1 + HashBlocks[sb.dataBlocks]) * Block) <= hashes.size
          <4>1. Wrap((1 + t) * Block) <= hashes.size
            <5>1. Wrap((1 + t) * Block) \in Nat /\ Wrap((1 + t) * Block) <= (1 + t) * Block
              BY <1>7, Wrapped
            <5> QED
              BY <1>4, <1>7, <2>6, <5>1
          <4> QED
            BY <1>6, <4>1 DEF n
        <3> QED
          BY <2>2, <3>1, <3>2, <3>3 DEF ReaderAccepts, parseDmVeritySuperBlock
      <2> QED
        BY <1>2, <1>5, <1>7, <2>3, <2>7, <2>8 DEF t, o, n, data, hashes
    <1> QED
      BY <1>8, <1>9

(* The image that a reader or a mount is created for has its data, the        *)
(* superblock and the whole hash tree inside the blob, whatever offset the    *)
(* annotations give and whatever the superblock says; and what the mounter    *)
(* accepts the reader accepts, up to its limit.                               *)
THEOREM TreesAreInFile == Spec => []TreeInFile
    <1>1. Init => AcceptedInv
      BY DEF Init, AcceptedInv, None
    <1>2. Spec => []AcceptedInv
      BY <1>1, AcceptedStep, PackageInvariant, PTL DEF Spec
    <1>3. AcceptedInv => TreeInFile
      <2> SUFFICES ASSUME AcceptedInv, answer.op \in {"reader", "mount"},
                          answer.super.dataBlocks * Block < Word
                   PROVE  TreeInFile
        BY DEF TreeInFile
      <2>1. Accepted(answer.op, answer.descriptor, answer.file, answer.super)
        BY DEF AcceptedInv
      <2> QED
        BY <2>1, AcceptedTree DEF TreeInFile
    <1> QED
      BY <1>2, <1>3, PTL

-------------------------------------------------------------------------------
(* The config JSON of a package: what is read of it (MetaDataBuild)            *)

\* Versions of one to four fields.
Version == {v \in Seq(0..(FieldMod - 1)) : Len(v) \in 1..4}

Field(v, i) == fieldValue(v, i)

\* The number that the first n fields make.
Leading(v, n) ==
    IF n = 0 THEN 0
    ELSE IF n = 1 THEN 0 * FieldMod + Field(v, 1)
    ELSE IF n = 2 THEN Field(v, 1) * FieldMod + Field(v, 2)
    ELSE IF n = 3 THEN (Field(v, 1) * FieldMod + Field(v, 2)) * FieldMod + Field(v, 3)
    ELSE Value(v)

LEMMA FieldIs ==
    ASSUME NEW v \in Version, NEW i \in 1..4
    PROVE  /\ Field(v, i) \in 0..(FieldMod - 1) /\ Field(v, i) \in Nat
           /\ i <= Len(v) => Field(v, i) = v[i]
           /\ i > Len(v) => Field(v, i) = 0
    <1>1. Len(v) \in 1..4 /\ FieldMod \in Nat \ {0, 1}
      BY FieldModAssumption DEF Version
    <1>2. i <= Len(v) => v[i] \in 0..(FieldMod - 1)
      BY <1>1 DEF Version
    <1> QED
      BY <1>1, <1>2 DEF Field, fieldValue

\* One digit more.
LEMMA Digit ==
    ASSUME NEW F \in Nat \ {0}, NEW a \in Nat, NEW c \in Nat, NEW b \in 0..(F - 1), NEW d \in 0..(F - 1)
    PROVE  /\ a * F + b \in Nat
           /\ a * F + b < c * F + d <=> a < c \/ (a = c /\ b < d)
    <1>1. a * F \in Nat /\ c * F \in Nat
      OBVIOUS
    <1>2. ASSUME a < c PROVE a * F + F <= c * F
      <2>1. (c - a - 1) \in Nat
        BY <1>2
      <2>2. (c - a - 1) * F >= 0
        BY <2>1
      <2>3. (c - a - 1) * F = c * F - a * F - F
        OBVIOUS
      <2> QED
        BY <1>1, <2>2, <2>3
    <1>3. ASSUME c < a PROVE c * F + F <= a * F
      <2>1. (a - c - 1) \in Nat
        BY <1>3
      <2>2. (a - c - 1) * F >= 0
        BY <2>1
      <2>3. (a - c - 1) * F = a * F - c * F - F
        OBVIOUS
      <2> QED
        BY <1>1, <2>2, <2>3
    <1>4. a = c => a * F = c * F
      OBVIOUS
    <1>5. a < c \/ c < a \/ a = c
      OBVIOUS
    <1> DEFINE p == a * F
               q == c * F
    <1>6. p \in Nat /\ q \in Nat /\ (a < c => p + F <= q) /\ (c < a => q + F <= p) /\ (a = c => p = q)
      BY <1>1, <1>2, <1>3, <1>4
    <1> HIDE DEF p, q
    <1>7. p + b \in Nat /\ (p + b < q + d <=> a < c \/ (a = c /\ b < d))
      BY <1>5, <1>6
    <1> QED
      BY <1>7 DEF p, q

LEMMA LeadingNext ==
    ASSUME NEW v \in Version, NEW n \in 1..4
    PROVE  Leading(v, n) = Leading(v, n - 1) * FieldMod + Field(v, n)
    <1>1. Value(v) = ((Field(v, 1) * FieldMod + Field(v, 2)) * FieldMod + Field(v, 3)) * FieldMod
                                + Field(v, 4)
      BY DEF Value, Field
    <1>2. Field(v, 1) \in Nat /\ FieldMod \in Nat /\ Field(v, 2) \in Nat
      BY FieldIs, FieldModAssumption
    <1>3. 0 * FieldMod + Field(v, 1) = Field(v, 1)
      BY <1>2
    <1>4. n = 1 \/ n = 2 \/ n = 3 \/ n = 4
      OBVIOUS
    <1>5. CASE n = 1
      BY <1>5 DEF Leading
    <1>6. CASE n = 2
      BY <1>3, <1>6 DEF Leading
    <1>7. CASE n = 3
      BY <1>7 DEF Leading
    <1>8. CASE n = 4
      BY <1>1, <1>8 DEF Leading
    <1> QED
      BY <1>4, <1>5, <1>6, <1>7, <1>8

LEMMA LeadingNat ==
    ASSUME NEW v \in Version
    PROVE  /\ \A n \in 0..4 : Leading(v, n) \in Nat
           /\ Leading(v, 0) = 0 /\ Leading(v, 4) = Value(v)
    <1> DEFINE S == {n \in 0..4 : Leading(v, n) \in Nat}
    <1>1. Leading(v, 0) = 0 /\ Leading(v, 4) = Value(v)
      BY DEF Leading
    <1>2. 0 \in S
      BY <1>1
    <1>3. ASSUME NEW n \in 1..4, n - 1 \in S PROVE n \in S
      <2>1. FieldMod \in Nat \ {0} /\ Field(v, n) \in 0..(FieldMod - 1) /\ Leading(v, n - 1) \in Nat
        BY <1>3, FieldIs, FieldModAssumption
      <2>2. Leading(v, n) \in Nat
        BY <2>1, Digit, LeadingNext
      <2> QED
        BY <2>2
    <1> HIDE DEF S
    <1>4. 0..4 \subseteq S
      BY <1>2, <1>3, BoundedInduction
    <1> QED
      BY <1>1, <1>4 DEF S

\* The number of more fields keeps the order of fewer, and is equal only when they are.
LEMMA LeadingStep ==
    ASSUME NEW v \in Version, NEW w \in Version, NEW n \in 1..4
    PROVE  Leading(v, n) < Leading(w, n)
             <=> \/ Leading(v, n - 1) < Leading(w, n - 1)
                 \/ Leading(v, n - 1) = Leading(w, n - 1) /\ Field(v, n) < Field(w, n)
    <1>1. n - 1 \in 0..4
      OBVIOUS
    <1>2. /\ FieldMod \in Nat \ {0} /\ Leading(v, n - 1) \in Nat /\ Leading(w, n - 1) \in Nat
          /\ Field(v, n) \in 0..(FieldMod - 1) /\ Field(w, n) \in 0..(FieldMod - 1)
      BY <1>1, FieldIs, LeadingNat, FieldModAssumption
    <1> QED
      BY <1>2, Digit, LeadingNext

\* What fewer fields decide stays decided.
LEMMA LeadingDecides ==
    ASSUME NEW v \in Version, NEW w \in Version, NEW n \in 0..4,
           Leading(v, n) < Leading(w, n)
    PROVE  Value(v) < Value(w)
    <1> DEFINE S == {m \in 0..4 : m >= n => Leading(v, m) < Leading(w, m)}
    <1>1. 0 \in S
      <2>1. n <= 0 => n = 0
        OBVIOUS
      <2> QED
        BY <2>1
    <1>2. ASSUME NEW m \in 1..4, m - 1 \in S PROVE m \in S
      <2>1. CASE m - 1 >= n
        BY <1>2, <2>1, LeadingStep
      <2>2. CASE ~(m - 1 >= n)
        <3>1. m >= n => m = n
          BY <2>2
        <3> QED
          BY <3>1
      <2> QED
        BY <2>1, <2>2
    <1> HIDE DEF S
    <1>3. 0..4 \subseteq S
      BY <1>1, <1>2, BoundedInduction
    <1>4. 4 \in 0..4
      OBVIOUS
    <1>5. Leading(v, 4) < Leading(w, 4)
      BY <1>3, <1>4 DEF S
    <1> QED
      BY <1>5, LeadingNat

\* Against a version of n fields the first n decide.
LEMMA LeadingOrder ==
    ASSUME NEW v \in Version, NEW w \in Version
    PROVE  /\ Value(w) < Value(v) <=> Leading(w, Len(v)) < Leading(v, Len(v))
           /\ Leading(w, Len(v)) <= Leading(v, Len(v)) /\ Len(w) <= Len(v) =>
                Value(w) <= Value(v)
    <1> DEFINE n == Len(v)
               S == {m \in 0..4 : /\ m >= n => (Leading(w, m) < Leading(v, m) <=> Leading(w, n) < Leading(v, n))
                                  /\ m >= n /\ Len(w) <= n /\ Leading(w, n) = Leading(v, n) =>
                                        Leading(w, m) = Leading(v, m)}
    <1>1. n \in 1..4 /\ Len(w) \in 1..4
      BY DEF Version
    <1>2. 0 \in S
      BY <1>1
    <1>3. ASSUME NEW m \in 1..4, m - 1 \in S PROVE m \in S
      <2>1. CASE m - 1 >= n
        <3>1. m > Len(v) /\ m - 1 \in 0..4
          BY <1>1, <2>1
        <3>2. Field(v, m) = 0 /\ Field(w, m) \in Nat /\ (Len(w) <= n => Field(w, m) = 0)
          <4>1. Field(v, m) = 0 /\ Field(w, m) \in Nat
            BY <3>1, FieldIs
          <4>2. Len(w) <= n => m > Len(w)
            BY <1>1, <3>1
          <4> HIDE DEF n
          <4> QED
            BY <4>1, <4>2, FieldIs
        <3>3. Leading(w, m) < Leading(v, m) <=> Leading(w, m - 1) < Leading(v, m - 1)
          BY <3>2, LeadingStep
        <3>4. Len(w) <= n /\ Leading(w, m - 1) = Leading(v, m - 1) => Leading(w, m) = Leading(v, m)
          BY <3>2, LeadingNext
        <3> HIDE DEF n
        <3> QED
          BY <1>3, <2>1, <3>3, <3>4
      <2>2. CASE ~(m - 1 >= n)
        <3>1. m >= n => m = n
          BY <1>1, <2>2
        <3> HIDE DEF n
        <3> QED
          BY <3>1
      <2> QED
        BY <2>1, <2>2
    <1> HIDE DEF S
    <1>4. 0..4 \subseteq S
      BY <1>2, <1>3, BoundedInduction
    <1>5. 4 \in S /\ 4 >= n
      <2>1. 4 \in 0..4
        OBVIOUS
      <2>2. 4 \in S
        BY <1>4, <2>1
      <2> QED
        BY <1>1, <2>2
    <1>6. /\ Leading(w, 4) < Leading(v, 4) <=> Leading(w, n) < Leading(v, n)
          /\ Len(w) <= n /\ Leading(w, n) = Leading(v, n) => Leading(w, 4) = Leading(v, 4)
      BY <1>5 DEF S
    <1>7. /\ Leading(w, n) \in Nat /\ Leading(v, n) \in Nat /\ n \in 0..4
          /\ Value(w) = Leading(w, 4) /\ Value(v) = Leading(v, 4)
          /\ Leading(w, 4) \in Nat /\ Leading(v, 4) \in Nat
      <2>1. n \in 0..4 /\ 4 \in 0..4
        BY <1>1
      <2> HIDE DEF n
      <2> QED
        BY <2>1, LeadingNat
    <1> HIDE DEF n
    <1>8. /\ Value(w) < Value(v) <=> Leading(w, n) < Leading(v, n)
          /\ Leading(w, n) <= Leading(v, n) /\ Len(w) <= n => Value(w) <= Value(v)
      BY <1>6, <1>7
    <1> QED
      BY <1>8 DEF n

\* The first n fields of a version, and the number they make.
LEMMA PrefixIs ==
    ASSUME NEW v \in Version, NEW n \in 1..4
    PROVE  LET w == [i \in 1..n |-> Field(v, i)]
           IN  /\ w \in Version /\ Len(w) = n /\ Prefix(v, n) = Value(w)
               /\ Leading(w, n) = Leading(v, n)
    <1> DEFINE w == [i \in 1..n |-> Field(v, i)]
    <1>1. \A i \in 1..n : i \in 1..4 /\ Field(v, i) \in 0..(FieldMod - 1)
      BY FieldIs
    <1>2. w \in Seq(0..(FieldMod - 1)) /\ Len(w) = n
      <2>1. w \in [1..n -> 0..(FieldMod - 1)] /\ n \in Nat
        BY <1>1
      <2> HIDE DEF w
      <2>2. w \in Seq(0..(FieldMod - 1))
        BY <2>1, SeqDef
      <2>3. DOMAIN w = 1..n /\ DOMAIN w = 1..Len(w) /\ Len(w) \in Nat
        BY <2>1, <2>2, LenProperties
      <2> QED
        BY <2>1, <2>2, <2>3
    <1>3. w \in Version
      BY <1>2 DEF Version
    <1>4. Prefix(v, n) = Value(w)
      BY DEF Prefix, Field
    <1> DEFINE S == {m \in 0..n : Leading(w, m) = Leading(v, m)}
    <1>5. 0 \in S
      BY <1>3, LeadingNat
    <1>6. ASSUME NEW m \in 1..n, m - 1 \in S PROVE m \in S
      <2>1. m \in 1..4 /\ m \in 0..n /\ m <= n /\ w[m] = Field(v, m)
        OBVIOUS
      <2> HIDE DEF w
      <2>2. m <= Len(w)
        BY <1>2, <2>1
      <2>3. Field(w, m) = w[m]
        BY <1>3, <2>1, <2>2, FieldIs
      <2>4. Field(w, m) = Field(v, m)
        BY <2>1, <2>3
      <2>5. Leading(w, m) = Leading(v, m)
        BY <1>3, <1>6, <2>1, <2>4, LeadingNext
      <2> QED
        BY <2>1, <2>5
    <1> HIDE DEF S
    <1>7. 0..n \subseteq S
      BY <1>5, <1>6, BoundedInduction
    <1>8. n \in S
      BY <1>7
    <1> QED
      BY <1>2, <1>3, <1>4, <1>8 DEF S

\* The same for the order of the first n fields and a version of n fields.
LEMMA PrefixOrder ==
    ASSUME NEW v \in Version, NEW w \in Version
    PROVE  /\ Prefix(w, Len(v)) <= Value(v) <=> Leading(w, Len(v)) <= Leading(v, Len(v))
           /\ Prefix(w, Len(v)) = Value(v) <=> Leading(w, Len(v)) = Leading(v, Len(v))
    <1> DEFINE n == Len(v)
               p == [i \in 1..n |-> Field(w, i)]
    <1>1. n \in 1..4
      BY DEF Version
    <1>2. /\ p \in Version /\ Len(p) = n /\ Prefix(w, n) = Value(p)
          /\ Leading(p, n) = Leading(w, n)
      BY <1>1, PrefixIs
    <1> HIDE DEF p
    <1>3. /\ Value(p) < Value(v) <=> Leading(p, n) < Leading(v, n)
          /\ Leading(p, n) <= Leading(v, n) => Value(p) <= Value(v)
      BY <1>2, LeadingOrder
    <1>4. /\ Value(v) < Value(p) <=> Leading(v, n) < Leading(p, n)
          /\ Leading(v, n) <= Leading(p, n) => Value(v) <= Value(p)
      BY <1>2, LeadingOrder
    <1>5. /\ Leading(p, n) \in Nat /\ Leading(v, n) \in Nat /\ n \in 0..4
          /\ Value(p) \in Nat /\ Value(v) \in Nat
      <2>1. n \in 0..4 /\ 4 \in 0..4
        BY <1>1
      <2> HIDE DEF n
      <2> QED
        BY <1>2, <2>1, LeadingNat
    <1> HIDE DEF n
    <1>6. /\ Value(p) <= Value(v) <=> Leading(p, n) <= Leading(v, n)
          /\ Value(p) = Value(v) <=> Leading(p, n) = Leading(v, n)
      BY <1>3, <1>4, <1>5
    <1> QED
      BY <1>2, <1>6 DEF n

\* Versions that agree in the first n fields.
LEMMA LeadingSame ==
    ASSUME NEW v \in Version, NEW w \in Version, NEW n \in 0..4,
           \A i \in 1..n : Field(v, i) = Field(w, i)
    PROVE  Leading(v, n) = Leading(w, n)
    <1> DEFINE S == {m \in 0..n : Leading(v, m) = Leading(w, m)}
    <1>1. 0 \in S
      BY LeadingNat
    <1>2. ASSUME NEW m \in 1..n, m - 1 \in S PROVE m \in S
      <2>1. m \in 1..4 /\ m \in 0..n
        OBVIOUS
      <2> QED
        BY <1>2, <2>1, LeadingNext
    <1> HIDE DEF S
    <1>3. 0..n \subseteq S
      BY <1>1, <1>2, BoundedInduction
    <1>4. n \in S
      BY <1>3
    <1> QED
      BY <1>4 DEF S

LEMMA MaxIsGreatest ==
    ASSUME NEW n \in Nat, NEW S, S \subseteq 1..n, S # {}
    PROVE  Max(S) \in S /\ \A m \in S : Max(S) >= m
    <1> DEFINE T == {n - i : i \in S}
    <1>1. PICK k \in T : \A m \in T : k <= m
      <2>1. \A i \in S : n - i \in Nat
        OBVIOUS
      <2>2. T \subseteq Nat /\ T # {}
        BY <2>1
      <2> HIDE DEF T
      <2> QED
        BY <2>2, LeastNumber
    <1>2. PICK i \in S : k = n - i
      OBVIOUS
    <1>3. \A j \in S : i >= j
      BY <1>1, <1>2
    <1>4. \E x \in S : \A y \in S : x >= y
      BY <1>3
    <1> QED
      BY <1>4 DEF Max

\* compare() orders versions as the numbers that their fields make.
LEMMA CompareIs ==
    ASSUME NEW v \in Version, NEW w \in Version
    PROVE  /\ compare(v, w) \in {-1, 0, 1}
           /\ compare(v, w) < 0 <=> Value(v) < Value(w)
           /\ compare(v, w) > 0 <=> Value(w) < Value(v)
    <1> DEFINE n == Min({Len(v), Len(w)})
               d == {i \in 1..n : v[i] # w[i]}
               More(u) == \E i \in (n + 1)..Len(u) : u[i] # 0
               c == compare(v, w)
    <1>1. Len(v) \in 1..4 /\ Len(w) \in 1..4
      BY DEF Version
    <1>2. n \in {Len(v), Len(w)} /\ n <= Len(v) /\ n <= Len(w) /\ n \in 1..4
      <2>1. {Len(v), Len(w)} \subseteq Nat /\ {Len(v), Len(w)} # {}
        BY <1>1
      <2>2. n \in {Len(v), Len(w)} /\ n <= Len(v) /\ n <= Len(w)
        BY <2>1, MinIsLeast
      <2> HIDE DEF n
      <2> QED
        BY <1>1, <2>2
    <1>3. c = CASE d # {} -> IF v[Min(d)] < w[Min(d)] THEN -1 ELSE 1
                [] d = {} /\ More(v) -> 1
                [] d = {} /\ More(w) -> -1
                [] OTHER -> 0
      BY Zenon DEF compare
    <1> HIDE DEF n, c
    <1>4. \A i \in 1..n : i \in 1..4 /\ Field(v, i) = v[i] /\ Field(w, i) = w[i]
      <2> SUFFICES ASSUME NEW i \in 1..n
                   PROVE  i \in 1..4 /\ Field(v, i) = v[i] /\ Field(w, i) = w[i]
        OBVIOUS
      <2>1. i \in 1..4 /\ i <= Len(v) /\ i <= Len(w)
        BY <1>1, <1>2
      <2> QED
        BY <2>1, FieldIs
    <1>5. \A u \in {v, w} : \A i \in (n + 1)..Len(u) : i \in 1..4 /\ Field(u, i) = u[i] /\ u[i] \in Nat
      <2> SUFFICES ASSUME NEW u \in {v, w}, NEW i \in (n + 1)..Len(u)
                   PROVE  i \in 1..4 /\ Field(u, i) = u[i] /\ u[i] \in Nat
        OBVIOUS
      <2>1. u \in Version /\ Len(u) \in 1..4
        BY <1>1
      <2>2. i \in Int /\ n + 1 <= i /\ i <= Len(u)
        BY <1>2, <2>1
      <2>3. i \in 1..4 /\ 1 <= i
        <3> DEFINE l == Len(u)
        <3>1. l \in 1..4 /\ i <= l
          BY <2>1, <2>2
        <3> HIDE DEF l
        <3> QED
          BY <1>2, <2>2, <3>1
      <2> HIDE DEF n
      <2>4. Field(u, i) = u[i] /\ Field(u, i) \in Nat
        BY <2>1, <2>2, <2>3, FieldIs
      <2> QED
        BY <2>3, <2>4
    <1>6. ~(Len(v) > n /\ Len(w) > n)
      BY <1>1, <1>2
    <1>7. CASE d # {}
      <2> DEFINE k == Min(d)
      <2>1. k \in d /\ \A i \in d : k <= i
        <3>1. d \subseteq Nat
          BY <1>1, <1>2
        <3> HIDE DEF d
        <3> QED
          BY <1>7, <3>1, MinIsLeast
      <2> HIDE DEF k
      <2>2. k \in 1..n /\ k \in 1..4 /\ Field(v, k) # Field(w, k) /\ k - 1 \in 0..4 /\ k \in 0..4
        BY <1>4, <2>1
      <2>3. \A i \in 1..(k - 1) : Field(v, i) = Field(w, i)
        <3> SUFFICES ASSUME NEW i \in 1..(k - 1) PROVE Field(v, i) = Field(w, i)
          OBVIOUS
        <3>1. i \in 1..n /\ ~(k <= i)
          BY <1>1, <1>2, <2>2
        <3> QED
          BY <1>4, <2>1, <3>1
      <2>4. Leading(v, k - 1) = Leading(w, k - 1)
        BY <2>2, <2>3, LeadingSame
      <2>5. Field(v, k) \in Nat /\ Field(w, k) \in Nat /\ Leading(v, k - 1) \in Nat
        BY <2>2, FieldIs, LeadingNat
      <2>6. CASE Field(v, k) < Field(w, k)
        <3>1. Leading(v, k) < Leading(w, k)
          BY <2>2, <2>4, <2>6, LeadingStep
        <3>2. Value(v) < Value(w)
          BY <2>2, <3>1, LeadingDecides
        <3>3. c = -1
          BY <1>3, <1>4, <1>7, <2>2, <2>6 DEF k
        <3> QED
          BY <3>2, <3>3, LeadingNat, 4 \in 0..4 DEF c
      <2>7. CASE Field(w, k) < Field(v, k)
        <3>1. Leading(w, k) < Leading(v, k)
          BY <2>2, <2>4, <2>7, LeadingStep
        <3>2. Value(w) < Value(v)
          BY <2>2, <3>1, LeadingDecides
        <3>3. ~(Field(v, k) < Field(w, k))
          BY <2>5, <2>7
        <3>4. c = 1
          BY <1>3, <1>4, <1>7, <2>2, <3>3 DEF k
        <3> QED
          BY <3>2, <3>4, LeadingNat, 4 \in 0..4 DEF c
      <2> QED
        BY <2>2, <2>5, <2>6, <2>7
    <1>8. ASSUME d = {}, NEW u \in {v, w}, NEW z \in {v, w}, Len(z) = n, More(u)
          PROVE  Value(z) < Value(u)
      <2>1. PICK i \in (n + 1)..Len(u) : u[i] # 0
        BY <1>8
      <2>2. u \in Version /\ z \in Version /\ n \in 1..4
        BY <1>1, <1>2
      <2>3. i \in 1..4 /\ i > n /\ Field(u, i) # 0 /\ Field(u, i) \in Nat /\ Field(z, i) = 0
        <3>1. i \in 1..4 /\ Field(u, i) = u[i] /\ u[i] \in Nat
          BY <1>5
        <3>2. i > Len(z)
          BY <1>8, <2>2, <3>1
        <3> QED
          BY <1>8, <2>1, <2>2, <3>1, <3>2, FieldIs
      <2>4. \A j \in 1..n : Field(z, j) = Field(u, j)
        BY <1>4, <1>8
      <2>5. Leading(z, n) = Leading(u, n)
        BY <2>2, <2>4, LeadingSame
      <2> DEFINE S == {m \in 0..4 : m >= n =>
                          /\ Leading(z, m) <= Leading(u, m)
                          /\ m >= i => Leading(z, m) < Leading(u, m)}
      <2>6. 0 \in S
        BY <2>2
      <2>7. ASSUME NEW m \in 1..4, m - 1 \in S PROVE m \in S
        <3> SUFFICES ASSUME m >= n
                     PROVE  /\ Leading(z, m) <= Leading(u, m)
                            /\ m >= i => Leading(z, m) < Leading(u, m)
          OBVIOUS
        <3>1. /\ m - 1 \in 0..4 /\ m \in 0..4 /\ Leading(z, m - 1) \in Nat /\ Leading(u, m - 1) \in Nat
              /\ Leading(z, m) \in Nat /\ Leading(u, m) \in Nat
              /\ Field(z, m) \in Nat /\ Field(u, m) \in Nat
          <4>1. m - 1 \in 0..4 /\ m \in 0..4
            OBVIOUS
          <4> QED
            BY <2>2, <4>1, LeadingNat, FieldIs
        <3>2. CASE m = n
          BY <2>3, <2>5, <3>1, <3>2
        <3>3. CASE m # n
          <4>1. m - 1 >= n /\ m > n
            BY <2>2, <3>3
          <4>2. Field(z, m) = 0
            BY <1>8, <2>2, <4>1, FieldIs
          <4>3. /\ Leading(u, m) < Leading(z, m)
                     <=> \/ Leading(u, m - 1) < Leading(z, m - 1)
                         \/ Leading(u, m - 1) = Leading(z, m - 1) /\ Field(u, m) < Field(z, m)
                /\ Leading(z, m) < Leading(u, m)
                     <=> \/ Leading(z, m - 1) < Leading(u, m - 1)
                         \/ Leading(z, m - 1) = Leading(u, m - 1) /\ Field(z, m) < Field(u, m)
            BY <2>2, LeadingStep
          <4>4. Leading(z, m - 1) <= Leading(u, m - 1)
                /\ (m - 1 >= i => Leading(z, m - 1) < Leading(u, m - 1))
            BY <2>7, <4>1
          <4>5. m >= i => m = i \/ m - 1 >= i
            BY <2>3
          <4>6. m = i => Field(u, m) > 0
            BY <2>3
          <4> QED
            BY <3>1, <4>2, <4>3, <4>4, <4>5, <4>6
        <3> QED
          BY <3>2, <3>3
      <2> HIDE DEF S
      <2>8. 0..4 \subseteq S
        BY <2>6, <2>7, BoundedInduction
      <2>9. 4 \in S /\ 4 >= n /\ 4 >= i
        <3>1. 4 \in 0..4
          OBVIOUS
        <3> QED
          BY <2>2, <2>3, <2>8, <3>1
      <2> QED
        BY <2>2, <2>9, LeadingNat DEF S
    <1>9. CASE d = {} /\ More(v)
      <2>1. Len(w) = n
        BY <1>1, <1>2, <1>6, <1>9
      <2>2. Value(w) < Value(v)
        BY <1>8, <1>9, <2>1
      <2>3. c = 1
        <3>1. ~More(w)
          BY <2>1, <1>2
        <3> HIDE DEF d, More
        <3> QED
          BY <1>3, <1>9, <3>1
      <2> QED
        BY <2>2, <2>3, LeadingNat, 4 \in 0..4 DEF c
    <1>10. CASE d = {} /\ ~More(v) /\ More(w)
      <2>1. Len(v) = n
        BY <1>1, <1>2, <1>6, <1>10
      <2>2. Value(v) < Value(w)
        BY <1>8, <1>10, <2>1
      <2>3. c = -1
        BY <1>3, <1>10
      <2> QED
        BY <2>2, <2>3, LeadingNat, 4 \in 0..4 DEF c
    <1>11. CASE d = {} /\ ~More(v) /\ ~More(w)
      <2>1. \A i \in 1..4 : Field(v, i) = Field(w, i)
        <3> SUFFICES ASSUME NEW i \in 1..4 PROVE Field(v, i) = Field(w, i)
          OBVIOUS
        <3>1. CASE i <= n
          <4>1. i \in 1..n
            BY <1>1, <1>2, <3>1
          <4> QED
            BY <1>4, <1>11, <4>1
        <3>2. CASE ~(i <= n)
          <4>1. ASSUME NEW u \in {v, w}, ~More(u) PROVE Field(u, i) = 0
            <5>1. u \in Version /\ Len(u) \in 1..4 /\ n \in 1..4
              BY <1>1, <1>2
            <5>2. CASE i <= Len(u)
              <6>1. i \in (n + 1)..Len(u)
                BY <3>2, <5>1, <5>2
              <6>2. u[i] = 0
                BY <4>1, <6>1
              <6> QED
                BY <1>5, <6>1, <6>2
            <5>3. CASE ~(i <= Len(u))
              <6>1. u \in Version /\ i > Len(u)
                BY <5>1, <5>3
              <6> HIDE DEF More
              <6> QED
                BY <6>1, FieldIs
            <5> QED
              BY <5>2, <5>3
          <4> HIDE DEF More
          <4> QED
            BY <1>11, <4>1
        <3> QED
          BY <3>1, <3>2
      <2>2. Leading(v, 4) = Leading(w, 4) /\ 4 \in 0..4
        <3>1. 4 \in 0..4
          OBVIOUS
        <3> QED
          BY <2>1, <3>1, LeadingSame
      <2>3. c = 0
        BY <1>3, <1>11
      <2> QED
        BY <2>2, <2>3, LeadingNat DEF c
    <1> QED
      BY <1>7, <1>9, <1>10, <1>11

\* Adding one to the last field, with its carry, adds one to the number.
LEMMA IncrementIs ==
    ASSUME NEW v \in Version, NEW j \in 1..Len(v), v[j] < FieldMod - 1
    PROVE  LET w == Increment(v)
           IN  w \in Version /\ Len(w) = Len(v) /\ Leading(w, Len(v)) = Leading(v, Len(v)) + 1
    <1> DEFINE w == Increment(v)
               n == Len(v)
               room == {i \in DOMAIN v : v[i] < FieldMax}
               k == Max(room)
    <1>1. /\ n \in 1..4 /\ DOMAIN v = 1..n /\ \A i \in 1..n : v[i] \in 0..(FieldMod - 1)
          /\ FieldMod \in Nat /\ FieldMax = FieldMod - 1
      <2>1. DOMAIN v = 1..n /\ n \in 1..4 /\ v \in Seq(0..(FieldMod - 1))
        BY LenProperties DEF Version
      <2>2. FieldMod \in Nat /\ FieldMax = FieldMod - 1
        BY FieldModAssumption DEF FieldMax
      <2>3. \A i \in 1..n : v[i] \in 0..(FieldMod - 1)
        <3> DEFINE D == 0..(FieldMod - 1)
        <3>1. v \in Seq(D)
          BY <2>1
        <3> HIDE DEF D
        <3>2. \A i \in 1..n : v[i] \in D
          BY <3>1, ElementOfSeq
        <3> QED
          BY <3>2 DEF D
      <2> HIDE DEF n
      <2> QED
        BY <2>1, <2>2, <2>3
    <1>2. room # {} /\ room \subseteq 1..n
      BY <1>1
    <1>3. k \in room /\ \A i \in room : k >= i
      <2>1. n \in Nat
        BY <1>1
      <2> HIDE DEF room, n
      <2> QED
        BY <1>2, <2>1, MaxIsGreatest
    <1>4. w = [i \in DOMAIN v |-> IF i < k THEN v[i] ELSE IF i = k THEN v[i] + 1 ELSE 0]
      <2>1. w = LET m == IF room = {} THEN 0 ELSE Max(room)
                IN  [i \in DOMAIN v |-> IF i < m THEN v[i] ELSE IF i = m THEN v[i] + 1 ELSE 0]
        BY DEF Increment
      <2> HIDE DEF room, w
      <2> QED
        BY <1>2, <2>1
    <1>5. k \in 1..n /\ v[k] < FieldMod - 1 /\ \A i \in 1..n : i > k => v[i] = FieldMod - 1
      <2>1. k \in 1..n /\ v[k] < FieldMod - 1
        BY <1>1, <1>2, <1>3
      <2>2. ASSUME NEW i \in 1..n, i > k PROVE v[i] = FieldMod - 1
        <3>1. i \notin room
          <4> HIDE DEF room, n
          <4> QED
            BY <1>1, <1>3, <2>1, <2>2
        <3>2. ~(v[i] < FieldMod - 1)
          BY <1>1, <3>1
        <3> QED
          BY <1>1, <3>2
      <2> QED
        BY <2>1, <2>2
    <1> HIDE DEF k, room, w
    <1>6. w \in Version /\ Len(w) = n
      <2>1. \A i \in 1..n : w[i] \in 0..(FieldMod - 1)
        BY <1>1, <1>4, <1>5
      <2>2. w \in [1..n -> 0..(FieldMod - 1)] /\ n \in Nat
        BY <1>1, <1>4, <2>1
      <2>3. w \in Seq(0..(FieldMod - 1))
        BY <2>2, SeqDef
      <2>4. Len(w) = n
        BY <1>1, <2>2, <2>3, LenProperties
      <2> QED
        BY <1>1, <2>3, <2>4 DEF Version
    <1> DEFINE S == {m \in 0..n : IF m < k THEN Leading(w, m) = Leading(v, m)
                                  ELSE Leading(w, m) = Leading(v, m) + 1}
    <1>7. 0 \in S
      BY <1>1, <1>5, <1>6, LeadingNat
    <1>8. ASSUME NEW m \in 1..n, m - 1 \in S PROVE m \in S
      <2>1. m \in 1..4 /\ m \in 0..n /\ m - 1 \in 0..4 /\ m <= n
        <3> HIDE DEF n
        <3> QED
          BY <1>1
      <2>2. /\ Leading(w, m) = Leading(w, m - 1) * FieldMod + Field(w, m)
            /\ Leading(v, m) = Leading(v, m - 1) * FieldMod + Field(v, m)
            /\ Field(v, m) = v[m] /\ Field(w, m) = w[m]
            /\ Leading(v, m - 1) \in Nat /\ Leading(v, m) \in Nat
        <3>1. m \in 0..4 /\ m <= Len(w) /\ m <= Len(v)
          BY <1>6, <2>1
        <3> HIDE DEF n
        <3> QED
          BY <1>6, <2>1, <3>1, LeadingNext, FieldIs, LeadingNat
      <2>3. w[m] = IF m < k THEN v[m] ELSE IF m = k THEN v[m] + 1 ELSE 0
        BY <1>1, <1>4
      <2>4. v[m] \in 0..(FieldMod - 1) /\ FieldMod \in Nat /\ k \in 1..n
        BY <1>1, <1>5
      <2> DEFINE a == Leading(v, m - 1)
      <2>5. CASE m < k
        <3>1. Leading(w, m - 1) = a
          BY <1>8, <2>4, <2>5
        <3>2. Leading(w, m) = Leading(v, m)
          BY <2>2, <2>3, <2>5, <3>1
        <3> QED
          BY <2>1, <2>5, <3>2
      <2>6. CASE m = k
        <3>1. Leading(w, m - 1) = a
          BY <1>8, <2>4, <2>6
        <3>2. Leading(w, m) = a * FieldMod + (v[m] + 1)
          BY <2>2, <2>3, <2>6, <3>1
        <3>3. a * FieldMod \in Nat
          BY <2>2, <2>4
        <3>4. Leading(v, m) = a * FieldMod + v[m]
          BY <2>2
        <3> DEFINE p == a * FieldMod
        <3>5. p \in Nat /\ v[m] \in Nat /\ Leading(w, m) = p + (v[m] + 1) /\ Leading(v, m) = p + v[m]
          BY <2>4, <3>2, <3>3, <3>4
        <3> HIDE DEF p
        <3>6. Leading(w, m) = Leading(v, m) + 1
          BY <3>5
        <3> QED
          BY <2>1, <2>6, <3>6
      <2>7. CASE m > k
        <3>1. Leading(w, m - 1) = a + 1
          BY <1>8, <2>4, <2>7
        <3>2. v[m] = FieldMod - 1
          BY <1>5, <2>7
        <3>3. ~(m < k) /\ m # k
          BY <2>4, <2>7
        <3>4. Leading(w, m) = (a + 1) * FieldMod
          BY <2>2, <2>3, <2>4, <3>1, <3>3
        <3>5. (a + 1) * FieldMod = a * FieldMod + FieldMod /\ a * FieldMod \in Nat
          BY <2>2, <2>4
        <3> HIDE DEF a
        <3>6. Leading(w, m) = Leading(v, m) + 1
          BY <2>2, <2>4, <3>2, <3>4, <3>5 DEF a
        <3> QED
          BY <2>1, <3>3, <3>6
      <2> QED
        BY <2>4, <2>5, <2>6, <2>7
    <1> HIDE DEF S
    <1>9. 0..n \subseteq S
      <2>1. n \in Nat
        BY <1>1
      <2> HIDE DEF n
      <2> QED
        BY <1>7, <1>8, <2>1, BoundedInduction
    <1>10. n \in 0..n /\ ~(n < k)
      <2> HIDE DEF n
      <2> QED
        BY <1>1, <1>5
    <1>11. n \in S
      BY <1>9, <1>10
    <1>12. Leading(w, n) = Leading(v, n) + 1
      BY <1>10, <1>11 DEF S
    <1> QED
      BY <1>6, <1>12 DEF w

\* A well-formed text is the version it spells.
LEMMA ParsedVersion ==
    ASSUME NEW text, VersionText(text), PlainVersion(text)
    PROVE  LET v == Spelled(text)
           IN  /\ J!VersionNumberFromString(text) = {v}
               /\ v \in Version /\ Len(v) = Len(text)
               /\ \A i \in {1} \union 1..(Len(v) - 1) : v[i] < FieldMod - 1
    <1> DEFINE v == Spelled(text)
               n == Len(text)
    <1>1. /\ FieldMod \in Nat \ {0, 1} /\ LongMod \in Nat /\ LongMod >= FieldMod
          /\ J!FieldMax = FieldMod - 1 /\ FieldMax = FieldMod - 1
      BY FieldModAssumption DEF FieldMax, J!FieldMax
    <1>2. n \in 1..4 /\ DOMAIN text = 1..n
      BY DEF VersionText, PlainVersion, kMaxFields
    <1>3. \A i \in 1..n : text[i][1] = "number" /\ text[i][2] \in Nat /\ text[i][2] < FieldMod
      <2> SUFFICES ASSUME NEW i \in 1..n
                   PROVE  text[i][1] = "number" /\ text[i][2] \in Nat /\ text[i][2] < FieldMod
        OBVIOUS
      <2>1. text[i][1] = "number" /\ text[i][2] < FieldMod
        BY <1>2 DEF PlainVersion
      <2>2. text[i] \in Refused \/ text[i][2] \in Nat
        BY <1>2 DEF VersionText
      <2>3. text[i] \notin Refused
        BY <2>1 DEF Refused
      <2> QED
        BY <2>1, <2>2, <2>3
    <1>4. \A i \in {1} \union 1..(n - 1) : i \in 1..n /\ text[i][2] < FieldMod - 1
      BY <1>1, <1>2 DEF PlainVersion
    <1>5. v = [i \in 1..n |-> text[i][2]]
      BY <1>2 DEF Spelled
    <1>6. \A i \in 1..n : v[i] \in 0..(FieldMod - 1) /\ v[i] = text[i][2]
      BY <1>1, <1>3, <1>5
    <1> HIDE DEF v
    <1>7. v \in Version /\ Len(v) = n
      <2>1. v \in [1..n -> 0..(FieldMod - 1)] /\ n \in Nat
        BY <1>2, <1>5, <1>6
      <2> HIDE DEF n
      <2>2. v \in Seq(0..(FieldMod - 1))
        BY <2>1, SeqDef
      <2>3. Len(v) = n
        BY <2>1, <2>2, LenProperties
      <2> QED
        BY <1>2, <2>2, <2>3 DEF Version
    <1>8. \A i \in 1..n : text[i] \notin J!Refused
      <2> SUFFICES ASSUME NEW i \in 1..n, text[i] \in J!Refused PROVE FALSE
        OBVIOUS
      <2> QED
        BY <1>3 DEF J!Refused
    <1>9. J!VersionNumberFromString(text) = {v}
      <2> DEFINE Bad(i) == \/ text[i] \in J!Refused
                           \/ i < n /\ text[i][2] >= J!FieldMax
                           \/ text[i][2] >= LongMod
      <2>1. J!Last(text) = text[n]
        BY DEF J!Last
      <2>2. text[n] # J!Empty
        <3>1. n \in 1..n
          BY <1>2
        <3> QED
          BY <1>3, <3>1 DEF J!Empty
      <2>3. \A i \in 1..n : ~Bad(i)
        <3> SUFFICES ASSUME NEW i \in 1..n PROVE ~Bad(i)
          OBVIOUS
        <3>1. text[i][2] \in Nat /\ text[i][2] < FieldMod /\ text[i] \notin J!Refused
          BY <1>3, <1>8
        <3>2. i < n => text[i][2] < FieldMod - 1
          <4>1. i < n => i \in 1..(n - 1)
            BY <1>2
          <4> QED
            BY <1>4, <4>1
        <3> QED
          BY <1>1, <3>1, <3>2
      <2>4. J!VersionNumberFromString(text)
              = IF n \notin 1..4 \/ \E i \in 1..n : Bad(i) THEN {}
                ELSE {[i \in 1..n |-> text[i][2] % FieldMod]}
        BY <2>1, <2>2, Zenon DEF J!VersionNumberFromString, J!kMaxFields
      <2>5. [i \in 1..n |-> text[i][2] % FieldMod] = v
        <3>1. \A i \in 1..n : text[i][2] % FieldMod = text[i][2]
          <4>1. \A x \in 0..(FieldMod - 1) : x % FieldMod = x
            BY <1>1
          <4> QED
            BY <1>6, <4>1
        <3> HIDE DEF n
        <3> QED
          BY <1>5, <3>1
      <2> HIDE DEF Bad, n
      <2> QED
        BY <1>2, <2>3, <2>4, <2>5
    <1> QED
      BY <1>4, <1>6, <1>7, <1>9 DEF v

\* The two readings of the module of versions are one.
LEMMA SameOperators ==
    ASSUME NEW v, NEW w
    PROVE  /\ J!compare(v, w) = compare(v, w)
           /\ J!Increment(v) = Increment(v)
           /\ J!fieldValue(v, w) = fieldValue(v, w)
    <1>1. J!compare(v, w) = compare(v, w)
      BY DEF J!compare, compare, J!Min, Min
    <1>2. J!Increment(v) = Increment(v)
      BY DEF J!Increment, Increment, J!Max, Max, J!FieldMax,
             FieldMax
    <1>3. J!fieldValue(v, w) = fieldValue(v, w)
      BY DEF J!fieldValue, fieldValue
    <1> QED
      BY <1>1, <1>2, <1>3

\* A version passes one comparison of a constraint.
Meets(x, part) ==
    LET c == compare(x, part.version)
    IN  CASE part.type = ">" -> c > 0
          [] part.type = ">=" -> c >= 0
          [] part.type = "<" -> c < 0
          [] part.type = "<=" -> c <= 0
          [] OTHER -> c = 0

LEMMA MeetsIs ==
    ASSUME NEW v \in Version, NEW x \in Version
    PROVE  /\ Meets(x, J!Part(">", v)) <=> Value(x) > Value(v)
           /\ Meets(x, J!Part(">=", v)) <=> Value(x) >= Value(v)
           /\ Meets(x, J!Part("<", v)) <=> Value(x) < Value(v)
           /\ Meets(x, J!Part("<=", v)) <=> Value(x) <= Value(v)
           /\ Meets(x, J!Part("=", v)) <=> Value(x) = Value(v)
    <1> DEFINE c == compare(x, v)
    <1>1. /\ Meets(x, J!Part(">", v)) <=> c > 0
          /\ Meets(x, J!Part(">=", v)) <=> c >= 0
          /\ Meets(x, J!Part("<", v)) <=> c < 0
          /\ Meets(x, J!Part("<=", v)) <=> c <= 0
          /\ Meets(x, J!Part("=", v)) <=> c = 0
      <2> HIDE DEF c
      <2> QED
        BY DEF Meets, J!Part, c
    <1>2. /\ c \in {-1, 0, 1}
          /\ c < 0 <=> Value(x) < Value(v)
          /\ c > 0 <=> Value(v) < Value(x)
      BY CompareIs
    <1>3. Value(x) \in Nat /\ Value(v) \in Nat
      <2>1. 4 \in 0..4
        OBVIOUS
      <2> QED
        BY <2>1, LeadingNat
    <1> HIDE DEF c
    <1> QED
      BY <1>1, <1>2, <1>3

LEMMA PartsMet ==
    ASSUME NEW x, NEW p, NEW q
    PROVE  /\ isSatisfiedBy(<<>>, x)
           /\ isSatisfiedBy(<<p>>, x) <=> Meets(x, p)
           /\ isSatisfiedBy(<<p, q>>, x) <=> Meets(x, p) /\ Meets(x, q)
    <1>1. \A parts : isSatisfiedBy(parts, x) <=> \A i \in DOMAIN parts : Meets(x, parts[i])
      BY DEF isSatisfiedBy, Meets
    <1>2. /\ DOMAIN <<>> = {} /\ DOMAIN <<p>> = {1} /\ DOMAIN <<p, q>> = {1, 2}
          /\ <<p>>[1] = p /\ <<p, q>>[1] = p /\ <<p, q>>[2] = q
      OBVIOUS
    <1> QED
      BY <1>1, <1>2, Zenon

\* A version made of numbers below the limit.
LEMMA SmallVersions ==
    ASSUME NEW a \in 0..(FieldMod - 1), NEW b \in 0..(FieldMod - 1)
    PROVE  /\ <<a>> \in Version /\ Len(<<a>>) = 1 /\ Field(<<a>>, 1) = a
           /\ <<a, b>> \in Version /\ Len(<<a, b>>) = 2 /\ Field(<<a, b>>, 1) = a
           /\ Field(<<a, b>>, 2) = b
    <1>1. <<a>> \in Version /\ Len(<<a>>) = 1 /\ <<a, b>> \in Version /\ Len(<<a, b>>) = 2
      BY DEF Version
    <1>2. <<a>>[1] = a /\ <<a, b>>[1] = a /\ <<a, b>>[2] = b
      OBVIOUS
    <1>3. 1 \in 1..4 /\ 2 \in 1..4 /\ 1 <= 1 /\ 1 <= 2 /\ 2 <= 2
      OBVIOUS
    <1> QED
      BY <1>1, <1>2, <1>3, FieldIs

\* Below a bound whose first n fields are one more than those of v.
LEMMA UpToNext ==
    ASSUME NEW v \in Version, NEW x \in Version, NEW bound \in Version,
           NEW n \in 1..4, Len(bound) = n, Leading(bound, n) = Leading(v, n) + 1
    PROVE  /\ Value(x) < Value(bound) <=> Leading(x, n) <= Leading(v, n)
           /\ Value(x) >= Value(v) /\ Value(x) < Value(bound)
                <=> Value(x) >= Value(v) /\ Prefix(x, n) = Prefix(v, n)
    <1> DEFINE p == [i \in 1..n |-> Field(v, i)]
    <1>1. /\ Leading(x, n) \in Nat /\ Leading(v, n) \in Nat
          /\ Value(x) \in Nat /\ Value(v) \in Nat
      <2>1. n \in 0..4 /\ 4 \in 0..4
        OBVIOUS
      <2> QED
        BY <2>1, LeadingNat
    <1>2. Value(x) < Value(bound) <=> Leading(x, n) < Leading(bound, n)
      BY LeadingOrder
    <1>3. Value(x) < Value(bound) <=> Leading(x, n) <= Leading(v, n)
      <2>1. Leading(bound, n) = Leading(v, n) + 1
        OBVIOUS
      <2> QED
        BY <1>1, <1>2, <2>1
    <1>4. Leading(x, n) < Leading(v, n) => Value(x) < Value(v)
      <2>1. n \in 0..4
        OBVIOUS
      <2> QED
        BY <2>1, LeadingDecides
    <1>5. Prefix(x, n) = Prefix(v, n) <=> Leading(x, n) = Leading(v, n)
      <2>1. /\ p \in Version /\ Len(p) = n /\ Prefix(v, n) = Value(p)
            /\ Leading(p, n) = Leading(v, n)
        BY PrefixIs
      <2> HIDE DEF p
      <2> QED
        BY <2>1, PrefixOrder
    <1>6. Value(x) >= Value(v) /\ Value(x) < Value(bound)
            <=> Value(x) >= Value(v) /\ Prefix(x, n) = Prefix(v, n)
      BY <1>1, <1>3, <1>4, <1>5
    <1> QED
      BY <1>3, <1>6

\* A bare version: those that start with it.
LEMMA BareMeans ==
    ASSUME NEW v \in Version, NEW x \in Version,
           NEW j \in 1..Len(v), v[j] < FieldMod - 1
    PROVE  LET raised == Increment(v)
           IN  /\ raised \in Version
               /\ Value(x) < Value(raised) <=> Prefix(x, Len(v)) <= Value(v)
               /\ Value(x) >= Value(v) /\ Value(x) < Value(raised)
                    <=> Prefix(x, Len(v)) = Value(v)
    <1> DEFINE bound == Increment(v)
               n == Len(v)
    <1>1. bound \in Version /\ Len(bound) = n /\ Leading(bound, n) = Leading(v, n) + 1
      BY IncrementIs
    <1>2. n \in 1..4
      BY DEF Version
    <1> HIDE DEF bound
    <1>3. Value(x) < Value(bound) <=> Leading(x, n) <= Leading(v, n)
      <2> HIDE DEF n
      <2> QED
        BY <1>1, <1>2, UpToNext
    <1>4. Value(x) < Value(v) <=> Leading(x, n) < Leading(v, n)
      BY LeadingOrder
    <1>5. /\ Prefix(x, n) <= Value(v) <=> Leading(x, n) <= Leading(v, n)
          /\ Prefix(x, n) = Value(v) <=> Leading(x, n) = Leading(v, n)
      BY PrefixOrder
    <1>6. /\ Leading(x, n) \in Nat /\ Leading(v, n) \in Nat
          /\ Value(x) \in Nat /\ Value(v) \in Nat
      <2>1. n \in 0..4 /\ 4 \in 0..4
        BY <1>2
      <2> HIDE DEF n
      <2> QED
        BY <2>1, LeadingNat
    <1> HIDE DEF n
    <1>7. /\ Value(x) < Value(bound) <=> Prefix(x, n) <= Value(v)
          /\ Value(x) >= Value(v) /\ Value(x) < Value(bound)
                <=> Prefix(x, n) = Value(v)
      BY <1>3, <1>4, <1>5, <1>6
    <1> QED
      BY <1>1, <1>7 DEF n, bound

\* A tilde keeps the first two fields, a caret the first.
LEMMA TildeMeans ==
    ASSUME NEW v \in Version, NEW x \in Version, Field(v, 2) + 1 < FieldMod
    PROVE  LET bound == <<Field(v, 1), Field(v, 2) + 1>>
           IN  /\ bound \in Version
               /\ Value(x) >= Value(v) /\ Value(x) < Value(bound)
                    <=> Value(x) >= Value(v) /\ Prefix(x, 2) = Prefix(v, 2)
    <1> DEFINE bound == <<Field(v, 1), Field(v, 2) + 1>>
    <1>1. /\ Field(v, 1) \in 0..(FieldMod - 1) /\ Field(v, 2) \in 0..(FieldMod - 1)
          /\ FieldMod \in Nat /\ 1 \in 1..4 /\ 2 \in 1..4 /\ 1 \in 0..4
      <2>1. 1 \in 1..4 /\ 2 \in 1..4 /\ 1 \in 0..4
        OBVIOUS
      <2> QED
        BY <2>1, FieldIs, FieldModAssumption
    <1>2. Field(v, 2) + 1 \in 0..(FieldMod - 1)
      BY <1>1
    <1>3. /\ bound \in Version /\ Len(bound) = 2 /\ Field(bound, 1) = Field(v, 1)
          /\ Field(bound, 2) = Field(v, 2) + 1
      BY <1>1, <1>2, SmallVersions
    <1> HIDE DEF bound
    <1>4. Leading(bound, 1) = Leading(v, 1) /\ Leading(v, 1) \in Nat
      <2>1. \A i \in 1..1 : Field(bound, i) = Field(v, i)
        BY <1>3
      <2> QED
        BY <1>1, <1>3, <2>1, LeadingSame, LeadingNat
    <1>5. /\ Leading(bound, 2) = Leading(bound, 1) * FieldMod + Field(bound, 2)
          /\ Leading(v, 2) = Leading(v, 1) * FieldMod + Field(v, 2)
      <2>1. 2 - 1 = 1
        OBVIOUS
      <2>2. /\ Leading(bound, 2) = Leading(bound, 2 - 1) * FieldMod + Field(bound, 2)
            /\ Leading(v, 2) = Leading(v, 2 - 1) * FieldMod + Field(v, 2)
        BY <1>1, <1>3, LeadingNext
      <2> QED
        BY <2>1, <2>2
    <1>6. Leading(bound, 2) = Leading(v, 2) + 1
      <2> DEFINE m == Leading(v, 1) * FieldMod
      <2>1. m \in Nat
        BY <1>1, <1>4
      <2>2. Leading(bound, 2) = m + Field(bound, 2) /\ Leading(v, 2) = m + Field(v, 2)
        BY <1>4, <1>5
      <2> HIDE DEF m
      <2> QED
        BY <1>1, <1>3, <2>1, <2>2
    <1>7. Value(x) >= Value(v) /\ Value(x) < Value(bound)
            <=> Value(x) >= Value(v) /\ Prefix(x, 2) = Prefix(v, 2)
      BY <1>1, <1>3, <1>6, UpToNext
    <1> QED
      BY <1>3, <1>7 DEF bound

LEMMA CaretMeans ==
    ASSUME NEW v \in Version, NEW x \in Version, Field(v, 1) + 1 < FieldMod
    PROVE  LET bound == <<Field(v, 1) + 1>>
           IN  /\ bound \in Version
               /\ Value(x) >= Value(v) /\ Value(x) < Value(bound)
                    <=> Value(x) >= Value(v) /\ Prefix(x, 1) = Prefix(v, 1)
    <1> DEFINE bound == <<Field(v, 1) + 1>>
    <1>1. Field(v, 1) \in 0..(FieldMod - 1) /\ FieldMod \in Nat /\ 1 \in 1..4 /\ 0 \in 0..4
      <2>1. 1 \in 1..4 /\ 0 \in 0..4
        OBVIOUS
      <2> QED
        BY <2>1, FieldIs, FieldModAssumption
    <1>2. Field(v, 1) + 1 \in 0..(FieldMod - 1)
      BY <1>1
    <1>3. bound \in Version /\ Len(bound) = 1 /\ Field(bound, 1) = Field(v, 1) + 1
      BY <1>1, <1>2, SmallVersions
    <1> HIDE DEF bound
    <1>4. \A u \in Version : Leading(u, 1) = Field(u, 1)
      <2> SUFFICES ASSUME NEW u \in Version PROVE Leading(u, 1) = Field(u, 1)
        OBVIOUS
      <2>1. Leading(u, 1) = 0 * FieldMod + Field(u, 1)
        BY DEF Leading
      <2>2. Field(u, 1) \in Nat
        BY <1>1, FieldIs
      <2> QED
        BY <1>1, <2>1, <2>2
    <1>5. Leading(bound, 1) = Leading(v, 1) + 1
      BY <1>3, <1>4
    <1>6. Value(x) >= Value(v) /\ Value(x) < Value(bound)
            <=> Value(x) >= Value(v) /\ Prefix(x, 1) = Prefix(v, 1)
      BY <1>1, <1>3, <1>5, UpToNext
    <1> QED
      BY <1>3, <1>6 DEF bound

\* A constraint admits the versions that its text allows.
LEMMA ConstraintMeans ==
    ASSUME NEW text, ConstraintText(text), PlainConstraint(text),
           NEW c \in J!VersionConstraintFromString(text), NEW x \in Version
    PROVE  isSatisfiedBy(c, x) <=> Allows(text, x)
    <1> DEFINE a == Spelled(text[2])
               b == Spelled(text[3])
               Plain(t, v) == /\ J!VersionNumberFromString(t) = {v}
                              /\ v \in Version /\ Len(v) = Len(t) /\ Len(v) \in 1..4
                              /\ \A i \in {1} \union 1..(Len(v) - 1) : v[i] < FieldMod - 1
    <1>1. Value(x) \in Nat /\ FieldMod \in Nat \ {0, 1} /\ \A v \in Version : Value(v) \in Nat
      <2>1. 4 \in 0..4
        OBVIOUS
      <2> QED
        BY <2>1, LeadingNat, FieldModAssumption
    <1>2. ASSUME NEW t, VersionText(t), PlainVersion(t)
          PROVE  Plain(t, Spelled(t))
      <2>1. Spelled(t) \in Version => Len(Spelled(t)) \in 1..4
        BY DEF Version
      <2> QED
        BY <1>2, <2>1, ParsedVersion
    <1>3. text[1] # "junk" /\ \A i \in 2..Len(text) : PlainVersion(text[i])
      BY DEF PlainConstraint
    \* A version of more than one field, or of one, has one that can be raised.
    <1>4. ASSUME NEW t, NEW v, Plain(t, v)
          PROVE  1 \in 1..Len(v) /\ v[1] < FieldMod - 1 /\ Field(v, 1) + 1 < FieldMod
      <2>1. 1 \in 1..Len(v) /\ v[1] < FieldMod - 1 /\ 1 \in 1..4 /\ 1 <= Len(v)
        BY <1>4
      <2>2. Field(v, 1) = v[1] /\ Field(v, 1) \in Nat
        BY <1>4, <2>1, FieldIs
      <2> QED
        BY <1>1, <2>1, <2>2
    <1>5. CASE text = <<"any">>
      <2>1. text[1] = "any"
        BY <1>5
      <2>2. c = <<>>
        BY <2>1 DEF J!VersionConstraintFromString
      <2>3. Allows(text, x)
        BY <2>1 DEF Allows
      <2> QED
        BY <2>2, <2>3, PartsMet
    <1>6. CASE /\ text = <<text[1], text[2]>> /\ VersionText(text[2])
               /\ text[1] \notin {"any", "junk", "range"}
      <2> DEFINE op == text[1]
      <2>1. Len(text) = 2 /\ Plain(text[2], a)
        <3>1. Len(text) = 2
          BY <1>6
        <3>2. 2 \in 2..Len(text)
          BY <3>1
        <3> QED
          BY <1>2, <1>3, <1>6, <3>1, <3>2
      <2>2. c = J!OperatorConstraint(op, a)
        <3>1. J!VersionConstraintFromString(text)
                = {J!OperatorConstraint(op, v) : v \in J!VersionNumberFromString(text[2])}
          BY <1>6 DEF J!VersionConstraintFromString
        <3> QED
          BY <2>1, <3>1
      <2>3. a \in Version
        BY <2>1
      <2> HIDE DEF a, Plain
      <2>4. CASE op \in {">", ">=", "<", "<=", "="}
        <3>1. c = <<J!Part(op, a)>>
          BY <2>2, <2>4 DEF J!OperatorConstraint, J!Comparisons
        <3>2. isSatisfiedBy(c, x) <=> Meets(x, J!Part(op, a))
          BY <3>1, PartsMet
        <3>3. CASE op = ">"
          BY <2>3, <3>2, <3>3, MeetsIs DEF Allows, a
        <3>4. CASE op = ">="
          BY <2>3, <3>2, <3>4, MeetsIs DEF Allows, a
        <3>5. CASE op = "<"
          BY <2>3, <3>2, <3>5, MeetsIs DEF Allows, a
        <3>6. CASE op = "<="
          BY <2>3, <3>2, <3>6, MeetsIs DEF Allows, a
        <3>7. CASE op = "="
          BY <2>3, <3>2, <3>7, MeetsIs DEF Allows, a
        <3> QED
          BY <2>4, <3>3, <3>4, <3>5, <3>6, <3>7
      <2>5. CASE op = "~"
        <3> DEFINE bound == <<Field(a, 1), Field(a, 2) + 1>>
        <3>1. Field(a, 2) + 1 < FieldMod
          <4>1. 2 \in 1..4 /\ Field(a, 2) \in Nat
            <5>1. 2 \in 1..4
              OBVIOUS
            <5> QED
              BY <2>3, <5>1, FieldIs
          <4>2. CASE Len(a) > 1
            <5>1. text[2][2][2] < FieldMod - 1 /\ Len(a) \in 1..4 /\ DOMAIN text[2] = 1..Len(a)
              BY <1>6, <2>1, <2>5, <4>2
                 DEF PlainConstraint, FieldMax, Plain, VersionText
            <5>2. a[2] = text[2][2][2]
              <6>1. 2 \in DOMAIN text[2]
                BY <4>2, <5>1
              <6> QED
                BY <6>1 DEF a, Spelled
            <5>3. Field(a, 2) = a[2]
              BY <2>3, <4>1, <4>2, <5>1, FieldIs
            <5> QED
              BY <1>1, <4>1, <5>1, <5>2, <5>3
          <4>3. CASE ~(Len(a) > 1)
            <5>1. 2 > Len(a)
              BY <2>1, <4>3 DEF Plain
            <5>2. Field(a, 2) = 0
              BY <2>3, <4>1, <5>1, FieldIs
            <5> QED
              BY <1>1, <5>2
          <4> QED
            BY <4>2, <4>3
        <3>2. (Field(a, 2) + 1) % FieldMod = Field(a, 2) + 1
          <4>1. 2 \in 1..4
            OBVIOUS
          <4>2. Field(a, 2) \in Nat
            BY <2>3, <4>1, FieldIs
          <4> QED
            BY <1>1, <3>1, <4>2
        <3>3. c = <<J!Part(">=", a), J!Part("<", bound)>>
          <4>1. c = <<J!Part(">=", a),
                      J!Part("<", <<J!fieldValue(a, 1),
                                           (J!fieldValue(a, 2) + 1) % FieldMod>>)>>
            BY <2>2, <2>5 DEF J!OperatorConstraint, J!Comparisons
          <4> QED
            BY <3>2, <4>1, SameOperators DEF Field
        <3>4. /\ bound \in Version
              /\ Value(x) >= Value(a) /\ Value(x) < Value(bound)
                   <=> Value(x) >= Value(a) /\ Prefix(x, 2) = Prefix(a, 2)
          BY <2>3, <3>1, TildeMeans
        <3> HIDE DEF bound
        <3>5. isSatisfiedBy(c, x)
                <=> Meets(x, J!Part(">=", a)) /\ Meets(x, J!Part("<", bound))
          BY <3>3, PartsMet
        <3>6. Allows(text, x)
                <=> Value(x) >= Value(a) /\ Prefix(x, 2) = Prefix(a, 2)
          BY <2>5 DEF Allows, a
        <3> QED
          BY <2>3, <3>4, <3>5, <3>6, MeetsIs
      <2>6. CASE op = "^"
        <3> DEFINE bound == <<Field(a, 1) + 1>>
        <3>1. Field(a, 1) + 1 < FieldMod
          BY <1>4, <2>1
        <3>2. (Field(a, 1) + 1) % FieldMod = Field(a, 1) + 1
          <4>1. 1 \in 1..4
            OBVIOUS
          <4>2. Field(a, 1) \in Nat
            BY <2>3, <4>1, FieldIs
          <4> QED
            BY <1>1, <3>1, <4>2
        <3>3. c = <<J!Part(">=", a), J!Part("<", bound)>>
          <4>1. c = <<J!Part(">=", a),
                      J!Part("<", <<(J!fieldValue(a, 1) + 1) % FieldMod>>)>>
            BY <2>2, <2>6 DEF J!OperatorConstraint, J!Comparisons
          <4> QED
            BY <3>2, <4>1, SameOperators DEF Field
        <3>4. /\ bound \in Version
              /\ Value(x) >= Value(a) /\ Value(x) < Value(bound)
                   <=> Value(x) >= Value(a) /\ Prefix(x, 1) = Prefix(a, 1)
          BY <2>3, <3>1, CaretMeans
        <3> HIDE DEF bound
        <3>5. isSatisfiedBy(c, x)
                <=> Meets(x, J!Part(">=", a)) /\ Meets(x, J!Part("<", bound))
          BY <3>3, PartsMet
        <3>6. Allows(text, x)
                <=> Value(x) >= Value(a) /\ Prefix(x, 1) = Prefix(a, 1)
          BY <2>6 DEF Allows, a
        <3> QED
          BY <2>3, <3>4, <3>5, <3>6, MeetsIs
      <2>7. CASE op \notin {">", ">=", "<", "<=", "=", "~", "^"}
        <3> DEFINE bound == Increment(a)
        <3>1. c = <<J!Part(">=", a), J!Part("<", bound)>>
          <4>1. c = <<J!Part(">=", a), J!Part("<", J!Increment(a))>>
            BY <2>2, <2>7 DEF J!OperatorConstraint, J!Comparisons
          <4> QED
            BY <4>1, SameOperators
        <3>2. /\ bound \in Version
              /\ Value(x) >= Value(a) /\ Value(x) < Value(bound)
                   <=> Prefix(x, Len(a)) = Value(a)
          <4>1. 1 \in 1..Len(a) /\ a[1] < FieldMod - 1
            BY <1>4, <2>1
          <4> QED
            BY <2>3, <4>1, BareMeans
        <3> HIDE DEF bound
        <3>3. isSatisfiedBy(c, x)
                <=> Meets(x, J!Part(">=", a)) /\ Meets(x, J!Part("<", bound))
          BY <3>1, PartsMet
        <3>4. Allows(text, x) <=> Prefix(x, Len(a)) = Value(a)
          BY <1>6, <2>7 DEF Allows, a
        <3> QED
          BY <2>3, <3>2, <3>3, <3>4, MeetsIs
      <2> QED
        BY <2>4, <2>5, <2>6, <2>7
    <1>7. CASE text = <<"range", text[2], text[3]>> /\ VersionText(text[2]) /\ VersionText(text[3])
      <2>1. text[1] = "range" /\ Len(text) = 3
        BY <1>7
      <2>2. Plain(text[2], a) /\ Plain(text[3], b)
        <3>1. 2 \in 2..Len(text) /\ 3 \in 2..Len(text)
          BY <2>1
        <3> QED
          BY <1>2, <1>3, <1>7, <3>1
      <2>3. c \in J!RangeConstraint(a, b)
        <3>1. J!VersionConstraintFromString(text)
                = UNION {J!RangeConstraint(min, max) :
                            min \in J!VersionNumberFromString(text[2]),
                            max \in J!VersionNumberFromString(text[3])}
          BY <2>1 DEF J!VersionConstraintFromString
        <3> QED
          BY <2>2, <3>1
      <2>4. a \in Version /\ b \in Version /\ Len(b) \in 1..4
        BY <2>2
      <2> HIDE DEF a, b, Plain
      <2> DEFINE last == IF Len(b) < 4 THEN J!Part("<", Increment(b)) ELSE J!Part("<=", b)
      <2>5. c = <<J!Part(">=", a), last>>
        <3>1. c = <<J!Part(">=", a), IF Len(b) < 4 THEN J!Part("<", J!Increment(b))
                                            ELSE J!Part("<=", b)>>
          BY <2>3 DEF J!RangeConstraint, J!kMaxFields
        <3> QED
          BY <3>1, SameOperators
      <2>6. Meets(x, last) <=> Prefix(x, Len(b)) <= Value(b)
        <3>1. CASE Len(b) < 4
          <4>1. 1 \in 1..Len(b) /\ b[1] < FieldMod - 1
            BY <1>4, <2>2
          <4> DEFINE bound == Increment(b)
          <4>2. /\ bound \in Version
                /\ Value(x) < Value(bound) <=> Prefix(x, Len(b)) <= Value(b)
            BY <2>4, <4>1, BareMeans
          <4>3. last = J!Part("<", bound)
            BY <3>1
          <4> HIDE DEF bound, last
          <4> QED
            BY <4>2, <4>3, MeetsIs
        <3>2. CASE ~(Len(b) < 4)
          <4>1. Len(b) = 4 /\ last = J!Part("<=", b)
            <5>1. \A n \in 1..4 : ~(n < 4) => n = 4
              OBVIOUS
            <5>2. Len(b) = 4
              BY <2>4, <3>2, <5>1
            <5> QED
              BY <3>2, <5>2
          <4>2. Prefix(x, 4) <= Value(b) <=> Leading(x, 4) <= Leading(b, 4)
            BY <2>4, <4>1, PrefixOrder
          <4>3. Leading(x, 4) = Value(x) /\ Leading(b, 4) = Value(b)
            BY <2>4, LeadingNat
          <4> HIDE DEF last
          <4> QED
            BY <2>4, <4>1, <4>2, <4>3, MeetsIs
        <3> QED
          BY <3>1, <3>2
      <2> HIDE DEF last
      <2>7. isSatisfiedBy(c, x) <=> Meets(x, J!Part(">=", a)) /\ Meets(x, last)
        BY <2>5, PartsMet
      <2>8. Allows(text, x)
              <=> Value(x) >= Value(a) /\ Prefix(x, Len(b)) <= Value(b)
        BY <2>1 DEF Allows, a, b
      <2> QED
        BY <2>4, <2>6, <2>7, <2>8, MeetsIs
    <1>8. text # <<"junk">>
      BY <1>3
    <1> QED
      BY <1>5, <1>6, <1>7, <1>8 DEF ConstraintText

-------------------------------------------------------------------------------
(* What the handlers of the fields and configurations leave alone              *)

\* The members that the invariant speaks of.
Members == {"dependencies", "lifecycle", "services", "vendorConfig"}

\* n has the members of m that are in S.
Keeps(m, n, S) == Members \subseteq DOMAIN n /\ \A f \in S : n[f] = m[f]

\* A configuration that says nothing of the members.
LEMMA OtherConfigs ==
    ASSUME NEW m, Members \subseteq DOMAIN m, NEW j
    PROVE  /\ \A n \in J!processIconsConfig(m, j) : Keeps(m, n, Members)
           /\ \A n \in J!processMemoryConfig(m, j) : Keeps(m, n, Members)
           /\ \A n \in J!processStorageConfig(m, j) : Keeps(m, n, Members)
           /\ \A n \in J!processDialConfig(m, j) : Keeps(m, n, Members)
           /\ \A n \in J!processLogLevelsConfig(m, j) : Keeps(m, n, Members)
           /\ \A n \in J!processInputHandlingConfig(m, j) : Keeps(m, n, Members)
           /\ \A n \in J!processWindowConfig(m, j) : Keeps(m, n, Members)
           /\ \A n \in J!processDisplayConfig(m, j) : Keeps(m, n, Members)
           /\ \A n \in J!processAudioConfig(m, j) : Keeps(m, n, Members)
           /\ \A n \in J!processOverridesConfig(m, j) : Keeps(m, n, Members)
           /\ \A n \in J!processRuntimeConfig(m, j) : Keeps(m, n, Members)
    <1>1. \A n \in J!processIconsConfig(m, j) : Keeps(m, n, Members)
      BY DEF J!processIconsConfig, Members, Keeps
    <1>2. \A n \in J!processMemoryConfig(m, j) : Keeps(m, n, Members)
      BY DEF J!processMemoryConfig, Members, Keeps
    <1>3. \A n \in J!processStorageConfig(m, j) : Keeps(m, n, Members)
      BY DEF J!processStorageConfig, Members, Keeps
    <1>4. \A n \in J!processDialConfig(m, j) : Keeps(m, n, Members)
      BY DEF J!processDialConfig, Members, Keeps
    <1>5. \A n \in J!processLogLevelsConfig(m, j) : Keeps(m, n, Members)
      BY DEF J!processLogLevelsConfig, Members, Keeps
    <1>6. \A n \in J!processInputHandlingConfig(m, j) : Keeps(m, n, Members)
      BY DEF J!processInputHandlingConfig, Members, Keeps
    <1>7. \A n \in J!processWindowConfig(m, j) : Keeps(m, n, Members)
      BY DEF J!processWindowConfig, Members, Keeps
    <1>8. \A n \in J!processDisplayConfig(m, j) : Keeps(m, n, Members)
      BY DEF J!processDisplayConfig, Members, Keeps
    <1>9. \A n \in J!processAudioConfig(m, j) : Keeps(m, n, Members)
      BY DEF J!processAudioConfig, Members, Keeps
    <1>10. \A n \in J!processOverridesConfig(m, j) : Keeps(m, n, Members)
      BY DEF J!processOverridesConfig, Members, Keeps
    <1>11. \A n \in J!processRuntimeConfig(m, j) : Keeps(m, n, Members)
      BY DEF J!processRuntimeConfig, Members, Keeps
    <1> QED
      BY <1>1, <1>2, <1>3, <1>4, <1>5, <1>6, <1>7, <1>8, <1>9, <1>10, <1>11

\* The states a package supports, before and after a configuration: pausing stays, and low
\* power goes only, and comes only, with the configuration that is about it.
StatesStay(m, n) ==
    /\ "Paused" \in m.lifecycle => "Paused" \in n.lifecycle
    /\ "LowPower" \in n.lifecycle <=> "LowPower" \in m.lifecycle

LEMMA LifecycleConfig ==
    ASSUME NEW m, Members \subseteq DOMAIN m, NEW j, NEW n \in J!processAppLifecycleConfig(m, j)
    PROVE  Keeps(m, n, Members \ {"lifecycle"}) /\ StatesStay(m, n)
    <1> DEFINE wanted == J!Range(J!Strings(J!Or(j[2], "supportedNonActiveStates", "array", <<>>)))
               listed == {J!LifecycleNames[s] : s \in wanted \intersect DOMAIN J!LifecycleNames}
    <1> DEFINE Time(key, old) == IF J!Or(j[2], key, "integer", -1) < 0 THEN old ELSE {j[2][key][2] * 1000}
               start == Time("startupTimeout", m.startTimeout)
               watch == Time("watchdogInterval", m.watchdogInterval)
    <1>1. n = [m EXCEPT !.lifecycle = @ \union listed, !.startTimeout = start, !.watchdogInterval = watch]
      <2>1. J!processAppLifecycleConfig(m, j)
              = IF ~J!isObject(j) THEN {}
                ELSE {[m EXCEPT !.lifecycle = @ \union listed, !.startTimeout = start,
                                !.watchdogInterval = watch]}
        BY DEF J!processAppLifecycleConfig
      <2> HIDE DEF listed, start, watch
      <2> QED
        BY <2>1
    <1> HIDE DEF start, watch
    <1>2. Keeps(m, n, Members \ {"lifecycle"}) /\ n.lifecycle = m.lifecycle \union listed
      BY <1>1 DEF Members, Keeps
    <1>3. \A k \in DOMAIN J!LifecycleNames : J!LifecycleNames[k] # "LowPower"
      BY DEF J!LifecycleNames
    <1> QED
      BY <1>2, <1>3 DEF StatesStay

LEMMA LowPowerConfig ==
    ASSUME NEW m, Members \subseteq DOMAIN m, NEW j, J!isBool(j) => j[2] \in BOOLEAN,
           NEW n \in J!processLowPowerTerminateConfig(m, j)
    PROVE  /\ Keeps(m, n, Members \ {"lifecycle"})
           /\ "Paused" \in m.lifecycle => "Paused" \in n.lifecycle
           /\ "LowPower" \in n.lifecycle <=> ~j[2]
           /\ J!isBool(j)
    <1>1. Keeps(m, n, Members \ {"lifecycle"})
      BY DEF J!processLowPowerTerminateConfig, Members, Keeps
    <1>2. J!isBool(j) /\ n.lifecycle = IF j[2] THEN m.lifecycle \ {"LowPower"}
                                              ELSE m.lifecycle \union {"LowPower"}
      BY DEF J!processLowPowerTerminateConfig, Members
    <1> QED
      BY <1>1, <1>2

\* A list of services that all have a port.
IsPort(p) == p \in 1..(J!PortMod - 1)
HasPort(e) == IsPort(e.port)
Served(list) == \E T : list \in Seq(T) /\ \A e \in T : HasPort(e)

\* Entries as the JSON library gives them, in a network configuration the code accepts.
NetworkEntries(entries) ==
    /\ Len(entries) \in Nat /\ DOMAIN entries = 1..Len(entries)
    /\ \A i \in DOMAIN entries :
            J!Typed(entries[i][2], "port", "integer") => entries[i][2]["port"][2] \in Int

\* A port has 16 bits.
LEMMA SixteenBits ==
    \A p \in Int : p % J!PortMod # 0 => IsPort(p % J!PortMod)
    <1>1. J!PortMod \in Nat \ {0}
      BY DEF J!PortMod
    <1> QED
      BY <1>1 DEF IsPort

\* Services that are added have a port: the entries without one are left out.
LEMMA AddedAreServed ==
    ASSUME NEW services, Served(services), NEW k, NEW entries, NetworkEntries(entries)
    PROVE  Served(J!AddServices(services, k, entries))
    <1> DEFINE Wanted(f) == J!PortOf(f) # 0 /\ J!Or(f, "type", "string", "") = k
               n == Len(entries)
               rule(prev, i) ==
                    IF Wanted(entries[i][2]) THEN Append(prev, J!ServiceOf(entries[i][2])) ELSE prev
               Def(f) == f = [i \in 0..n |-> IF i = 0 THEN services
                                             ELSE IF Wanted(entries[i][2])
                                             THEN Append(f[i - 1], J!ServiceOf(entries[i][2]))
                                             ELSE f[i - 1]]
               added == CHOOSE f : Def(f)
    <1>1. PICK R : services \in Seq(R) /\ \A e \in R : HasPort(e)
      BY DEF Served
    <1> DEFINE T == R \union {J!ServiceOf(entries[i][2]) : i \in {h \in 1..n : Wanted(entries[h][2])}}
               step == [pair \in Seq(T) \X (1..n) |-> rule(pair[1], pair[2])]
    <1>2. n \in Nat /\ services \in Seq(T)
      <2>1. R \subseteq T /\ n \in Nat
        BY DEF NetworkEntries
      <2> HIDE DEF T
      <2> QED
        BY <1>1, <2>1
    <1>3. \A e \in T : HasPort(e)
      <2>1. ASSUME NEW i \in 1..n, Wanted(entries[i][2]) PROVE HasPort(J!ServiceOf(entries[i][2]))
        <3>1. J!Typed(entries[i][2], "port", "integer") => entries[i][2]["port"][2] \in Int
          BY DEF NetworkEntries
        <3>2. J!Or(entries[i][2], "port", "integer", 0) \in Int
          BY <3>1 DEF J!Or
        <3>3. J!ServiceOf(entries[i][2]).port = J!PortOf(entries[i][2])
          BY DEF J!Service, J!ServiceOf
        <3> QED
          BY <2>1, <3>2, <3>3, SixteenBits DEF J!PortOf, HasPort
      <2> QED
        BY <1>1, <2>1
    <1>4. ASSUME NEW prev \in Seq(T), NEW i \in 1..n PROVE rule(prev, i) \in Seq(T)
      <2>1. Wanted(entries[i][2]) => J!ServiceOf(entries[i][2]) \in T
        BY DEF T
      <2> HIDE DEF T
      <2> QED
        BY <2>1, AppendProperties
    <1>5. J!AddServices(services, k, entries) = added[n]
      BY Zenon DEF J!AddServices
    <1> SUFFICES added[n] \in Seq(T)
      BY <1>3, <1>5 DEF Served
    <1> HIDE DEF n, T, Wanted, rule, added
    <1>6. \E f : Def(f)
      <2>1. step \in [Seq(T) \X (1..n) -> Seq(T)]
        BY <1>4
      <2>2. ASSUME NEW prev \in Seq(T), NEW i \in 1..n PROVE step[<<prev, i>>] = rule(prev, i)
        OBVIOUS
      <2> HIDE DEF step
      <2>3. PICK f : IsRecursive(f, n, Seq(T), services, step)
        BY <1>2, <2>1, RecursionExists
      <2>4. ASSUME NEW i \in 1..n PROVE f[i] = rule(f[i - 1], i)
        <3>1. i - 1 \in 0..n
          BY <1>2
        <3> QED
          BY <2>2, <2>3, <3>1 DEF IsRecursive
      <2>5. ASSUME NEW i \in 0..n PROVE f[i] = IF i = 0 THEN services ELSE rule(f[i - 1], i)
        <3>1. i # 0 => i \in 1..n
          BY <1>2
        <3> QED
          BY <2>3, <2>4, <3>1 DEF IsRecursive
      <2>6. f = [i \in 0..n |-> IF i = 0 THEN services ELSE rule(f[i - 1], i)]
        BY <2>3, <2>5 DEF IsRecursive
      <2> QED
        BY <2>6 DEF rule
    <1>7. Def(added)
      BY <1>6, Zenon DEF added
    <1>8. added[0] = services
      BY <1>2, <1>7
    <1>9. ASSUME NEW i \in 1..n PROVE added[i] = rule(added[i - 1], i)
      <2>1. i \in 0..n /\ i # 0
        BY <1>2
      <2> QED
        BY <1>7, <2>1 DEF rule
    <1>10. \A i \in 1..n : added[i - 1] \in Seq(T) => added[i] \in Seq(T)
      BY <1>4, <1>9
    <1>11. \A i \in 0..n : added[i] \in Seq(T)
      BY <1>2, <1>8, <1>10, RecursionType
    <1> QED
      BY <1>2, <1>11

LEMMA NetworkConfig ==
    ASSUME NEW m, Members \subseteq DOMAIN m, \A k \in J!ServiceKinds : Served(m.services[k]),
           NEW j, J!isArray(j) /\ (\A i \in DOMAIN j[2] : J!isObject(j[2][i])) => NetworkEntries(j[2]),
           NEW n \in J!processNetworkConfig(m, j)
    PROVE  /\ Keeps(m, n, Members \ {"services"})
           /\ \A k \in J!ServiceKinds : Served(n.services[k])
    <1> DEFINE all == [k \in J!ServiceKinds |-> J!AddServices(m.services[k], k, j[2])]
    <1>1. NetworkEntries(j[2]) /\ n = [m EXCEPT !.services = all]
      BY DEF J!processNetworkConfig
    <1>2. \A k \in J!ServiceKinds : Served(all[k])
      BY <1>1, AddedAreServed
    <1> HIDE DEF all
    <1> QED
      BY <1>1, <1>2 DEF Members, Keeps

\* What one key of the configuration makes of the members.
LEMMA OneConfig ==
    ASSUME NEW m, Members \subseteq DOMAIN m, \A k \in J!ServiceKinds : Served(m.services[k]),
           NEW key, NEW j,
           key = "low-power:terminate" /\ J!isBool(j) => j[2] \in BOOLEAN,
           key = "network" /\ J!isArray(j) /\ (\A i \in DOMAIN j[2] : J!isObject(j[2][i]))
                => NetworkEntries(j[2]),
           NEW n \in J!processConfig(m, key, j)
    PROVE  /\ Members \subseteq DOMAIN n
           /\ n.dependencies = m.dependencies
           /\ n.vendorConfig = J!Emplace(m.vendorConfig, key, j)
           /\ "Paused" \in m.lifecycle => "Paused" \in n.lifecycle
           /\ key # "low-power:terminate" => ("LowPower" \in n.lifecycle <=> "LowPower" \in m.lifecycle)
           /\ key = "low-power:terminate" => J!isBool(j) /\ ("LowPower" \in n.lifecycle <=> ~j[2])
           /\ \A k \in J!ServiceKinds : Served(n.services[k])
    <1> DEFINE kept == [m EXCEPT !.vendorConfig = J!Emplace(@, key, j)]
    <1>1. /\ Members \subseteq DOMAIN kept
          /\ kept.vendorConfig = J!Emplace(m.vendorConfig, key, j)
          /\ kept.dependencies = m.dependencies
          /\ kept.lifecycle = m.lifecycle
          /\ kept.services = m.services
      BY DEF Members
    <1>2. n \in J!processConfig(m, key, j)
      OBVIOUS
    <1>3. ASSUME Keeps(kept, n, Members), key # "low-power:terminate"
          PROVE  /\ n.dependencies = kept.dependencies
                 /\ n.vendorConfig = kept.vendorConfig
                 /\ n.lifecycle = kept.lifecycle
                 /\ n.services = kept.services
                 /\ Members \subseteq DOMAIN n
      BY <1>3 DEF Keeps, Members
    <1>4. CASE key = "network"
      <2>1. n \in J!processNetworkConfig(kept, j)
        BY <1>2, <1>4 DEF J!processConfig
      <2>2. /\ Keeps(kept, n, Members \ {"services"})
            /\ \A k \in J!ServiceKinds : Served(n.services[k])
        <3> HIDE DEF kept
        <3> QED
          BY <1>1, <1>4, <2>1, NetworkConfig
      <2> QED
        BY <1>1, <1>4, <2>2 DEF Keeps, Members
    <1>5. CASE key = "application-lifecycle"
      <2>1. n \in J!processAppLifecycleConfig(kept, j)
        BY <1>2, <1>5 DEF J!processConfig
      <2>2. Keeps(kept, n, Members \ {"lifecycle"}) /\ StatesStay(kept, n)
        <3> HIDE DEF kept
        <3> QED
          BY <1>1, <2>1, LifecycleConfig
      <2> QED
        BY <1>1, <1>5, <2>2 DEF Keeps, Members, StatesStay
    <1>6. CASE key = "low-power:terminate"
      <2>1. n \in J!processLowPowerTerminateConfig(kept, j)
        BY <1>2, <1>6 DEF J!processConfig
      <2>2. /\ Keeps(kept, n, Members \ {"lifecycle"})
            /\ "Paused" \in kept.lifecycle => "Paused" \in n.lifecycle
            /\ "LowPower" \in n.lifecycle <=> ~j[2]
            /\ J!isBool(j)
        <3> HIDE DEF kept
        <3> QED
          BY <1>1, <1>6, <2>1, LowPowerConfig
      <2> QED
        BY <1>1, <1>6, <2>2 DEF Keeps, Members
    <1>7. CASE key \notin {"network", "application-lifecycle", "low-power:terminate"}
      <2>1. \/ n \in J!processIconsConfig(kept, j)
            \/ n \in J!processMemoryConfig(kept, j)
            \/ n \in J!processStorageConfig(kept, j)
            \/ n \in J!processDialConfig(kept, j)
            \/ n \in J!processLogLevelsConfig(kept, j)
            \/ n \in J!processInputHandlingConfig(kept, j)
            \/ n \in J!processWindowConfig(kept, j)
            \/ n \in J!processDisplayConfig(kept, j)
            \/ n \in J!processAudioConfig(kept, j)
            \/ n \in J!processOverridesConfig(kept, j)
            \/ n \in J!processRuntimeConfig(kept, j)
            \/ n = kept
        BY <1>2, <1>7 DEF J!processConfig
      <2>2. Keeps(kept, kept, Members)
        BY <1>1 DEF Keeps
      <2> HIDE DEF kept
      <2>3. Keeps(kept, n, Members)
        BY <1>1, <2>1, <2>2, OtherConfigs
      <2> QED
        BY <1>1, <1>3, <1>7, <2>3
    <1> QED
      BY <1>4, <1>5, <1>6, <1>7

\* The key that is read last is one of them.
LEMMA LastKeyIsOne ==
    ASSUME NEW keys, keys # {}
    PROVE  J!LastKey(keys) \in keys
    <1> DEFINE order == J!ConfigOrder
               known == {i \in DOMAIN order : order[i] \in keys}
    <1>1. CASE keys \subseteq J!Range(order)
      <2>1. DOMAIN order = 1..14
        BY DEF J!ConfigOrder
      <2> HIDE DEF order
      <2>2. known \subseteq 1..14 /\ known # {}
        BY <1>1, <2>1 DEF J!Range
      <2>3. J!LastKey(keys) = order[J!Max(known)]
        BY <1>1 DEF J!LastKey, order
      <2>4. J!Max(known) \in known
        <3>1. \E x \in known : \A y \in known : x >= y
          <4> HIDE DEF known
          <4>1. Max(known) \in known /\ \A i \in known : Max(known) >= i
            BY <2>2, 14 \in Nat, MaxIsGreatest
          <4> QED
            BY <4>1
        <3> HIDE DEF known
        <3> QED
          BY <3>1 DEF J!Max
      <2> QED
        BY <2>3, <2>4
    <1>2. CASE ~(keys \subseteq J!Range(order))
      <2>1. J!LastKey(keys) = CHOOSE key \in keys \ J!Range(order) : TRUE
        BY <1>2 DEF J!LastKey
      <2>2. \E key : key \in keys \ J!Range(order)
        BY <1>2
      <2> HIDE DEF order
      <2> QED
        BY <2>1, <2>2
    <1> QED
      BY <1>1, <1>2

\* Whether a configuration says that low power is to terminate.
Terminates(f, keys) ==
    "low-power:terminate" \in keys /\ f["low-power:terminate"] = J!Bool(TRUE)

\* What has become of m when these keys of f have been read.
Configured(m, f, keys, n) ==
    /\ Members \subseteq DOMAIN n
    /\ n.dependencies = m.dependencies
    /\ n.vendorConfig = [k \in keys |-> f[k]]
    /\ "Paused" \in n.lifecycle
    /\ "LowPower" \in n.lifecycle <=> ~Terminates(f, keys)
    /\ \A k \in J!ServiceKinds : Served(n.services[k])

\* One key more.
LEMMA ConfiguredNext ==
    ASSUME NEW m, NEW f, ConfigurationObject(f), NEW keys, keys \subseteq DOMAIN f, NEW key \in keys,
           NEW l, Configured(m, f, keys \ {key}, l), NEW n \in J!processConfig(l, key, f[key])
    PROVE  Configured(m, f, keys, n)
    <1> DEFINE j == f[key]
    <1>1. key = "low-power:terminate" /\ J!isBool(j) =>
                j[2] \in BOOLEAN /\ (j[2] <=> j = J!Bool(TRUE))
      <2> SUFFICES ASSUME key = "low-power:terminate", J!isBool(j)
                   PROVE  j[2] \in BOOLEAN /\ (j[2] <=> j = J!Bool(TRUE))
        OBVIOUS
      <2>1. j = J!Bool(TRUE) \/ j = J!Bool(FALSE)
        BY DEF ConfigurationObject, J!Bool, Bool, isBool, J!isBool
      <2>2. j = J!Bool(TRUE) => j[2] = TRUE
        BY DEF J!Bool
      <2>3. j = J!Bool(FALSE) => j[2] = FALSE
        BY DEF J!Bool
      <2> HIDE DEF j
      <2> QED
        BY <2>1, <2>2, <2>3
    <1>2. key = "network" /\ J!isArray(j) /\ (\A i \in DOMAIN j[2] : J!isObject(j[2][i]))
                => NetworkEntries(j[2])
      BY DEF ConfigurationObject, NetworkEntries, isArray, J!isArray,
             isObject, J!isObject, isInteger, J!Typed
    <1>3. Members \subseteq DOMAIN l /\ \A k \in J!ServiceKinds : Served(l.services[k])
      BY DEF Configured
    <1> HIDE DEF j
    <1>4. /\ Members \subseteq DOMAIN n
          /\ n.dependencies = l.dependencies
          /\ n.vendorConfig = J!Emplace(l.vendorConfig, key, j)
          /\ "Paused" \in l.lifecycle => "Paused" \in n.lifecycle
          /\ key # "low-power:terminate" => ("LowPower" \in n.lifecycle <=> "LowPower" \in l.lifecycle)
          /\ key = "low-power:terminate" => J!isBool(j) /\ ("LowPower" \in n.lifecycle <=> ~j[2])
          /\ \A k \in J!ServiceKinds : Served(n.services[k])
      <2>1. n \in J!processConfig(l, key, j)
        BY DEF j
      <2> QED
        BY <1>1, <1>2, <1>3, <2>1, OneConfig
    <1>5. n.vendorConfig = [k \in keys |-> f[k]]
      <2>1. l.vendorConfig = [k \in keys \ {key} |-> f[k]]
        BY DEF Configured
      <2> QED
        BY <1>4, <2>1 DEF J!Emplace, J!Put, j
    <1>6. "LowPower" \in n.lifecycle <=> ~Terminates(f, keys)
      <2>1. CASE key = "low-power:terminate"
        BY <1>1, <1>4, <2>1 DEF Terminates, j
      <2>2. CASE key # "low-power:terminate"
        BY <1>4, <2>2 DEF Terminates, Configured
      <2> QED
        BY <2>1, <2>2
    <1> QED
      BY <1>4, <1>5, <1>6 DEF Configured

\* Reading the configuration: every key of it, whatever their order.
LEMMA ConfigurationRead ==
    ASSUME NEW m, NEW j, J!isObject(j) => ConfigurationObject(j[2]),
           Configured(m, j[2], {}, m), NEW n \in J!processConfiguration(m, j)
    PROVE  J!isObject(j) /\ Configured(m, j[2], DOMAIN j[2], n)
    <1> DEFINE f == j[2]
               D == DOMAIN j[2]
               rule(g, keys) ==
                    IF keys = {} THEN {m}
                    ELSE UNION {J!processConfig(l, J!LastKey(keys), j[2][J!LastKey(keys)]) :
                                    l \in g[keys \ {J!LastKey(keys)}]}
               Def(g) == g = [keys \in SUBSET D |-> rule(g, keys)]
               read == CHOOSE g : Def(g)
               N == Cardinality(D)
               Within(c) == {keys \in SUBSET D : Cardinality(keys) <= c}
    <1>1. J!isObject(j) /\ n \in read[D]
      <2>1. n \in J!processConfiguration(m, j)
        OBVIOUS
      <2>2. J!processConfiguration(m, j) = IF J!isObject(j) THEN read[D] ELSE {}
        BY Zenon DEF J!processConfiguration
      <2> HIDE DEF read, D
      <2> QED
        BY <2>1, <2>2
    <1>2. ConfigurationObject(f) /\ IsFiniteSet(D) /\ N \in Nat
      <2>1. ConfigurationObject(f) /\ IsFiniteSet(D)
        <3>1. ConfigurationObject(f) /\ IsFiniteSet(D)
          BY <1>1 DEF ConfigurationObject
        <3> QED
          BY <3>1, Zenon DEF IsFiniteSet, IsFiniteSet
      <2> QED
        BY <2>1, FS_CardinalityType
    <1> HIDE DEF read, N
    <1>3. ASSUME NEW keys \in SUBSET D
          PROVE  /\ Cardinality(keys) \in 0..N
                 /\ keys # {} => /\ J!LastKey(keys) \in keys
                                 /\ Cardinality(keys \ {J!LastKey(keys)}) = Cardinality(keys) - 1
                                 /\ Cardinality(keys) \in 1..N
      <2>1. IsFiniteSet(keys) /\ Cardinality(keys) <= N
        BY <1>2, FS_Subset DEF N
      <2>2. Cardinality(keys) \in Nat
        BY <2>1, FS_CardinalityType
      <2>3. CASE keys # {}
        <3> DEFINE key == J!LastKey(keys)
        <3>1. key \in keys
          BY <2>3, LastKeyIsOne
        <3> HIDE DEF key
        <3>2. Cardinality(keys \ {key}) = Cardinality(keys) - 1
          BY <2>1, <3>1, FS_RemoveElement
        <3>3. Cardinality(keys \ {key}) \in Nat
          BY <2>1, FS_Subset, FS_CardinalityType
        <3> QED
          BY <1>2, <2>1, <2>2, <3>1, <3>2, <3>3 DEF key
      <2> QED
        BY <1>2, <2>1, <2>2, <2>3
    <1>4. \A keys \in Within(0) : keys = {}
      <2> SUFFICES ASSUME NEW keys \in SUBSET D, Cardinality(keys) <= 0, keys # {} PROVE FALSE
        OBVIOUS
      <2>1. Cardinality(keys) \in 1..N
        BY <1>3
      <2> QED
        BY <1>2, <2>1
    <1>5. \A keys \in SUBSET D : Cardinality(keys) <= N
      <2> TAKE keys \in SUBSET D
      <2>1. Cardinality(keys) \in 0..N
        BY <1>3
      <2> QED
        BY <1>2, <2>1
    <1>6. \E g : Def(g)
      <2> DEFINE Upto(g, c) == g = [keys \in Within(c) |-> rule(g, keys)]
                 S == {c \in 0..N : \E g : Upto(g, c)}
      <2>1. 0 \in S
        <3> DEFINE g == [keys \in Within(0) |-> {m}]
        <3>1. Upto(g, 0)
          BY <1>4
        <3> HIDE DEF g, Upto
        <3> QED
          BY <1>2, <3>1
      <2>2. ASSUME NEW c \in 1..N, c - 1 \in S PROVE c \in S
        <3>1. PICK g : Upto(g, c - 1)
          BY <2>2
        <3> DEFINE h == [keys \in Within(c) |-> rule(g, keys)]
        <3>2. ASSUME NEW keys \in Within(c), keys # {}
              PROVE  h[keys \ {J!LastKey(keys)}] = g[keys \ {J!LastKey(keys)}]
          <4> DEFINE less == keys \ {J!LastKey(keys)}
          <4>1. less \in SUBSET D /\ Cardinality(less) = Cardinality(keys) - 1 /\ Cardinality(keys) \in 1..N
            BY <1>3, <3>2
          <4>2. less \in Within(c - 1) /\ less \in Within(c)
            <5>1. Cardinality(keys) <= c
              OBVIOUS
            <5>2. Cardinality(less) <= c - 1 /\ Cardinality(less) <= c
              BY <1>2, <4>1, <5>1
            <5> HIDE DEF less
            <5> QED
              BY <4>1, <5>2
          <4> HIDE DEF less, rule, Within
          <4>3. g[less] = rule(g, less)
            BY <3>1, <4>2
          <4>4. h[less] = rule(g, less)
            BY <4>2
          <4> QED
            BY <4>3, <4>4 DEF less
        <3>3. ASSUME NEW keys \in Within(c) PROVE rule(g, keys) = rule(h, keys)
          <4> HIDE DEF h, Within
          <4> QED
            BY <3>2, Zenon
        <3>4. Upto(h, c)
          <4> HIDE DEF rule, Within
          <4> QED
            BY <3>3
        <3> HIDE DEF h, Upto
        <3> QED
          BY <1>2, <3>4
      <2> HIDE DEF Upto
      <2>3. N \in S
        <3> HIDE DEF S
        <3>1. 0..N \subseteq S
          BY <1>2, <2>1, <2>2, BoundedInduction
        <3> QED
          BY <1>2, <3>1
      <2>4. Within(N) = SUBSET D
        BY <1>5
      <2>5. PICK g : Upto(g, N)
        BY <2>3
      <2> HIDE DEF rule, Within
      <2>6. Def(g)
        BY <2>4, <2>5 DEF Upto
      <2> HIDE DEF Def
      <2> QED
        BY <2>6
    <1>7. Def(read)
      BY <1>6, Zenon DEF read
    <1> DEFINE S == {c \in 0..N : \A keys \in Within(c) : \A l \in read[keys] : Configured(m, f, keys, l)}
    <1>8. 0 \in S
      <2>1. read[{}] = {m}
        BY <1>7
      <2>2. \A l \in read[{}] : Configured(m, f, {}, l)
        BY <2>1
      <2> HIDE DEF Within
      <2> QED
        BY <1>2, <1>4, <2>2
    <1>9. ASSUME NEW c \in 1..N, c - 1 \in S PROVE c \in S
      <2>1. ASSUME NEW keys \in Within(c), NEW l \in read[keys] PROVE Configured(m, f, keys, l)
        <3>1. CASE keys = {}
          <4>1. read[{}] = {m}
            BY <1>7
          <4> QED
            BY <3>1, <4>1
        <3>2. CASE keys # {}
          <4> DEFINE key == J!LastKey(keys)
                     less == keys \ {key}
          <4>1. keys \in SUBSET D /\ Cardinality(keys) <= c
            OBVIOUS
          <4>2. key \in keys /\ Cardinality(less) = Cardinality(keys) - 1 /\ Cardinality(keys) \in 1..N
            BY <1>3, <3>2, <4>1
          <4>3. less \in Within(c - 1)
            <5>1. Cardinality(less) <= c - 1 /\ less \in SUBSET D
              BY <1>2, <4>1, <4>2
            <5> HIDE DEF less
            <5> QED
              BY <5>1
          <4>4. PICK p \in read[less] : l \in J!processConfig(p, key, f[key])
            <5>1. read[keys] = UNION {J!processConfig(p, key, f[key]) : p \in read[less]}
              BY <1>7, <3>2, <4>1
            <5> HIDE DEF key, less
            <5> QED
              BY <5>1
          <4> HIDE DEF key
          <4>5. Configured(m, f, keys \ {key}, p)
            <5> HIDE DEF Within
            <5> QED
              BY <1>9, <4>3, <4>4
          <4> QED
            BY <1>2, <4>1, <4>2, <4>4, <4>5, ConfiguredNext
        <3> QED
          BY <3>1, <3>2
      <2> HIDE DEF Within
      <2> QED
        BY <2>1
    <1> HIDE DEF S
    <1>10. N \in S
      <2>1. 0..N \subseteq S
        BY <1>2, <1>8, <1>9, BoundedInduction
      <2> QED
        BY <1>2, <2>1
    <1>11. D \in Within(N)
      BY <1>2 DEF N
    <1> HIDE DEF Within
    <1> QED
      BY <1>1, <1>10, <1>11 DEF S

-------------------------------------------------------------------------------
(* The fields of the config JSON                                               *)

FieldNames == {"id", "version", "packageType", "entryPoint", "name", "versionName", "entryArgs",
               "packageSpecifier", "dependencies", "permissions", "configuration"}

\* A field that says nothing of the members.
LEMMA OtherFields ==
    ASSUME NEW m, Members \subseteq DOMAIN m, NEW j,
           NEW key \in FieldNames \ {"dependencies", "configuration"},
           NEW n \in J!processField(m, key, j)
    PROVE  Keeps(m, n, Members)
    <1> n \in J!processField(m, key, j)
      OBVIOUS
    <1>1. CASE key = "id"
      BY <1>1 DEF J!processField, J!processId, Members, Keeps
    <1>2. CASE key = "version"
      BY <1>2 DEF J!processField, J!processVersion, Members, Keeps
    <1>3. CASE key = "packageType"
      BY <1>3 DEF J!processField, J!processPackageType, Members, Keeps
    <1>4. CASE key = "entryPoint"
      BY <1>4 DEF J!processField, J!processEntryPoint, Members, Keeps
    <1>5. CASE key = "name"
      BY <1>5 DEF J!processField, J!processName, Members, Keeps
    <1>6. CASE key = "versionName"
      BY <1>6 DEF J!processField, J!processVersionName, Members, Keeps
    <1>7. CASE key = "entryArgs"
      BY <1>7 DEF J!processField, J!processEntryArgs, Members, Keeps
    <1>8. CASE key = "packageSpecifier"
      BY <1>8 DEF J!processField, J!processPackageSpecifier, Members, Keeps
    <1>9. CASE key = "permissions"
      BY <1>9 DEF J!processField, J!processPermissions, Members, Keeps
    <1> QED
      BY <1>1, <1>2, <1>3, <1>4, <1>5, <1>6, <1>7, <1>8, <1>9 DEF FieldNames

\* The dependencies of m are the ones of a document, each with the constraint its text stands for.
Depends(m, json) ==
    \A id \in DOMAIN m.dependencies :
        LET j == json["dependencies"][2][id]
        IN  /\ "dependencies" \in DOMAIN json /\ isObject(json["dependencies"])
            /\ id \in DOMAIN json["dependencies"][2] /\ isString(j)
            /\ m.dependencies[id] \in J!VersionConstraintFromString(j[2])

LEMMA DependenciesRead ==
    ASSUME NEW m, Members \subseteq DOMAIN m, NEW json, "dependencies" \in DOMAIN json,
           NEW n \in J!processField(m, "dependencies", json["dependencies"])
    PROVE  Keeps(m, n, Members \ {"dependencies"}) /\ Depends(n, json)
    <1> DEFINE j == json["dependencies"]
               Parsed(id) == J!VersionConstraintFromString(j[2][id][2])
               all == [id \in DOMAIN j[2] |-> CHOOSE c \in Parsed(id) : TRUE]
    <1>1. /\ J!isObject(j)
          /\ \A id \in DOMAIN j[2] : J!isString(j[2][id]) /\ Parsed(id) # {}
          /\ n = [m EXCEPT !.dependencies = all]
      BY DEF J!processField, J!processDependencies
    <1>2. \A id \in DOMAIN j[2] : all[id] \in Parsed(id)
      BY <1>1
    <1> HIDE DEF Parsed, all
    <1>3. n.dependencies = all /\ Keeps(m, n, Members \ {"dependencies"})
      BY <1>1 DEF Members, Keeps
    <1>4. DOMAIN all = DOMAIN j[2]
      BY DEF all
    <1> HIDE DEF j
    <1>5. Depends(n, json)
      BY <1>1, <1>2, <1>3, <1>4
         DEF Depends, isObject, J!isObject, isString, J!isString, Parsed, j
    <1> QED
      BY <1>3, <1>5

\* The members before the configuration is read.
Fresh(m) ==
    /\ Members \subseteq DOMAIN m
    /\ m.vendorConfig = EmptyObject
    /\ "Paused" \in m.lifecycle /\ "LowPower" \in m.lifecycle
    /\ \A k \in J!ServiceKinds : Served(m.services[k])

ConfigurationOf(json) ==
    IF "configuration" \in DOMAIN json THEN json["configuration"][2] ELSE EmptyObject

\* The members when it has been read.
Honoured(m, json) ==
    /\ Members \subseteq DOMAIN m
    /\ m.vendorConfig = ConfigurationOf(json)
    /\ "Paused" \in m.lifecycle
    /\ "LowPower" \in m.lifecycle <=> ~Terminates(ConfigurationOf(json), DOMAIN ConfigurationOf(json))
    /\ \A k \in J!ServiceKinds : Served(m.services[k])

\* Before the document nothing has been read.
LEMMA NothingRead == Fresh(NoMetaData) /\ \A json : Depends(NoMetaData, json)
    <1>1. Served(<<>>)
      <2>1. PICK T : T = {}
        OBVIOUS
      <2>2. <<>> \in Seq(T) /\ \A e \in T : HasPort(e)
        BY <2>1
      <2> QED
        BY <2>2 DEF Served
    <1>2. /\ Members \subseteq DOMAIN NoMetaData
          /\ NoMetaData.vendorConfig = EmptyObject
          /\ NoMetaData.dependencies = EmptyObject
          /\ NoMetaData.lifecycle = {"Paused", "LowPower"}
          /\ NoMetaData.services = [k \in ServiceKinds |-> <<>>]
      BY DEF NoMetaData, Members
    <1>3. DOMAIN EmptyObject = {}
      BY DEF EmptyObject
    <1> QED
      BY <1>1, <1>2, <1>3 DEF Fresh, Depends, ServiceKinds, J!ServiceKinds

\* A field of the document.
LEMMA FieldRead ==
    ASSUME NEW json \in JsonDocuments, NEW m, Fresh(m), Depends(m, json),
           NEW key \in FieldNames, NEW n \in J!readField(m, key, json)
    PROVE  /\ Depends(n, json)
           /\ key # "configuration" => Fresh(n)
           /\ key = "configuration" => Honoured(n, json)
    <1> DEFINE j == json[key]
    <1>1. n = m \/ (key \in DOMAIN json /\ n \in J!processField(m, key, j))
      BY DEF J!readField
    <1>2. key \notin DOMAIN json => n = m
      BY DEF J!readField
    <1>3. \A f : EmptyObject = [k \in {} |-> f[k]]
      BY DEF EmptyObject
    <1>4. DOMAIN EmptyObject = {}
      BY DEF EmptyObject
    <1>5. Members \subseteq DOMAIN m
      BY DEF Fresh
    <1>6. CASE key \notin DOMAIN json
      <2>1. Fresh(n) /\ Depends(n, json)
        BY <1>2, <1>6
      <2>2. key = "configuration" => ConfigurationOf(json) = EmptyObject
        BY <1>6 DEF ConfigurationOf
      <2> QED
        BY <1>4, <2>1, <2>2 DEF Fresh, Honoured, Terminates
    <1>7. CASE key \in DOMAIN json /\ key \notin {"dependencies", "configuration"}
      <2>1. n = m \/ Keeps(m, n, Members)
        BY <1>1, <1>5, <1>7, OtherFields
      <2> QED
        BY <1>7, <2>1 DEF Keeps, Members, Fresh, Depends
    <1>8. CASE key \in DOMAIN json /\ key = "dependencies"
      <2>1. n = m \/ (Keeps(m, n, Members \ {"dependencies"}) /\ Depends(n, json))
        BY <1>1, <1>5, <1>8, DependenciesRead
      <2> QED
        BY <1>8, <2>1 DEF Keeps, Members, Fresh
    <1>9. CASE key \in DOMAIN json /\ key = "configuration"
      <2>1. n \in J!processConfiguration(m, j)
        BY <1>9 DEF J!readField, J!processField
      <2>2. Configured(m, j[2], {}, m)
        BY <1>3 DEF Fresh, Configured, Terminates
      <2>3. J!isObject(j) => ConfigurationObject(j[2])
        BY <1>9, DocumentsAssumption DEF isObject, J!isObject
      <2> HIDE DEF j
      <2>4. J!isObject(j) /\ Configured(m, j[2], DOMAIN j[2], n)
        BY <2>1, <2>2, <2>3, ConfigurationRead
      <2>5. ConfigurationOf(json) = j[2] /\ j[2] = [k \in DOMAIN j[2] |-> j[2][k]]
        BY <1>9, <2>3, <2>4 DEF ConfigurationOf, ConfigurationObject, j
      <2>6. Depends(n, json)
        BY <2>4 DEF Depends, Configured
      <2> QED
        BY <1>9, <2>4, <2>5, <2>6 DEF Honoured, Configured
    <1> QED
      BY <1>6, <1>7, <1>8, <1>9

-------------------------------------------------------------------------------
(* Dependencies and configurations of what is built                            *)

\* The fields still to read: the configuration is the last one.
Pending(fields) ==
    /\ fields \in Seq(FieldNames)
    /\ \A i \in 1..Len(fields) : fields[i] = "configuration" <=> i = Len(fields)

ConfigInv ==
    kind = "json" =>
        /\ doc \in JsonDocuments /\ anyOrder = {} /\ after = <<>>
        /\ status \in {"new", "reading", "built", "refused"}
        /\ status = "new" => meta = NoMetaData
        /\ status = "reading" => /\ Pending(before) /\ Depends(meta, doc)
                                 /\ IF before = <<>> THEN Honoured(meta, doc) ELSE Fresh(meta)
        /\ status = "built" => Depends(meta, doc) /\ Honoured(meta, doc)

LEMMA AllFields == Pending(J!RequiredFields \o J!OptionalFields)
                    /\ J!RequiredFields \o J!OptionalFields # <<>>
    <1> DEFINE r == J!RequiredFields
               o == J!OptionalFields
    <1>1. r \in Seq(FieldNames) /\ o \in Seq(FieldNames) /\ Len(r) = 4 /\ Len(o) = 7
      BY DEF J!RequiredFields, J!OptionalFields, FieldNames
    <1>2. \A i \in 1..4 : r[i] # "configuration"
      BY DEF J!RequiredFields
    <1>3. \A i \in 1..7 : o[i] = "configuration" <=> i = 7
      BY DEF J!OptionalFields
    <1> HIDE DEF r, o
    <1> DEFINE w == r \o o
    <1>4. /\ w \in Seq(FieldNames) /\ Len(w) = Len(r) + Len(o)
          /\ \A i \in 1..(Len(r) + Len(o)) : w[i] = IF i <= Len(r) THEN r[i] ELSE o[i - Len(r)]
      BY <1>1, ConcatProperties
    <1> HIDE DEF w
    <1>5. Len(w) = 11
      BY <1>1, <1>4
    <1>6. ASSUME NEW i \in 1..11 PROVE w[i] = "configuration" <=> i = 11
      <2>1. CASE i <= 4
        <3>1. i \in 1..4 /\ i \in 1..(Len(r) + Len(o)) /\ i <= Len(r) /\ i # 11
          BY <1>1, <2>1
        <3>2. w[i] = r[i]
          BY <1>4, <3>1
        <3> QED
          BY <1>2, <3>1, <3>2
      <2>2. CASE ~(i <= 4)
        <3>1. i - 4 \in 1..7 /\ (i - 4 = 7 <=> i = 11) /\ i \in 1..(Len(r) + Len(o)) /\ ~(i <= Len(r))
          BY <1>1, <2>2
        <3>2. w[i] = o[i - 4]
          BY <1>1, <1>4, <3>1
        <3> QED
          BY <1>3, <3>1, <3>2
      <2> QED
        BY <2>1, <2>2
    <1>7. w # <<>>
      <2>1. Len(<<>>) = 0 /\ 11 # 0
        OBVIOUS
      <2>2. Len(w) # Len(<<>>)
        BY <1>5, <2>1
      <2> QED
        BY <2>2, Zenon
    <1> QED
      BY <1>4, <1>5, <1>6, <1>7 DEF Pending, w, r, o

LEMMA PendingNext ==
    ASSUME NEW fields, Pending(fields), fields # <<>>
    PROVE  /\ Head(fields) \in FieldNames /\ Pending(Tail(fields))
           /\ Head(fields) = "configuration" <=> Tail(fields) = <<>>
    <1>1. fields \in Seq(FieldNames) /\ Len(fields) \in Nat /\ Len(fields) # 0
      BY EmptySeq DEF Pending
    <1>2. /\ Head(fields) = fields[1] /\ Head(fields) \in FieldNames
          /\ Tail(fields) \in Seq(FieldNames) /\ Len(Tail(fields)) = Len(fields) - 1
          /\ \A i \in 1..(Len(fields) - 1) : Tail(fields)[i] = fields[i + 1]
      BY <1>1, HeadTailProperties
    <1>3. \A i \in 1..Len(fields) : fields[i] = "configuration" <=> i = Len(fields)
      BY DEF Pending
    <1>4. Tail(fields) = <<>> <=> Len(fields) = 1
      BY <1>1, <1>2, EmptySeq
    <1>5. ASSUME NEW i \in 1..(Len(fields) - 1)
          PROVE  Tail(fields)[i] = "configuration" <=> i = Len(fields) - 1
      <2>1. i + 1 \in 1..Len(fields) /\ (i + 1 = Len(fields) <=> i = Len(fields) - 1)
        BY <1>1
      <2> QED
        BY <1>2, <1>3, <2>1
    <1>6. 1 \in 1..Len(fields)
      BY <1>1
    <1> QED
      BY <1>2, <1>3, <1>4, <1>5, <1>6 DEF Pending

\* The invariant holds of every reachable state: config.xml is not its business.
LEMMA ConfigInductive ==
    BuildSpec => []ConfigInv
    <1>1. BuildInit => ConfigInv
      BY DEF BuildInit, ConfigInv
    <1>2. ASSUME ConfigInv, [BuildNext]_buildVars PROVE ConfigInv'
      <2> SUFFICES ASSUME kind' = "json" PROVE ConfigInv'
        BY DEF ConfigInv
      <2>1. CASE UNCHANGED buildVars
        BY <1>2, <2>1 DEF ConfigInv, buildVars
      <2>2. CASE OpenXml \/ ReadElement \/ ReadCapability
                    \/ ReadLastElement \/ FinishXml
        BY <1>2, <2>2 DEF ConfigInv, OpenXml, ReadElement, ReadCapability,
                          ReadLastElement, FinishXml
      <2>3. CASE OpenJson
        <3>1. kind = "json" /\ status' = "reading" /\ UNCHANGED <<kind, doc, anyOrder, after, meta>>
          BY <2>3 DEF OpenJson
        <3>2. Pending(before') /\ before' # <<>> /\ status = "new"
          BY <2>3, AllFields DEF OpenJson
        <3>3. meta' = NoMetaData
          BY <1>2, <3>1, <3>2 DEF ConfigInv
        <3>4. Fresh(meta') /\ Depends(meta', doc')
          BY <3>3, NothingRead
        <3> QED
          BY <1>2, <3>1, <3>2, <3>4 DEF ConfigInv
      <2>4. CASE ReadField
        <3> DEFINE results == J!readField(meta, Head(before), doc)
        <3>1. /\ kind = "json" /\ status = "reading" /\ before # <<>> /\ before' = Tail(before)
              /\ UNCHANGED <<kind, doc, anyOrder, after>>
              /\ \/ meta' \in results /\ status' = status
                 \/ status' = "refused"
          BY <2>4 DEF ReadField, Becomes
        <3>2. doc \in JsonDocuments /\ Pending(before) /\ Depends(meta, doc) /\ Fresh(meta)
          BY <1>2, <3>1 DEF ConfigInv
        <3>3. /\ Head(before) \in FieldNames /\ Pending(before')
              /\ Head(before) = "configuration" <=> before' = <<>>
          BY <3>1, <3>2, PendingNext
        <3>4. CASE meta' \in results /\ status' = status
          <4> DEFINE n == meta'
          <4>1. n \in results
            BY <3>4
          <4> HIDE DEF n
          <4>2. /\ Depends(n, doc)
                /\ Head(before) # "configuration" => Fresh(n)
                /\ Head(before) = "configuration" => Honoured(n, doc)
            BY <3>2, <3>3, <4>1, FieldRead
          <4>3. /\ Depends(meta', doc')
                /\ IF before' = <<>> THEN Honoured(meta', doc') ELSE Fresh(meta')
            BY <3>1, <3>3, <4>2 DEF n
          <4> QED
            BY <1>2, <3>1, <3>3, <3>4, <4>3 DEF ConfigInv
        <3>5. CASE status' = "refused"
          BY <1>2, <3>1, <3>5 DEF ConfigInv
        <3> QED
          BY <3>1, <3>4, <3>5
      <2>5. CASE FinishJson
        <3>1. /\ kind = "json" /\ status = "reading" /\ before = <<>>
              /\ UNCHANGED <<kind, doc, before, anyOrder, after>>
              /\ \/ meta' = J!finishConfigJson(meta) /\ status' = "built"
                 \/ status' = "refused"
          BY <2>5 DEF FinishJson, Ends
        <3>2. Depends(meta, doc) /\ Honoured(meta, doc)
          BY <1>2, <3>1 DEF ConfigInv
        <3> DEFINE n == J!finishConfigJson(meta)
        <3>3. Keeps(meta, n, Members)
          BY <3>2 DEF J!finishConfigJson, Honoured, Keeps, Members
        <3> HIDE DEF n
        <3>4. Depends(n, doc) /\ Honoured(n, doc)
          BY <3>2, <3>3 DEF Keeps, Members, Depends, Honoured
        <3>5. CASE meta' = n /\ status' = "built"
          BY <1>2, <3>1, <3>4, <3>5 DEF ConfigInv
        <3>6. CASE status' = "refused"
          BY <1>2, <3>1, <3>6 DEF ConfigInv
        <3> QED
          BY <3>1, <3>5, <3>6 DEF n
      <2> QED
        BY <1>2, <2>1, <2>2, <2>3, <2>4, <2>5 DEF BuildNext
    <1> QED
      BY <1>1, <1>2, PTL DEF BuildSpec

\* A package is built with every configuration of its document honoured: low power is left
\* out exactly when it is to terminate, pausing stays, every configuration can be read back
\* and no service is without a port, in whatever order the configurations are handed out
\* (OCIPackageMetaDataImpl::processConfiguration).
THEOREM ConfigurationsAreHonoured ==
    BuildSpec => []ConfigHonoured
    <1>1. ASSUME ConfigInv PROVE ConfigHonoured
      <2> SUFFICES ASSUME kind = "json", status = "built" PROVE ConfigHonoured
        BY DEF ConfigHonoured
      <2> DEFINE c == ConfigurationOf(doc)
      <2>1. /\ meta.vendorConfig = c
            /\ "Paused" \in meta.lifecycle
            /\ "LowPower" \in meta.lifecycle <=> ~Terminates(c, DOMAIN c)
            /\ \A k \in J!ServiceKinds : Served(meta.services[k])
        BY <1>1 DEF ConfigInv, Honoured
      <2>2. ASSUME NEW k \in ServiceKinds, NEW i \in DOMAIN meta.services[k]
            PROVE  IsPort(meta.services[k][i].port)
        <3> DEFINE list == meta.services[k]
        <3>1. Served(list)
          BY <2>1 DEF ServiceKinds, J!ServiceKinds
        <3> HIDE DEF list
        <3>2. PICK T : list \in Seq(T) /\ \A e \in T : HasPort(e)
          BY <3>1 DEF Served
        <3>3. i \in 1..Len(list)
          BY <3>2 DEF list
        <3>4. list[i] \in T
          BY <3>2, <3>3, ElementOfSeq
        <3> QED
          BY <3>2, <3>4 DEF HasPort, list
      <2>3. "LowPower" \in meta.lifecycle
                <=> ~("low-power:terminate" \in DOMAIN c /\ c["low-power:terminate"] = Bool(TRUE))
        BY <2>1 DEF Terminates, Bool, J!Bool
      <2>4. c = IF "configuration" \in DOMAIN doc THEN doc["configuration"][2] ELSE EmptyObject
        BY DEF ConfigurationOf
      <2> HIDE DEF c
      <2> QED
        BY <2>1, <2>2, <2>3, <2>4 DEF ConfigHonoured, IsPort
    <1> QED
      BY <1>1, ConfigInductive, PTL

\* A dependency is satisfied by exactly the versions its text allows, for fields of any
\* width: through the parts that VersionConstraint::fromString() makes of a tilde, a caret, a
\* range or a bare version, and VersionNumber::compare() of versions of different lengths.
THEOREM DependenciesMeanTheirText ==
    BuildSpec => []DependencyMeaning
    <1>1. ASSUME ConfigInv PROVE DependencyMeaning
      <2> SUFFICES ASSUME kind = "json", status = "built", NEW id \in DOMAIN meta.dependencies,
                          PlainConstraint(doc["dependencies"][2][id][2]),
                          NEW v \in AllVersions
                   PROVE  isSatisfiedBy(meta.dependencies[id], v)
                            <=> Allows(doc["dependencies"][2][id][2], v)
        BY DEF DependencyMeaning
      <2> DEFINE text == doc["dependencies"][2][id][2]
                 c == meta.dependencies[id]
      <2>1. doc \in JsonDocuments /\ Depends(meta, doc)
        BY <1>1 DEF ConfigInv
      <2>2. ConstraintText(text) /\ c \in J!VersionConstraintFromString(text)
        BY <2>1, DocumentsAssumption DEF Depends
      <2>3. v \in Version
        <3>1. PICK k \in 1..4 : v \in [1..k -> 0..(FieldMod - 1)]
          BY DEF AllVersions, kMaxFields, FieldMax
        <3> DEFINE S == 0..(FieldMod - 1)
        <3>2. v \in [1..k -> S] /\ k \in Nat
          BY <3>1
        <3> HIDE DEF S
        <3>3. v \in Seq(S)
          BY <3>2, SeqDef
        <3>4. Len(v) = k
          BY <3>2, <3>3, LenProperties
        <3> QED
          BY <3>1, <3>3, <3>4 DEF Version, S
      <2>4. PlainConstraint(text)
        OBVIOUS
      <2> HIDE DEF text, c
      <2>5. isSatisfiedBy(c, v) <=> Allows(text, v)
        BY <2>2, <2>3, <2>4, ConstraintMeans
      <2> QED
        BY <2>5 DEF text, c
    <1> QED
      BY <1>1, ConfigInductive, PTL

-------------------------------------------------------------------------------
(* The capabilities of config.xml: two that have different names commute       *)

\* What a capability's handler may change: a member of the meta data, or one vendor
\* configuration.
CapabilitySlots == {"permissions", "type", "storageGroup", "lifecycle", "inputHandling", "storageQuota",
                    "dialInfo", "display", "audio", "services", "logging", "startTimeout",
                    "watchdogInterval", "memoryQuota", "gpuMemoryQuota", "vendorConfig"}

MemberOf(name) ==
    CASE name \in X!GrantingCapabilities -> "permissions"
      [] name \in {"system-app", "daemon-app"} -> "type"
      [] name = "child-app" -> "storageGroup"
      [] name \in {"suspend-mode", "hibernate-mode", "no-low-power-mode"} -> "lifecycle"
      [] name \in {"keymapping", "forward-keymapping"} -> "inputHandling"
      [] name \in {"storage", "private-storage"} -> "storageQuota"
      [] name \in {"dial-app", "dial-id", "dial-origin-mandatory"} -> "dialInfo"
      [] name \in {"game-mode", "virtual-resolution", "refresh-rate-60hz"} -> "display"
      [] name \in {"program-reference-level", "sound-mode", "sound-scene"} -> "audio"
      [] name \in {"hole-punch", "local-socket-server", "local-socket-client"} -> "services"
      [] name = "log-levels" -> "logging"
      [] name = "start-timeout-sec" -> "startTimeout"
      [] name = "watchdog-timeout-sec" -> "watchdogInterval"
      [] name = "sys-memory-limit" -> "memoryQuota"
      [] name = "gpu-memory-limit" -> "gpuMemoryQuota"
      [] name \in {"fkps", "mediarite-underlay", "mapi", "catalogue-id", "content-partner-id", "age-rating",
                   "age-policy", "pre-launch", "drm-type", "drm-store", "pin-management",
                   "forward-multicast", "multicast-server-socket", "multicast-client-socket",
                   "intercept"} -> "vendorConfig"
      [] OTHER -> "none"

ConfigOf(name) ==
    CASE name = "fkps" -> "fkps"
      [] name \in {"mediarite-underlay", "mapi"} -> "mediarite"
      [] name = "catalogue-id" -> "catalogue-id"
      [] name = "content-partner-id" -> "content-partner-id"
      [] name = "age-rating" -> "age-rating"
      [] name = "age-policy" -> "age-policy"
      [] name = "pre-launch" -> "prelaunch"
      [] name \in {"drm-type", "drm-store"} -> "legacy:drm"
      [] name = "pin-management" -> "pin-management"
      [] name \in {"forward-multicast", "multicast-server-socket", "multicast-client-socket"} -> "multicast"
      [] name = "intercept" -> "marketplace-intercept"
      [] OTHER -> "none"

\* A meta data object with all of these members.
Whole(m) ==
    /\ m = [f \in DOMAIN m |-> m[f]] /\ CapabilitySlots \subseteq DOMAIN m
    /\ m.vendorConfig = [k \in DOMAIN m.vendorConfig |-> m.vendorConfig[k]]

\* The value of a vendor configuration, if there is one.
Kept(m, key) == IF key \in DOMAIN m.vendorConfig THEN {m.vendorConfig[key]} ELSE {}

\* From m to n nothing has changed but the member f, and of the vendor configurations key.
ChangesOnly(m, n, f, key) ==
    /\ DOMAIN n = DOMAIN m
    /\ \A g \in DOMAIN m \ {"vendorConfig"} : g # f => n[g] = m[g]
    /\ f # "vendorConfig" => n.vendorConfig = m.vendorConfig
    /\ \A other : other # key => Kept(n, other) = Kept(m, other)

\* m and n agree on the member f or, when that holds the vendor configurations, on key.
Agree(m, n, f, key) ==
    IF f = "vendorConfig" THEN Kept(m, key) = Kept(n, key)
    ELSE f \in CapabilitySlots => m[f] = n[f]

\* Two objects that agree everywhere are one.
LEMMA SameMetaData ==
    ASSUME NEW m, Whole(m), NEW n, Whole(n), DOMAIN m = DOMAIN n,
           \A f \in DOMAIN m \ {"vendorConfig"} : m[f] = n[f],
           \A key : Kept(m, key) = Kept(n, key)
    PROVE  m = n
    <1> DEFINE v == m.vendorConfig
               w == n.vendorConfig
    <1>1. \A key : /\ key \in DOMAIN v <=> key \in DOMAIN w
                   /\ key \in DOMAIN v => v[key] = w[key]
      <2> TAKE key
      <2>1. (IF key \in DOMAIN v THEN {v[key]} ELSE {}) = (IF key \in DOMAIN w THEN {w[key]} ELSE {})
        BY DEF Kept
      <2> HIDE DEF v, w
      <2> QED
        BY <2>1
    <1>2. v = [key \in DOMAIN v |-> v[key]] /\ w = [key \in DOMAIN w |-> w[key]]
      BY DEF Whole
    <1>3. v = w
      <2> HIDE DEF v, w
      <2>1. DOMAIN v = DOMAIN w
        BY <1>1
      <2> QED
        BY <1>1, <1>2, <2>1
    <1>4. \A f \in DOMAIN m : m[f] = n[f]
      BY <1>3
    <1>5. m = [f \in DOMAIN m |-> m[f]] /\ n = [f \in DOMAIN n |-> n[f]]
      BY DEF Whole
    <1> HIDE DEF v, w
    <1> QED
      BY <1>4, <1>5

\* m with another value of a member; with one of the vendor configurations set; with one
\* of them set unless it is there.
Member(m, f, v) == [m EXCEPT ![f] = v]
Config(m, key, v) == [m EXCEPT !.vendorConfig = X!Put(m.vendorConfig, key, v)]
AddedConfig(m, key, v) == [m EXCEPT !.vendorConfig = X!Emplace(m.vendorConfig, key, v)]

LEMMA MemberChanged ==
    ASSUME NEW m, Whole(m), NEW f \in CapabilitySlots \ {"vendorConfig"}, NEW v
    PROVE  LET n == Member(m, f, v)
           IN  Whole(n) /\ n[f] = v /\ \A key : ChangesOnly(m, n, f, key)
    <1> DEFINE n == Member(m, f, v)
    <1>1. /\ DOMAIN n = DOMAIN m /\ n = [g \in DOMAIN n |-> n[g]] /\ n[f] = v
          /\ \A g \in DOMAIN m : g # f => n[g] = m[g]
      BY DEF Whole, Member
    <1> HIDE DEF n
    <1>2. n.vendorConfig = m.vendorConfig
      BY <1>1 DEF Whole, CapabilitySlots
    <1> QED
      BY <1>1, <1>2 DEF Whole, ChangesOnly, Kept, n

LEMMA ConfigChanged ==
    ASSUME NEW m, Whole(m), NEW key, NEW v
    PROVE  LET n == Config(m, key, v)
           IN  Whole(n) /\ Kept(n, key) = {v} /\ ChangesOnly(m, n, "vendorConfig", key)
    <1> DEFINE n == Config(m, key, v)
               w == X!Put(m.vendorConfig, key, v)
    <1>1. /\ DOMAIN w = DOMAIN m.vendorConfig \cup {key} /\ w = [k \in DOMAIN w |-> w[k]] /\ w[key] = v
          /\ \A k \in DOMAIN m.vendorConfig : k # key => w[k] = m.vendorConfig[k]
      BY DEF X!Put
    <1> HIDE DEF w
    <1>2. /\ DOMAIN n = DOMAIN m /\ n = [g \in DOMAIN n |-> n[g]] /\ n.vendorConfig = w
          /\ \A g \in DOMAIN m : g # "vendorConfig" => n[g] = m[g]
      BY DEF Whole, CapabilitySlots, Config, w
    <1> HIDE DEF n
    <1>3. Kept(n, key) = {v} /\ \A other : other # key => Kept(n, other) = Kept(m, other)
      BY <1>1, <1>2 DEF Kept
    <1> QED
      BY <1>1, <1>2, <1>3 DEF Whole, ChangesOnly, n

LEMMA ConfigAdded ==
    ASSUME NEW m, Whole(m), NEW key, NEW v
    PROVE  LET n == AddedConfig(m, key, v)
           IN  /\ Whole(n) /\ ChangesOnly(m, n, "vendorConfig", key)
               /\ Kept(n, key) = IF Kept(m, key) = {} THEN {v} ELSE Kept(m, key)
    <1> DEFINE n == AddedConfig(m, key, v)
    <1>1. CASE key \in DOMAIN m.vendorConfig
      <2>1. n = m
        BY <1>1 DEF X!Emplace, Whole, AddedConfig
      <2> QED
        BY <1>1, <2>1 DEF Kept, ChangesOnly
    <1>2. CASE key \notin DOMAIN m.vendorConfig
      <2>1. n = Config(m, key, v)
        BY <1>2 DEF X!Emplace, AddedConfig, Config
      <2>2. Kept(m, key) = {}
        BY <1>2 DEF Kept
      <2> QED
        BY <2>1, <2>2, ConfigChanged
    <1> QED
      BY <1>1, <1>2

\* n is one result for m and R are those for k: the handler changes only the member f (and
\* only key of the vendor configurations), and it uses nothing else of the object.
Local(m, k, n, R, f, key) ==
    /\ Whole(n) /\ ChangesOnly(m, n, f, key)
    /\ R # {}
    /\ \A l \in R : Agree(m, k, f, key) => Agree(n, l, f, key)

LEMMA LocalMember ==
    ASSUME NEW m, Whole(m), NEW k, Whole(k), NEW f \in CapabilitySlots \ {"vendorConfig"}, NEW key,
           NEW v, NEW n, n = Member(m, f, v), NEW w, NEW R, R = {Member(k, f, w)},
           m[f] = k[f] => v = w
    PROVE  Local(m, k, n, R, f, key)
    <1>1. Whole(n) /\ n[f] = v /\ ChangesOnly(m, n, f, key)
      BY MemberChanged
    <1> DEFINE l == Member(k, f, w)
    <1>2. l[f] = w
      <2> HIDE DEF l
      <2>1. l = Member(k, f, w)
        BY DEF l
      <2> QED
        BY <2>1, MemberChanged
    <1>3. R = {l}
      OBVIOUS
    <1> HIDE DEF l
    <1> QED
      BY <1>1, <1>2, <1>3 DEF Local, Agree

LEMMA LocalConfig ==
    ASSUME NEW m, Whole(m), NEW k, Whole(k), NEW key, NEW v, NEW w, Kept(m, key) = Kept(k, key) => v = w,
           NEW n, NEW l, NEW R, R = {l},
           \/ /\ n = Config(m, key, v)
              /\ l = Config(k, key, w)
           \/ /\ n = AddedConfig(m, key, v)
              /\ l = AddedConfig(k, key, w)
    PROVE  Local(m, k, n, R, "vendorConfig", key)
    <1>1. CASE /\ n = Config(m, key, v)
               /\ l = Config(k, key, w)
      <2>1. Whole(n) /\ Kept(n, key) = {v} /\ ChangesOnly(m, n, "vendorConfig", key)
        BY <1>1, ConfigChanged
      <2>2. Kept(l, key) = {w}
        BY <1>1, ConfigChanged
      <2> QED
        BY <2>1, <2>2 DEF Local, Agree
    <1>2. CASE /\ n = AddedConfig(m, key, v)
               /\ l = AddedConfig(k, key, w)
      <2>1. /\ Whole(n) /\ ChangesOnly(m, n, "vendorConfig", key)
            /\ Kept(n, key) = IF Kept(m, key) = {} THEN {v} ELSE Kept(m, key)
        BY <1>2, ConfigAdded
      <2>2. Kept(l, key) = IF Kept(k, key) = {} THEN {w} ELSE Kept(k, key)
        BY <1>2, ConfigAdded
      <2> QED
        BY <2>1, <2>2 DEF Local, Agree
    <1> QED
      BY <1>1, <1>2

\* A handler that does nothing.
LEMMA LocalNothing ==
    ASSUME NEW m, Whole(m), NEW k, NEW f, NEW key
    PROVE  Local(m, k, m, {k}, f, key)
    BY DEF Local, ChangesOnly

\* What each capability does.
LEMMA HandlerOf ==
    ASSUME NEW m, NEW name, NEW c
    PROVE  LET results == X!processCapability(m, name, c)
           IN  /\ MemberOf(name) = "permissions" =>
                    results = {[m EXCEPT !.permissions = @ \cup X!kPermissionMap[name]]}
               /\ MemberOf(name) = "type" => results = {X!processCapabilitySystemApp(m)}
               /\ MemberOf(name) = "storageGroup" => results = {X!processCapabilityParentPackageId(m, c)}
               /\ MemberOf(name) = "lifecycle" => results = {X!processCapabilityLifecycleStates(m, name)}
               /\ MemberOf(name) = "inputHandling" => results = {X!processCapabilityKeyMapping(m, name, c)}
               /\ MemberOf(name) = "storageQuota" => results = {X!processCapabilityStorageSize(m, name, c)}
               /\ MemberOf(name) = "dialInfo" => results = {X!processCapabilityDialInfo(m, name, c)}
               /\ MemberOf(name) = "display" => results = {X!processCapabilityDisplayInfo(m, name, c)}
               /\ MemberOf(name) = "audio" => results = {X!processCapabilityAudioInfo(m, name, c)}
               /\ MemberOf(name) = "services" => results = {X!processCapabilityServices(m, name, c)}
               /\ MemberOf(name) = "logging" => results = {X!processCapabilityLogging(m, c)}
               /\ MemberOf(name) \in {"startTimeout", "watchdogInterval"} =>
                    results = X!processCapabilityWatchdog(m, name, c)
               /\ MemberOf(name) \in {"memoryQuota", "gpuMemoryQuota"} =>
                    results = X!processCapabilityMemoryLimits(m, name, c)
               /\ MemberOf(name) = "none" => results = {m}
    <1>1. DOMAIN X!kPermissionMap = X!GrantingCapabilities
      BY DEF X!kPermissionMap
    <1>3. CASE name \in X!GrantingCapabilities
      <2>1. MemberOf(name) = "permissions"
        BY <1>3 DEF MemberOf, X!GrantingCapabilities
      <2>2. X!processCapability(m, name, c) = {[m EXCEPT !.permissions = @ \cup X!kPermissionMap[name]]}
        BY <1>1, <1>3 DEF X!processCapability, X!GrantingCapabilities
      <2> QED
        BY <2>1, <2>2
    <1>4. CASE name \notin X!GrantingCapabilities
      BY <1>1, <1>4 DEF MemberOf, X!processCapability
    <1> QED
      BY <1>3, <1>4

LEMMA ConfigHandlerOf ==
    ASSUME NEW m, NEW name, NEW c, MemberOf(name) = "vendorConfig"
    PROVE  LET results == X!processCapability(m, name, c)
           IN  /\ ConfigOf(name) = "fkps" => results = {X!processCapabilityFKPS(m, c)}
               /\ ConfigOf(name) = "mediarite" => results = {X!processCapabilityMediarite(m, name, c)}
               /\ ConfigOf(name) = "catalogue-id" => results = {X!processCapabilityCatalogueId(m, c)}
               /\ ConfigOf(name) = "content-partner-id" =>
                    results = {X!processCapabilityContentPartnerId(m, c)}
               /\ ConfigOf(name) = "age-rating" => results = {X!processCapabilityAgeRating(m, c)}
               /\ ConfigOf(name) = "age-policy" => results = {X!processCapabilityAgePolicy(m, c)}
               /\ ConfigOf(name) = "prelaunch" => results = {X!processCapabilityPreLaunch(m, c)}
               /\ ConfigOf(name) = "legacy:drm" => results = {X!processCapabilityDrm(m, name, c)}
               /\ ConfigOf(name) = "pin-management" => results = {X!processCapabilityPinManagement(m, c)}
               /\ ConfigOf(name) = "multicast" => results = {X!processCapabilityMulticast(m, name, c)}
               /\ ConfigOf(name) = "marketplace-intercept" =>
                    results = {X!processCapabilityAppIntercept(m, c)}
               /\ ConfigOf(name) # "none"
    <1>1. DOMAIN X!kPermissionMap = X!GrantingCapabilities
      BY DEF X!kPermissionMap
    <1>2. name \notin X!GrantingCapabilities
      BY DEF MemberOf, X!GrantingCapabilities
    <1>3. name \in {"fkps", "mediarite-underlay", "mapi", "catalogue-id", "content-partner-id", "age-rating",
                   "age-policy", "pre-launch", "drm-type", "drm-store", "pin-management",
                   "forward-multicast", "multicast-server-socket", "multicast-client-socket",
                   "intercept"}
      BY <1>2 DEF MemberOf
    <1> QED
      BY ZenonT(40), <1>1, <1>2, <1>3 DEF ConfigOf, X!processCapability

\* A handler that changes one member, given as what it makes of two objects.
LEMMA LocalValue ==
    ASSUME NEW m, Whole(m), NEW k, Whole(k), NEW f \in CapabilitySlots \ {"vendorConfig"}, NEW key,
           NEW n, n = Member(m, f, n[f]), NEW l, l = Member(k, f, l[f]),
           m[f] = k[f] => n[f] = l[f]
    PROVE  Local(m, k, n, {l}, f, key)
    BY LocalMember

\* Every capability but those of the vendor configurations changes one member.
LEMMA MembersAreLocal ==
    ASSUME NEW m, Whole(m), NEW k, Whole(k), NEW name, NEW c, MemberOf(name) # "vendorConfig",
           NEW n \in X!processCapability(m, name, c)
    PROVE  Local(m, k, n, X!processCapability(k, name, c), MemberOf(name), ConfigOf(name))
    <1> DEFINE f == MemberOf(name)
               R == X!processCapability(k, name, c)
    <1>1. /\ m = [g \in DOMAIN m |-> m[g]] /\ CapabilitySlots \subseteq DOMAIN m
          /\ k = [g \in DOMAIN k |-> k[g]] /\ CapabilitySlots \subseteq DOMAIN k
      BY DEF Whole
    <1>2. CASE f = "none"
      <2>1. n = m /\ R = {k}
        BY <1>2, HandlerOf
      <2> QED
        BY <2>1, LocalNothing
    <1>3. CASE f = "permissions"
      <2> DEFINE l == [k EXCEPT !.permissions = @ \cup X!kPermissionMap[name]]
      <2>1. n = [m EXCEPT !.permissions = @ \cup X!kPermissionMap[name]] /\ R = {l}
        BY <1>3, HandlerOf
      <2>2. /\ n = Member(m, f, n[f]) /\ l = Member(k, f, l[f])
            /\ m[f] = k[f] => n[f] = l[f]
        BY <1>1, <1>3, <2>1 DEF Member, CapabilitySlots
      <2> HIDE DEF l
      <2>3. f \in CapabilitySlots \ {"vendorConfig"}
        BY <1>3 DEF CapabilitySlots
      <2> HIDE DEF f, R
      <2> QED
        BY <2>1, <2>2, <2>3, LocalValue DEF f, R
    <1>4. CASE f = "type"
      <2> DEFINE l == X!processCapabilitySystemApp(k)
      <2>1. n = X!processCapabilitySystemApp(m) /\ R = {l}
        BY <1>4, HandlerOf
      <2>2. /\ n = Member(m, f, n[f]) /\ l = Member(k, f, l[f])
            /\ m[f] = k[f] => n[f] = l[f]
        BY <1>1, <1>4, <2>1 DEF Member, CapabilitySlots, X!processCapabilitySystemApp
      <2> HIDE DEF l
      <2>3. f \in CapabilitySlots \ {"vendorConfig"}
        BY <1>4 DEF CapabilitySlots
      <2> HIDE DEF f, R
      <2> QED
        BY <2>1, <2>2, <2>3, LocalValue DEF f, R
    <1>5. CASE f = "storageGroup"
      <2> DEFINE l == X!processCapabilityParentPackageId(k, c)
      <2>1. n = X!processCapabilityParentPackageId(m, c) /\ R = {l}
        BY <1>5, HandlerOf
      <2>2. /\ n = Member(m, f, n[f]) /\ l = Member(k, f, l[f])
            /\ m[f] = k[f] => n[f] = l[f]
        BY <1>1, <1>5, <2>1 DEF Member, CapabilitySlots, X!processCapabilityParentPackageId
      <2> HIDE DEF l
      <2>3. f \in CapabilitySlots \ {"vendorConfig"}
        BY <1>5 DEF CapabilitySlots
      <2> HIDE DEF f, R
      <2> QED
        BY <2>1, <2>2, <2>3, LocalValue DEF f, R
    <1>6. CASE f = "lifecycle"
      <2> DEFINE l == X!processCapabilityLifecycleStates(k, name)
      <2>1. n = X!processCapabilityLifecycleStates(m, name) /\ R = {l}
        BY <1>6, HandlerOf
      <2>2. /\ n = Member(m, f, n[f]) /\ l = Member(k, f, l[f])
            /\ m[f] = k[f] => n[f] = l[f]
        BY <1>1, <1>6, <2>1 DEF Member, CapabilitySlots, X!processCapabilityLifecycleStates
      <2> HIDE DEF l
      <2>3. f \in CapabilitySlots \ {"vendorConfig"}
        BY <1>6 DEF CapabilitySlots
      <2> HIDE DEF f, R
      <2> QED
        BY <2>1, <2>2, <2>3, LocalValue DEF f, R
    <1>7. CASE f = "inputHandling"
      <2> DEFINE l == X!processCapabilityKeyMapping(k, name, c)
      <2>1. n = X!processCapabilityKeyMapping(m, name, c) /\ R = {l}
        BY <1>7, HandlerOf
      <2>2. /\ n = Member(m, f, n[f]) /\ l = Member(k, f, l[f])
            /\ m[f] = k[f] => n[f] = l[f]
        BY ZenonT(40), <1>1, <1>7, <2>1 DEF Member, CapabilitySlots, X!processCapabilityKeyMapping
      <2> HIDE DEF l
      <2>3. f \in CapabilitySlots \ {"vendorConfig"}
        BY <1>7 DEF CapabilitySlots
      <2> HIDE DEF f, R
      <2> QED
        BY <2>1, <2>2, <2>3, LocalValue DEF f, R
    <1>8. CASE f = "storageQuota"
      <2> DEFINE l == X!processCapabilityStorageSize(k, name, c)
      <2>1. n = X!processCapabilityStorageSize(m, name, c) /\ R = {l}
        BY <1>8, HandlerOf
      <2>2. /\ n = Member(m, f, n[f]) /\ l = Member(k, f, l[f])
            /\ m[f] = k[f] => n[f] = l[f]
        BY <1>1, <1>8, <2>1 DEF Member, CapabilitySlots, X!processCapabilityStorageSize
      <2> HIDE DEF l
      <2>3. f \in CapabilitySlots \ {"vendorConfig"}
        BY <1>8 DEF CapabilitySlots
      <2> HIDE DEF f, R
      <2> QED
        BY <2>1, <2>2, <2>3, LocalValue DEF f, R
    <1>9. CASE f = "dialInfo"
      <2> DEFINE l == X!processCapabilityDialInfo(k, name, c)
      <2>1. n = X!processCapabilityDialInfo(m, name, c) /\ R = {l}
        BY <1>9, HandlerOf
      <2>2. /\ n = Member(m, f, n[f]) /\ l = Member(k, f, l[f])
            /\ m[f] = k[f] => n[f] = l[f]
        BY <1>1, <1>9, <2>1 DEF Member, CapabilitySlots, X!processCapabilityDialInfo
      <2> HIDE DEF l
      <2>3. f \in CapabilitySlots \ {"vendorConfig"}
        BY <1>9 DEF CapabilitySlots
      <2> HIDE DEF f, R
      <2> QED
        BY <2>1, <2>2, <2>3, LocalValue DEF f, R
    <1>10. CASE f = "display"
      <2> DEFINE l == X!processCapabilityDisplayInfo(k, name, c)
      <2>1. n = X!processCapabilityDisplayInfo(m, name, c) /\ R = {l}
        BY <1>10, HandlerOf
      <2> DEFINE d(u) ==
                   CASE name = "virtual-resolution" ->
                            [u EXCEPT !.size = IF c[1] = "number" /\ c[2] \in X!DisplaySizes
                                                  /\ c[3] \in {"", "p", "i"}
                                               THEN c[2] ELSE 0]
                     [] name = "refresh-rate-60hz" -> [u EXCEPT !.refreshRate = 60]
                     [] name = "game-mode" /\ c = X!AWord("static") ->
                            [u EXCEPT !.pictureMode = {"gameModeStatic"}]
                     [] name = "game-mode" /\ c = X!AWord("dynamic") ->
                            [u EXCEPT !.pictureMode = {"gameModeDynamic"}]
                     [] OTHER -> u
      <2>4. ASSUME NEW x, x = [g \in DOMAIN x |-> x[g]], "display" \in DOMAIN x
            PROVE  X!processCapabilityDisplayInfo(x, name, c) = Member(x, "display", d(x.display))
        <3>1. x = [x EXCEPT !.display = x.display]
          BY <2>4
        <3>2. X!AWord("static") # X!AWord("dynamic")
          BY DEF X!AWord
        <3>3. CASE name = "virtual-resolution"
          BY <3>3 DEF Member, X!processCapabilityDisplayInfo
        <3>4. CASE name = "refresh-rate-60hz"
          BY <3>4 DEF Member, X!processCapabilityDisplayInfo
        <3>5. CASE name = "game-mode" /\ c = X!AWord("static")
          BY <3>2, <3>5 DEF Member, X!processCapabilityDisplayInfo
        <3>6. CASE name = "game-mode" /\ c = X!AWord("dynamic")
          BY <3>2, <3>6 DEF Member, X!processCapabilityDisplayInfo
        <3>7. CASE /\ name # "virtual-resolution" /\ name # "refresh-rate-60hz"
                   /\ ~(name = "game-mode" /\ c = X!AWord("static"))
                   /\ ~(name = "game-mode" /\ c = X!AWord("dynamic"))
          <4>1. X!processCapabilityDisplayInfo(x, name, c) = x /\ d(x.display) = x.display
            BY <3>7 DEF X!processCapabilityDisplayInfo
          <4> HIDE DEF d
          <4> QED
            BY <3>1, <4>1 DEF Member
        <3> QED
          BY <3>3, <3>4, <3>5, <3>6, <3>7
      <2> HIDE DEF d
      <2>5. n = Member(m, f, d(m.display)) /\ l = Member(k, f, d(k.display))
        BY <1>1, <1>10, <2>1, <2>4 DEF CapabilitySlots
      <2>6. f \in DOMAIN m /\ f \in DOMAIN k
        BY <1>1, <1>10 DEF CapabilitySlots
      <2> HIDE DEF l
      <2>2. /\ n = Member(m, f, n[f]) /\ l = Member(k, f, l[f])
            /\ m[f] = k[f] => n[f] = l[f]
        BY <1>10, <2>5, <2>6 DEF Member
      <2>3. f \in CapabilitySlots \ {"vendorConfig"}
        BY <1>10 DEF CapabilitySlots
      <2> HIDE DEF f, R
      <2> QED
        BY <2>1, <2>2, <2>3, LocalValue DEF f, R
    <1>11. CASE f = "audio"
      <2> DEFINE l == X!processCapabilityAudioInfo(k, name, c)
      <2>1. n = X!processCapabilityAudioInfo(m, name, c) /\ R = {l}
        BY <1>11, HandlerOf
      <2>2. /\ n = Member(m, f, n[f]) /\ l = Member(k, f, l[f])
            /\ m[f] = k[f] => n[f] = l[f]
        BY <1>1, <1>11, <2>1 DEF Member, CapabilitySlots, X!processCapabilityAudioInfo
      <2> HIDE DEF l
      <2>3. f \in CapabilitySlots \ {"vendorConfig"}
        BY <1>11 DEF CapabilitySlots
      <2> HIDE DEF f, R
      <2> QED
        BY <2>1, <2>2, <2>3, LocalValue DEF f, R
    <1>12. CASE f = "services"
      <2> DEFINE l == X!processCapabilityServices(k, name, c)
      <2>1. n = X!processCapabilityServices(m, name, c) /\ R = {l}
        BY <1>12, HandlerOf
      <2>2. /\ n = Member(m, f, n[f]) /\ l = Member(k, f, l[f])
            /\ m[f] = k[f] => n[f] = l[f]
        BY <1>1, <1>12, <2>1 DEF Member, CapabilitySlots, X!processCapabilityServices
      <2> HIDE DEF l
      <2>3. f \in CapabilitySlots \ {"vendorConfig"}
        BY <1>12 DEF CapabilitySlots
      <2> HIDE DEF f, R
      <2> QED
        BY <2>1, <2>2, <2>3, LocalValue DEF f, R
    <1>13. CASE f = "logging"
      <2> DEFINE l == X!processCapabilityLogging(k, c)
      <2>1. n = X!processCapabilityLogging(m, c) /\ R = {l}
        BY <1>13, HandlerOf
      <2>2. /\ n = Member(m, f, n[f]) /\ l = Member(k, f, l[f])
            /\ m[f] = k[f] => n[f] = l[f]
        BY <1>1, <1>13, <2>1 DEF Member, CapabilitySlots, X!processCapabilityLogging
      <2> HIDE DEF l
      <2>3. f \in CapabilitySlots \ {"vendorConfig"}
        BY <1>13 DEF CapabilitySlots
      <2> HIDE DEF f, R
      <2> QED
        BY <2>1, <2>2, <2>3, LocalValue DEF f, R
    <1>14. CASE f \in {"startTimeout", "watchdogInterval"}
      <2>1. n \in X!processCapabilityWatchdog(m, name, c) /\ R = X!processCapabilityWatchdog(k, name, c)
        BY <1>14, HandlerOf
      <2>2. f \in CapabilitySlots \ {"vendorConfig"}
        BY <1>14 DEF CapabilitySlots
      <2>4. f = IF name = "start-timeout-sec" THEN "startTimeout" ELSE "watchdogInterval"
        BY <1>14 DEF MemberOf
      <2> DEFINE v == {X!Max({5, X!strtoul(c)}) * 1000}
      <2> HIDE DEF f, R
      <2>3. n = Member(m, f, v) /\ R = {Member(k, f, v)}
        <3>1. X!processCapabilityWatchdog(m, name, c) =
                IF c[1] # "number" THEN {}
                ELSE {IF name = "start-timeout-sec" THEN [m EXCEPT !.startTimeout = v]
                                                    ELSE [m EXCEPT !.watchdogInterval = v]}
          BY DEF X!processCapabilityWatchdog
        <3>2. X!processCapabilityWatchdog(k, name, c) =
                IF c[1] # "number" THEN {}
                ELSE {IF name = "start-timeout-sec" THEN [k EXCEPT !.startTimeout = v]
                                                    ELSE [k EXCEPT !.watchdogInterval = v]}
          BY DEF X!processCapabilityWatchdog
        <3> HIDE DEF v
        <3> QED
          BY <2>1, <2>4, <3>1, <3>2 DEF Member
      <2> HIDE DEF f, R
      <2> QED
        BY <2>2, <2>3, LocalMember DEF f, R
    <1>15. CASE f \in {"memoryQuota", "gpuMemoryQuota"}
      <2>1. n \in X!processCapabilityMemoryLimits(m, name, c) /\ R = X!processCapabilityMemoryLimits(k, name, c)
        BY <1>15, HandlerOf
      <2>2. f \in CapabilitySlots \ {"vendorConfig"}
        BY <1>15 DEF CapabilitySlots
      <2>4. f = IF name = "sys-memory-limit" THEN "memoryQuota" ELSE "gpuMemoryQuota"
        BY <1>15 DEF MemberOf
      <2> DEFINE v == {X!Scaled(c[2], c[3])}
      <2> HIDE DEF f, R
      <2>3. n = Member(m, f, v) /\ R = {Member(k, f, v)}
        BY <2>1, <2>4 DEF X!processCapabilityMemoryLimits, Member
      <2> HIDE DEF f, R
      <2> QED
        BY <2>2, <2>3, LocalMember DEF f, R
    <1>16. f \in {"none", "permissions", "type", "storageGroup", "lifecycle", "inputHandling", "storageQuota",
                "dialInfo", "display", "audio", "services", "logging", "startTimeout",
                "watchdogInterval", "memoryQuota", "gpuMemoryQuota"}
      BY DEF MemberOf
    <1> HIDE DEF f
    <1> QED
      BY <1>2, <1>3, <1>4, <1>5, <1>6, <1>7, <1>8, <1>9, <1>10, <1>11, <1>12, <1>13, <1>14, <1>15, <1>16

\* A vendor configuration is read as it is kept.
LEMMA SameConfigObject ==
    ASSUME NEW m, NEW k, NEW key, Kept(m, key) = Kept(k, key)
    PROVE  X!ConfigObject(m, key) = X!ConfigObject(k, key)
    <1> DEFINE v == m.vendorConfig
               w == k.vendorConfig
    <1>1. (IF key \in DOMAIN v THEN {v[key]} ELSE {}) = (IF key \in DOMAIN w THEN {w[key]} ELSE {})
      BY DEF Kept
    <1>2. /\ X!ConfigObject(m, key) = IF key \in DOMAIN v THEN v[key][2] ELSE X!EmptyObject
          /\ X!ConfigObject(k, key) = IF key \in DOMAIN w THEN w[key][2] ELSE X!EmptyObject
      BY DEF X!ConfigObject
    <1> HIDE DEF v, w
    <1>3. /\ key \in DOMAIN v <=> key \in DOMAIN w
          /\ key \in DOMAIN v => v[key] = w[key]
      BY <1>1
    <1> QED
      BY <1>2, <1>3

\* A vendor configuration is set from what it is, or added.
LEMMA LocalSet ==
    ASSUME NEW m, Whole(m), NEW k, Whole(k), NEW key, NEW v, NEW w, Kept(m, key) = Kept(k, key) => v = w
    PROVE  Local(m, k, Config(m, key, v), {Config(k, key, w)}, "vendorConfig", key)
    BY LocalConfig

LEMMA LocalAdded ==
    ASSUME NEW m, Whole(m), NEW k, Whole(k), NEW key, NEW v
    PROVE  Local(m, k, AddedConfig(m, key, v), {AddedConfig(k, key, v)}, "vendorConfig", key)
    BY LocalConfig

\* The capabilities of the vendor configurations change one of these.
LEMMA ConfigsAreLocal ==
    ASSUME NEW m, Whole(m), NEW k, Whole(k), NEW name, NEW c, MemberOf(name) = "vendorConfig",
           NEW n \in X!processCapability(m, name, c)
    PROVE  Local(m, k, n, X!processCapability(k, name, c), MemberOf(name), ConfigOf(name))
    <1> DEFINE key == ConfigOf(name)
               R == X!processCapability(k, name, c)
    <1>1. SUFFICES Local(m, k, n, R, "vendorConfig", key)
      OBVIOUS
    <1>2. CASE key = "fkps"
      <2>1. n = X!processCapabilityFKPS(m, c) /\ R = {X!processCapabilityFKPS(k, c)}
        BY <1>2, ConfigHandlerOf
      <2> DEFINE v == X!Obj([file \in {"files"} |-> X!StrArray(SelectSeq(X!splitStringToVector(c), X!verifyPackagePath))])
      <2>2. \/ n = m /\ R = {k}
            \/ n = AddedConfig(m, key, v) /\ R = {AddedConfig(k, key, v)}
        BY <1>2, <2>1 DEF X!processCapabilityFKPS, AddedConfig
      <2> HIDE DEF key, R, v
      <2> QED
        BY <2>2, LocalAdded, LocalNothing DEF key, R
    <1>3. CASE key = "catalogue-id"
      <2>1. n = X!processCapabilityCatalogueId(m, c) /\ R = {X!processCapabilityCatalogueId(k, c)}
        BY <1>3, ConfigHandlerOf
      <2> DEFINE v == X!Str(X!AsText(c))
      <2>2. n = AddedConfig(m, key, v) /\ R = {AddedConfig(k, key, v)}
        BY <1>3, <2>1 DEF X!processCapabilityCatalogueId, AddedConfig
      <2> HIDE DEF key, R, v
      <2> QED
        BY <2>2, LocalAdded DEF key, R
    <1>4. CASE key = "content-partner-id"
      <2>1. n = X!processCapabilityContentPartnerId(m, c) /\ R = {X!processCapabilityContentPartnerId(k, c)}
        BY <1>4, ConfigHandlerOf
      <2> DEFINE v == X!Str(X!AsText(c))
      <2>2. n = AddedConfig(m, key, v) /\ R = {AddedConfig(k, key, v)}
        BY <1>4, <2>1 DEF X!processCapabilityContentPartnerId, AddedConfig
      <2> HIDE DEF key, R, v
      <2> QED
        BY <2>2, LocalAdded DEF key, R
    <1>5. CASE key = "age-rating"
      <2>1. n = X!processCapabilityAgeRating(m, c) /\ R = {X!processCapabilityAgeRating(k, c)}
        BY <1>5, ConfigHandlerOf
      <2> DEFINE v == X!JInt(X!strtoul(c))
      <2>2. \/ n = m /\ R = {k}
            \/ n = AddedConfig(m, key, v) /\ R = {AddedConfig(k, key, v)}
        BY <1>5, <2>1 DEF X!processCapabilityAgeRating, AddedConfig
      <2> HIDE DEF key, R, v
      <2> QED
        BY <2>2, LocalAdded, LocalNothing DEF key, R
    <1>6. CASE key = "age-policy"
      <2>1. n = X!processCapabilityAgePolicy(m, c) /\ R = {X!processCapabilityAgePolicy(k, c)}
        BY <1>6, ConfigHandlerOf
      <2> DEFINE v == X!Str(X!AsText(c))
      <2>2. n = AddedConfig(m, key, v) /\ R = {AddedConfig(k, key, v)}
        BY <1>6, <2>1 DEF X!processCapabilityAgePolicy, AddedConfig
      <2> HIDE DEF key, R, v
      <2> QED
        BY <2>2, LocalAdded DEF key, R
    <1>7. CASE key = "prelaunch"
      <2>1. n = X!processCapabilityPreLaunch(m, c) /\ R = {X!processCapabilityPreLaunch(k, c)}
        BY <1>7, ConfigHandlerOf
      <2> DEFINE v == X!Str(X!AsText(c))
      <2>2. \/ n = m /\ R = {k}
            \/ n = AddedConfig(m, key, v) /\ R = {AddedConfig(k, key, v)}
        BY <1>7, <2>1 DEF X!processCapabilityPreLaunch, AddedConfig
      <2> HIDE DEF key, R, v
      <2> QED
        BY <2>2, LocalAdded, LocalNothing DEF key, R
    <1>8. CASE key = "pin-management"
      <2>1. n = X!processCapabilityPinManagement(m, c) /\ R = {X!processCapabilityPinManagement(k, c)}
        BY <1>8, ConfigHandlerOf
      <2> DEFINE v == X!Str(IF X!AsText(c) \in {"readwrite", "readonly"} THEN X!AsText(c) ELSE "excluded")
      <2>2. n = AddedConfig(m, key, v) /\ R = {AddedConfig(k, key, v)}
        BY <1>8, <2>1 DEF X!processCapabilityPinManagement, AddedConfig
      <2> HIDE DEF key, R, v
      <2> QED
        BY <2>2, LocalAdded DEF key, R
    <1>9. CASE key = "marketplace-intercept"
      <2>1. n = X!processCapabilityAppIntercept(m, c) /\ R = {X!processCapabilityAppIntercept(k, c)}
        BY <1>9, ConfigHandlerOf
      <2> DEFINE v == X!Obj([e \in {"enable"} |-> X!Bool(X!AsText(c) = "true")])
      <2>2. \/ n = m /\ R = {k}
            \/ n = AddedConfig(m, key, v) /\ R = {AddedConfig(k, key, v)}
        BY <1>9, <2>1 DEF X!processCapabilityAppIntercept, AddedConfig
      <2> HIDE DEF key, R, v
      <2> QED
        BY <2>2, LocalAdded, LocalNothing DEF key, R
    <1>10. CASE key = "legacy:drm"
      <2>1. n = X!processCapabilityDrm(m, name, c) /\ R = {X!processCapabilityDrm(k, name, c)}
        BY <1>10, ConfigHandlerOf
      <2>2. PICK v, w : /\ n = Config(m, key, v) /\ R = {Config(k, key, w)}
                        /\ X!ConfigObject(m, key) = X!ConfigObject(k, key) => v = w
        BY <1>10, <2>1 DEF X!processCapabilityDrm, X!SetConfig, Config
      <2> HIDE DEF key, R
      <2>3. Kept(m, key) = Kept(k, key) => v = w
        BY <2>2, SameConfigObject
      <2>4. Local(m, k, Config(m, key, v), {Config(k, key, w)}, "vendorConfig", key)
        BY <2>3, LocalSet
      <2> QED
        BY <2>2, <2>4
    <1>11. CASE key = "mediarite"
      <2>1. n = X!processCapabilityMediarite(m, name, c) /\ R = {X!processCapabilityMediarite(k, name, c)}
        BY <1>11, ConfigHandlerOf
      <2>2. PICK v, w : /\ n = Config(m, key, v) /\ R = {Config(k, key, w)}
                        /\ X!ConfigObject(m, key) = X!ConfigObject(k, key) => v = w
        BY <1>11, <2>1 DEF X!processCapabilityMediarite, X!SetConfig, Config
      <2> HIDE DEF key, R
      <2>3. Kept(m, key) = Kept(k, key) => v = w
        BY <2>2, SameConfigObject
      <2>4. Local(m, k, Config(m, key, v), {Config(k, key, w)}, "vendorConfig", key)
        BY <2>3, LocalSet
      <2> QED
        BY <2>2, <2>4
    <1>12. CASE key = "multicast"
      <2>1. n = X!processCapabilityMulticast(m, name, c) /\ R = {X!processCapabilityMulticast(k, name, c)}
        BY <1>12, ConfigHandlerOf
      <2>2. PICK v, w : /\ n = Config(m, key, v) /\ R = {Config(k, key, w)}
                        /\ X!ConfigObject(m, key) = X!ConfigObject(k, key) => v = w
        BY <1>12, <2>1 DEF X!processCapabilityMulticast, X!SetConfig, Config
      <2> HIDE DEF key, R
      <2>3. Kept(m, key) = Kept(k, key) => v = w
        BY <2>2, SameConfigObject
      <2>4. Local(m, k, Config(m, key, v), {Config(k, key, w)}, "vendorConfig", key)
        BY <2>3, LocalSet
      <2> QED
        BY <2>2, <2>4
    <1>13. key \in {"fkps", "mediarite", "catalogue-id", "content-partner-id", "age-rating", "age-policy",
                "prelaunch", "legacy:drm", "pin-management", "multicast", "marketplace-intercept"}
      BY ConfigHandlerOf DEF ConfigOf
    <1> HIDE DEF key
    <1> QED
      BY <1>2, <1>3, <1>4, <1>5, <1>6, <1>7, <1>8, <1>9, <1>10, <1>11, <1>12, <1>13

\* Every capability changes one member or one vendor configuration.
LEMMA CapabilitiesAreLocal ==
    ASSUME NEW m, Whole(m), NEW k, Whole(k), NEW name, NEW c, NEW n \in X!processCapability(m, name, c)
    PROVE  Local(m, k, n, X!processCapability(k, name, c), MemberOf(name), ConfigOf(name))
    BY MembersAreLocal, ConfigsAreLocal

\* Two capabilities that change different things can be read in either order.
LEMMA SwapApart ==
    ASSUME NEW m, Whole(m), NEW a, NEW c, NEW b, NEW d,
           \/ MemberOf(a) # MemberOf(b)
           \/ MemberOf(a) = "vendorConfig" /\ ConfigOf(a) # ConfigOf(b),
           NEW n \in X!processCapability(m, a, c), NEW x \in X!processCapability(n, b, d)
    PROVE  \E l \in X!processCapability(m, b, d) : x \in X!processCapability(l, a, c)
    <1> DEFINE f == MemberOf(a)
               g == MemberOf(b)
               key == ConfigOf(a)
               other == ConfigOf(b)
    <1>1. Local(m, m, n, X!processCapability(m, a, c), f, key)
      BY CapabilitiesAreLocal
    <1>2. Whole(n)
      BY <1>1 DEF Local
    <1>3. Local(n, m, x, X!processCapability(m, b, d), g, other)
      BY <1>2, CapabilitiesAreLocal
    <1>4. PICK l \in X!processCapability(m, b, d) : TRUE
      BY <1>3 DEF Local
    <1>5. Local(m, m, l, X!processCapability(m, b, d), g, other)
      BY CapabilitiesAreLocal
    <1>6. Whole(l)
      BY <1>5 DEF Local
    <1>7. Local(m, l, n, X!processCapability(l, a, c), f, key)
      BY <1>6, CapabilitiesAreLocal
    <1>8. PICK y \in X!processCapability(l, a, c) : TRUE
      BY <1>7 DEF Local
    <1>9. Local(l, m, y, X!processCapability(m, a, c), f, key)
      BY <1>6, CapabilitiesAreLocal
    <1>10. /\ ChangesOnly(m, n, f, key) /\ ChangesOnly(n, x, g, other)
           /\ ChangesOnly(m, l, g, other) /\ ChangesOnly(l, y, f, key)
           /\ Agree(n, m, g, other) => Agree(x, l, g, other)
           /\ Agree(m, l, f, key) => Agree(n, y, f, key)
           /\ Whole(x) /\ Whole(y)
      BY <1>1, <1>3, <1>4, <1>5, <1>7, <1>8, <1>9 DEF Local
    <1>11. CASE f = "none"
      <2>1. n = m /\ x \in X!processCapability(m, b, d)
        BY <1>11, HandlerOf
      <2>2. X!processCapability(x, a, c) = {x}
        BY <1>11, HandlerOf
      <2> QED
        BY <2>1, <2>2
    <1>12. CASE g = "none"
      <2>1. x = n /\ X!processCapability(m, b, d) = {m}
        BY <1>12, HandlerOf
      <2> QED
        BY <2>1
    <1>13. CASE f # "none" /\ g # "none"
      <2>1. f \in CapabilitySlots /\ g \in CapabilitySlots
        BY <1>13 DEF MemberOf, CapabilitySlots
      <2>2. f # g \/ (f = "vendorConfig" /\ g = "vendorConfig" /\ key # other)
        OBVIOUS
      <2> HIDE DEF f, g, key, other
      <2>3. CapabilitySlots \subseteq DOMAIN m /\ "vendorConfig" \in CapabilitySlots
        BY DEF Whole, CapabilitySlots
      <2>4. Agree(n, m, g, other)
        BY <1>10, <2>1, <2>2, <2>3 DEF Agree, ChangesOnly, Kept
      <2>5. Agree(m, l, f, key)
        BY <1>10, <2>1, <2>2, <2>3 DEF Agree, ChangesOnly, Kept
      <2>6. DOMAIN x = DOMAIN y
        BY <1>10 DEF ChangesOnly
      <2>7. \A h \in DOMAIN x \ {"vendorConfig"} : x[h] = y[h]
        BY <1>10, <2>1, <2>2, <2>3, <2>4, <2>5 DEF Agree, ChangesOnly
      <2>8. ASSUME NEW k PROVE Kept(x, k) = Kept(y, k)
        <3>1. /\ f # "vendorConfig" => Kept(n, k) = Kept(m, k) /\ Kept(y, k) = Kept(l, k)
              /\ g # "vendorConfig" => Kept(x, k) = Kept(n, k) /\ Kept(l, k) = Kept(m, k)
          BY <1>10 DEF ChangesOnly, Kept
        <3>2. /\ k # key => Kept(n, k) = Kept(m, k) /\ Kept(y, k) = Kept(l, k)
              /\ k # other => Kept(x, k) = Kept(n, k) /\ Kept(l, k) = Kept(m, k)
          BY <1>10 DEF ChangesOnly
        <3>3. /\ f = "vendorConfig" => Kept(n, key) = Kept(y, key)
              /\ g = "vendorConfig" => Kept(x, other) = Kept(l, other)
          BY <1>10, <2>4, <2>5 DEF Agree
        <3> QED
          BY <2>2, <3>1, <3>2, <3>3
      <2> HIDE DEF Whole
      <2>9. x = y
        BY <1>10, <2>6, <2>7, <2>8, SameMetaData
      <2> QED
        BY <1>4, <1>8, <2>9
    <1> QED
      BY <1>11, <1>12, <1>13

\* One value of a member replaces another.
LEMMA MemberTwice ==
    ASSUME NEW m, Whole(m), NEW f \in CapabilitySlots, NEW u, NEW v
    PROVE  Member(Member(m, f, u), f, v) = Member(m, f, v)
    BY DEF Member, Whole

\* Other fields of a record, or other keys, are changed in either order.
LEMMA ExceptTwice ==
    ASSUME NEW r, NEW g, NEW h, g # h, NEW u, NEW v
    PROVE  [[r EXCEPT ![g] = u] EXCEPT ![h] = v] = [[r EXCEPT ![h] = v] EXCEPT ![g] = u]
    OBVIOUS

LEMMA OnlyOne ==
    ASSUME NEW r
    PROVE  (CHOOSE i \in {r} : TRUE) = r
    OBVIOUS

\* The states of the life cycle.
LEMMA SwapLifecycle ==
    ASSUME NEW m, Whole(m), NEW a, NEW c, NEW b, NEW d, a # b,
           a \in {"suspend-mode", "hibernate-mode", "no-low-power-mode"},
           b \in {"suspend-mode", "hibernate-mode", "no-low-power-mode"}
    PROVE  X!processCapabilityLifecycleStates(X!processCapabilityLifecycleStates(m, a), b)
            = X!processCapabilityLifecycleStates(X!processCapabilityLifecycleStates(m, b), a)
    <1> DEFINE H(u, e, t) == X!processCapabilityLifecycleStates(u, e)
    <1> DEFINE E(v, e, t) == CASE e = "suspend-mode" -> v \cup {"Suspended"}
                               [] e = "hibernate-mode" -> v \cup {"Hibernated"}
                               [] OTHER -> v \ {"LowPower"}
    <1>1. ASSUME NEW u, Whole(u), NEW e \in {"suspend-mode", "hibernate-mode", "no-low-power-mode"}, NEW t
          PROVE  H(u, e, t) = Member(u, "lifecycle", E(u.lifecycle, e, t))
      <2>1. u = [g \in DOMAIN u |-> u[g]] /\ "lifecycle" \in DOMAIN u
        BY <1>1 DEF Whole, CapabilitySlots
      <2> QED
        BY <2>1 DEF Member, X!processCapabilityLifecycleStates
    <1>2. ASSUME NEW v PROVE E(E(v, a, c), b, d) = E(E(v, b, d), a, c)
      <2>1. CASE a = "suspend-mode" /\ b = "hibernate-mode"
        BY <2>1
      <2>2. CASE a = "suspend-mode" /\ b = "no-low-power-mode"
        BY <2>2
      <2>3. CASE a = "hibernate-mode" /\ b = "suspend-mode"
        BY <2>3
      <2>4. CASE a = "hibernate-mode" /\ b = "no-low-power-mode"
        BY <2>4
      <2>5. CASE a = "no-low-power-mode" /\ b = "suspend-mode"
        BY <2>5
      <2>6. CASE a = "no-low-power-mode" /\ b = "hibernate-mode"
        BY <2>6
      <2> HIDE DEF E
      <2> QED
        BY <2>1, <2>2, <2>3, <2>4, <2>5, <2>6
    <1> HIDE DEF E, H
    <1> DEFINE f == "lifecycle"
    <1>3. f \in CapabilitySlots \ {"vendorConfig"}
      BY DEF CapabilitySlots
    <1>4. \A v : Whole(Member(m, f, v)) /\ Member(m, f, v).lifecycle = v
      BY <1>3, MemberChanged
    <1>5. /\ H(H(m, a, c), b, d) = Member(m, f, E(E(m.lifecycle, a, c), b, d))
          /\ H(H(m, b, d), a, c) = Member(m, f, E(E(m.lifecycle, b, d), a, c))
      BY <1>1, <1>3, <1>4, MemberTwice
    <1> QED
      BY <1>2, <1>5 DEF H

\* The two halves of the input handling.
LEMMA SwapInput ==
    ASSUME NEW m, Whole(m), NEW a, NEW c, NEW b, NEW d, a # b,
           a \in {"keymapping", "forward-keymapping"},
           b \in {"keymapping", "forward-keymapping"}
    PROVE  X!processCapabilityKeyMapping(X!processCapabilityKeyMapping(m, a, c), b, d)
            = X!processCapabilityKeyMapping(X!processCapabilityKeyMapping(m, b, d), a, c)
    <1> DEFINE H(u, e, t) == X!processCapabilityKeyMapping(u, e, t)
    <1> DEFINE Input(v) == IF v = {} THEN X!NoInput ELSE CHOOSE i \in v : TRUE
               Half(e) == IF e = "keymapping" THEN "captured" ELSE "monitored"
               E(v, e, t) == {[Input(v) EXCEPT ![Half(e)] = X!splitStringToVector(t)]}
    <1>1. ASSUME NEW u, Whole(u), NEW e \in {"keymapping", "forward-keymapping"}, NEW t
          PROVE  H(u, e, t) = Member(u, "inputHandling", E(u.inputHandling, e, t))
      <2>1. u = [g \in DOMAIN u |-> u[g]] /\ "inputHandling" \in DOMAIN u
        BY <1>1 DEF Whole, CapabilitySlots
      <2> QED
        BY <2>1 DEF Member, X!processCapabilityKeyMapping
    <1>2. ASSUME NEW v PROVE E(E(v, a, c), b, d) = E(E(v, b, d), a, c)
      <2>1. \A r : Input({r}) = r
        BY OnlyOne
      <2>2. Half(a) # Half(b)
        OBVIOUS
      <2> DEFINE r == Input(v)
                 p == X!splitStringToVector(c)
                 q == X!splitStringToVector(d)
      <2>3. [[r EXCEPT ![Half(a)] = p] EXCEPT ![Half(b)] = q]
              = [[r EXCEPT ![Half(b)] = q] EXCEPT ![Half(a)] = p]
        <3> HIDE DEF Half, r, p, q
        <3> QED
          BY <2>2, ExceptTwice
      <2>4. /\ E(E(v, a, c), b, d) = {[[r EXCEPT ![Half(a)] = p] EXCEPT ![Half(b)] = q]}
            /\ E(E(v, b, d), a, c) = {[[r EXCEPT ![Half(b)] = q] EXCEPT ![Half(a)] = p]}
        <3> HIDE DEF Input, Half, p, q
        <3> QED
          BY <2>1 DEF p, q
      <2> QED
        BY <2>3, <2>4
    <1> HIDE DEF E, H
    <1> DEFINE f == "inputHandling"
    <1>3. f \in CapabilitySlots \ {"vendorConfig"}
      BY DEF CapabilitySlots
    <1>4. \A v : Whole(Member(m, f, v)) /\ Member(m, f, v).inputHandling = v
      BY <1>3, MemberChanged
    <1>5. /\ H(H(m, a, c), b, d) = Member(m, f, E(E(m.inputHandling, a, c), b, d))
          /\ H(H(m, b, d), a, c) = Member(m, f, E(E(m.inputHandling, b, d), a, c))
      BY <1>1, <1>3, <1>4, MemberTwice
    <1> QED
      BY <1>2, <1>5 DEF H

\* The size that private-storage names, and the default.
LEMMA SwapStorage ==
    ASSUME NEW m, Whole(m), NEW a, NEW c, NEW b, NEW d, a # b,
           a \in {"storage", "private-storage"},
           b \in {"storage", "private-storage"}
    PROVE  X!processCapabilityStorageSize(X!processCapabilityStorageSize(m, a, c), b, d)
            = X!processCapabilityStorageSize(X!processCapabilityStorageSize(m, b, d), a, c)
    <1> DEFINE H(u, e, t) == X!processCapabilityStorageSize(u, e, t)
    <1> DEFINE E(v, e, t) ==
                   LET mb == X!strtoul(t)
                   IN  IF e = "private-storage" /\ mb \in 1 .. StorageLimitMb THEN {mb * Kilo * Kilo}
                       ELSE IF e = "storage" /\ v = {} THEN {DefaultStorageMb * Kilo * Kilo}
                       ELSE v
    <1>1. ASSUME NEW u, Whole(u), NEW e \in {"storage", "private-storage"}, NEW t
          PROVE  H(u, e, t) = Member(u, "storageQuota", E(u.storageQuota, e, t))
      <2>1. u = [g \in DOMAIN u |-> u[g]] /\ "storageQuota" \in DOMAIN u
        BY <1>1 DEF Whole, CapabilitySlots
      <2> QED
        BY <2>1 DEF Member, X!processCapabilityStorageSize
    <1>2. ASSUME NEW v PROVE E(E(v, a, c), b, d) = E(E(v, b, d), a, c)
      <2>1. CASE a = "storage" /\ b = "private-storage"
        BY <2>1
      <2>2. CASE a = "private-storage" /\ b = "storage"
        BY <2>2
      <2> HIDE DEF E
      <2> QED
        BY <2>1, <2>2
    <1> HIDE DEF E, H
    <1> DEFINE f == "storageQuota"
    <1>3. f \in CapabilitySlots \ {"vendorConfig"}
      BY DEF CapabilitySlots
    <1>4. \A v : Whole(Member(m, f, v)) /\ Member(m, f, v).storageQuota = v
      BY <1>3, MemberChanged
    <1>5. /\ H(H(m, a, c), b, d) = Member(m, f, E(E(m.storageQuota, a, c), b, d))
          /\ H(H(m, b, d), a, c) = Member(m, f, E(E(m.storageQuota, b, d), a, c))
      BY <1>1, <1>3, <1>4, MemberTwice
    <1> QED
      BY <1>2, <1>5 DEF H

\* The fields of the DIAL information.
LEMMA SwapDial ==
    ASSUME NEW m, Whole(m), NEW a, NEW c, NEW b, NEW d, a # b,
           a \in {"dial-app", "dial-id", "dial-origin-mandatory"},
           b \in {"dial-app", "dial-id", "dial-origin-mandatory"}
    PROVE  X!processCapabilityDialInfo(X!processCapabilityDialInfo(m, a, c), b, d)
            = X!processCapabilityDialInfo(X!processCapabilityDialInfo(m, b, d), a, c)
    <1> DEFINE H(u, e, t) == X!processCapabilityDialInfo(u, e, t)
    <1> DEFINE Dial(v) == IF v = {} THEN X!NoDial ELSE CHOOSE i \in v : TRUE
               G(r, e, t) ==
                   CASE e = "dial-app" /\ t # X!AWord("") ->
                            [r EXCEPT !.corsDomains = X!splitStringToVector(t)]
                     [] e = "dial-id" -> [r EXCEPT !.dialIds = X!splitStringToVector(t)]
                     [] e = "dial-origin-mandatory" -> [r EXCEPT !.originHeaderRequired = TRUE]
                     [] OTHER -> r
               E(v, e, t) == {G(Dial(v), e, t)}
    <1>1. ASSUME NEW u, Whole(u), NEW e \in {"dial-app", "dial-id", "dial-origin-mandatory"}, NEW t
          PROVE  H(u, e, t) = Member(u, "dialInfo", E(u.dialInfo, e, t))
      <2>1. u = [g \in DOMAIN u |-> u[g]] /\ "dialInfo" \in DOMAIN u
        BY <1>1 DEF Whole, CapabilitySlots
      <2> QED
        BY <2>1 DEF Member, X!processCapabilityDialInfo
    <1>2. ASSUME NEW v PROVE E(E(v, a, c), b, d) = E(E(v, b, d), a, c)
      <2>1. \A r : Dial({r}) = r
        BY OnlyOne
      <2>2. ASSUME NEW r PROVE G(G(r, a, c), b, d) = G(G(r, b, d), a, c)
        <3>1. CASE a = "dial-app" /\ b = "dial-id"
          BY <3>1
        <3>2. CASE a = "dial-app" /\ b = "dial-origin-mandatory"
          BY <3>2
        <3>3. CASE a = "dial-id" /\ b = "dial-app"
          BY <3>3
        <3>4. CASE a = "dial-id" /\ b = "dial-origin-mandatory"
          BY <3>4
        <3>5. CASE a = "dial-origin-mandatory" /\ b = "dial-app"
          BY <3>5
        <3>6. CASE a = "dial-origin-mandatory" /\ b = "dial-id"
          BY <3>6
        <3> HIDE DEF G
        <3> QED
          BY <3>1, <3>2, <3>3, <3>4, <3>5, <3>6
      <2> HIDE DEF Dial, G
      <2> QED
        BY ZenonT(40), <2>1, <2>2
    <1> HIDE DEF E, H
    <1> DEFINE f == "dialInfo"
    <1>3. f \in CapabilitySlots \ {"vendorConfig"}
      BY DEF CapabilitySlots
    <1>4. \A v : Whole(Member(m, f, v)) /\ Member(m, f, v).dialInfo = v
      BY <1>3, MemberChanged
    <1>5. /\ H(H(m, a, c), b, d) = Member(m, f, E(E(m.dialInfo, a, c), b, d))
          /\ H(H(m, b, d), a, c) = Member(m, f, E(E(m.dialInfo, b, d), a, c))
      BY <1>1, <1>3, <1>4, MemberTwice
    <1> QED
      BY <1>2, <1>5 DEF H

\* The fields of the display information.
LEMMA SwapDisplay ==
    ASSUME NEW m, Whole(m), NEW a, NEW c, NEW b, NEW d, a # b,
           a \in {"game-mode", "virtual-resolution", "refresh-rate-60hz"},
           b \in {"game-mode", "virtual-resolution", "refresh-rate-60hz"}
    PROVE  X!processCapabilityDisplayInfo(X!processCapabilityDisplayInfo(m, a, c), b, d)
            = X!processCapabilityDisplayInfo(X!processCapabilityDisplayInfo(m, b, d), a, c)
    <1> DEFINE H(u, e, t) == X!processCapabilityDisplayInfo(u, e, t)
    <1> DEFINE E(v, e, t) ==
                   CASE e = "virtual-resolution" ->
                            [v EXCEPT !.size = IF t[1] = "number" /\ t[2] \in X!DisplaySizes
                                                  /\ t[3] \in {"", "p", "i"}
                                               THEN t[2] ELSE 0]
                     [] e = "refresh-rate-60hz" -> [v EXCEPT !.refreshRate = 60]
                     [] OTHER ->
                            IF t = X!AWord("static") THEN [v EXCEPT !.pictureMode = {"gameModeStatic"}]
                            ELSE IF t = X!AWord("dynamic")
                            THEN [v EXCEPT !.pictureMode = {"gameModeDynamic"}] ELSE v
    <1>1. ASSUME NEW u, Whole(u), NEW e \in {"game-mode", "virtual-resolution", "refresh-rate-60hz"}, NEW t
          PROVE  H(u, e, t) = Member(u, "display", E(u.display, e, t))
      <2>1. u = [g \in DOMAIN u |-> u[g]] /\ "display" \in DOMAIN u
        BY <1>1 DEF Whole, CapabilitySlots
      <2>2. u = [u EXCEPT !.display = u.display]
        BY <2>1
      <2>3. X!AWord("static") # X!AWord("dynamic")
        BY DEF X!AWord
      <2>4. CASE e = "virtual-resolution"
        BY <2>4 DEF Member, X!processCapabilityDisplayInfo
      <2>5. CASE e = "refresh-rate-60hz"
        BY <2>5 DEF Member, X!processCapabilityDisplayInfo
      <2>6. CASE e = "game-mode" /\ t = X!AWord("static")
        BY <2>3, <2>6 DEF Member, X!processCapabilityDisplayInfo
      <2>7. CASE e = "game-mode" /\ t = X!AWord("dynamic")
        BY <2>3, <2>7 DEF Member, X!processCapabilityDisplayInfo
      <2>8. CASE e = "game-mode" /\ t # X!AWord("static") /\ t # X!AWord("dynamic")
        <3>1. H(u, e, t) = u /\ E(u.display, e, t) = u.display
          BY <2>8 DEF X!processCapabilityDisplayInfo
        <3> HIDE DEF E, H
        <3> QED
          BY <2>2, <3>1 DEF Member
      <2> HIDE DEF E, H
      <2> QED
        BY <2>4, <2>5, <2>6, <2>7, <2>8
    <1>2. ASSUME NEW v PROVE E(E(v, a, c), b, d) = E(E(v, b, d), a, c)
      <2>1. CASE a = "game-mode" /\ b = "virtual-resolution"
        BY <2>1
      <2>2. CASE a = "game-mode" /\ b = "refresh-rate-60hz"
        BY <2>2
      <2>3. CASE a = "virtual-resolution" /\ b = "game-mode"
        BY <2>3
      <2>4. CASE a = "virtual-resolution" /\ b = "refresh-rate-60hz"
        BY <2>4
      <2>5. CASE a = "refresh-rate-60hz" /\ b = "game-mode"
        BY <2>5
      <2>6. CASE a = "refresh-rate-60hz" /\ b = "virtual-resolution"
        BY <2>6
      <2> HIDE DEF E
      <2> QED
        BY <2>1, <2>2, <2>3, <2>4, <2>5, <2>6
    <1> HIDE DEF E, H
    <1> DEFINE f == "display"
    <1>3. f \in CapabilitySlots \ {"vendorConfig"}
      BY DEF CapabilitySlots
    <1>4. \A v : Whole(Member(m, f, v)) /\ Member(m, f, v).display = v
      BY <1>3, MemberChanged
    <1>5. /\ H(H(m, a, c), b, d) = Member(m, f, E(E(m.display, a, c), b, d))
          /\ H(H(m, b, d), a, c) = Member(m, f, E(E(m.display, b, d), a, c))
      BY <1>1, <1>3, <1>4, MemberTwice
    <1> QED
      BY <1>2, <1>5 DEF H

\* The fields of the audio information.
LEMMA SwapAudio ==
    ASSUME NEW m, Whole(m), NEW a, NEW c, NEW b, NEW d, a # b,
           a \in {"program-reference-level", "sound-mode", "sound-scene"},
           b \in {"program-reference-level", "sound-mode", "sound-scene"}
    PROVE  X!processCapabilityAudioInfo(X!processCapabilityAudioInfo(m, a, c), b, d)
            = X!processCapabilityAudioInfo(X!processCapabilityAudioInfo(m, b, d), a, c)
    <1> DEFINE H(u, e, t) == X!processCapabilityAudioInfo(u, e, t)
    <1> DEFINE E(v, e, t) == CASE e = "sound-mode" -> [v EXCEPT !.soundMode = {X!AsText(t)}]
                               [] e = "sound-scene" -> [v EXCEPT !.soundScene = {X!AsText(t)}]
                               [] OTHER -> [v EXCEPT !.loudness = {X!strtoul(t)}]
    <1>1. ASSUME NEW u, Whole(u), NEW e \in {"program-reference-level", "sound-mode", "sound-scene"}, NEW t
          PROVE  H(u, e, t) = Member(u, "audio", E(u.audio, e, t))
      <2>1. u = [g \in DOMAIN u |-> u[g]] /\ "audio" \in DOMAIN u
        BY <1>1 DEF Whole, CapabilitySlots
      <2> QED
        BY <2>1 DEF Member, X!processCapabilityAudioInfo
    <1>2. ASSUME NEW v PROVE E(E(v, a, c), b, d) = E(E(v, b, d), a, c)
      <2>1. CASE a = "program-reference-level" /\ b = "sound-mode"
        BY <2>1
      <2>2. CASE a = "program-reference-level" /\ b = "sound-scene"
        BY <2>2
      <2>3. CASE a = "sound-mode" /\ b = "program-reference-level"
        BY <2>3
      <2>4. CASE a = "sound-mode" /\ b = "sound-scene"
        BY <2>4
      <2>5. CASE a = "sound-scene" /\ b = "program-reference-level"
        BY <2>5
      <2>6. CASE a = "sound-scene" /\ b = "sound-mode"
        BY <2>6
      <2> HIDE DEF E
      <2> QED
        BY <2>1, <2>2, <2>3, <2>4, <2>5, <2>6
    <1> HIDE DEF E, H
    <1> DEFINE f == "audio"
    <1>3. f \in CapabilitySlots \ {"vendorConfig"}
      BY DEF CapabilitySlots
    <1>4. \A v : Whole(Member(m, f, v)) /\ Member(m, f, v).audio = v
      BY <1>3, MemberChanged
    <1>5. /\ H(H(m, a, c), b, d) = Member(m, f, E(E(m.audio, a, c), b, d))
          /\ H(H(m, b, d), a, c) = Member(m, f, E(E(m.audio, b, d), a, c))
      BY <1>1, <1>3, <1>4, MemberTwice
    <1> QED
      BY <1>2, <1>5 DEF H

\* The lists of network services: each capability adds to another one.
Extended(r, g, p) == [r EXCEPT ![g] = r[g] \o p]

LEMMA ExceptAppend ==
    ASSUME NEW r, NEW g, NEW h, g # h, NEW p, NEW q
    PROVE  Extended(Extended(r, g, p), h, q) = Extended(Extended(r, h, q), g, p)
    <1> DEFINE s == [r EXCEPT ![g] = r[g] \o p]
               t == [r EXCEPT ![h] = r[h] \o q]
               y == [s EXCEPT ![h] = s[h] \o q]
               z == [t EXCEPT ![g] = t[g] \o p]
    <1>1. /\ DOMAIN s = DOMAIN r /\ \A x \in DOMAIN r : s[x] = IF x = g THEN r[g] \o p ELSE r[x]
          /\ DOMAIN t = DOMAIN r /\ \A x \in DOMAIN r : t[x] = IF x = h THEN r[h] \o q ELSE r[x]
      OBVIOUS
    <1> HIDE DEF s, t
    <1>2. /\ DOMAIN y = DOMAIN r /\ \A x \in DOMAIN r : y[x] = IF x = h THEN s[h] \o q ELSE s[x]
          /\ DOMAIN z = DOMAIN r /\ \A x \in DOMAIN r : z[x] = IF x = g THEN t[g] \o p ELSE t[x]
          /\ y = [x \in DOMAIN y |-> y[x]] /\ z = [x \in DOMAIN z |-> z[x]]
      BY <1>1
    <1> HIDE DEF y, z
    <1>3. \A x \in DOMAIN r : y[x] = z[x]
      BY <1>1, <1>2
    <1>4. y = z
      BY <1>2, <1>3
    <1> QED
      BY <1>4 DEF s, t, y, z, Extended

LEMMA SwapServices ==
    ASSUME NEW m, Whole(m), NEW a, NEW c, NEW b, NEW d, a # b,
           a \in {"hole-punch", "local-socket-server", "local-socket-client"},
           b \in {"hole-punch", "local-socket-server", "local-socket-client"}
    PROVE  X!processCapabilityServices(X!processCapabilityServices(m, a, c), b, d)
            = X!processCapabilityServices(X!processCapabilityServices(m, b, d), a, c)
    <1> DEFINE H(u, e, t) == X!processCapabilityServices(u, e, t)
               Kind(e) == CASE e = "hole-punch" -> "public"
                            [] e = "local-socket-server" -> "exported"
                            [] OTHER -> "imported"
    <1> DEFINE used(t) == SelectSeq(X!splitStringToVector(t),
                            LAMBDA s : s[1] \in {"", "tcp", "udp"} /\ X!ValidPort(X!Port16(s[2])))
               Entry(s) == X!Service("", IF s[1] = "udp" THEN "udp" ELSE "tcp", X!Port16(s[2]))
               Items(t) == [i \in DOMAIN used(t) |-> Entry(used(t)[i])]
               E(v, e, t) == Extended(v, Kind(e), Items(t))
    <1>2. ASSUME NEW u, Whole(u), NEW e \in {"hole-punch", "local-socket-server", "local-socket-client"}, NEW t
          PROVE  H(u, e, t) = Member(u, "services", E(u.services, e, t))
      <2>1. u = [g \in DOMAIN u |-> u[g]] /\ "services" \in DOMAIN u
        BY <1>2 DEF Whole, CapabilitySlots
      <2> QED
        BY <2>1 DEF Member, X!processCapabilityServices, Extended
    <1>3. ASSUME NEW v PROVE E(E(v, a, c), b, d) = E(E(v, b, d), a, c)
      <2>1. Kind(a) # Kind(b)
        OBVIOUS
      <2> HIDE DEF Items, Kind
      <2> QED
        BY <2>1, ExceptAppend
    <1> HIDE DEF E, H
    <1> DEFINE f == "services"
    <1>4. f \in CapabilitySlots \ {"vendorConfig"}
      BY DEF CapabilitySlots
    <1>5. \A v : Whole(Member(m, f, v)) /\ Member(m, f, v).services = v
      BY <1>4, MemberChanged
    <1>6. /\ H(H(m, a, c), b, d) = Member(m, f, E(E(m.services, a, c), b, d))
          /\ H(H(m, b, d), a, c) = Member(m, f, E(E(m.services, b, d), a, c))
      BY <1>2, <1>4, <1>5, MemberTwice
    <1> QED
      BY <1>3, <1>6 DEF H

\* The capabilities of each member.
LEMMA NamesOf ==
    ASSUME NEW e
    PROVE  /\ MemberOf(e) \in CapabilitySlots \cup {"none"}
           /\ MemberOf(e) = "lifecycle" => e \in {"suspend-mode", "hibernate-mode", "no-low-power-mode"}
           /\ MemberOf(e) = "inputHandling" => e \in {"keymapping", "forward-keymapping"}
           /\ MemberOf(e) = "storageQuota" => e \in {"storage", "private-storage"}
           /\ MemberOf(e) = "dialInfo" => e \in {"dial-app", "dial-id", "dial-origin-mandatory"}
           /\ MemberOf(e) = "display" => e \in {"game-mode", "virtual-resolution", "refresh-rate-60hz"}
           /\ MemberOf(e) = "audio" => e \in {"program-reference-level", "sound-mode", "sound-scene"}
           /\ MemberOf(e) = "services" => e \in {"hole-punch", "local-socket-server", "local-socket-client"}
           /\ MemberOf(e) = "storageGroup" => e = "child-app"
           /\ MemberOf(e) = "logging" => e = "log-levels"
           /\ MemberOf(e) = "startTimeout" => e = "start-timeout-sec"
           /\ MemberOf(e) = "watchdogInterval" => e = "watchdog-timeout-sec"
           /\ MemberOf(e) = "memoryQuota" => e = "sys-memory-limit"
           /\ MemberOf(e) = "gpuMemoryQuota" => e = "gpu-memory-limit"
    BY ZenonT(40) DEF MemberOf, CapabilitySlots

\* Two capabilities of one member can be read in either order.
LEMMA SwapMember ==
    ASSUME NEW m, Whole(m), NEW a, NEW c, NEW b, NEW d, a # b,
           MemberOf(a) = MemberOf(b), MemberOf(a) # "vendorConfig",
           NEW n \in X!processCapability(m, a, c), NEW x \in X!processCapability(n, b, d)
    PROVE  \E l \in X!processCapability(m, b, d) : x \in X!processCapability(l, a, c)
    <1> DEFINE p(u, e, t) == X!processCapability(u, e, t)
    <1>1. n \in p(m, a, c) /\ x \in p(n, b, d)
      OBVIOUS
    <1>2. CASE MemberOf(a) = "lifecycle"
      <2> DEFINE H(u, e, t) == X!processCapabilityLifecycleStates(u, e)
      <2>1. /\ a \in {"suspend-mode", "hibernate-mode", "no-low-power-mode"}
            /\ b \in {"suspend-mode", "hibernate-mode", "no-low-power-mode"}
        BY <1>2, NamesOf
      <2>2. ASSUME NEW u, NEW e, NEW t, MemberOf(e) = "lifecycle" PROVE p(u, e, t) = {H(u, e, t)}
        BY <2>2, HandlerOf
      <2>3. H(H(m, a, c), b, d) = H(H(m, b, d), a, c)
        BY <2>1, SwapLifecycle
      <2> HIDE DEF H, p
      <2>4. n = H(m, a, c)
        BY <1>1, <1>2, <2>2
      <2>6. x = H(n, b, d)
        <3>1. p(n, b, d) = {H(n, b, d)}
          BY <1>2, <2>2
        <3> QED
          BY <1>1, <3>1
      <2>5. p(m, b, d) = {H(m, b, d)} /\ p(H(m, b, d), a, c) = {H(H(m, b, d), a, c)}
        BY <1>2, <2>2
      <2> QED
        BY <2>3, <2>4, <2>5, <2>6 DEF p
    <1>3. CASE MemberOf(a) = "inputHandling"
      <2> DEFINE H(u, e, t) == X!processCapabilityKeyMapping(u, e, t)
      <2>1. a \in {"keymapping", "forward-keymapping"} /\ b \in {"keymapping", "forward-keymapping"}
        BY ZenonT(40), <1>3, NamesOf
      <2>2. ASSUME NEW u, NEW e, NEW t, MemberOf(e) = "inputHandling" PROVE p(u, e, t) = {H(u, e, t)}
        BY <2>2, HandlerOf
      <2>3. H(H(m, a, c), b, d) = H(H(m, b, d), a, c)
        BY <2>1, SwapInput
      <2> HIDE DEF H, p
      <2>4. n = H(m, a, c)
        BY <1>1, <1>3, <2>2
      <2>6. x = H(n, b, d)
        <3>1. p(n, b, d) = {H(n, b, d)}
          BY <1>3, <2>2
        <3> QED
          BY <1>1, <3>1
      <2>5. p(m, b, d) = {H(m, b, d)} /\ p(H(m, b, d), a, c) = {H(H(m, b, d), a, c)}
        BY <1>3, <2>2
      <2> QED
        BY <2>3, <2>4, <2>5, <2>6 DEF p
    <1>4. CASE MemberOf(a) = "storageQuota"
      <2> DEFINE H(u, e, t) == X!processCapabilityStorageSize(u, e, t)
      <2>1. a \in {"storage", "private-storage"} /\ b \in {"storage", "private-storage"}
        BY ZenonT(40), <1>4, NamesOf
      <2>2. ASSUME NEW u, NEW e, NEW t, MemberOf(e) = "storageQuota" PROVE p(u, e, t) = {H(u, e, t)}
        BY <2>2, HandlerOf
      <2>3. H(H(m, a, c), b, d) = H(H(m, b, d), a, c)
        BY <2>1, SwapStorage
      <2> HIDE DEF H, p
      <2>4. n = H(m, a, c)
        BY <1>1, <1>4, <2>2
      <2>6. x = H(n, b, d)
        <3>1. p(n, b, d) = {H(n, b, d)}
          BY <1>4, <2>2
        <3> QED
          BY <1>1, <3>1
      <2>5. p(m, b, d) = {H(m, b, d)} /\ p(H(m, b, d), a, c) = {H(H(m, b, d), a, c)}
        BY <1>4, <2>2
      <2> QED
        BY <2>3, <2>4, <2>5, <2>6 DEF p
    <1>5. CASE MemberOf(a) = "dialInfo"
      <2> DEFINE H(u, e, t) == X!processCapabilityDialInfo(u, e, t)
      <2>1. /\ a \in {"dial-app", "dial-id", "dial-origin-mandatory"}
            /\ b \in {"dial-app", "dial-id", "dial-origin-mandatory"}
        BY ZenonT(40), <1>5, NamesOf
      <2>2. ASSUME NEW u, NEW e, NEW t, MemberOf(e) = "dialInfo" PROVE p(u, e, t) = {H(u, e, t)}
        BY <2>2, HandlerOf
      <2>3. H(H(m, a, c), b, d) = H(H(m, b, d), a, c)
        BY <2>1, SwapDial
      <2> HIDE DEF H, p
      <2>4. n = H(m, a, c)
        BY <1>1, <1>5, <2>2
      <2>6. x = H(n, b, d)
        <3>1. p(n, b, d) = {H(n, b, d)}
          BY <1>5, <2>2
        <3> QED
          BY <1>1, <3>1
      <2>5. p(m, b, d) = {H(m, b, d)} /\ p(H(m, b, d), a, c) = {H(H(m, b, d), a, c)}
        BY <1>5, <2>2
      <2> QED
        BY <2>3, <2>4, <2>5, <2>6 DEF p
    <1>6. CASE MemberOf(a) = "display"
      <2> DEFINE H(u, e, t) == X!processCapabilityDisplayInfo(u, e, t)
      <2>1. /\ a \in {"game-mode", "virtual-resolution", "refresh-rate-60hz"}
            /\ b \in {"game-mode", "virtual-resolution", "refresh-rate-60hz"}
        BY ZenonT(40), <1>6, NamesOf
      <2>2. ASSUME NEW u, NEW e, NEW t, MemberOf(e) = "display" PROVE p(u, e, t) = {H(u, e, t)}
        BY <2>2, HandlerOf
      <2>3. H(H(m, a, c), b, d) = H(H(m, b, d), a, c)
        BY <2>1, SwapDisplay
      <2> HIDE DEF H, p
      <2>4. n = H(m, a, c)
        BY <1>1, <1>6, <2>2
      <2>6. x = H(n, b, d)
        <3>1. p(n, b, d) = {H(n, b, d)}
          BY <1>6, <2>2
        <3> QED
          BY <1>1, <3>1
      <2>5. p(m, b, d) = {H(m, b, d)} /\ p(H(m, b, d), a, c) = {H(H(m, b, d), a, c)}
        BY <1>6, <2>2
      <2> QED
        BY <2>3, <2>4, <2>5, <2>6 DEF p
    <1>7. CASE MemberOf(a) = "audio"
      <2> DEFINE H(u, e, t) == X!processCapabilityAudioInfo(u, e, t)
      <2>1. /\ a \in {"program-reference-level", "sound-mode", "sound-scene"}
            /\ b \in {"program-reference-level", "sound-mode", "sound-scene"}
        BY ZenonT(40), <1>7, NamesOf
      <2>2. ASSUME NEW u, NEW e, NEW t, MemberOf(e) = "audio" PROVE p(u, e, t) = {H(u, e, t)}
        BY <2>2, HandlerOf
      <2>3. H(H(m, a, c), b, d) = H(H(m, b, d), a, c)
        BY <2>1, SwapAudio
      <2> HIDE DEF H, p
      <2>4. n = H(m, a, c)
        BY <1>1, <1>7, <2>2
      <2>6. x = H(n, b, d)
        <3>1. p(n, b, d) = {H(n, b, d)}
          BY <1>7, <2>2
        <3> QED
          BY <1>1, <3>1
      <2>5. p(m, b, d) = {H(m, b, d)} /\ p(H(m, b, d), a, c) = {H(H(m, b, d), a, c)}
        BY <1>7, <2>2
      <2> QED
        BY <2>3, <2>4, <2>5, <2>6 DEF p
    <1>8. CASE MemberOf(a) = "services"
      <2> DEFINE H(u, e, t) == X!processCapabilityServices(u, e, t)
      <2>1. /\ a \in {"hole-punch", "local-socket-server", "local-socket-client"}
            /\ b \in {"hole-punch", "local-socket-server", "local-socket-client"}
        BY ZenonT(40), <1>8, NamesOf
      <2>2. ASSUME NEW u, NEW e, NEW t, MemberOf(e) = "services" PROVE p(u, e, t) = {H(u, e, t)}
        BY <2>2, HandlerOf
      <2>3. H(H(m, a, c), b, d) = H(H(m, b, d), a, c)
        BY <2>1, SwapServices
      <2> HIDE DEF H, p
      <2>4. n = H(m, a, c)
        BY <1>1, <1>8, <2>2
      <2>6. x = H(n, b, d)
        <3>1. p(n, b, d) = {H(n, b, d)}
          BY <1>8, <2>2
        <3> QED
          BY <1>1, <3>1
      <2>5. p(m, b, d) = {H(m, b, d)} /\ p(H(m, b, d), a, c) = {H(H(m, b, d), a, c)}
        BY <1>8, <2>2
      <2> QED
        BY <2>3, <2>4, <2>5, <2>6 DEF p
    <1>9. CASE MemberOf(a) = "permissions"
      <2> DEFINE H(u, e) == Member(u, "permissions", u.permissions \cup X!kPermissionMap[e])
      <2>1. ASSUME NEW u, Whole(u), NEW e, NEW t, MemberOf(e) = "permissions" PROVE p(u, e, t) = {H(u, e)}
        <3>1. p(u, e, t) = {[u EXCEPT !.permissions = u.permissions \cup X!kPermissionMap[e]]}
          BY <2>1, HandlerOf
        <3> QED
          BY <3>1 DEF Member
      <2>2. ASSUME NEW v PROVE Whole(Member(m, "permissions", v)) /\ Member(m, "permissions", v).permissions = v
        BY MemberChanged DEF CapabilitySlots
      <2>3. \A v, w : Member(Member(m, "permissions", v), "permissions", w) = Member(m, "permissions", w)
        BY MemberTwice DEF CapabilitySlots
      <2>4. H(H(m, a), b) = H(H(m, b), a) /\ Whole(H(m, a)) /\ Whole(H(m, b))
        <3> DEFINE v == m.permissions
                   s == X!kPermissionMap[a]
                   t == X!kPermissionMap[b]
        <3>1. (v \cup s) \cup t = (v \cup t) \cup s
          OBVIOUS
        <3> HIDE DEF v, s, t, Whole, Member
        <3> QED
          BY ZenonT(40), <2>2, <2>3, <3>1 DEF v, s, t
      <2> HIDE DEF H, p
      <2>5. n = H(m, a)
        BY <1>1, <1>9, <2>1
      <2>6. x = H(n, b)
        <3>1. p(n, b, d) = {H(n, b)}
          BY <1>9, <2>1, <2>4, <2>5
        <3> QED
          BY <1>1, <3>1
      <2>7. p(m, b, d) = {H(m, b)} /\ p(H(m, b), a, c) = {H(H(m, b), a)}
        BY <1>9, <2>1, <2>4
      <2> QED
        BY <2>4, <2>5, <2>6, <2>7 DEF p
    <1>10. CASE MemberOf(a) = "type"
      <2> DEFINE H(u) == X!processCapabilitySystemApp(u)
      <2>1. ASSUME NEW u, NEW e, NEW t, MemberOf(e) = "type" PROVE p(u, e, t) = {H(u)}
        BY <2>1, HandlerOf
      <2> HIDE DEF H, p
      <2>2. n = H(m) /\ x = H(n)
        BY <1>10, <2>1 DEF p
      <2>3. p(m, b, d) = {H(m)} /\ p(H(m), a, c) = {H(H(m))}
        BY <1>10, <2>1
      <2> QED
        BY <2>2, <2>3 DEF p
    <1>11. CASE MemberOf(a) = "none"
      <2>1. ASSUME NEW u, NEW e, NEW t, MemberOf(e) = "none" PROVE p(u, e, t) = {u}
        BY <2>1, HandlerOf
      <2> HIDE DEF p
      <2> QED
        BY <1>11, <2>1 DEF p
    <1>12. MemberOf(a) \notin {"storageGroup", "logging", "startTimeout", "watchdogInterval", "memoryQuota",
                           "gpuMemoryQuota"}
      BY NamesOf
    <1>13. MemberOf(a) \in CapabilitySlots \cup {"none"}
      BY NamesOf
    <1> QED
      BY <1>2, <1>3, <1>4, <1>5, <1>6, <1>7, <1>8, <1>9, <1>10, <1>11, <1>12, <1>13 DEF CapabilitySlots

\* One value of a vendor configuration replaces another, and is what is read of it.
LEMMA ConfigTwice ==
    ASSUME NEW m, Whole(m), NEW key, NEW f, NEW v
    PROVE  LET n == Config(m, key, X!Obj(f))
           IN  Config(n, key, v) = Config(m, key, v) /\ X!ConfigObject(n, key) = f /\ Whole(n)
    <1> DEFINE n == Config(m, key, X!Obj(f))
               w == m.vendorConfig
               p == X!Put(w, key, X!Obj(f))
    <1>1. X!Put(p, key, v) = X!Put(w, key, v)
      BY DEF X!Put
    <1>2. key \in DOMAIN p /\ p[key] = X!Obj(f)
      BY DEF X!Put
    <1> HIDE DEF p
    <1>3. n.vendorConfig = p
      <2>1. n = [m EXCEPT !.vendorConfig = p]
        BY DEF n, p, Config
      <2> HIDE DEF n
      <2> QED
        BY <2>1 DEF Whole, CapabilitySlots
    <1>4. Config(n, key, v) = [m EXCEPT !.vendorConfig = X!Put(p, key, v)]
      <2> DEFINE r == X!Put(p, key, v)
      <2> HIDE DEF r
      <2>1. n = [m EXCEPT !.vendorConfig = p]
        BY DEF n, p, Config
      <2>2. Config(n, key, v) = [n EXCEPT !.vendorConfig = r]
        BY <1>3 DEF Config, r
      <2> HIDE DEF n
      <2>3. [n EXCEPT !.vendorConfig = r] = [m EXCEPT !.vendorConfig = r]
        BY <2>1 DEF Whole
      <2> QED
        BY <2>2, <2>3 DEF r
    <1>5. X!ConfigObject(n, key) = f
      <2> HIDE DEF n
      <2> QED
        BY <1>2, <1>3 DEF X!ConfigObject, X!Obj
    <1>6. Whole(n)
      BY ConfigChanged DEF n
    <1> QED
      BY <1>1, <1>4, <1>5, <1>6 DEF Config, n

\* Two keys of an object are set, or added, in either order.
LEMMA PutApart ==
    ASSUME NEW v, NEW g, NEW h, g # h, NEW p, NEW q
    PROVE  X!Put(X!Put(v, g, p), h, q) = X!Put(X!Put(v, h, q), g, p)
    <1> DEFINE s == X!Put(v, g, p)
               t == X!Put(v, h, q)
               y == X!Put(s, h, q)
               z == X!Put(t, g, p)
    <1>1. /\ DOMAIN s = DOMAIN v \cup {g} /\ \A k \in DOMAIN s : s[k] = IF k = g THEN p ELSE v[k]
          /\ DOMAIN t = DOMAIN v \cup {h} /\ \A k \in DOMAIN t : t[k] = IF k = h THEN q ELSE v[k]
      BY DEF X!Put
    <1> HIDE DEF s, t
    <1>2. /\ DOMAIN y = DOMAIN s \cup {h} /\ \A k \in DOMAIN y : y[k] = IF k = h THEN q ELSE s[k]
          /\ DOMAIN z = DOMAIN t \cup {g} /\ \A k \in DOMAIN z : z[k] = IF k = g THEN p ELSE t[k]
          /\ y = [k \in DOMAIN y |-> y[k]] /\ z = [k \in DOMAIN z |-> z[k]]
      BY DEF X!Put
    <1> HIDE DEF y, z
    <1>3. DOMAIN y = DOMAIN z /\ \A k \in DOMAIN y : y[k] = z[k]
      BY <1>1, <1>2
    <1>4. y = z
      BY <1>2, <1>3
    <1> QED
      BY <1>4 DEF s, t, y, z

LEMMA EmplaceApart ==
    ASSUME NEW v, NEW g, NEW h, g # h, NEW p, NEW q
    PROVE  X!Emplace(X!Emplace(v, g, p), h, q) = X!Emplace(X!Emplace(v, h, q), g, p)
    <1> DEFINE s == X!Put(v, g, p)
               t == X!Put(v, h, q)
    <1>1. X!Put(s, h, q) = X!Put(t, g, p)
      BY PutApart
    <1>2. DOMAIN s = DOMAIN v \cup {g} /\ DOMAIN t = DOMAIN v \cup {h}
      BY DEF X!Put
    <1>3. /\ X!Emplace(v, g, p) = IF g \in DOMAIN v THEN v ELSE s
          /\ X!Emplace(v, h, q) = IF h \in DOMAIN v THEN v ELSE t
          /\ X!Emplace(s, h, q) = IF h \in DOMAIN s THEN s ELSE X!Put(s, h, q)
          /\ X!Emplace(t, g, p) = IF g \in DOMAIN t THEN t ELSE X!Put(t, g, p)
      BY DEF X!Emplace
    <1> HIDE DEF s, t
    <1> QED
      BY <1>1, <1>2, <1>3

\* The settings of the DRM.
LEMMA SwapDrm ==
    ASSUME NEW m, Whole(m), NEW a, NEW c, NEW b, NEW d, a # b,
           a \in {"drm-type", "drm-store"},
           b \in {"drm-type", "drm-store"}
    PROVE  X!processCapabilityDrm(X!processCapabilityDrm(m, a, c), b, d)
            = X!processCapabilityDrm(X!processCapabilityDrm(m, b, d), a, c)
    <1> DEFINE H(u, e, t) == X!processCapabilityDrm(u, e, t)
               O(u) == X!ConfigObject(u, "legacy:drm")
    <1> DEFINE E(v, e, t) ==
                   IF e = "drm-type" THEN X!Put(v, "types", X!StrArray(X!splitStringToVector(t)))
                   ELSE IF X!strtoul(t) # WordMod - 1
                   THEN X!Put(v, "storageSize", X!JInt((X!strtoul(t) * Kilo) % WordMod)) ELSE v
    <1>1. ASSUME NEW u, NEW e \in {"drm-type", "drm-store"}, NEW t
          PROVE  H(u, e, t) = Config(u, "legacy:drm", X!Obj(E(O(u), e, t)))
      <2>1. CASE e = "drm-type"
        BY <2>1 DEF Config, X!SetConfig, X!processCapabilityDrm
      <2>2. CASE e = "drm-store"
        BY <2>2 DEF Config, X!SetConfig, X!processCapabilityDrm
      <2> HIDE DEF E, H
      <2> QED
        BY <2>1, <2>2
    <1>2. ASSUME NEW v PROVE E(E(v, a, c), b, d) = E(E(v, b, d), a, c)
      <2> DEFINE P(t) == X!StrArray(X!splitStringToVector(t))
                 Q(t) == X!JInt((X!strtoul(t) * Kilo) % WordMod)
      <2>1. \A p, q, u : X!Put(X!Put(u, "types", p), "storageSize", q) = X!Put(X!Put(u, "storageSize", q), "types", p)
        BY PutApart
      <2> HIDE DEF P, Q
      <2> QED
        BY <2>1 DEF P, Q
    <1> HIDE DEF E, H
    <1>3. H(m, a, c) = Config(m, "legacy:drm", X!Obj(E(O(m), a, c)))
      BY <1>1
    <1>4. H(m, b, d) = Config(m, "legacy:drm", X!Obj(E(O(m), b, d)))
      BY <1>1
    <1>5. ASSUME NEW f, NEW v
          PROVE  /\ Config(Config(m, "legacy:drm", X!Obj(f)), "legacy:drm", v) = Config(m, "legacy:drm", v)
                 /\ O(Config(m, "legacy:drm", X!Obj(f))) = f
      BY ConfigTwice
    <1> HIDE DEF O
    <1>6. H(H(m, a, c), b, d) = Config(m, "legacy:drm", X!Obj(E(E(O(m), a, c), b, d)))
      BY <1>1, <1>3, <1>5
    <1>7. H(H(m, b, d), a, c) = Config(m, "legacy:drm", X!Obj(E(E(O(m), b, d), a, c)))
      BY <1>1, <1>4, <1>5
    <1> QED
      BY <1>2, <1>6, <1>7 DEF H

\* The settings of mediarite.
LEMMA SwapMediarite ==
    ASSUME NEW m, Whole(m), NEW a, NEW c, NEW b, NEW d, a # b,
           a \in {"mediarite-underlay", "mapi"},
           b \in {"mediarite-underlay", "mapi"}
    PROVE  X!processCapabilityMediarite(X!processCapabilityMediarite(m, a, c), b, d)
            = X!processCapabilityMediarite(X!processCapabilityMediarite(m, b, d), a, c)
    <1> DEFINE H(u, e, t) == X!processCapabilityMediarite(u, e, t)
               O(u) == X!ConfigObject(u, "mediarite")
    <1> DEFINE Groups(t) == SelectSeq(X!splitStringToVector(t), LAMBDA g : Len(g) = 2)
               Names(t, g) == Groups(t)[X!Max({i \in DOMAIN Groups(t) : Groups(t)[i][1] = g})][2]
               Access(t) == [g \in {Groups(t)[i][1] : i \in DOMAIN Groups(t)} |-> X!StrArray(Names(t, g))]
               E(v, e, t) ==
                   IF e = "mediarite-underlay" THEN X!Emplace(v, "underlay", X!Bool(TRUE))
                   ELSE IF Groups(t) # <<>> THEN X!Emplace(v, "accessGroups", X!Obj(Access(t))) ELSE v
    <1>1. ASSUME NEW u, NEW e \in {"mediarite-underlay", "mapi"}, NEW t
          PROVE  H(u, e, t) = Config(u, "mediarite", X!Obj(E(O(u), e, t)))
      <2>1. CASE e = "mediarite-underlay"
        BY <2>1 DEF Config, X!SetConfig, X!processCapabilityMediarite
      <2>2. CASE e = "mapi"
        BY <2>2 DEF Config, X!SetConfig, X!processCapabilityMediarite
      <2> HIDE DEF E, H
      <2> QED
        BY <2>1, <2>2
    <1>2. ASSUME NEW v PROVE E(E(v, a, c), b, d) = E(E(v, b, d), a, c)
      <2>1. \A p, q, u : X!Emplace(X!Emplace(u, "underlay", p), "accessGroups", q)
                            = X!Emplace(X!Emplace(u, "accessGroups", q), "underlay", p)
        BY EmplaceApart
      <2> HIDE DEF Groups, Access
      <2> QED
        BY <2>1
    <1> HIDE DEF E, H
    <1>3. H(m, a, c) = Config(m, "mediarite", X!Obj(E(O(m), a, c)))
      BY <1>1
    <1>4. H(m, b, d) = Config(m, "mediarite", X!Obj(E(O(m), b, d)))
      BY <1>1
    <1>5. ASSUME NEW f, NEW v
          PROVE  /\ Config(Config(m, "mediarite", X!Obj(f)), "mediarite", v) = Config(m, "mediarite", v)
                 /\ O(Config(m, "mediarite", X!Obj(f))) = f
      BY ConfigTwice
    <1> HIDE DEF O
    <1>6. H(H(m, a, c), b, d) = Config(m, "mediarite", X!Obj(E(E(O(m), a, c), b, d)))
      BY <1>1, <1>3, <1>5
    <1>7. H(H(m, b, d), a, c) = Config(m, "mediarite", X!Obj(E(E(O(m), b, d), a, c)))
      BY <1>1, <1>4, <1>5
    <1> QED
      BY <1>2, <1>6, <1>7 DEF H

\* The addresses of multicasts.
LEMMA SwapMulticast ==
    ASSUME NEW m, Whole(m), NEW a, NEW c, NEW b, NEW d, a # b,
           a \in {"forward-multicast", "multicast-server-socket", "multicast-client-socket"},
           b \in {"forward-multicast", "multicast-server-socket", "multicast-client-socket"}
    PROVE  X!processCapabilityMulticast(X!processCapabilityMulticast(m, a, c), b, d)
            = X!processCapabilityMulticast(X!processCapabilityMulticast(m, b, d), a, c)
    <1> DEFINE H(u, e, t) == X!processCapabilityMulticast(u, e, t)
               O(u) == X!ConfigObject(u, "multicast")
    <1> DEFINE Items(t) == X!InOrder(X!splitStringToSet(t))
               Usable(t, i) == SelectSeq(Items(t), LAMBDA s :
                                  Len(s) = i /\ s[i - 1] \notin InvalidAddresses /\ X!ValidPort(s[i]))
               Address(s) == [address |-> X!Str(s[1]), port |-> X!JInt(s[2])]
               Socket(s) == [name |-> X!Str(s[1]), address |-> X!Str(s[2]), port |-> X!JInt(s[3])]
               Add(v, key, seq) == IF seq = <<>> THEN v ELSE X!Emplace(v, key, X!Arr(seq))
               E(v, e, t) ==
                   CASE e = "forward-multicast" ->
                            Add(v, "forwarding",
                                [i \in DOMAIN Usable(t, 2) |-> X!Obj(Address(Usable(t, 2)[i]))])
                     [] e = "multicast-server-socket" ->
                            Add(v, "serverSockets",
                                [i \in DOMAIN Usable(t, 3) |-> X!Obj(Socket(Usable(t, 3)[i]))])
                     [] OTHER ->
                            Add(v, "clientSockets",
                                [i \in DOMAIN Items(t) |->
                                    X!Obj([k \in {"name"} |-> X!Str(Items(t)[i][1])])])
    <1>1. ASSUME NEW u, NEW e \in {"forward-multicast", "multicast-server-socket", "multicast-client-socket"}, NEW t
          PROVE  H(u, e, t) = Config(u, "multicast", X!Obj(E(O(u), e, t)))
      <2>1. CASE e = "forward-multicast"
        BY <2>1 DEF Config, X!SetConfig, X!processCapabilityMulticast
      <2>2. CASE e = "multicast-server-socket"
        BY <2>2 DEF Config, X!SetConfig, X!processCapabilityMulticast
      <2>3. CASE e = "multicast-client-socket"
        BY <2>3 DEF Config, X!SetConfig, X!processCapabilityMulticast
      <2> HIDE DEF E, H
      <2> QED
        BY <2>1, <2>2, <2>3
    <1>2. ASSUME NEW v PROVE E(E(v, a, c), b, d) = E(E(v, b, d), a, c)
      <2>1. ASSUME NEW u, NEW g, NEW i, g # i, NEW p, NEW q
            PROVE  Add(Add(u, g, p), i, q) = Add(Add(u, i, q), g, p)
        BY <2>1, EmplaceApart
      <2> DEFINE Key(e) == CASE e = "forward-multicast" -> "forwarding"
                             [] e = "multicast-server-socket" -> "serverSockets"
                             [] OTHER -> "clientSockets"
                 ValueOf(e, t) ==
                     CASE e = "forward-multicast" ->
                            [i \in DOMAIN Usable(t, 2) |-> X!Obj(Address(Usable(t, 2)[i]))]
                       [] e = "multicast-server-socket" ->
                            [i \in DOMAIN Usable(t, 3) |-> X!Obj(Socket(Usable(t, 3)[i]))]
                       [] OTHER ->
                            [i \in DOMAIN Items(t) |-> X!Obj([k \in {"name"} |-> X!Str(Items(t)[i][1])])]
      <2>2. \A u, t : \A e \in {"forward-multicast", "multicast-server-socket", "multicast-client-socket"} :
                E(u, e, t) = Add(u, Key(e), ValueOf(e, t))
        <3> HIDE DEF Items, Usable, Address, Socket, Add
        <3> QED
          OBVIOUS
      <2>3. Key(a) # Key(b)
        OBVIOUS
      <2> HIDE DEF E, Key, ValueOf, Add
      <2> QED
        BY <2>1, <2>2, <2>3
    <1> HIDE DEF E, H
    <1>3. H(m, a, c) = Config(m, "multicast", X!Obj(E(O(m), a, c)))
      BY <1>1
    <1>4. H(m, b, d) = Config(m, "multicast", X!Obj(E(O(m), b, d)))
      BY <1>1
    <1>5. ASSUME NEW f, NEW v
          PROVE  /\ Config(Config(m, "multicast", X!Obj(f)), "multicast", v) = Config(m, "multicast", v)
                 /\ O(Config(m, "multicast", X!Obj(f))) = f
      BY ConfigTwice
    <1> HIDE DEF O
    <1>6. H(H(m, a, c), b, d) = Config(m, "multicast", X!Obj(E(E(O(m), a, c), b, d)))
      BY <1>1, <1>3, <1>5
    <1>7. H(H(m, b, d), a, c) = Config(m, "multicast", X!Obj(E(E(O(m), b, d), a, c)))
      BY <1>1, <1>4, <1>5
    <1> QED
      BY <1>2, <1>6, <1>7 DEF H

\* Two capabilities of one vendor configuration can be read in either order.
LEMMA SwapConfig ==
    ASSUME NEW m, Whole(m), NEW a, NEW c, NEW b, NEW d, a # b,
           MemberOf(a) = "vendorConfig", MemberOf(b) = "vendorConfig", ConfigOf(a) = ConfigOf(b),
           NEW n \in X!processCapability(m, a, c), NEW x \in X!processCapability(n, b, d)
    PROVE  \E l \in X!processCapability(m, b, d) : x \in X!processCapability(l, a, c)
    <1> DEFINE p(u, e, t) == X!processCapability(u, e, t)
    <1>1. n \in p(m, a, c) /\ x \in p(n, b, d)
      OBVIOUS
    <1>2. \/ a \in {"drm-type", "drm-store"} /\ b \in {"drm-type", "drm-store"}
          \/ a \in {"mediarite-underlay", "mapi"} /\ b \in {"mediarite-underlay", "mapi"}
          \/ /\ a \in {"forward-multicast", "multicast-server-socket", "multicast-client-socket"}
             /\ b \in {"forward-multicast", "multicast-server-socket", "multicast-client-socket"}
      <2>1. ConfigOf(a) # "none" /\ ConfigOf(b) # "none"
        BY ConfigHandlerOf
      <2> QED
        BY <2>1 DEF ConfigOf
    <1>3. CASE a \in {"drm-type", "drm-store"} /\ b \in {"drm-type", "drm-store"}
      <2> DEFINE H(u, e, t) == X!processCapabilityDrm(u, e, t)
      <2>1. ASSUME NEW u, NEW e \in {a, b}, NEW t PROVE p(u, e, t) = {H(u, e, t)}
        <3>1. MemberOf(e) = "vendorConfig" /\ ConfigOf(e) = "legacy:drm"
          BY <1>3 DEF ConfigOf
        <3> QED
          BY <3>1, ConfigHandlerOf
      <2>2. H(H(m, a, c), b, d) = H(H(m, b, d), a, c)
        BY <1>3, SwapDrm
      <2> HIDE DEF H, p
      <2>3. n = H(m, a, c)
        BY <1>1, <2>1
      <2>4. x = H(n, b, d)
        <3>1. p(n, b, d) = {H(n, b, d)}
          BY <2>1
        <3> QED
          BY <1>1, <3>1
      <2>5. p(m, b, d) = {H(m, b, d)} /\ p(H(m, b, d), a, c) = {H(H(m, b, d), a, c)}
        BY <2>1
      <2> QED
        BY <2>2, <2>3, <2>4, <2>5 DEF p
    <1>4. CASE a \in {"mediarite-underlay", "mapi"} /\ b \in {"mediarite-underlay", "mapi"}
      <2> DEFINE H(u, e, t) == X!processCapabilityMediarite(u, e, t)
      <2>1. ASSUME NEW u, NEW e \in {a, b}, NEW t PROVE p(u, e, t) = {H(u, e, t)}
        <3>1. MemberOf(e) = "vendorConfig" /\ ConfigOf(e) = "mediarite"
          BY <1>4 DEF ConfigOf
        <3> QED
          BY <3>1, ConfigHandlerOf
      <2>2. H(H(m, a, c), b, d) = H(H(m, b, d), a, c)
        BY <1>4, SwapMediarite
      <2> HIDE DEF H, p
      <2>3. n = H(m, a, c)
        BY <1>1, <2>1
      <2>4. x = H(n, b, d)
        <3>1. p(n, b, d) = {H(n, b, d)}
          BY <2>1
        <3> QED
          BY <1>1, <3>1
      <2>5. p(m, b, d) = {H(m, b, d)} /\ p(H(m, b, d), a, c) = {H(H(m, b, d), a, c)}
        BY <2>1
      <2> QED
        BY <2>2, <2>3, <2>4, <2>5 DEF p
    <1>5. CASE /\ a \in {"forward-multicast", "multicast-server-socket", "multicast-client-socket"}
               /\ b \in {"forward-multicast", "multicast-server-socket", "multicast-client-socket"}
      <2> DEFINE H(u, e, t) == X!processCapabilityMulticast(u, e, t)
      <2>1. ASSUME NEW u, NEW e \in {a, b}, NEW t PROVE p(u, e, t) = {H(u, e, t)}
        <3>1. MemberOf(e) = "vendorConfig" /\ ConfigOf(e) = "multicast"
          BY <1>5 DEF ConfigOf
        <3> QED
          BY <3>1, ConfigHandlerOf
      <2>2. H(H(m, a, c), b, d) = H(H(m, b, d), a, c)
        BY <1>5, SwapMulticast
      <2> HIDE DEF H, p
      <2>3. n = H(m, a, c)
        BY <1>1, <2>1
      <2>4. x = H(n, b, d)
        <3>1. p(n, b, d) = {H(n, b, d)}
          BY <2>1
        <3> QED
          BY <1>1, <3>1
      <2>5. p(m, b, d) = {H(m, b, d)} /\ p(H(m, b, d), a, c) = {H(H(m, b, d), a, c)}
        BY <2>1
      <2> QED
        BY <2>2, <2>3, <2>4, <2>5 DEF p
    <1> QED
      BY <1>2, <1>3, <1>4, <1>5

\* Two capabilities can be read in either order.
LEMMA CapabilitiesSwap ==
    ASSUME NEW m, Whole(m), NEW a, NEW c, NEW b, NEW d, a # b,
           NEW n \in X!processCapability(m, a, c), NEW x \in X!processCapability(n, b, d)
    PROVE  \E l \in X!processCapability(m, b, d) : x \in X!processCapability(l, a, c)
    <1>1. CASE MemberOf(a) # MemberOf(b)
      BY <1>1, SwapApart
    <1>2. CASE MemberOf(a) = MemberOf(b) /\ MemberOf(a) # "vendorConfig"
      BY <1>2, SwapMember
    <1>3. CASE MemberOf(a) = "vendorConfig" /\ MemberOf(b) = "vendorConfig" /\ ConfigOf(a) # ConfigOf(b)
      BY <1>3, SwapApart
    <1>4. CASE MemberOf(a) = "vendorConfig" /\ MemberOf(b) = "vendorConfig" /\ ConfigOf(a) = ConfigOf(b)
      BY <1>4, SwapConfig
    <1> QED
      BY <1>1, <1>2, <1>3, <1>4

\* The elements of config.xml keep the object whole.
LEMMA StillWhole ==
    ASSUME NEW m, Whole(m), NEW n, DOMAIN n = DOMAIN m, n = [f \in DOMAIN n |-> n[f]],
           n.vendorConfig = m.vendorConfig
    PROVE  Whole(n)
    BY DEF Whole

LEMMA ContentWhole ==
    ASSUME NEW m, Whole(m), NEW src, NEW k, NEW runtime, NEW n \in X!processContentV1(m, src, k, runtime)
    PROVE  Whole(n)
    <1> DEFINE type == CASE k = "runtime" -> "Runtime"
                         [] k = "application" /\ m.type = "Unknown" -> "Application"
                         [] OTHER -> m.type
    <1>1. n = [m EXCEPT !.entryPointPath = src, !.mimeType = <<k, runtime>>, !.specifier = runtime,
                        !.type = type]
      BY DEF X!processContentV1, Whole, CapabilitySlots
    <1> HIDE DEF type
    <1>2. n.vendorConfig = m.vendorConfig
      BY <1>1 DEF Whole, CapabilitySlots
    <1>3. DOMAIN n = DOMAIN m /\ n = [f \in DOMAIN n |-> n[f]]
      BY <1>1
    <1> QED
      BY <1>2, <1>3, StillWhole

LEMMA ElementWhole ==
    ASSUME NEW m, Whole(m), NEW e, NEW format, NEW n \in X!processElement(m, e, format)
    PROVE  Whole(n)
    <1>1. CASE e[1] = "name"
      <2>1. n \in X!processName(m, e[2], e[3], e[4])
        BY <1>1 DEF X!processElement
      <2>2. n = [m EXCEPT !.id = e[2], !.versionName = e[3], !.title = {e[4]}]
        BY <2>1 DEF X!processName
      <2>3. n.vendorConfig = m.vendorConfig
        BY <2>2 DEF Whole, CapabilitySlots
      <2>4. DOMAIN n = DOMAIN m /\ n = [f \in DOMAIN n |-> n[f]]
        BY <2>2
      <2> QED
        BY <2>3, <2>4, StillWhole
    <1>2. CASE e[1] = "icon"
      <2>1. n = X!processIcon(m, e[2], e[3])
        BY <1>2 DEF X!processElement
      <2> DEFINE icons == Append(m.icons, [path |-> e[2], mimeType |-> e[3], purpose |-> "", sizes |-> <<>>])
      <2>2. n = m \/ n = [m EXCEPT !.icons = icons]
        BY <2>1 DEF X!processIcon
      <2> HIDE DEF icons
      <2>3. n.vendorConfig = m.vendorConfig
        BY <2>2 DEF Whole, CapabilitySlots
      <2>4. DOMAIN n = DOMAIN m /\ n = [f \in DOMAIN n |-> n[f]]
        BY <2>2 DEF Whole
      <2> QED
        BY <2>3, <2>4, StillWhole
    <1>3. CASE e[1] = "content" /\ format = 1
      <2>1. n \in X!processContentV1(m, e[2], e[3], e[4])
        BY <1>3 DEF X!processElement
      <2> QED
        BY <2>1, ContentWhole
    <1>4. CASE e[1] = "content" /\ format = 2
      <2>1. n \in X!processContentV2(m, e[2], e[3], e[4], e[5])
        BY <1>4 DEF X!processElement
      <2> DEFINE filters == X!Obj(X!PlatformFilters(e[5]))
      <2>2. PICK l \in X!processContentV1(m, e[2], e[3], e[4]) :
                n = l \/ n = AddedConfig(l, "platform:filters", filters)
        BY <2>1 DEF X!processContentV2, AddedConfig
      <2> HIDE DEF filters
      <2>3. Whole(l)
        BY ContentWhole
      <2> QED
        BY <2>2, <2>3, ConfigAdded
    <1>5. CASE e[1] = "capability"
      <2>1. n \in X!processCapability(m, e[2], e[3])
        BY <1>5 DEF X!processElement
      <2> QED
        BY <2>1, CapabilitiesAreLocal DEF Local
    <1>6. CASE e[1] = "parentalControl"
      <2>1. n = X!processParentalControl(m, e[2])
        BY <1>6 DEF X!processElement
      <2>2. n = m \/ n = AddedConfig(m, "parental-control", X!Bool(e[2] = "true"))
        BY <2>1 DEF X!processParentalControl, AddedConfig
      <2> QED
        BY <2>2, ConfigAdded
    <1>7. CASE e[1] \notin {"name", "icon", "capability", "parentalControl"}
               /\ ~(e[1] = "content" /\ format \in {1, 2})
      BY <1>7 DEF X!processElement
    <1> QED
      BY <1>1, <1>2, <1>3, <1>4, <1>5, <1>6, <1>7

\* An element has one result or none.
LEMMA OneResult ==
    ASSUME NEW m, Whole(m), NEW e, NEW format, NEW n \in X!processElement(m, e, format),
           NEW x \in X!processElement(m, e, format)
    PROVE  n = x
    <1>1. CASE e[1] = "name"
      BY <1>1 DEF X!processElement, X!processName
    <1>2. ASSUME NEW l \in X!processContentV1(m, e[2], e[3], e[4]),
                 NEW k \in X!processContentV1(m, e[2], e[3], e[4])
          PROVE  l = k
      BY DEF X!processContentV1
    <1>3. CASE e[1] = "content" /\ format = 1
      BY <1>2, <1>3 DEF X!processElement
    <1>4. CASE e[1] = "content" /\ format = 2
      <2>1. /\ n \in X!processContentV2(m, e[2], e[3], e[4], e[5])
            /\ x \in X!processContentV2(m, e[2], e[3], e[4], e[5])
        BY <1>4 DEF X!processElement
      <2> QED
        BY <1>2, <2>1 DEF X!processContentV2
    <1>5. CASE e[1] = "capability"
      <2> DEFINE name == e[2]
                 c == e[3]
      <2>1. n \in X!processCapability(m, name, c) /\ x \in X!processCapability(m, name, c)
        BY <1>5 DEF X!processElement
      <2> HIDE DEF name, c
      <2> DEFINE f == MemberOf(name)
                 key == ConfigOf(name)
                 p == X!processCapability(m, name, c)
      <2>2. Local(m, m, n, p, f, key) /\ Local(m, m, x, p, f, key)
        BY <2>1, CapabilitiesAreLocal
      <2>3. CASE f = "none"
        BY <2>1, <2>3, HandlerOf
      <2>4. CASE f \in CapabilitySlots
        <3> HIDE DEF f, key, p
        <3>1. /\ Whole(n) /\ Whole(x) /\ Agree(m, m, f, key) /\ Agree(n, x, f, key)
              /\ ChangesOnly(m, n, f, key) /\ ChangesOnly(m, x, f, key)
          BY <2>1, <2>2 DEF Local, Agree, p
        <3>2. DOMAIN n = DOMAIN x
          BY <3>1 DEF ChangesOnly
        <3>3. \A g \in DOMAIN n \ {"vendorConfig"} : n[g] = x[g]
          BY <2>4, <3>1 DEF Agree, ChangesOnly
        <3>4. ASSUME NEW k PROVE Kept(n, k) = Kept(x, k)
          BY <3>1 DEF Agree, ChangesOnly, Kept
        <3> HIDE DEF Whole
        <3> QED
          BY <3>1, <3>2, <3>3, <3>4, SameMetaData
      <2> QED
        BY <2>3, <2>4, NamesOf
    <1>6. CASE e[1] \notin {"name", "capability"} /\ ~(e[1] = "content" /\ format \in {1, 2})
      BY <1>6 DEF X!processElement
    <1> QED
      BY <1>1, <1>3, <1>4, <1>5, <1>6

-------------------------------------------------------------------------------
(* Reading a document                                                          *)

\* Nothing but whole objects.
AllWhole(results) == \A m \in results : Whole(m)

LEMMA StepWhole ==
    ASSUME NEW results, AllWhole(results), NEW e, NEW format
    PROVE  AllWhole(X!Step(results, e, format))
    BY ElementWhole DEF AllWhole, X!Step

LEMMA StepNothing ==
    ASSUME NEW e, NEW format
    PROVE  X!Step({}, e, format) = {}
    BY DEF X!Step

LEMMA StepOne ==
    ASSUME NEW m, NEW e, NEW format
    PROVE  X!Step({m}, e, format) = X!processElement(m, e, format)
    BY DEF X!Step

\* Two capabilities with different names.
LEMMA StepsSwap ==
    ASSUME NEW results, AllWhole(results), NEW a, NEW b, NEW format,
           a[1] = "capability", b[1] = "capability", a[2] # b[2]
    PROVE  X!Step(X!Step(results, a, format), b, format) = X!Step(X!Step(results, b, format), a, format)
    <1>1. ASSUME NEW c, NEW d, c[1] = "capability", d[1] = "capability", c[2] # d[2],
                 NEW x \in X!Step(X!Step(results, c, format), d, format)
          PROVE  x \in X!Step(X!Step(results, d, format), c, format)
      <2>1. PICK n \in X!Step(results, c, format) : x \in X!processElement(n, d, format)
        BY DEF X!Step
      <2>2. PICK m \in results : n \in X!processElement(m, c, format)
        BY DEF X!Step
      <2>3. n \in X!processCapability(m, c[2], c[3]) /\ x \in X!processCapability(n, d[2], d[3])
        BY <1>1, <2>1, <2>2 DEF X!processElement
      <2>4. Whole(m)
        BY DEF AllWhole
      <2>5. PICK l \in X!processCapability(m, d[2], d[3]) : x \in X!processCapability(l, c[2], c[3])
        BY <1>1, <2>3, <2>4, CapabilitiesSwap
      <2>6. l \in X!processElement(m, d, format) /\ x \in X!processElement(l, c, format)
        BY <1>1, <2>5 DEF X!processElement
      <2> QED
        BY <2>6 DEF X!Step
    <1> DEFINE A == X!Step(X!Step(results, a, format), b, format)
               B == X!Step(X!Step(results, b, format), a, format)
    <1>2. \A x \in A : x \in B
      BY <1>1
    <1>3. \A x \in B : x \in A
      BY <1>1
    <1> HIDE DEF A, B
    <1>4. A = B
      BY <1>2, <1>3
    <1> QED
      BY <1>4 DEF A, B

\* L gives the results after the first elements of a sequence.
ListRead(L, results, list, format) ==
    /\ L[0] = results
    /\ \A n \in 1..Len(list) : L[n] = X!Step(L[n - 1], list[n], format)

LEMMA ListIsRead ==
    ASSUME NEW results, NEW S, NEW list \in Seq(S), NEW format
    PROVE  ListRead(X!ReadList(results, list, format), results, list, format)
    <1> DEFINE N == Len(list)
               rule(g, n) == IF n = 0 THEN results ELSE X!Step(g[n - 1], list[n], format)
               Def(g) == g = [n \in 0..N |-> rule(g, n)]
               read == CHOOSE g : Def(g)
    <1>1. X!ReadList(results, list, format) = read
      BY Zenon DEF X!ReadList
    <1>2. N \in Nat
      OBVIOUS
    <1> HIDE DEF read, N
    <1>3. \E g : Def(g)
      <2> DEFINE Upto(g, c) == g = [n \in 0..c |-> rule(g, n)]
                 R == {c \in 0..N : \E g : Upto(g, c)}
      <2>1. 0 \in R
        <3> DEFINE g == [n \in 0..0 |-> results]
        <3>1. Upto(g, 0)
          OBVIOUS
        <3> HIDE DEF g, Upto
        <3> QED
          BY <1>2, <3>1
      <2>2. ASSUME NEW c \in 1..N, c - 1 \in R PROVE c \in R
        <3>1. PICK g : Upto(g, c - 1)
          BY <2>2
        <3> DEFINE h == [n \in 0..c |-> rule(g, n)]
        <3>2. ASSUME NEW n \in 0..c, n # 0 PROVE h[n - 1] = g[n - 1]
          <4>1. n - 1 \in 0..(c - 1) /\ n - 1 \in 0..c
            BY <1>2, <3>2
          <4>2. g[n - 1] = rule(g, n - 1)
            <5> HIDE DEF rule
            <5> QED
              BY <3>1, <4>1
          <4>3. h[n - 1] = rule(g, n - 1)
            <5> HIDE DEF rule
            <5> QED
              BY <4>1
          <4> QED
            BY <4>2, <4>3
        <3>3. ASSUME NEW n \in 0..c PROVE rule(g, n) = rule(h, n)
          <4> HIDE DEF h
          <4> QED
            BY <3>2, Zenon
        <3>4. Upto(h, c)
          <4> HIDE DEF rule
          <4> QED
            BY <3>3
        <3> HIDE DEF h, Upto
        <3> QED
          BY <1>2, <3>4
      <2> HIDE DEF Upto
      <2>3. N \in R
        <3> HIDE DEF R
        <3>1. 0..N \subseteq R
          BY <1>2, <2>1, <2>2, BoundedInduction
        <3> QED
          BY <1>2, <3>1
      <2>4. PICK g : Upto(g, N)
        BY <2>3
      <2>5. Def(g)
        BY <2>4 DEF Upto
      <2> HIDE DEF Def
      <2> QED
        BY <2>5
    <1>4. Def(read)
      BY <1>3, Zenon DEF read
    <1>5. ASSUME NEW n \in 0..N PROVE read[n] = rule(read, n)
      <2> HIDE DEF rule
      <2> QED
        BY <1>4
    <1>6. read[0] = results
      BY <1>2, <1>5
    <1>7. ASSUME NEW n \in 1..N PROVE read[n] = X!Step(read[n - 1], list[n], format)
      <2>1. n \in 0..N /\ n # 0
        BY <1>2
      <2> QED
        BY <1>5, <2>1
    <1> QED
      BY <1>1, <1>6, <1>7 DEF ListRead, N

LEMMA ListWhole ==
    ASSUME NEW L, NEW results, AllWhole(results), NEW S, NEW list \in Seq(S), NEW format,
           ListRead(L, results, list, format)
    PROVE  \A n \in 0..Len(list) : AllWhole(L[n])
    <1> DEFINE N == Len(list)
               R == {n \in 0..N : AllWhole(L[n])}
    <1>1. N \in Nat
      OBVIOUS
    <1>2. 0 \in R
      BY <1>1 DEF ListRead
    <1>3. ASSUME NEW n \in 1..N, n - 1 \in R PROVE n \in R
      BY <1>1, <1>3, StepWhole DEF ListRead
    <1> HIDE DEF R, N
    <1>4. 0..N \subseteq R
      BY <1>1, <1>2, <1>3, BoundedInduction
    <1> QED
      BY <1>4 DEF R, N

\* An error stays one.
LEMMA ListRefused ==
    ASSUME NEW L, NEW results, NEW S, NEW list \in Seq(S), NEW format,
           ListRead(L, results, list, format), NEW i \in 0..Len(list), L[i] = {}
    PROVE  L[Len(list)] = {}
    <1> DEFINE N == Len(list)
               R == {n \in 0..N : n >= i => L[n] = {}}
    <1>1. N \in Nat
      OBVIOUS
    <1>2. 0 \in R
      BY <1>1
    <1>3. ASSUME NEW n \in 1..N, n - 1 \in R PROVE n \in R
      <2>1. CASE n <= i
        BY <1>1, <2>1
      <2>2. CASE n > i
        <3>1. L[n - 1] = {}
          BY <1>1, <1>3, <2>2
        <3>2. L[n] = {}
          BY <3>1, StepNothing DEF ListRead
        <3> QED
          BY <1>1, <3>2
      <2> QED
        BY <1>1, <2>1, <2>2
    <1> HIDE DEF R, N
    <1>4. 0..N \subseteq R
      BY <1>1, <1>2, <1>3, BoundedInduction
    <1>5. N \in R
      BY <1>1, <1>4
    <1> QED
      BY <1>5 DEF R, N

\* L gives the results after some capabilities of a set, whichever of them was the last.
SetRead(L, results, set, format) ==
    /\ L[{}] = results
    /\ \A some \in SUBSET set : \A e \in some : L[some] = X!Step(L[some \ {e}], e, format)

\* A finite set with one element less.
LEMMA OneLess ==
    ASSUME NEW set, IsFiniteSet(set), NEW some \in SUBSET set
    PROVE  /\ Cardinality(some) \in 0..Cardinality(set) /\ Cardinality(set) \in Nat
           /\ \A e \in some : /\ Cardinality(some) \in 1..Cardinality(set)
                              /\ Cardinality(some \ {e}) = Cardinality(some) - 1
           /\ Cardinality(some) = 0 => some = {}
    <1>1. /\ IsFiniteSet(some) /\ Cardinality(some) <= Cardinality(set)
          /\ Cardinality(some) \in Nat /\ Cardinality(set) \in Nat
      BY FS_Subset, FS_CardinalityType
    <1>2. ASSUME NEW e \in some
          PROVE  Cardinality(some \ {e}) = Cardinality(some) - 1 /\ Cardinality(some \ {e}) \in Nat
      BY <1>1, FS_RemoveElement, FS_Subset, FS_CardinalityType
    <1>3. ASSUME NEW e \in some PROVE Cardinality(some) \in 1..Cardinality(set)
      <2> DEFINE less == Cardinality(some \ {e})
      <2>1. less = Cardinality(some) - 1 /\ less \in Nat
        BY <1>2
      <2> HIDE DEF less
      <2> QED
        BY <1>1, <2>1
    <1>4. ASSUME Cardinality(some) = 0, some # {} PROVE FALSE
      <2>1. PICK e \in some : TRUE
        BY <1>4
      <2>2. Cardinality(some) \in 1..Cardinality(set)
        BY <1>3
      <2> QED
        BY <1>1, <1>4, <2>2
    <1>5. Cardinality(some) \in 0..Cardinality(set)
      BY <1>1
    <1> QED
      BY <1>1, <1>2, <1>3, <1>4, <1>5

\* The capabilities of a document: reading them in one order is reading them in any.
Capabilities(set) ==
    /\ IsFiniteSet(set)
    /\ \A c \in set : c[1] = "capability"
    /\ \A c, e \in set : c[2] = e[2] => c = e

LEMMA SetIsRead ==
    ASSUME NEW results, AllWhole(results), NEW set, Capabilities(set), NEW format
    PROVE  /\ SetRead(X!ReadSet(results, set, format), results, set, format)
           /\ \A some \in SUBSET set : AllWhole(X!ReadSet(results, set, format)[some])
    <1> DEFINE N == Cardinality(set)
               One(some) == CHOOSE e \in some : TRUE
               rule(g, some) ==
                    IF some = {} THEN results ELSE X!Step(g[some \ {One(some)}], One(some), format)
               Def(g) == g = [some \in SUBSET set |-> rule(g, some)]
               read == CHOOSE g : Def(g)
               Within(c) == {some \in SUBSET set : Cardinality(some) <= c}
    <1>1. X!ReadSet(results, set, format) = read
      BY Zenon DEF X!ReadSet
    <1>2. N \in Nat /\ IsFiniteSet(set)
      BY FS_CardinalityType DEF Capabilities
    <1> HIDE DEF read, N
    <1>3. ASSUME NEW some \in SUBSET set
          PROVE  /\ Cardinality(some) \in 0..N
                 /\ \A e \in some : Cardinality(some) \in 1..N /\ Cardinality(some \ {e}) = Cardinality(some) - 1
                 /\ Cardinality(some) = 0 => some = {}
      BY <1>2, OneLess DEF N
    <1>4. \A some : some # {} => One(some) \in some
      OBVIOUS
    <1> HIDE DEF One
    <1>5. \A some \in Within(0) : some = {}
      BY <1>2, <1>3
    <1>6. \A some \in SUBSET set : Cardinality(some) <= N
      BY <1>2, <1>3
    <1>7. ASSUME NEW c \in 1..N, NEW some \in Within(c), NEW e \in some
          PROVE  some \ {e} \in Within(c - 1) /\ some \ {e} \in Within(c) /\ some \in SUBSET set
      <2> DEFINE less == some \ {e}
      <2>1. less \in SUBSET set /\ Cardinality(less) = Cardinality(some) - 1 /\ Cardinality(some) \in 1..N
        BY <1>3
      <2>2. Cardinality(some) <= c
        OBVIOUS
      <2> HIDE DEF less
      <2>3. Cardinality(less) <= c - 1 /\ Cardinality(less) <= c
        BY <1>2, <2>1, <2>2
      <2> QED
        BY <2>1, <2>3 DEF less
    <1>8. \E g : Def(g)
      <2> DEFINE Upto(g, c) == g = [some \in Within(c) |-> rule(g, some)]
                 R == {c \in 0..N : \E g : Upto(g, c)}
      <2>1. 0 \in R
        <3> DEFINE g == [some \in Within(0) |-> results]
        <3>1. Upto(g, 0)
          BY <1>5
        <3> HIDE DEF g, Upto
        <3> QED
          BY <1>2, <3>1
      <2>2. ASSUME NEW c \in 1..N, c - 1 \in R PROVE c \in R
        <3>1. PICK g : Upto(g, c - 1)
          BY <2>2
        <3> DEFINE h == [some \in Within(c) |-> rule(g, some)]
        <3>2. ASSUME NEW some \in Within(c), some # {} PROVE h[some \ {One(some)}] = g[some \ {One(some)}]
          <4> DEFINE less == some \ {One(some)}
          <4>1. less \in Within(c - 1) /\ less \in Within(c)
            <5> HIDE DEF Within
            <5> QED
              BY <1>4, <1>7, <3>2
          <4> HIDE DEF less, rule, Within
          <4>2. g[less] = rule(g, less)
            BY <3>1, <4>1
          <4>3. h[less] = rule(g, less)
            BY <4>1
          <4> QED
            BY <4>2, <4>3 DEF less
        <3>3. ASSUME NEW some \in Within(c) PROVE rule(g, some) = rule(h, some)
          <4> HIDE DEF h, Within
          <4> QED
            BY <3>2, Zenon
        <3>4. Upto(h, c)
          <4> HIDE DEF rule, Within
          <4> QED
            BY <3>3
        <3> HIDE DEF h, Upto
        <3> QED
          BY <1>2, <3>4
      <2> HIDE DEF Upto
      <2>3. N \in R
        <3> HIDE DEF R
        <3>1. 0..N \subseteq R
          BY <1>2, <2>1, <2>2, BoundedInduction
        <3> QED
          BY <1>2, <3>1
      <2>4. Within(N) = SUBSET set
        BY <1>6
      <2>5. PICK g : Upto(g, N)
        BY <2>3
      <2> HIDE DEF rule, Within
      <2>6. Def(g)
        BY <2>4, <2>5 DEF Upto
      <2> HIDE DEF Def
      <2> QED
        BY <2>6
    <1>9. Def(read)
      BY <1>8, Zenon DEF read
    <1>10. ASSUME NEW some \in SUBSET set PROVE read[some] = rule(read, some)
      <2> HIDE DEF rule
      <2> QED
        BY <1>9
    <1>11. read[{}] = results
      BY <1>10
    <1> DEFINE Whichever(some) == /\ AllWhole(read[some])
                                  /\ \A e \in some : read[some] = X!Step(read[some \ {e}], e, format)
               R == {c \in 0..N : \A some \in Within(c) : Whichever(some)}
    <1>12. 0 \in R
      <2>1. ASSUME NEW some \in Within(0) PROVE Whichever(some)
        <3>1. some = {}
          BY <1>5
        <3> QED
          BY <1>11, <3>1
      <2> QED
        BY <1>2, <2>1
    <1>13. ASSUME NEW c \in 1..N, c - 1 \in R PROVE c \in R
      <2>1. ASSUME NEW some \in Within(c) PROVE Whichever(some)
        <3>1. CASE some = {}
          BY <1>11, <3>1
        <3>2. CASE some # {}
          <4> DEFINE d == One(some)
                     rest == some \ {d}
          <4>1. d \in some
            BY <1>4, <3>2
          <4>2. \A e \in some : some \ {e} \in Within(c - 1) /\ some \in SUBSET set
            <5> HIDE DEF Within
            <5> QED
              BY <1>7
          <4>3. \A less \in Within(c - 1) : Whichever(less)
            BY <1>13
          <4>4. read[some] = X!Step(read[rest], d, format)
            <5> HIDE DEF Within, Whichever
            <5> QED
              BY <1>10, <3>2, <4>1, <4>2
          <4> HIDE DEF d, Within
          <4>5. AllWhole(read[rest])
            BY <4>1, <4>2, <4>3
          <4>6. AllWhole(read[some])
            BY <4>4, <4>5, StepWhole
          <4>7. ASSUME NEW e \in some, e # d PROVE read[some] = X!Step(read[some \ {e}], e, format)
            <5> DEFINE both == some \ {d, e}
                       other == some \ {e}
            <5>1. rest \ {e} = both /\ other \ {d} = both /\ e \in rest /\ d \in other
              BY <4>1, <4>7
            <5>2. Whichever(rest) /\ Whichever(other)
              BY <4>1, <4>2, <4>3
            <5> HIDE DEF both, other, rest
            <5>3. read[rest] = X!Step(read[both], e, format) /\ read[other] = X!Step(read[both], d, format)
              BY <5>1, <5>2
            <5>4. AllWhole(read[both])
              <6>1. both \in Within(c - 1)
                <7>1. both \in SUBSET set /\ both = rest \ {e} /\ rest \in Within(c - 1)
                  BY <4>1, <4>2, <5>1 DEF both, rest
                <7>2. /\ rest \in SUBSET set /\ Cardinality(rest) <= c - 1
                  BY <7>1 DEF Within
                <7>3. Cardinality(rest \ {e}) = Cardinality(rest) - 1 /\ Cardinality(rest) \in 0..N
                  BY <1>3, <5>1, <7>2
                <7>4. Cardinality(both) <= c - 1
                  BY <1>2, <7>1, <7>2, <7>3
                <7> QED
                  BY <7>1, <7>4 DEF Within
              <6> QED
                BY <4>3, <6>1
            <5>5. d[1] = "capability" /\ e[1] = "capability" /\ d[2] # e[2]
              BY <4>1, <4>2, <4>7 DEF Capabilities
            <5>6. X!Step(X!Step(read[both], d, format), e, format)
                    = X!Step(X!Step(read[both], e, format), d, format)
              BY <5>4, <5>5, StepsSwap
            <5> QED
              BY <4>4, <5>3, <5>6 DEF other
          <4> QED
            BY <4>4, <4>6, <4>7 DEF rest
        <3> QED
          BY <3>1, <3>2
      <2> HIDE DEF Whichever, Within
      <2> QED
        BY <1>2, <2>1
    <1> HIDE DEF R
    <1>14. 0..N \subseteq R
      BY <1>2, <1>12, <1>13, BoundedInduction
    <1>15. ASSUME NEW some \in SUBSET set PROVE Whichever(some)
      <2>1. N \in R
        BY <1>2, <1>14
      <2>2. some \in Within(N)
        BY <1>6
      <2> HIDE DEF Whichever, Within
      <2> QED
        BY <2>1, <2>2 DEF R
    <1> QED
      BY <1>1, <1>11, <1>15 DEF SetRead

\* An error stays one.
LEMMA SetRefused ==
    ASSUME NEW L, NEW results, NEW set, IsFiniteSet(set), NEW format,
           SetRead(L, results, set, format), NEW some \in SUBSET set, L[some] = {}
    PROVE  L[set] = {}
    <1> DEFINE N == Cardinality(set)
               R == {c \in 0..N : \A rest \in SUBSET set :
                        Cardinality(rest) <= c /\ L[set \ rest] = {} => L[set] = {}}
    <1>1. N \in Nat
      BY FS_CardinalityType
    <1>2. ASSUME NEW rest \in SUBSET set
          PROVE  /\ Cardinality(rest) \in 0..N
                 /\ \A e \in rest : Cardinality(rest) \in 1..N /\ Cardinality(rest \ {e}) = Cardinality(rest) - 1
                 /\ Cardinality(rest) = 0 => rest = {}
      BY OneLess
    <1>3. 0 \in R
      <2>1. ASSUME NEW rest \in SUBSET set, Cardinality(rest) <= 0 PROVE set \ rest = set
        <3>1. Cardinality(rest) \in 0..N
          BY <1>2
        <3> HIDE DEF N
        <3>2. rest = {}
          BY <1>1, <1>2, <2>1, <3>1
        <3> QED
          BY <3>2
      <2> HIDE DEF N
      <2> QED
        BY <1>1, <2>1
    <1>4. ASSUME NEW c \in 1..N, c - 1 \in R PROVE c \in R
      <2>1. ASSUME NEW rest \in SUBSET set, Cardinality(rest) <= c, L[set \ rest] = {} PROVE L[set] = {}
        <3>1. CASE rest = {}
          <4>1. set \ rest = set
            BY <3>1
          <4> QED
            BY <2>1, <4>1
        <3>2. CASE rest # {}
          <4>1. PICK e \in rest : TRUE
            BY <3>2
          <4> DEFINE less == rest \ {e}
                     more == set \ less
          <4>2. /\ more \in SUBSET set /\ e \in more /\ more \ {e} = set \ rest
            OBVIOUS
          <4>3. less \in SUBSET set /\ Cardinality(less) = Cardinality(rest) - 1 /\ Cardinality(rest) \in 1..N
            BY <1>2
          <4> HIDE DEF less, N
          <4>4. L[more] = {}
            <5> HIDE DEF more
            <5>1. L[more] = X!Step(L[more \ {e}], e, format)
              BY <4>2 DEF SetRead
            <5> QED
              BY <2>1, <4>2, <5>1, StepNothing
          <4>5. Cardinality(less) <= c - 1
            BY <1>1, <2>1, <4>3
          <4> QED
            BY <1>4, <4>3, <4>4, <4>5
        <3> QED
          BY <3>1, <3>2
      <2> HIDE DEF N
      <2> QED
        BY <1>1, <2>1
    <1> HIDE DEF R, N
    <1>5. 0..N \subseteq R
      BY <1>1, <1>3, <1>4, BoundedInduction
    <1>6. N \in R
      BY <1>1, <1>5
    <1> DEFINE rest == set \ some
    <1>7. rest \in SUBSET set /\ set \ rest = some /\ Cardinality(rest) <= N
      <2>1. rest \in SUBSET set /\ set \ rest = some
        OBVIOUS
      <2> HIDE DEF rest
      <2>2. Cardinality(rest) \in 0..N
        BY <1>2, <2>1
      <2> QED
        BY <1>1, <2>1, <2>2
    <1> HIDE DEF rest
    <1> QED
      BY <1>6, <1>7 DEF R

\* The document, part by part.
BeginningOf(xml) == X!ReadList({X!NoMetaData}, xml.head, xml.format)
MiddleOf(xml) == X!ReadSet(BeginningOf(xml)[Len(xml.head)], xml.capabilities, xml.format)
EndOf(xml) == X!ReadList(MiddleOf(xml)[xml.capabilities], xml.tail, xml.format)

LEMMA DocumentRead ==
    ASSUME NEW xml
    PROVE  X!fromConfigXml(xml) =
                IF xml.valid THEN UNION {X!finishConfigXml(m) : m \in EndOf(xml)[Len(xml.tail)]} ELSE {}
    BY DEF X!fromConfigXml, BeginningOf, MiddleOf, EndOf

LEMMA NothingIsWhole == Whole(X!NoMetaData) /\ X!NoMetaData = NoMetaData
    <1>1. X!NoMetaData = NoMetaData
      BY DEF X!NoMetaData, NoMetaData, X!EmptyObject, EmptyObject, X!ServiceKinds, ServiceKinds, X!Null, Null
    <1>2. DOMAIN NoMetaData =
            {"id", "version", "versionName", "type", "mimeType", "specifier", "title", "entryPointPath",
             "entryArgs", "dependencies", "icons", "permissions", "storageQuota", "storageGroup",
             "memoryQuota", "gpuMemoryQuota", "lifecycle", "services", "dialInfo", "inputHandling",
             "display", "audio", "startTimeout", "watchdogInterval", "logging", "vendorConfig",
             "overrides", "appTypes"}
      BY DEF NoMetaData
    <1>3. NoMetaData = [f \in DOMAIN NoMetaData |-> NoMetaData[f]]
      BY DEF NoMetaData
    <1>4. NoMetaData.vendorConfig = [k \in {} |-> Null]
      BY DEF NoMetaData, EmptyObject
    <1>5. NoMetaData.vendorConfig = [k \in DOMAIN NoMetaData.vendorConfig |-> NoMetaData.vendorConfig[k]]
      BY <1>4
    <1> QED
      BY <1>1, <1>2, <1>3, <1>5 DEF Whole, CapabilitySlots

\* What the parts of a document that the schema lets through give.
LEMMA DocumentParts ==
    ASSUME NEW xml \in XmlDocuments, xml.valid
    PROVE  /\ ListRead(BeginningOf(xml), {NoMetaData}, xml.head, xml.format)
           /\ SetRead(MiddleOf(xml), BeginningOf(xml)[Len(xml.head)], xml.capabilities, xml.format)
           /\ ListRead(EndOf(xml), MiddleOf(xml)[xml.capabilities], xml.tail, xml.format)
           /\ \A n \in 0..Len(xml.head) : AllWhole(BeginningOf(xml)[n])
           /\ \A some \in SUBSET xml.capabilities : AllWhole(MiddleOf(xml)[some])
           /\ \A n \in 0..Len(xml.tail) : AllWhole(EndOf(xml)[n])
           /\ xml.head \in Seq(Range(xml.head)) /\ xml.tail \in Seq(Range(xml.tail))
           /\ Capabilities(xml.capabilities)
    <1>1. /\ xml.head \in Seq(Range(xml.head)) /\ xml.tail \in Seq(Range(xml.tail))
          /\ Capabilities(xml.capabilities)
      BY XmlAssumption DEF Capabilities
    <1>2. ListRead(BeginningOf(xml), {NoMetaData}, xml.head, xml.format) /\ AllWhole({NoMetaData})
      <2>1. ListRead(BeginningOf(xml), {X!NoMetaData}, xml.head, xml.format)
        BY <1>1, ListIsRead DEF BeginningOf
      <2> QED
        BY <2>1, NothingIsWhole DEF AllWhole
    <1>3. \A n \in 0..Len(xml.head) : AllWhole(BeginningOf(xml)[n])
      BY <1>1, <1>2, ListWhole
    <1>4. AllWhole(BeginningOf(xml)[Len(xml.head)])
      BY <1>1, <1>3
    <1>5. /\ SetRead(MiddleOf(xml), BeginningOf(xml)[Len(xml.head)], xml.capabilities, xml.format)
          /\ \A some \in SUBSET xml.capabilities : AllWhole(MiddleOf(xml)[some])
      BY <1>1, <1>4, SetIsRead DEF MiddleOf
    <1>6. ListRead(EndOf(xml), MiddleOf(xml)[xml.capabilities], xml.tail, xml.format)
      BY <1>1, ListIsRead DEF EndOf
    <1>7. \A n \in 0..Len(xml.tail) : AllWhole(EndOf(xml)[n])
      <2>1. AllWhole(MiddleOf(xml)[xml.capabilities])
        BY <1>5
      <2> QED
        BY <1>1, <1>6, <2>1, ListWhole
    <1> QED
      BY <1>1, <1>2, <1>3, <1>5, <1>6, <1>7

\* The elements of a sequence after the first i.
After(list, i) == [n \in 1..(Len(list) - i) |-> list[i + n]]

LEMMA AfterIs ==
    ASSUME NEW S, NEW list \in Seq(S)
    PROVE  /\ After(list, 0) = list /\ After(list, Len(list)) = <<>>
           /\ \A i \in 0..Len(list) : After(list, i) # <<>> =>
                    /\ i + 1 \in 1..Len(list)
                    /\ Head(After(list, i)) = list[i + 1] /\ Tail(After(list, i)) = After(list, i + 1)
           /\ \A i \in 0..Len(list) : After(list, i) = <<>> => i = Len(list)
    <1>1. Len(list) \in Nat /\ list = [n \in 1..Len(list) |-> list[n]]
      OBVIOUS
    <1>2. After(list, 0) = list
      BY <1>1 DEF After
    <1>3. ASSUME NEW i \in 0..Len(list)
          PROVE  After(list, i) \in Seq(S) /\ Len(After(list, i)) = Len(list) - i
      <2>1. \A n \in 1..(Len(list) - i) : list[i + n] \in S
        BY <1>1
      <2> QED
        BY <1>1, <2>1 DEF After
    <1>4. After(list, Len(list)) = <<>>
      BY <1>1, <1>3
    <1>5. ASSUME NEW i \in 0..Len(list), After(list, i) # <<>>
          PROVE  /\ i + 1 \in 1..Len(list)
                 /\ Head(After(list, i)) = list[i + 1] /\ Tail(After(list, i)) = After(list, i + 1)
      <2> DEFINE s == After(list, i)
      <2>1. s \in Seq(S) /\ Len(s) = Len(list) - i /\ s # <<>>
        BY <1>3, <1>5
      <2>2. \A n \in 1..(Len(list) - i) : s[n] = list[i + n]
        BY DEF After
      <2>3. \A n \in 1..(Len(list) - (i + 1)) : After(list, i + 1)[n] = list[i + 1 + n]
        BY DEF After
      <2> HIDE DEF s
      <2>4. i + 1 \in 1..Len(list) /\ Len(s) \in 1..Len(list)
        BY <1>1, <2>1
      <2>5. Head(s) = list[i + 1]
        BY <1>1, <2>1, <2>2, <2>4
      <2>6. After(list, i + 1) \in Seq(S) /\ Len(After(list, i + 1)) = Len(s) - 1
        BY <1>1, <1>3, <2>1, <2>4
      <2>7. Tail(s) \in Seq(S) /\ Len(Tail(s)) = Len(s) - 1 /\ \A n \in 1..(Len(s) - 1) : Tail(s)[n] = s[n + 1]
        BY <2>1
      <2>8. \A n \in 1..(Len(s) - 1) : Tail(s)[n] = After(list, i + 1)[n]
        <3> TAKE n \in 1..(Len(s) - 1)
        <3>1. n \in 1..(Len(list) - (i + 1)) /\ n + 1 \in 1..(Len(list) - i) /\ i + (n + 1) = i + 1 + n
          BY SMTT(30), <1>1, <2>1, <2>4
        <3> QED
          BY <2>2, <2>3, <2>7, <3>1
      <2>9. Tail(s) = After(list, i + 1)
        <3>1. \A u \in Seq(S) : u = [n \in 1..Len(u) |-> u[n]]
          OBVIOUS
        <3> DEFINE t == Tail(s)
                   u == After(list, i + 1)
        <3> HIDE DEF t, u
        <3>2. t = [n \in 1..(Len(s) - 1) |-> t[n]] /\ u = [n \in 1..(Len(s) - 1) |-> u[n]]
          BY <2>6, <2>7, <3>1 DEF t, u
        <3>3. \A n \in 1..(Len(s) - 1) : t[n] = u[n]
          BY <2>8 DEF t, u
        <3> QED
          BY <3>2, <3>3 DEF t, u
      <2> QED
        BY <2>4, <2>5, <2>9 DEF s
    <1>6. ASSUME NEW i \in 0..Len(list), After(list, i) = <<>> PROVE i = Len(list)
      BY <1>1, <1>3, <1>6
    <1> QED
      BY <1>2, <1>4, <1>5, <1>6

\* How far the document has been read.
HeadPhase ==
    /\ \E i \in 0..Len(doc.head) : before = After(doc.head, i) /\ BeginningOf(doc)[i] = {meta}
    /\ anyOrder = doc.capabilities /\ after = doc.tail

CapabilityPhase ==
    /\ before = <<>> /\ after = doc.tail
    /\ anyOrder \subseteq doc.capabilities
    /\ MiddleOf(doc)[doc.capabilities \ anyOrder] = {meta}

TailPhase ==
    /\ before = <<>> /\ anyOrder = {}
    /\ \E i \in 0..Len(doc.tail) : after = After(doc.tail, i) /\ EndOf(doc)[i] = {meta}

XmlInv ==
    kind = "xml" =>
        /\ doc \in XmlDocuments
        /\ status = "new" => meta = NoMetaData
        /\ status = "reading" => doc.valid /\ (HeadPhase \/ CapabilityPhase \/ TailPhase)
        /\ status = "built" => X!fromConfigXml(doc) = {meta}
        /\ status = "refused" => X!fromConfigXml(doc) = {}

\* An error on the way is an error for the document.
LEMMA DocumentRefused ==
    ASSUME NEW xml \in XmlDocuments, xml.valid
    PROVE  /\ \A i \in 0..Len(xml.head) : BeginningOf(xml)[i] = {} => X!fromConfigXml(xml) = {}
           /\ \A some \in SUBSET xml.capabilities : MiddleOf(xml)[some] = {} => X!fromConfigXml(xml) = {}
           /\ \A i \in 0..Len(xml.tail) : EndOf(xml)[i] = {} => X!fromConfigXml(xml) = {}
    <1> DEFINE B == BeginningOf(xml)
               M == MiddleOf(xml)
               E == EndOf(xml)
               n == Len(xml.head)
               k == Len(xml.tail)
               set == xml.capabilities
    <1>1. /\ ListRead(B, {NoMetaData}, xml.head, xml.format)
          /\ SetRead(M, B[n], set, xml.format)
          /\ ListRead(E, M[set], xml.tail, xml.format)
          /\ xml.head \in Seq(Range(xml.head)) /\ xml.tail \in Seq(Range(xml.tail))
          /\ IsFiniteSet(set)
      BY DocumentParts DEF Capabilities
    <1>2. X!fromConfigXml(xml) = UNION {X!finishConfigXml(m) : m \in E[k]}
      BY DocumentRead
    <1> HIDE DEF B, M, E, set
    <1>3. ASSUME NEW i \in 0..k, E[i] = {} PROVE X!fromConfigXml(xml) = {}
      <2>1. E[k] = {}
        BY <1>1, <1>3, ListRefused
      <2> HIDE DEF k
      <2> QED
        BY <1>2, <2>1
    <1>4. ASSUME NEW some \in SUBSET set, M[some] = {} PROVE X!fromConfigXml(xml) = {}
      <2>1. M[set] = {}
        BY <1>1, <1>4, SetRefused
      <2>2. E[0] = {} /\ 0 \in 0..k
        BY <1>1, <2>1 DEF ListRead
      <2> QED
        BY <1>3, <2>2
    <1>5. ASSUME NEW i \in 0..n, B[i] = {} PROVE X!fromConfigXml(xml) = {}
      <2>1. B[n] = {}
        BY <1>1, <1>5, ListRefused
      <2>2. M[{}] = {} /\ {} \in SUBSET set
        BY <1>1, <2>1 DEF SetRead
      <2> QED
        BY <1>4, <2>2
    <1> QED
      BY <1>3, <1>4, <1>5 DEF B, M, E, set

\* A step that reads an element: one object comes out, or the refusal.
LEMMA OneStep ==
    ASSUME NEW results, results = {meta}, AllWhole(results), NEW e, NEW format, NEW R,
           R = X!Step(results, e, format), Becomes(X!processElement(meta, e, format))
    PROVE  \/ R = {meta'} /\ status' = status
           \/ R = {} /\ status' = "refused"
    <1>1. R = X!processElement(meta, e, format) /\ Whole(meta)
      BY StepOne DEF AllWhole
    <1>2. CASE R # {} /\ meta' \in R /\ status' = status
      <2>1. \A n, x \in R : n = x
        BY <1>1, OneResult
      <2>2. R = {meta'}
        BY <1>2, <2>1
      <2> QED
        BY <1>2, <2>2
    <1>3. CASE R = {} /\ status' = "refused"
      BY <1>3
    <1> QED
      BY <1>1, <1>2, <1>3 DEF Becomes

\* Where nothing is left before the capabilities, or among them, the next part has begun.
LEMMA NextPhase ==
    ASSUME doc \in XmlDocuments, doc.valid, before = <<>>, HeadPhase \/ CapabilityPhase \/ TailPhase
    PROVE  /\ CapabilityPhase \/ TailPhase
           /\ anyOrder = {} => TailPhase
    <1>1. /\ SetRead(MiddleOf(doc), BeginningOf(doc)[Len(doc.head)], doc.capabilities, doc.format)
          /\ ListRead(EndOf(doc), MiddleOf(doc)[doc.capabilities], doc.tail, doc.format)
          /\ doc.head \in Seq(Range(doc.head)) /\ doc.tail \in Seq(Range(doc.tail))
      BY DocumentParts
    <1>2. CapabilityPhase \/ TailPhase
      <2>1. CASE HeadPhase
        <3>1. PICK i \in 0..Len(doc.head) : before = After(doc.head, i) /\ BeginningOf(doc)[i] = {meta}
          BY <2>1 DEF HeadPhase
        <3>2. i = Len(doc.head)
          BY <1>1, <3>1, AfterIs
        <3>3. MiddleOf(doc)[{}] = {meta}
          BY <1>1, <3>1, <3>2 DEF SetRead
        <3>4. doc.capabilities \ anyOrder = {} /\ anyOrder \subseteq doc.capabilities /\ after = doc.tail
          BY <2>1 DEF HeadPhase
        <3> QED
          BY <3>3, <3>4 DEF CapabilityPhase
      <2> QED
        BY <2>1
    <1>3. ASSUME anyOrder = {}, CapabilityPhase PROVE TailPhase
      <2>1. MiddleOf(doc)[doc.capabilities] = {meta} /\ after = doc.tail
        <3>1. doc.capabilities \ anyOrder = doc.capabilities
          BY <1>3
        <3> QED
          BY <1>3, <3>1 DEF CapabilityPhase
      <2>2. EndOf(doc)[0] = {meta} /\ after = After(doc.tail, 0) /\ 0 \in 0..Len(doc.tail)
        BY <1>1, <2>1, AfterIs DEF ListRead
      <2> QED
        BY <1>3, <2>2 DEF TailPhase
    <1> QED
      BY <1>2, <1>3

LEMMA XmlInductive == XmlInv /\ [BuildNext]_buildVars => XmlInv'
    <1> SUFFICES ASSUME XmlInv, [BuildNext]_buildVars, kind' = "xml"
                 PROVE  XmlInv'
      BY DEF XmlInv
    <1>1. kind = "xml" /\ doc' = doc /\ doc \in XmlDocuments
      <2>1. kind' = kind /\ doc' = doc
        BY DEF BuildNext, OpenXml, ReadElement, ReadCapability, ReadLastElement, FinishXml, OpenJson,
               ReadField, FinishJson, buildVars
      <2> QED
        BY <2>1 DEF XmlInv
    <1> DEFINE B == BeginningOf(doc)
               M == MiddleOf(doc)
               E == EndOf(doc)
    <1>2. ASSUME doc.valid
          PROVE  /\ ListRead(B, {NoMetaData}, doc.head, doc.format)
                 /\ SetRead(M, B[Len(doc.head)], doc.capabilities, doc.format)
                 /\ ListRead(E, M[doc.capabilities], doc.tail, doc.format)
                 /\ \A n \in 0..Len(doc.head) : AllWhole(B[n])
                 /\ \A some \in SUBSET doc.capabilities : AllWhole(M[some])
                 /\ \A n \in 0..Len(doc.tail) : AllWhole(E[n])
                 /\ doc.head \in Seq(Range(doc.head)) /\ doc.tail \in Seq(Range(doc.tail))
      BY <1>1, <1>2, DocumentParts
    <1>3. CASE OpenXml
      <2>1. CASE doc.valid
        <3>1. /\ status' = "reading" /\ meta' = NoMetaData
              /\ before' = doc.head /\ anyOrder' = doc.capabilities /\ after' = doc.tail
          BY <1>1, <1>3, <2>1 DEF OpenXml, XmlInv
        <3>2. /\ before' = After(doc.head, 0) /\ B[0] = {meta'} /\ 0 \in 0..Len(doc.head)
          BY <1>2, <2>1, <3>1, AfterIs DEF ListRead
        <3>3. HeadPhase'
          BY <1>1, <3>1, <3>2 DEF HeadPhase
        <3> QED
          BY <1>1, <2>1, <3>1, <3>3 DEF XmlInv
      <2>2. CASE ~doc.valid
        <3>1. status' = "refused"
          BY <1>3, <2>2 DEF OpenXml
        <3>2. X!fromConfigXml(doc) = {}
          BY <2>2, DocumentRead
        <3> QED
          BY <1>1, <3>1, <3>2 DEF XmlInv
      <2> QED
        BY <2>1, <2>2
    <1>4. CASE ReadElement
      <2>1. doc.valid /\ HeadPhase /\ before # <<>> /\ status = "reading"
        BY <1>1, <1>4 DEF ReadElement, XmlInv, CapabilityPhase, TailPhase
      <2>2. PICK i \in 0..Len(doc.head) : before = After(doc.head, i) /\ B[i] = {meta}
        BY <2>1 DEF HeadPhase
      <2>3. /\ i + 1 \in 1..Len(doc.head) /\ i + 1 \in 0..Len(doc.head)
            /\ Head(before) = doc.head[i + 1] /\ Tail(before) = After(doc.head, i + 1)
        <3>1. Len(doc.head) \in Nat
          BY <1>2, <2>1
        <3>2. i + 1 \in 1..Len(doc.head)
          BY <1>2, <2>1, <2>2, AfterIs
        <3>3. Head(before) = doc.head[i + 1] /\ Tail(before) = After(doc.head, i + 1)
          BY <1>2, <2>1, <2>2, AfterIs
        <3> QED
          BY <3>1, <3>2, <3>3
      <2>4. B[i + 1] = X!Step(B[i], doc.head[i + 1], doc.format) /\ AllWhole(B[i])
        <3>1. B[i + 1] = X!Step(B[(i + 1) - 1], doc.head[i + 1], doc.format)
          BY <1>2, <2>1, <2>3 DEF ListRead
        <3>2. (i + 1) - 1 = i
          OBVIOUS
        <3> QED
          BY <1>2, <2>1, <3>1, <3>2
      <2>5. /\ Becomes(X!processElement(meta, doc.head[i + 1], doc.format))
            /\ before' = After(doc.head, i + 1) /\ anyOrder' = anyOrder /\ after' = after
        BY <1>4, <2>3 DEF ReadElement
      <2> HIDE DEF B
      <2>6. \/ B[i + 1] = {meta'} /\ status' = status
            \/ B[i + 1] = {} /\ status' = "refused"
        BY <2>2, <2>4, <2>5, OneStep
      <2>7. CASE B[i + 1] = {meta'} /\ status' = status
        <3>1. HeadPhase'
          BY <1>1, <2>1, <2>3, <2>5, <2>7 DEF HeadPhase, B
        <3> QED
          BY <1>1, <2>1, <2>7, <3>1 DEF XmlInv
      <2>8. CASE B[i + 1] = {} /\ status' = "refused"
        <3>1. X!fromConfigXml(doc) = {}
          BY <1>1, <2>1, <2>3, <2>8, DocumentRefused DEF B
        <3> QED
          BY <1>1, <2>8, <3>1 DEF XmlInv
      <2> QED
        BY <2>6, <2>7, <2>8
    <1>5. CASE ReadCapability
      <2>1. doc.valid /\ before = <<>> /\ status = "reading" /\ anyOrder # {}
        BY <1>1, <1>5 DEF ReadCapability, XmlInv
      <2>2. CapabilityPhase
        <3>1. CapabilityPhase \/ TailPhase
          BY <1>1, <2>1, NextPhase DEF XmlInv
        <3> QED
          BY <2>1, <3>1 DEF TailPhase
      <2>3. PICK e \in anyOrder : /\ Becomes(X!processElement(meta, e, doc.format))
                                  /\ anyOrder' = anyOrder \ {e}
        BY <1>5 DEF ReadCapability
      <2> DEFINE some == doc.capabilities \ anyOrder
                 more == doc.capabilities \ (anyOrder \ {e})
      <2>4. /\ anyOrder \subseteq doc.capabilities /\ M[some] = {meta}
            /\ before' = <<>> /\ after' = doc.tail
        BY <1>5, <2>2 DEF ReadCapability, CapabilityPhase
      <2>5. /\ more \in SUBSET doc.capabilities /\ some \in SUBSET doc.capabilities
            /\ e \in more /\ more \ {e} = some
        BY <2>4
      <2> HIDE DEF some, more, M
      <2>6. M[more] = X!Step(M[some], e, doc.format) /\ AllWhole(M[some])
        <3>1. M[more] = X!Step(M[more \ {e}], e, doc.format)
          BY <1>2, <2>1, <2>5 DEF SetRead
        <3> QED
          BY <1>2, <2>1, <2>5, <3>1
      <2>7. \/ M[more] = {meta'} /\ status' = status
            \/ M[more] = {} /\ status' = "refused"
        BY <2>3, <2>4, <2>6, OneStep
      <2>8. CASE M[more] = {meta'} /\ status' = status
        <3>1. CapabilityPhase'
          BY <1>1, <2>3, <2>4, <2>8 DEF CapabilityPhase, M, more
        <3> QED
          BY <1>1, <2>1, <2>8, <3>1 DEF XmlInv
      <2>9. CASE M[more] = {} /\ status' = "refused"
        <3>1. X!fromConfigXml(doc) = {}
          BY <1>1, <2>1, <2>5, <2>9, DocumentRefused DEF M
        <3> QED
          BY <1>1, <2>9, <3>1 DEF XmlInv
      <2> QED
        BY <2>7, <2>8, <2>9
    <1>6. CASE ReadLastElement
      <2>1. doc.valid /\ before = <<>> /\ anyOrder = {} /\ status = "reading" /\ after # <<>>
        BY <1>1, <1>6 DEF ReadLastElement, XmlInv
      <2>2. TailPhase
        BY <1>1, <2>1, NextPhase DEF XmlInv
      <2>3. PICK i \in 0..Len(doc.tail) : after = After(doc.tail, i) /\ E[i] = {meta}
        BY <2>2 DEF TailPhase
      <2>4. /\ i + 1 \in 1..Len(doc.tail) /\ i + 1 \in 0..Len(doc.tail)
            /\ Head(after) = doc.tail[i + 1] /\ Tail(after) = After(doc.tail, i + 1)
        <3>1. Len(doc.tail) \in Nat
          BY <1>2, <2>1
        <3>2. i + 1 \in 1..Len(doc.tail)
          BY <1>2, <2>1, <2>3, AfterIs
        <3>3. Head(after) = doc.tail[i + 1] /\ Tail(after) = After(doc.tail, i + 1)
          BY <1>2, <2>1, <2>3, AfterIs
        <3> QED
          BY <3>1, <3>2, <3>3
      <2>5. E[i + 1] = X!Step(E[i], doc.tail[i + 1], doc.format) /\ AllWhole(E[i])
        <3>1. E[i + 1] = X!Step(E[(i + 1) - 1], doc.tail[i + 1], doc.format)
          BY <1>2, <2>1, <2>4 DEF ListRead
        <3>2. (i + 1) - 1 = i
          OBVIOUS
        <3> QED
          BY <1>2, <2>1, <3>1, <3>2
      <2>6. /\ Becomes(X!processElement(meta, doc.tail[i + 1], doc.format))
            /\ after' = After(doc.tail, i + 1) /\ before' = <<>> /\ anyOrder' = {}
        BY <1>6, <2>1, <2>4 DEF ReadLastElement
      <2> HIDE DEF E
      <2>7. \/ E[i + 1] = {meta'} /\ status' = status
            \/ E[i + 1] = {} /\ status' = "refused"
        BY <2>3, <2>5, <2>6, OneStep
      <2>8. CASE E[i + 1] = {meta'} /\ status' = status
        <3>1. TailPhase'
          BY <1>1, <2>4, <2>6, <2>8 DEF TailPhase, E
        <3> QED
          BY <1>1, <2>1, <2>8, <3>1 DEF XmlInv
      <2>9. CASE E[i + 1] = {} /\ status' = "refused"
        <3>1. X!fromConfigXml(doc) = {}
          BY <1>1, <2>1, <2>4, <2>9, DocumentRefused DEF E
        <3> QED
          BY <1>1, <2>9, <3>1 DEF XmlInv
      <2> QED
        BY <2>7, <2>8, <2>9
    <1>7. CASE FinishXml
      <2>1. /\ doc.valid /\ before = <<>> /\ anyOrder = {} /\ status = "reading" /\ after = <<>>
            /\ Ends(X!finishConfigXml(meta))
        BY <1>1, <1>7 DEF FinishXml, XmlInv
      <2>2. TailPhase
        BY <1>1, <2>1, NextPhase DEF XmlInv
      <2>3. PICK i \in 0..Len(doc.tail) : after = After(doc.tail, i) /\ E[i] = {meta}
        BY <2>2 DEF TailPhase
      <2>4. i = Len(doc.tail)
        BY <1>2, <2>1, <2>3, AfterIs
      <2>5. UNION {X!finishConfigXml(m) : m \in {meta}} = X!finishConfigXml(meta)
        OBVIOUS
      <2>6. X!fromConfigXml(doc) = X!finishConfigXml(meta)
        <3> HIDE DEF E
        <3>1. X!fromConfigXml(doc) = UNION {X!finishConfigXml(m) : m \in E[Len(doc.tail)]}
          BY <2>1, DocumentRead DEF E
        <3> QED
          BY <2>3, <2>4, <2>5, <3>1
      <2>7. X!finishConfigXml(meta) # {} => \E l : X!finishConfigXml(meta) = {l}
        BY DEF X!finishConfigXml
      <2>8. \/ X!fromConfigXml(doc) = {meta'} /\ status' = "built"
            \/ X!fromConfigXml(doc) = {} /\ status' = "refused"
        BY <2>1, <2>6, <2>7 DEF Ends
      <2> QED
        BY <1>1, <2>8 DEF XmlInv
    <1>8. CASE OpenJson \/ ReadField \/ FinishJson
      BY <1>1, <1>8 DEF OpenJson, ReadField, FinishJson
    <1>9. CASE UNCHANGED buildVars
      BY <1>1, <1>9 DEF buildVars, XmlInv, HeadPhase, CapabilityPhase, TailPhase
    <1> QED
      BY <1>3, <1>4, <1>5, <1>6, <1>7, <1>8, <1>9 DEF BuildNext

\* OrderIrrelevant: the order in which config.xml lists its capabilities is neither seen in
\* the meta data nor in whether the document is refused.  No capability is listed twice
\* (XmlAssumption), since of two values the last would win.
THEOREM OrderOfCapabilitiesIrrelevant == BuildSpec => []OrderIrrelevant
    <1>1. BuildInit => XmlInv
      BY DEF BuildInit, XmlInv
    <1>2. XmlInv /\ [BuildNext]_buildVars => XmlInv'
      BY XmlInductive
    <1>3. XmlInv => OrderIrrelevant
      BY DEF XmlInv, OrderIrrelevant
    <1> QED
      BY <1>1, <1>2, <1>3, PTL DEF BuildSpec

================================================================================
