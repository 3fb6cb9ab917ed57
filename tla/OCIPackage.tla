------------------------------ MODULE OCIPackage ------------------------------
(***************************************************************************)
(* An OCI package (lib/oci/OCIPackage.cpp) over its backing store: opening *)
(* with or without a verification bundle, and what the open package hands  *)
(* to its clients, while the file of the package may change under it.      *)
(*                                                                         *)
(* A blob is known by its SHA-256 digest. The file blobs/sha256/<d> should *)
(* hold the content with digest d; it may hold another one, or be missing. *)
(* What a content says when it is parsed is the constant Meaning. A value  *)
(* of JSON is a pair of its type and its value; a result that may be an    *)
(* error is a set, empty for the error.                                    *)
(***************************************************************************)
EXTENDS VerityGeometry, Integers, Sequences, FiniteSets, SequencesExt

CONSTANTS
    Blobs,          \* contents, identified with their digests
    Meaning,        \* [Blobs -> what the content says]
    SizeOf,         \* [Blobs -> size of the content]
    OffsetOf,       \* [Blobs -> where the file is in an archive]
    ArchiveSize,    \* the size of an archive
    Stores,         \* the kinds of backing store: "tar", "gzip", "directory"
    Layouts,        \* what the file oci-layout may say
    Indexes,        \* what the file index.json may say
    SuperBlocks,    \* what may be in place of a dm-verity superblock
    Signed,         \* payloads with a signature the bundle accepts
    Small,          \* blobs that the backing store keeps in its cache
    EntriesIn,      \* [Blobs -> number of entries in the image]
    MaxConfigSize,  \* PACKAGE_CONFIG_FILE_MAX_SIZE
    MaxAuxSize,     \* MAX_AUX_META_DATA_SIZE
    MaxImageSize,   \* MAX_EROFS_IMAGE_SIZE
    MaxBlobSize,    \* INT32_MAX
    MaxChanges      \* how often the package file changes

None == "none"

(* No descriptor yet.                                                       *)
NoDescriptor == [type |-> None, digest |-> None, size |-> 0, offset |-> 0]

IsImage(type) == type \in {"erofs", "tar"}

\* What OCIDescriptor::parse() lets through.
ParsedDescriptors == [type : STRING, digest : Blobs, size : 0..MaxBlobSize, offset : Nat]

ASSUME PackageAssumption ==
    /\ IsFiniteSet(Blobs) /\ None \notin Blobs
    /\ Signed \subseteq Blobs /\ Small \subseteq Blobs
    /\ SizeOf \in [Blobs -> Nat] /\ OffsetOf \in [Blobs -> Nat]
    /\ \A b, c \in Blobs : OffsetOf[b] + SizeOf[c] <= ArchiveSize
    /\ EntriesIn \in [Blobs -> Nat]
    /\ \A s \in Signed : Meaning[s].kind = "payload"
    /\ \A b \in Blobs : Meaning[b].kind = "manifest" =>
          /\ Meaning[b].config \in ParsedDescriptors
          /\ Meaning[b].layers \in Seq(ParsedDescriptors)
    /\ SuperBlocks \subseteq [supported : BOOLEAN, dataBlocks : 0..(Word - 1)]
    /\ ArchiveSize \in Nat
    /\ MaxImageSize \in Nat /\ 2 * MaxImageSize + Block < Word
    /\ MaxChanges \in Nat

\* An array of JSON is a sequence.
ASSUME IndexAssumption ==
    \A json \in Indexes :
        (json[1] = "object" /\ "manifests" \in DOMAIN json[2] /\ json[2].manifests[1] = "array") =>
            /\ Len(json[2].manifests[2]) \in Nat
            /\ DOMAIN json[2].manifests[2] = 1..Len(json[2].manifests[2])

VARIABLES
    store,    \* the kind of backing store
    layout,   \* the content of oci-layout
    indexJson, \* the content of index.json
    files,    \* [Blobs -> content in the file named by the digest, or None]
    changes,  \* number of changes to the files so far
    cache,    \* [Small -> content cached when the package was opened]
    index,    \* the descriptors that processIndexFile() found
    bundle,   \* whether a verification bundle was given
    phase,    \* "closed", "tree", "signature", "open", "failed", "verifying"
    next,     \* position in the loop over manifests, or over blobs to verify
    tree,     \* the descriptors found by processManifest()
    verifiedManifest, \* m_verifiedManifest
    metaData, \* m_metaData: the config content that was parsed
    limit,    \* m_maxExtractionEntries
    answer    \* what the last operation returned

named == <<store, layout, indexJson>>

vars == <<store, layout, indexJson, files, changes, cache, index, bundle, phase, next, tree,
          verifiedManifest, metaData, limit, answer>>

EmptyTree == [manifest |-> None, config |-> NoDescriptor, image |-> NoDescriptor,
              others |-> <<>>, signature |-> NoDescriptor]

Failure == [op |-> "error"]

(***************************************************************************)
(* Reading blobs                                                           *)
(***************************************************************************)

\* readFile() of the backing store: the cache first, then the archive. A
\* directory has no cache.
ReadFile(d) == IF d \in DOMAIN cache THEN cache[d] ELSE files[d]

\* readFile() of a directory: the whole file, or an error when it is too large.
DirectoryReadFile(d, maxSize) ==
    IF files[d] = None \/ SizeOf[files[d]] > maxSize THEN {} ELSE {files[d]}

\* getMappableFile() of a directory: all of the file.
DirectoryMappableFile(d) ==
    IF files[d] = None THEN {}
    ELSE {[offset |-> 0, size |-> SizeOf[files[d]], end |-> SizeOf[files[d]]]}

\* getMappableFile(): the range of a file in which the blob is, and the end of
\* that file (in an archive, see OCIArchiveBackingStore).
GetMappableFile(d) ==
    CASE store = "directory" -> DirectoryMappableFile(d)
      [] store = "gzip" \/ files[d] = None -> {}
      [] OTHER -> {[offset |-> OffsetOf[d], size |-> SizeOf[files[d]], end |-> ArchiveSize]}

IsAligned(file) == file.offset % Block = 0 /\ file.size % Block = 0

SupportsMountableFiles == store # "gzip"

\* Mutant: the digest of the blob is not compared.
ReadBlobUnchecked(d, size) == ReadFile(d) # None

\* readBlob(): the content has the size and the digest it should have.
ReadBlob(d, size) ==
    /\ IF store = "directory" THEN DirectoryReadFile(d, size) # {} ELSE ReadFile(d) # None
    /\ SizeOf[ReadFile(d)] = size
    /\ ReadFile(d) = d

\* calcAndCheckBlobDigest(): the digest of what getFile() gives. The size is
\* compared with that of the file, not with the one in the descriptor.
CalcAndCheckBlobDigest(desc) == ReadFile(desc.digest) = desc.digest

(***************************************************************************)
(* Opening                                                                 *)
(***************************************************************************)

IsPackageDataManifest(m) ==
    /\ m.config.type = "config"
    /\ \E i \in DOMAIN m.layers : IsImage(m.layers[i].type)

IsSignatureManifest(m) ==
    \E i \in DOMAIN m.layers : m.layers[i].type = "signature"

LastOf(layers, Test(_)) == SelectLastInSeq(layers, LAMBDA l : Test(l.type))

\* The layers without the images, in their order.
OtherLayers(layers) ==
    LET others[i \in 0..Len(layers)] ==
            IF i = 0 THEN <<>>
            ELSE IF IsImage(layers[i].type) THEN others[i - 1]
            ELSE Append(others[i - 1], layers[i])
    IN  others[Len(layers)]

\* What processManifest() makes of the tree: a later data manifest replaces
\* digest, config and image of an earlier one, and adds its other layers.
AddManifest(t, d, m) ==
    IF IsPackageDataManifest(m)
    THEN [t EXCEPT !.manifest = d,
                   !.config = m.config,
                   !.image = m.layers[LastOf(m.layers, IsImage)],
                   !.others = @ \o OtherLayers(m.layers)]
    ELSE IF IsSignatureManifest(m)
    THEN [t EXCEPT !.signature = m.layers[LastOf(m.layers, LAMBDA ty : ty = "signature")]]
    ELSE t

\* checkOciLayoutFile(): nothing but the version.
CheckOciLayoutFile(json) ==
    json[1] = "object" /\ json[2] = [imageLayoutVersion |-> <<"string", "1.0.0">>]

\* get<int64_t>() of a JSON number, which may be an unsigned one.
AsInt64(n) == IF n >= Word \div 2 THEN n - Word ELSE n

\* The types of the members of a descriptor, and of what the last two hold.
MemberTypes ==
    [mediaType |-> "string", digest |-> "string", size |-> "integer", data |-> "string",
     urls |-> "array", annotations |-> "object"]

\* OCIDescriptor::parse(). Other members are ignored.
ParseDescriptor(json) ==
    LET members == json[2]
        value(k, missing) == IF k \in DOMAIN members THEN members[k][2] ELSE missing
        texts == value("urls", <<>>)
        notes == value("annotations", <<>>)
    IN  IF \/ json[1] # "object"
           \/ \E k \in DOMAIN members \intersect DOMAIN MemberTypes : members[k][1] # MemberTypes[k]
           \/ \E i \in DOMAIN texts : texts[i][1] # "string"
           \/ \E k \in DOMAIN notes : notes[k][1] # "string"
           \/ value("digest", None) \notin Blobs
           \/ AsInt64(value("size", Word - 1)) \notin 0..MaxBlobSize
        THEN {}
        ELSE {[NoDescriptor EXCEPT !.type = value("mediaType", ""), !.digest = members.digest[2],
                                   !.size = members.size[2]]}

\* processIndexFile(): all of the descriptors, or an error.
ProcessIndexFile(json) ==
    IF \/ json[1] # "object"
       \/ ~{"schemaVersion", "manifests"} \subseteq DOMAIN json[2]
       \/ json[2].schemaVersion # <<"integer", 2>>
       \/ json[2].manifests[1] # "array"
       \/ \E i \in DOMAIN json[2].manifests[2] : ParseDescriptor(json[2].manifests[2][i]) = {}
    THEN {}
    ELSE {[i \in DOMAIN json[2].manifests[2] |->
              CHOOSE d \in ParseDescriptor(json[2].manifests[2][i]) : TRUE]}

\* open(): the store of an archive caches the small files, then oci-layout and
\* index.json are read (or the open fails).
Open ==
    /\ phase = "closed"
    /\ \/ phase' = "failed" /\ UNCHANGED <<cache, index, next>>
       \/ /\ CheckOciLayoutFile(layout)
          /\ index' \in ProcessIndexFile(indexJson)
          /\ cache' = [d \in {b \in Small : store # "directory" /\ files[b] # None} |-> files[d]]
          /\ next' = 1
          /\ phase' = "tree"
    /\ UNCHANGED <<named, files, changes, bundle, tree, verifiedManifest,
                   metaData, limit, answer>>

\* One turn of the loop over the manifests.
ProcessManifest ==
    /\ phase = "tree" /\ next \in DOMAIN index
    /\ LET desc == index[next]
       IN  \/ /\ desc.type = "manifest"
              /\ ReadBlob(desc.digest, desc.size)
              /\ Meaning[desc.digest].kind = "manifest"
              /\ tree' = AddManifest(tree, desc.digest, Meaning[desc.digest])
              /\ next' = next + 1
              /\ UNCHANGED phase
           \/ /\ phase' = "failed"
              /\ UNCHANGED <<tree, next>>
    /\ UNCHANGED <<named, files, changes, cache, index, bundle, verifiedManifest,
                   metaData, limit, answer>>

\* After the last manifest: the required blobs, and whether to go on with the
\* signature.
FinishTree ==
    /\ phase = "tree" /\ next > Len(index)
    /\ phase' = IF \/ tree.manifest = None
                   \/ tree.config.size > MaxConfigSize
                THEN "failed"
                ELSE IF bundle THEN "signature" ELSE "open"
    /\ UNCHANGED <<named, files, changes, cache, index, bundle, next, tree,
                   verifiedManifest, metaData, limit, answer>>

\* The certificate chain ends in the bundle and the signature is the payload's.
PayloadIsSigned(d) == d \in Signed

\* Mutant: the payload may name another manifest.
PayloadOfAnyManifest(d) == Meaning[d].kind = "payload"

\* verifySignaturePayload(): the signed payload names the data manifest.
VerifySignaturePayload(d) ==
    /\ Meaning[d].kind = "payload"
    /\ Meaning[d].manifest = tree.manifest

\* readAndVerifySignature(): certificates and signature (Signed), the payload's
\* own digest, and what the payload says.
ReadAndVerifySignature ==
    /\ phase = "signature"
    /\ \/ /\ tree.signature # NoDescriptor
          /\ ReadBlob(tree.signature.digest, tree.signature.size)
          /\ PayloadIsSigned(tree.signature.digest)
          /\ VerifySignaturePayload(tree.signature.digest)
          /\ verifiedManifest' = TRUE
          /\ phase' = "open"
       \/ /\ phase' = "failed"
          /\ UNCHANGED verifiedManifest
    /\ UNCHANGED <<named, files, changes, cache, index, bundle, next, tree, metaData,
                   limit, answer>>

(***************************************************************************)
(* The open package                                                        *)
(***************************************************************************)

\* The meta data is parsed once and kept.
LoadMetaData ==
    \/ metaData # None /\ UNCHANGED metaData
    \/ /\ metaData = None
       /\ ReadBlob(tree.config.digest, tree.config.size)
       /\ Meaning[ReadFile(tree.config.digest)].kind = "config"
       /\ metaData' = ReadFile(tree.config.digest)

\* metaData(): nothing is kept when that fails.
GetMetaData ==
    /\ phase = "open"
    /\ \/ LoadMetaData /\ answer' = [op |-> "metaData", blob |-> metaData']
       \/ metaData = None /\ answer' = Failure /\ UNCHANGED metaData
    /\ UNCHANGED <<named, files, changes, cache, index, bundle, phase, next, tree,
                   verifiedManifest, limit>>

\* The descriptors auxMetaDataFile() can find: the config, and the other layers.
AuxDescriptors == {tree.config} \union Range(tree.others)

\* auxMetaDataFile(): read from the file each time.
AuxMetaDataFile ==
    /\ phase = "open"
    /\ \E desc \in AuxDescriptors :
          \/ /\ desc.size <= MaxAuxSize
             /\ ReadBlob(desc.digest, desc.size)
             /\ answer' = [op |-> "aux", blob |-> ReadFile(desc.digest)]
          \/ answer' = Failure
    /\ UNCHANGED <<named, files, changes, cache, index, bundle, phase, next, tree,
                   verifiedManifest, metaData, limit>>

\* getDmVerityAnnotations(): the unsigned subtraction wraps for a small image.
AnnotationsOK(desc) ==
    /\ desc.type = "erofs"
    /\ desc.offset \in Block..MaxImageSize
    /\ desc.offset <= Wrap(desc.size + Word - Block)

\* The checks of mount(), and of the constructor of OCIErofsImageLayerReader,
\* on the file that is mapped.
OffsetInFile(size, offset) ==
    /\ size >= 2 * Block
    /\ offset <= size - Block

\* The ranges of the data and of the hashes.
DataRange(file, desc) == [offset |-> file.offset, size |-> desc.offset]

HashesRange(file, desc) ==
    [offset |-> file.offset + desc.offset, size |-> Wrap(file.size + Word - desc.offset)]

\* isMountable()
IsMountable ==
    /\ SupportsMountableFiles
    /\ tree.image.type = "erofs"
    /\ \E file \in GetMappableFile(tree.image.digest) : IsAligned(file)

\* createReader(). The reader checks what it reads itself: an EROFS image with
\* its hash tree (DmVerityProtectedFile), a tar or zip with the digest in the
\* descriptor (OCIImageLayerReader). No digest covers the superblock, which may
\* be anything.
CreateReader ==
    /\ phase = "open"
    /\ LET desc == tree.image
       IN  \/ /\ AnnotationsOK(desc)
              /\ \E file \in GetMappableFile(desc.digest), sb \in SuperBlocks :
                    /\ OffsetInFile(file.size, desc.offset)
                    /\ ReaderAccepts(sb, file.end, DataRange(file, desc), HashesRange(file, desc))
                    /\ answer' = [op |-> "reader", descriptor |-> desc, file |-> file, super |-> sb]
           \/ /\ desc.type # "erofs"
              /\ ReadFile(desc.digest) # None
              /\ SizeOf[ReadFile(desc.digest)] = desc.size
              /\ answer' = [op |-> "archive reader", descriptor |-> desc]
           \/ answer' = Failure
    /\ UNCHANGED <<named, files, changes, cache, index, bundle, phase, next, tree,
                   verifiedManifest, metaData, limit>>

\* mount(): the meta data first, then the image, as a range of the file. What
\* doMount() does after its checks is in DmVerityMounter.
Mount ==
    /\ phase = "open"
    /\ \/ answer' = Failure /\ UNCHANGED metaData
       \/ /\ IsMountable
          /\ LoadMetaData
          /\ LET desc == tree.image
             IN  \/ answer' = Failure
                 \/ /\ AnnotationsOK(desc)
                    /\ \E file \in GetMappableFile(desc.digest), sb \in SuperBlocks :
                          /\ IsAligned(file)
                          /\ file.size = desc.size
                          /\ OffsetInFile(file.size, desc.offset)
                          /\ MounterAccepts(sb, file.end, DataRange(file, desc), HashesRange(file, desc))
                          /\ answer' = [op |-> "mount", descriptor |-> desc, file |-> file, super |-> sb]
    /\ UNCHANGED <<named, files, changes, cache, index, bundle, phase, next, tree,
                   verifiedManifest, limit>>

\* verify() starts: only for a package opened with a bundle.
BeginVerify ==
    /\ phase = "open"
    /\ IF verifiedManifest
       THEN phase' = "verifying" /\ next' = 1 /\ answer' = [op |-> "verifying", matched |-> {}]
       ELSE answer' = Failure /\ UNCHANGED <<phase, next>>
    /\ UNCHANGED <<named, files, changes, cache, index, bundle, tree, verifiedManifest,
                   metaData, limit>>

\* Mutant: the other layers are left out.
BlobsToVerifyNoLayers == <<tree.config, tree.image>>

BlobsToVerify == <<tree.config, tree.image>> \o tree.others

\* verify() reads one blob after the other.
VerifyBlob ==
    /\ phase = "verifying" /\ next \in DOMAIN BlobsToVerify
    /\ LET desc == BlobsToVerify[next]
       IN  \/ /\ CalcAndCheckBlobDigest(desc)
              /\ next' = next + 1
              /\ answer' = [answer EXCEPT !.matched =
                               IF ReadFile(desc.digest) = desc.digest
                               THEN @ \union {desc.digest} ELSE @]
              /\ UNCHANGED phase
           \/ /\ phase' = "open"
              /\ answer' = Failure
              /\ UNCHANGED next
    /\ UNCHANGED <<named, files, changes, cache, index, bundle, tree, verifiedManifest,
                   metaData, limit>>

FinishVerify ==
    /\ phase = "verifying" /\ next > Len(BlobsToVerify)
    /\ phase' = "open"
    /\ answer' = [op |-> "verified", matched |-> answer.matched]
    /\ UNCHANGED <<named, files, changes, cache, index, bundle, next, tree,
                   verifiedManifest, metaData, limit>>

SetMaxExtractionEntries(n) ==
    /\ phase = "open" /\ limit # n
    /\ limit' = n
    /\ UNCHANGED <<named, files, changes, cache, index, bundle, phase, next, tree,
                   verifiedManifest, metaData, answer>>

\* The file of the package changes: a blob is replaced or goes missing. (What
\* happens to a package that could not be opened is of no interest.)
ChangeFile(d, c) ==
    /\ changes < MaxChanges /\ phase # "failed"
    /\ files[d] # c
    /\ files' = [files EXCEPT ![d] = c]
    /\ changes' = changes + 1
    /\ UNCHANGED <<named, cache, index, bundle, phase, next, tree, verifiedManifest,
                   metaData, limit, answer>>

(***************************************************************************)
(* The specification                                                       *)
(***************************************************************************)

Unlimited == Cardinality(Blobs) + 1

Init ==
    /\ files = [d \in Blobs |-> d]
    /\ changes = 0
    /\ cache = <<>>
    /\ store \in Stores
    /\ layout \in Layouts
    /\ indexJson \in Indexes
    /\ index = <<>>
    /\ bundle \in BOOLEAN
    /\ phase = "closed"
    /\ next = 0
    /\ tree = EmptyTree
    /\ verifiedManifest = FALSE
    /\ metaData = None
    /\ limit = Unlimited
    /\ answer = [op |-> None]

Next ==
    \/ Open \/ ProcessManifest \/ FinishTree \/ ReadAndVerifySignature
    \/ GetMetaData \/ AuxMetaDataFile \/ CreateReader \/ Mount
    \/ BeginVerify \/ VerifyBlob \/ FinishVerify
    \/ SetMaxExtractionEntries(1)
    \/ \E d \in Blobs : \E c \in Blobs \union {None} : ChangeFile(d, c)

Spec == Init /\ [][Next]_vars

(***************************************************************************)
(* Properties                                                              *)
(***************************************************************************)

\* The data manifests that the bundle vouches for, and what they name.
SignedManifests == {Meaning[s].manifest : s \in Signed}

SignedDescriptors ==
    UNION {{Meaning[m].config} \union Range(Meaning[m].layers) : m \in SignedManifests}

Descriptors ==
    UNION {{Meaning[m].config} \union Range(Meaning[m].layers) :
              m \in {b \in Blobs : Meaning[b].kind = "manifest"}}

TreeTypes ==
    [manifest : Blobs \union {None},
     config : Descriptors \union {NoDescriptor},
     image : Descriptors \union {NoDescriptor},
     signature : Descriptors \union {NoDescriptor},
     others : Seq(Descriptors)]

TypeOK ==
    /\ store \in Stores /\ layout \in Layouts /\ indexJson \in Indexes
    /\ files \in [Blobs -> Blobs \union {None}]
    /\ changes \in 0..MaxChanges
    /\ DOMAIN cache \subseteq Small /\ \A d \in DOMAIN cache : cache[d] \in Blobs
    /\ phase \in {"closed", "tree", "signature", "open", "failed", "verifying"}
    /\ next \in Nat
    /\ tree \in TreeTypes
    /\ bundle \in BOOLEAN /\ verifiedManifest \in BOOLEAN
    /\ metaData \in Blobs \union {None}
    /\ limit \in Nat

(* A package that was opened with a bundle has the digest, the config and   *)
(* the image of one data manifest that the bundle vouches for, in whatever  *)
(* order index.json lists manifests, signed or not, and whatever happens to *)
(* the file while they are read.                                            *)
TreeIsSigned ==
    phase \in {"open", "verifying"} /\ bundle =>
        /\ tree.manifest \in SignedManifests
        /\ tree.config = Meaning[tree.manifest].config
        /\ tree.image \in Range(Meaning[tree.manifest].layers)

(* metaData() "will be verified as read and the returned object will be     *)
(* signature checked": with a bundle it is the config of a signed manifest. *)
MetaDataIsSigned ==
    bundle /\ metaData # None =>
        \E m \in SignedManifests : Meaning[m].config.digest = metaData

(* The image that a reader or a mount is created for, and with it the root  *)
(* hash or digest it checks by, comes from a signed manifest.               *)
ImageIsSigned ==
    bundle /\ answer.op \in {"reader", "archive reader", "mount"} =>
        answer.descriptor \in SignedDescriptors

\* The hash blocks of a tree over n data blocks, level by level: below a block of
\* level k there are at most covered[k] data blocks.
TreeBlocks(n) ==
    LET covered[k \in 0..n] == IF k = 0 THEN 1 ELSE HashesPerBlock * covered[k - 1]
        levels == Min({k \in 0..n : covered[k] >= n})
        total[k \in 0..levels] ==
            IF k = 0 THEN 0 ELSE total[k - 1] + (n + covered[k] - 1) \div covered[k]
    IN  total[levels]

(* In an image that a reader or a mount is created for every byte of the    *)
(* data is in a data block, and the superblock and all hash blocks that the *)
(* tree needs are behind the data and inside the blob as it was found:      *)
(* although offsets, sizes and block counts come from annotations and from  *)
(* a superblock that no digest covers, and the first check of the offset,   *)
(* an unsigned subtraction, wraps for an image of less than a block. What   *)
(* the mounter accepts the reader accepts too, up to its limit of size.     *)
(* (For a number of blocks whose size in bytes is not a 64-bit number see   *)
(* the README.)                                                             *)
TreeInFile ==
    answer.op \in {"reader", "mount"} /\ answer.super.dataBlocks * Block < Word =>
        LET file == answer.file
            sb == answer.super
            offset == answer.descriptor.offset
        IN  /\ offset <= sb.dataBlocks * Block
            /\ offset + (1 + TreeBlocks(sb.dataBlocks)) * Block <= file.size
            /\ answer.op = "mount" =>
                  /\ offset = sb.dataBlocks * Block
                  /\ offset <= MaxDataSize =>
                        ReaderAccepts(sb, file.end, DataRange(file, answer.descriptor),
                                      HashesRange(file, answer.descriptor))

(* verify() succeeds only for a package opened with a bundle, and only when *)
(* every blob the package hands out, other layers included, had its digest  *)
(* when verify() read it.                                                   *)
VerifySound ==
    answer.op = "verified" =>
        /\ bundle
        /\ {tree.config.digest, tree.image.digest} \subseteq answer.matched
        /\ \A i \in DOMAIN tree.others : tree.others[i].digest \in answer.matched

DataManifestsInIndex ==
    {i \in DOMAIN index : Meaning[index[i].digest].kind = "manifest"
                          /\ IsPackageDataManifest(Meaning[index[i].digest])}

(* What auxMetaDataFile() returns from a package opened with a bundle is    *)
(* named in a signed manifest, when index.json lists one data manifest.     *)
AuxIsSignedOneManifest ==
    (bundle /\ answer.op = "aux" /\ Cardinality(DataManifestsInIndex) = 1) =>
        \E desc \in SignedDescriptors : desc.digest = answer.blob

(* Everything that a package opened with a bundle hands out goes back to a  *)
(* signed manifest (other layers only when there is one data manifest).     *)
HandedOutIsSigned == MetaDataIsSigned /\ ImageIsSigned /\ AuxIsSignedOneManifest

(* "just that sha256 digests match the values in the signed blob" (verify): *)
(* every digest that a successful verify() has checked is one of a signed   *)
(* manifest.                                                                *)
VerifiedIsSigned ==
    answer.op = "verified" =>
        answer.matched \subseteq {desc.digest : desc \in SignedDescriptors}

(* "comparing it to the expected size and digest store in the descriptor"   *)
(* (calcAndCheckBlobDigest): in a package that verify() has accepted every  *)
(* blob has the size of its descriptor.                                     *)
VerifiedSizes ==
    answer.op = "verified" =>
        \A i \in DOMAIN BlobsToVerify :
            SizeOf[BlobsToVerify[i].digest] = BlobsToVerify[i].size

(* "If the package exceeds either of these limits then the verify() and     *)
(* extractTo() methods will fail" (Package.h).                              *)
VerifyKeepsLimits ==
    [][answer'.op = "verified" => EntriesIn[tree.image.digest] <= limit]_vars

=============================================================================
