---------------------------- MODULE DmVerityVerifier ----------------------------
(***************************************************************************)
(* The user-space dm-verity verifier (lib/dm-verity/DmVerityVerifier.cpp): *)
(* a Merkle tree stored in a hashes file, checked bottom-up against a      *)
(* trusted root hash, with one cache of verified hash blocks per layer.    *)
(*                                                                         *)
(* Level 0 holds the data blocks, level 1 the hash blocks m_layer0 reads,  *)
(* level Top the single hash block of the TopMostHashTreeLayer.  Top = 0   *)
(* is the SingleDataBlockLayer: one data block and no hash block.          *)
(*                                                                         *)
(* The files may be damaged or rewritten between any two preads: a pread   *)
(* returns any content at all, or fails.                                   *)
(* verifyBlock calls the parent layer recursively: depth and frame are its *)
(* call stack, frame[l] being the activation of the layer at level l.      *)
(***************************************************************************)
EXTENDS Integers, FiniteSets

CONSTANTS
  Content,          \* the possible contents of a block, data or hashes
  NoBlock,          \* a block buffer that was not filled
  sha256Digest(_),  \* the salted SHA256 of a block
  HashesPerBlock,   \* m_hashesPerBlock, hash block size / digest size
  Top,              \* the number of hash layers
  LevelBlocks,      \* LevelBlocks[l]: the number of blocks at level l
  Tree,             \* Tree[l][i]: block i of level l of the signed image
  kMaxCacheBlocks   \* the limit of a layer's cache of hash blocks

Levels == 0 .. Top
Blocks(l) == 0 .. LevelBlocks[l] - 1
DIV_ROUND_UP(n, d) == (n + (d - 1)) \div d

\* The geometry parseDmVeritySuperBlock computes from the superblock.
ASSUME GeometryAssumption ==
  /\ Top \in Nat
  /\ HashesPerBlock \in Nat \ {0}
  /\ LevelBlocks \in [Levels -> Nat \ {0}]
  /\ LevelBlocks[Top] = 1
  /\ \A l \in 0 .. Top - 1 :
       LevelBlocks[l + 1] = DIV_ROUND_UP(LevelBlocks[l], HashesPerBlock)

\* The image was built by veritysetup: a hash block holds, slot by slot, the
\* digests of the blocks of the level below.
ASSUME TreeAssumption ==
  /\ \A l \in Levels : \A i \in Blocks(l) : Tree[l][i] \in Content
  /\ \A l \in 0 .. Top - 1 : \A i \in Blocks(l) :
       Tree[l + 1][i \div HashesPerBlock][i % HashesPerBlock] = sha256Digest(Tree[l][i])

\* SHA256 is collision free on the contents that occur.
ASSUME DigestAssumption ==
  \A b, c \in Content : sha256Digest(b) = sha256Digest(c) => b = c

ASSUME CacheAssumption ==
  /\ NoBlock \notin Content
  /\ kMaxCacheBlocks \in Nat \ {0}

\* The trusted root hash, taken from the signed package manifest.
m_rootHash == sha256Digest(Tree[Top][0])
m_dataBlockCount == LevelBlocks[0]

VARIABLES
  m_layer0,             \* open() built the layers
  m_hashBlock,          \* the topmost layer's verified hash block
  m_verifiedHashBlocks, \* [level -> [index -> block]], the layers' caches
  depth,                \* number of verifyBlock activations in progress
  frame,                \* their locals: block, digest, and hashBlockData once read
  answer,               \* what the last activation that ended returned
  sawFault              \* history: a pread of the current call failed or did
                        \* not return the image's block

verifierVars == <<m_layer0, m_hashBlock, m_verifiedHashBlocks, depth, frame, answer>>

NoFrame == [block |-> 0, digest |-> sha256Digest(Tree[0][0]), read |-> NoBlock]
EmptyCaches == [l \in 1 .. Top |-> [i \in {} |-> NoBlock]]
LayerRange == 1 .. Top + 1

------------------------------------------------------------------------------
(* open and parseDmVeritySuperBlock: the topmost hash block is read once *)
(* and kept when its digest is the root hash.                            *)

Open ==
  /\ ~m_layer0
  /\ m_layer0' = TRUE
  /\ IF Top = 0
     THEN UNCHANGED m_hashBlock
     ELSE \E hashBlockData \in Content :
            /\ sha256Digest(hashBlockData) = m_rootHash
            /\ m_hashBlock' = hashBlockData
  /\ m_verifiedHashBlocks' = EmptyCaches
  /\ UNCHANGED <<depth, frame, answer>>

\* The destructor: layers, caches and the file descriptor go.
Destroy ==
  /\ depth = 0
  /\ m_layer0
  /\ m_layer0' = FALSE
  /\ m_hashBlock' = NoBlock
  /\ m_verifiedHashBlocks' = EmptyCaches
  /\ UNCHANGED <<depth, frame>>

------------------------------------------------------------------------------
(* verify(block, data) and the layers' verifyBlock. *)

\* The innermost activation returns.
Return(value) ==
  /\ depth' = depth - 1
  /\ frame' = [frame EXCEPT ![depth] = NoFrame]
  /\ answer' = IF value THEN "valid" ELSE "invalid"

\* DmVerityVerifier::verify: without layers, or past the data, it is false.
Verify(block, data) ==
  /\ depth = 0
  /\ IF m_layer0 /\ block < m_dataBlockCount
     THEN /\ depth' = 1
          /\ frame' = [frame EXCEPT ![1] = [block  |-> block,
                                            digest |-> sha256Digest(data),
                                            read   |-> NoBlock]]
          /\ answer' = "none"
     ELSE /\ answer' = "invalid"
          /\ UNCHANGED <<depth, frame>>
  /\ UNCHANGED <<m_layer0, m_hashBlock, m_verifiedHashBlocks>>

Cur == frame[depth]
HashBlockIndex == Cur.block \div HashesPerBlock
Slot == Cur.block % HashesPerBlock
InHashTreeLayer == depth > 0 /\ depth < Top /\ Cur.read = NoBlock
HasHashesFor == Cur.block < LevelBlocks[depth - 1]
Cached == HashBlockIndex \in DOMAIN m_verifiedHashBlocks[depth]

\* SingleDataBlockLayer::verifyBlock.
VerifySingleDataBlock ==
  /\ Top = 0 /\ depth = 1
  /\ Return(Cur.block = 0 /\ Cur.digest = m_rootHash)
  /\ UNCHANGED <<m_layer0, m_hashBlock, m_verifiedHashBlocks>>

\* TopMostHashTreeLayer::verifyBlock.
VerifyTopMost ==
  /\ Top > 0 /\ depth = Top
  /\ Return(HasHashesFor /\ m_hashBlock[Slot] = Cur.digest)
  /\ UNCHANGED <<m_layer0, m_hashBlock, m_verifiedHashBlocks>>

\* HashTreeLayer::verifyBlock, a block the layer has no hash for, or whose
\* hash block is in the cache: answered without a pread.
VerifyCached ==
  /\ InHashTreeLayer
  /\ HasHashesFor => Cached
  /\ Return(HasHashesFor /\ m_verifiedHashBlocks[depth][HashBlockIndex][Slot] = Cur.digest)
  /\ UNCHANGED <<m_layer0, m_hashBlock, m_verifiedHashBlocks>>

\* ... it is not: read it, and ask the parent layer about it.
ReadHashBlock ==
  /\ InHashTreeLayer /\ HasHashesFor /\ ~Cached
  /\ \E hashBlockData \in Content :
       /\ frame' = [frame EXCEPT
                      ![depth].read = hashBlockData,
                      ![depth + 1] = [block  |-> HashBlockIndex,
                                      digest |-> sha256Digest(hashBlockData),
                                      read   |-> NoBlock]]
       /\ sawFault' = (sawFault \/ hashBlockData # Tree[depth][HashBlockIndex])
  /\ depth' = depth + 1
  /\ answer' = "none"
  /\ UNCHANGED <<m_layer0, m_hashBlock, m_verifiedHashBlocks>>

\* ... and the pread fails or is short.
ReadHashBlockFails ==
  /\ InHashTreeLayer /\ HasHashesFor /\ ~Cached
  /\ Return(FALSE)
  /\ sawFault' = TRUE
  /\ UNCHANGED <<m_layer0, m_hashBlock, m_verifiedHashBlocks>>

\* The cache makes room by dropping the block with the smallest index.
EvictSmallest(cache) ==
  LET begin == CHOOSE i \in DOMAIN cache : \A j \in DOMAIN cache : i <= j
  IN  IF Cardinality(DOMAIN cache) >= kMaxCacheBlocks
      THEN [i \in DOMAIN cache \ {begin} |-> cache[i]]
      ELSE cache

Emplace(cache, index, block) ==
  [i \in DOMAIN cache \cup {index} |-> IF i = index THEN block ELSE cache[i]]

\* Mutants: the parent's verdict is ignored; a rejected hash block is cached.
IgnoreParent ==
  /\ depth > 0 /\ depth < Top /\ Cur.read # NoBlock /\ answer # "none"
  /\ Return(Cur.read[Slot] = Cur.digest)
  /\ UNCHANGED <<m_layer0, m_hashBlock, m_verifiedHashBlocks>>
CacheBeforeAnswer ==
  /\ depth > 0 /\ depth < Top /\ Cur.read # NoBlock /\ answer # "none"
  /\ m_verifiedHashBlocks' =
       [m_verifiedHashBlocks EXCEPT
          ![depth] = Emplace(EvictSmallest(@), HashBlockIndex, Cur.read)]
  /\ Return(answer = "valid" /\ Cur.read[Slot] = Cur.digest)
  /\ UNCHANGED <<m_layer0, m_hashBlock>>

\* The parent layer answered about the hash block that was read.
ParentAnswered ==
  /\ depth > 0 /\ depth < Top /\ Cur.read # NoBlock /\ answer # "none"
  /\ \/ /\ answer = "invalid"
        /\ Return(FALSE)
        /\ UNCHANGED m_verifiedHashBlocks
     \/ /\ answer = "valid"
        /\ m_verifiedHashBlocks' =
             [m_verifiedHashBlocks EXCEPT
                ![depth] = Emplace(EvictSmallest(@), HashBlockIndex, Cur.read)]
        /\ Return(Cur.read[Slot] = Cur.digest)
  /\ UNCHANGED <<m_layer0, m_hashBlock>>

\* The steps of a verification in progress.
VerifyStep ==
  \/ /\ \/ VerifySingleDataBlock
        \/ VerifyTopMost
        \/ VerifyCached
        \/ ParentAnswered
     /\ UNCHANGED sawFault
  \/ ReadHashBlock
  \/ ReadHashBlockFails

VerifierInit ==
  /\ m_layer0 = FALSE
  /\ m_hashBlock = NoBlock
  /\ m_verifiedHashBlocks = EmptyCaches
  /\ depth = 0
  /\ frame = [l \in LayerRange |-> NoFrame]
  /\ answer = "none"
  /\ sawFault = FALSE

VerifierTypeOK ==
  /\ m_layer0 \in BOOLEAN
  /\ m_hashBlock \in Content \cup {NoBlock}
  /\ DOMAIN m_verifiedHashBlocks = 1 .. Top
  /\ \A l \in 1 .. Top : /\ DOMAIN m_verifiedHashBlocks[l] \subseteq Blocks(l)
                         /\ \A i \in DOMAIN m_verifiedHashBlocks[l] :
                              m_verifiedHashBlocks[l][i] \in Content
  /\ depth \in 0 .. Top + 1
  /\ frame \in [LayerRange -> [block : Nat, digest : {sha256Digest(c) : c \in Content},
                              read : Content \cup {NoBlock}]]
  /\ answer \in {"none", "valid", "invalid"}
  /\ sawFault \in BOOLEAN
=============================================================================
