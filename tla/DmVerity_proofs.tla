---------------------------- MODULE DmVerity_proofs ----------------------------
(***************************************************************************)
(* Proofs about DmVerityProtectedFile and the DmVerityVerifier under it,   *)
(* for every tree, cache size and block size.                              *)
(***************************************************************************)
EXTENDS DmVerityProtectedFile, TLAPS

\* What the verifier keeps is the image's.
CachesInv ==
  /\ m_layer0 /\ Top > 0 => m_hashBlock = Tree[Top][0]
  /\ \A l \in 1 .. Top : \A i \in DOMAIN m_verifiedHashBlocks[l] :
       m_verifiedHashBlocks[l][i] = Tree[l][i]

\* The call stack of verifyBlock: each activation asks its parent about the hash
\* block it has read, and a "valid" answer means that block is the image's.
StackInv ==
  /\ depth <= (IF Top = 0 THEN 1 ELSE Top)
  /\ depth > 0 => m_layer0
  /\ \A l \in 1 .. depth : frame[l].block \in Blocks(l - 1)
  /\ \A l \in 1 .. depth - 1 :
       /\ frame[l].read \in Content
       /\ frame[l + 1].block = frame[l].block \div HashesPerBlock
       /\ frame[l + 1].digest = sha256Digest(frame[l].read)
  /\ depth > 0 /\ Cur.read = NoBlock => answer = "none"
  /\ depth > 0 /\ Cur.read # NoBlock => depth < Top /\ answer # "none"
  /\ depth > 0 /\ Cur.read # NoBlock /\ answer = "valid" =>
       Cur.read = Tree[depth][HashBlockIndex]

\* While every pread of the call returned the image's block, nothing is rejected.
CleanInv ==
  ~sawFault =>
    /\ answer # "invalid"
    /\ \A l \in 1 .. depth :
         /\ frame[l].digest = sha256Digest(Tree[l - 1][frame[l].block])
         /\ frame[l].read # NoBlock =>
              frame[l].read = Tree[l][frame[l].block \div HashesPerBlock]

VerifierInv == VerifierTypeOK /\ CachesInv /\ StackInv /\ CleanInv

\* data is what the pread of the current block returned.
Pending(data) ==
  IF Straight THEN \A k \in 0 .. BlockSize - 1 : out[outPos + k] = data[k]
  ELSE data = m_blockBuffer

\* read() and the verification it waits for.
CallInv ==
  /\ m_layer0 <=> m_fileSize > 0
  /\ pc # "idle" => m_fileSize > 0
  /\ pc # "verify" => depth = 0 /\ answer = "none"
  /\ pc = "verify" =>
       /\ MoreBlocks
       /\ depth = 0 => answer # "none"
       /\ depth = 0 /\ answer = "valid" => Pending(Tree[0][blkNumber])
       /\ depth > 0 =>
            /\ frame[1].block = blkNumber
            /\ \E data \in Content : frame[1].digest = sha256Digest(data) /\ Pending(data)

\* The position of the read and the bytes delivered so far.
ProgressInv ==
  /\ pc \in {"loop", "verify"} =>
       /\ InBounds
       /\ size <= req.size
       /\ size > 0 \/ blkOffset # 0 => blkNumber * BlockSize + blkOffset = req.offset + outPos
  /\ pc = "returned" /\ result => InBounds /\ size = 0
  /\ pc \in {"loop", "verify"} \/ (pc = "returned" /\ result) =>
       \A k \in 0 .. outPos - 1 : out[k] = ImageByte(req.offset + k)
  /\ pc = "returned" /\ ~result /\ InBounds => sawFault

\* The block buffer holds the block its number says, except while it is filled.
BufferInv ==
  (pc # "verify" \/ Straight) /\ m_blockBufferNumber # NoNumber =>
    m_blockBuffer = Tree[0][m_blockBufferNumber]

IInv == TypeOK /\ VerifierInv /\ CallInv /\ ProgressInv /\ BufferInv

------------------------------------------------------------------------------
(* Arithmetic of blocks. *)

\* Quotient and remainder, as the hash index and the byte offset use them.
LEMMA DivMod ==
  ASSUME NEW d \in Nat \ {0}, NEW p \in Nat
  PROVE  /\ p \div d \in Nat
         /\ p % d \in 0 .. d - 1
         /\ p = (p \div d) * d + (p % d)
  BY Z3

\* Multiplication by a block size keeps the order.
LEMMA MultLess ==
  ASSUME NEW d \in Nat \ {0}, NEW n \in Nat, NEW m \in Nat, n * d < m * d
  PROVE  n < m
  BY SMT

LEMMA MultLeq ==
  ASSUME NEW d \in Nat \ {0}, NEW n \in Nat, NEW m \in Nat, n <= m
  PROVE  n * d <= m * d
  BY SMT

\* A byte address splits into its block number and its offset in one way only.
LEMMA DivModUnique ==
  ASSUME NEW d \in Nat \ {0}, NEW n \in Nat, NEW r \in 0 .. d - 1
  PROVE  (n * d + r) \div d = n /\ (n * d + r) % d = r
  <1> DEFINE p == n * d + r
             q == p \div d
  <1>1. p \in Nat
    BY SMT
  <1>2. q \in Nat /\ p % d \in 0 .. d - 1 /\ p = q * d + (p % d)
    BY <1>1, DivMod
  <1> HIDE DEF p, q
  <1>3. p < (n + 1) * d /\ n * d <= p
    BY DEF p
  <1>4. ~(q >= n + 1)
    <2> SUFFICES ASSUME q >= n + 1 PROVE FALSE
      OBVIOUS
    <2>1. (n + 1) * d <= q * d
      BY <1>2, MultLeq
    <2> QED
      BY <2>1, <1>1, <1>2, <1>3
  <1>5. ~(q + 1 <= n)
    <2> SUFFICES ASSUME q + 1 <= n PROVE FALSE
      OBVIOUS
    <2>1. (q + 1) * d <= n * d
      BY <1>2, MultLeq
    <2> QED
      BY <2>1, <1>1, <1>2, <1>3
  <1>6. q = n
    BY <1>2, <1>4, <1>5
  <1> QED
    BY <1>2, <1>6 DEF p, q

\* The hash block of a block exists: parents have room for all their children.
LEMMA ParentExists ==
  ASSUME NEW l \in 0 .. Top - 1, NEW i \in Blocks(l)
  PROVE  i \div HashesPerBlock \in Blocks(l + 1)
  <1> DEFINE H == HashesPerBlock
             n == LevelBlocks[l]
             m == LevelBlocks[l + 1]
             q == i \div H
  <1>1. H \in Nat \ {0} /\ n \in Nat \ {0} /\ m = (n + (H - 1)) \div H /\ i \in Nat /\ i < n
    BY GeometryAssumption DEF Levels, Blocks, DIV_ROUND_UP
  <1>2. m \in Nat
    BY GeometryAssumption DEF Levels
  <1>3. q \in Nat /\ i % H \in 0 .. H - 1 /\ i = q * H + (i % H)
    BY <1>1, DivMod
  <1> HIDE DEF H, n, m, q
  <1> DEFINE s == n + (H - 1)
  <1>0. s \in Nat
    BY <1>1
  <1>4. s = m * H + (s % H) /\ s % H \in 0 .. H - 1
    BY <1>0, <1>1, DivMod
  <1>5. q * H < m * H
    BY <1>1, <1>2, <1>3, <1>4
  <1>6. q < m
    BY <1>1, <1>2, <1>3, <1>5, MultLess
  <1> QED
    BY <1>2, <1>3, <1>6 DEF Blocks, q, m, H

------------------------------------------------------------------------------
(* The verifier. *)

\* The caches hold blocks of the right kind.
CacheTypeOK ==
  /\ DOMAIN m_verifiedHashBlocks = 1 .. Top
  /\ \A l \in 1 .. Top : /\ DOMAIN m_verifiedHashBlocks[l] \subseteq Blocks(l)
                         /\ \A i \in DOMAIN m_verifiedHashBlocks[l] :
                              m_verifiedHashBlocks[l][i] \in Content

\* A stack frame is well typed.
LEMMA NoFrameType ==
  NoFrame \in [block : Nat, digest : {sha256Digest(c) : c \in Content},
               read : Content \cup {NoBlock}]
  BY GeometryAssumption, TreeAssumption DEF NoFrame, Levels, Blocks

\* What a step means for the caller of verify(): the question stays, and an
\* answer "valid" is true of the block it asked about.
StepAnswers ==
  /\ depth > 0
  /\ depth' > 0 => /\ frame'[1].block = frame[1].block
                   /\ frame'[1].digest = frame[1].digest
  /\ depth' = 0 => /\ answer' # "none"
                   /\ answer' = "valid" => frame[1].digest = sha256Digest(Tree[0][frame[1].block])

\* An activation of verifyBlock that returns keeps the invariant, if it says true
\* only of the image's block, and false only after a fault.
LEMMA ReturnKeepsInv ==
  ASSUME VerifierInv, depth > 0, NEW value \in BOOLEAN, Return(value),
         UNCHANGED <<m_layer0, m_hashBlock>>, CacheTypeOK', CachesInv',
         sawFault' \in BOOLEAN, sawFault => sawFault', ~sawFault' => value,
         value => Cur.digest = sha256Digest(Tree[depth - 1][Cur.block])
  PROVE  VerifierInv' /\ StepAnswers
  <1> USE DEF Cur, HashBlockIndex
  <1>0. Top \in Nat /\ depth \in 1 .. Top + 1
    BY GeometryAssumption DEF VerifierInv, VerifierTypeOK
  <1>1. VerifierTypeOK'
    <2>1. depth' \in 0 .. Top + 1 /\ answer' \in {"none", "valid", "invalid"}
      BY <1>0 DEF Return
    <2>2. frame' \in [LayerRange -> [block : Nat, digest : {sha256Digest(c) : c \in Content},
                                    read : Content \cup {NoBlock}]]
      BY NoFrameType DEF VerifierInv, VerifierTypeOK, Return
    <2> QED
      BY <2>1, <2>2 DEF VerifierInv, VerifierTypeOK, CacheTypeOK
  <1>2. \A l \in 1 .. depth' : frame'[l] = frame[l]
    BY DEF VerifierInv, VerifierTypeOK, Return, LayerRange
  <1>3. answer' # "none" /\ (answer' = "valid" <=> value) /\ depth' = depth - 1
    BY DEF Return
  <1>4. depth' > 0 => /\ frame[depth - 1].read \in Content
                      /\ frame[depth].block = frame[depth - 1].block \div HashesPerBlock
                      /\ frame[depth].digest = sha256Digest(frame[depth - 1].read)
                      /\ depth' < Top
    <2> SUFFICES ASSUME depth' > 0
                 PROVE  /\ frame[depth - 1].read \in Content
                        /\ frame[depth].block = frame[depth - 1].block \div HashesPerBlock
                        /\ frame[depth].digest = sha256Digest(frame[depth - 1].read)
                        /\ depth' < Top
      OBVIOUS
    <2>1. depth - 1 \in 1 .. depth - 1 /\ (depth - 1) + 1 = depth
      BY <1>0, <1>3
    <2>2. depth' < Top
      BY <1>0, <1>3 DEF VerifierInv, StackInv
    <2> QED
      BY <2>1, <2>2 DEF VerifierInv, StackInv
  <1>5. depth' > 0 /\ value =>
          frame[depth - 1].read = Tree[depth - 1][frame[depth - 1].block \div HashesPerBlock]
    <2> SUFFICES ASSUME depth' > 0, value
                 PROVE  frame[depth - 1].read
                          = Tree[depth - 1][frame[depth - 1].block \div HashesPerBlock]
      OBVIOUS
    <2>1. Tree[depth - 1][frame[depth].block] \in Content
      BY SMTT(20), <1>3, GeometryAssumption, TreeAssumption
      DEF VerifierInv, VerifierTypeOK, StackInv, Levels
    <2>2. sha256Digest(frame[depth - 1].read) = sha256Digest(Tree[depth - 1][frame[depth].block])
      BY <1>4
    <2> QED
      BY <1>4, <2>1, <2>2, DigestAssumption
  <1>6. StackInv'
    <2>1. depth' <= (IF Top = 0 THEN 1 ELSE Top)
      BY <1>0, <1>3 DEF VerifierInv, StackInv
    <2>1a. m_layer0'
      BY DEF VerifierInv, StackInv
    <2>2. \A l \in 1 .. depth' : frame'[l].block \in Blocks(l - 1)
      BY <1>2, <1>3 DEF VerifierInv, VerifierTypeOK, StackInv
    <2>3. \A l \in 1 .. depth' - 1 :
            /\ frame'[l].read \in Content
            /\ frame'[l + 1].block = frame'[l].block \div HashesPerBlock
            /\ frame'[l + 1].digest = sha256Digest(frame'[l].read)
      BY SMTT(20), <1>2, <1>3 DEF VerifierInv, VerifierTypeOK, StackInv
    <2>4. depth' > 0 => Cur'.read # NoBlock /\ depth' < Top
      BY <1>2, <1>3, <1>4, CacheAssumption DEF VerifierInv, VerifierTypeOK
    <2>5. depth' > 0 /\ answer' = "valid" => Cur'.read = Tree[depth'][HashBlockIndex']
      BY <1>2, <1>3, <1>5 DEF VerifierInv, VerifierTypeOK
    <2> QED
      BY <1>3, <2>1, <2>1a, <2>2, <2>3, <2>4, <2>5 DEF StackInv
  <1>7. CleanInv'
    BY <1>2, <1>3 DEF VerifierInv, VerifierTypeOK, CleanInv, Return
  <1>8. StepAnswers
    <2>1. depth' > 0 => frame'[1] = frame[1]
      BY <1>0, <1>2, <1>3
    <2>2. depth' = 0 /\ value => frame[1].digest = sha256Digest(Tree[0][frame[1].block])
      BY <1>0, <1>3
    <2> QED
      BY <1>0, <1>3, <2>1, <2>2 DEF StepAnswers
  <1> QED
    BY <1>1, <1>6, <1>7, <1>8 DEF VerifierInv

\* The digest in a parent's slot is the digest of the image's block.
LEMMA SlotDigest ==
  ASSUME NEW l \in 1 .. Top, NEW i \in Blocks(l - 1)
  PROVE  /\ i \div HashesPerBlock \in Blocks(l)
         /\ Tree[l][i \div HashesPerBlock][i % HashesPerBlock] = sha256Digest(Tree[l - 1][i])
  <1>1. l - 1 \in 0 .. Top - 1 /\ (l - 1) + 1 = l
    BY GeometryAssumption
  <1> QED
    BY <1>1, ParentExists, TreeAssumption

\* A HashTreeLayer that has the image's hash block compares the right digest.
LEMMA CompareSlot ==
  ASSUME VerifierInv, depth > 0, depth <= Top, Top > 0
  PROVE  /\ depth \in 1 .. Top
         /\ Cur.block \in Blocks(depth - 1)
         /\ HashBlockIndex \in Blocks(depth)
         /\ HasHashesFor
         /\ Tree[depth][HashBlockIndex][Slot] = sha256Digest(Tree[depth - 1][Cur.block])
         /\ ~sawFault => Cur.digest = sha256Digest(Tree[depth - 1][Cur.block])
  <1>1. depth \in 1 .. Top
    BY GeometryAssumption DEF VerifierInv, VerifierTypeOK
  <1>2. Cur.block \in Blocks(depth - 1)
    BY <1>1 DEF VerifierInv, StackInv, Cur
  <1>3. HasHashesFor
    BY <1>1, <1>2, GeometryAssumption DEF HasHashesFor, Blocks, Levels
  <1>4. ~sawFault => Cur.digest = sha256Digest(Tree[depth - 1][Cur.block])
    BY <1>1 DEF VerifierInv, CleanInv, Cur
  <1> QED
    BY <1>1, <1>2, <1>3, <1>4, SlotDigest DEF HashBlockIndex, Slot

\* What UNCHANGED caches keep.
LEMMA SameCaches ==
  ASSUME VerifierInv, UNCHANGED <<m_layer0, m_hashBlock, m_verifiedHashBlocks>>
  PROVE  CacheTypeOK' /\ CachesInv'
  BY DEF VerifierInv, VerifierTypeOK, CacheTypeOK, CachesInv

\* Making room in a cache only forgets blocks.
LEMMA EvictShrinks ==
  ASSUME NEW cache
  PROVE  /\ DOMAIN EvictSmallest(cache) \subseteq DOMAIN cache
         /\ \A i \in DOMAIN EvictSmallest(cache) : EvictSmallest(cache)[i] = cache[i]
  BY DEF EvictSmallest

\* Adding the image's hash block to a layer's cache keeps the caches right.
LEMMA EmplaceKeepsCaches ==
  ASSUME VerifierInv, NEW l \in 1 .. Top, NEW i \in Blocks(l), NEW block \in Content,
         block = Tree[l][i], UNCHANGED <<m_layer0, m_hashBlock>>,
         m_verifiedHashBlocks' =
           [m_verifiedHashBlocks EXCEPT ![l] = Emplace(EvictSmallest(@), i, block)]
  PROVE  CacheTypeOK' /\ CachesInv'
  <1> DEFINE cache == m_verifiedHashBlocks[l]
             new == Emplace(EvictSmallest(cache), i, block)
  <1>1. /\ DOMAIN new = DOMAIN EvictSmallest(cache) \cup {i}
        /\ \A j \in DOMAIN new : new[j] = IF j = i THEN block ELSE EvictSmallest(cache)[j]
    BY DEF Emplace
  <1>2. DOMAIN cache \subseteq Blocks(l) /\ \A j \in DOMAIN cache : cache[j] = Tree[l][j]
    BY DEF VerifierInv, VerifierTypeOK, CachesInv
  <1>3. \A j \in DOMAIN cache : cache[j] \in Content
    BY DEF VerifierInv, VerifierTypeOK
  <1>4. /\ DOMAIN new \subseteq Blocks(l)
        /\ \A j \in DOMAIN new : new[j] = Tree[l][j] /\ new[j] \in Content
    <2> HIDE DEF cache, new
    <2> QED
      BY <1>1, <1>2, <1>3, EvictShrinks
  <1> HIDE DEF new
  <1>5. /\ DOMAIN m_verifiedHashBlocks' = 1 .. Top
        /\ m_verifiedHashBlocks'[l] = new
        /\ \A m \in 1 .. Top : m # l => m_verifiedHashBlocks'[m] = m_verifiedHashBlocks[m]
    BY DEF VerifierInv, VerifierTypeOK, new
  <1>6. CacheTypeOK'
    BY <1>4, <1>5 DEF CacheTypeOK, VerifierInv, VerifierTypeOK
  <1>7. CachesInv'
    BY <1>4, <1>5 DEF CachesInv, VerifierInv
  <1> QED
    BY <1>6, <1>7

\* Every step of a verification keeps the verifier's invariant.
LEMMA VerifyStepKeepsInv ==
  ASSUME VerifierInv, VerifyStep
  PROVE  VerifierInv' /\ StepAnswers /\ (sawFault => sawFault')
  <1> DEFINE Right == Cur.digest = sha256Digest(Tree[depth - 1][Cur.block])
  <1>0. Top \in Nat /\ depth \in 0 .. Top + 1 /\ sawFault \in BOOLEAN
    BY GeometryAssumption DEF VerifierInv, VerifierTypeOK
  <1>1. CASE VerifySingleDataBlock /\ UNCHANGED sawFault
    <2> DEFINE value == Cur.block = 0 /\ Cur.digest = m_rootHash
    <2>1. depth = 1 /\ Top = 0 /\ Return(value) /\ UNCHANGED <<m_layer0, m_hashBlock>>
      BY <1>1 DEF VerifySingleDataBlock
    <2>2. Cur.block \in Blocks(0) /\ LevelBlocks[0] = 1
      BY <2>1, GeometryAssumption DEF VerifierInv, StackInv, Cur
    <2>3. Cur.block = 0
      BY <2>2 DEF Blocks
    <2>4. value => Right
      BY <2>1, <2>3 DEF m_rootHash
    <2>5. ~sawFault => Right
      BY <2>1 DEF VerifierInv, CleanInv, Cur
    <2>6. ~sawFault' => value
      BY <1>1, <2>1, <2>3, <2>5 DEF m_rootHash
    <2>7. CacheTypeOK' /\ CachesInv'
      BY <1>1, SameCaches DEF VerifySingleDataBlock
    <2>8. depth > 0 /\ value \in BOOLEAN
      BY <2>1
    <2> HIDE DEF value
    <2> QED
      BY <1>0, <1>1, <2>1, <2>4, <2>6, <2>7, <2>8, ReturnKeepsInv
  <1>2. CASE VerifyTopMost /\ UNCHANGED sawFault
    <2> DEFINE value == HasHashesFor /\ m_hashBlock[Slot] = Cur.digest
    <2>1. depth = Top /\ Top > 0 /\ Return(value) /\ UNCHANGED <<m_layer0, m_hashBlock>>
      BY <1>2 DEF VerifyTopMost
    <2>2. m_hashBlock = Tree[Top][0]
      BY <2>1 DEF VerifierInv, StackInv, CachesInv
    <2>3. HashBlockIndex = 0
      BY <2>1, CompareSlot, GeometryAssumption DEF Blocks
    <2>4. m_hashBlock[Slot] = sha256Digest(Tree[depth - 1][Cur.block]) /\ HasHashesFor
      BY <1>0, <2>1, <2>2, <2>3, CompareSlot
    <2>5. (value => Right) /\ (~sawFault' => value)
      BY <1>0, <1>2, <2>1, <2>4, CompareSlot
    <2>6. CacheTypeOK' /\ CachesInv'
      BY <1>2, SameCaches DEF VerifyTopMost
    <2> QED
      BY <1>0, <1>2, <2>1, <2>5, <2>6, ReturnKeepsInv
  <1>3. CASE VerifyCached /\ UNCHANGED sawFault
    <2> DEFINE value == HasHashesFor /\ m_verifiedHashBlocks[depth][HashBlockIndex][Slot] = Cur.digest
    <2>1. depth > 0 /\ depth < Top /\ Return(value) /\ UNCHANGED <<m_layer0, m_hashBlock>>
      BY <1>3 DEF VerifyCached, InHashTreeLayer
    <2>2. HasHashesFor /\ depth \in 1 .. Top
      BY <1>0, <2>1, CompareSlot
    <2>3. m_verifiedHashBlocks[depth][HashBlockIndex] = Tree[depth][HashBlockIndex]
      BY <1>3, <2>2 DEF VerifyCached, Cached, VerifierInv, CachesInv
    <2>4. (value => Right) /\ (~sawFault' => value)
      BY <1>0, <1>3, <2>1, <2>2, <2>3, CompareSlot
    <2>5. CacheTypeOK' /\ CachesInv'
      BY <1>3, SameCaches DEF VerifyCached
    <2> QED
      BY <1>0, <1>3, <2>1, <2>4, <2>5, ReturnKeepsInv
  <1>4. CASE ParentAnswered /\ UNCHANGED sawFault
    <2>1. /\ depth > 0 /\ depth < Top /\ Cur.read # NoBlock
          /\ UNCHANGED <<m_layer0, m_hashBlock>>
      BY <1>4 DEF ParentAnswered
    <2>2. CASE answer = "invalid"
      <3>1. Return(FALSE) /\ UNCHANGED m_verifiedHashBlocks
        BY <1>4, <2>2 DEF ParentAnswered
      <3>2. sawFault'
        BY <1>4, <2>2 DEF VerifierInv, CleanInv
      <3>3. CacheTypeOK' /\ CachesInv'
        BY <2>1, <3>1, SameCaches
      <3> QED
        BY <1>0, <1>4, <2>1, <3>1, <3>2, <3>3, ReturnKeepsInv
    <2>3. CASE answer = "valid"
      <3> DEFINE value == Cur.read[Slot] = Cur.digest
      <3>1. /\ Return(value)
            /\ m_verifiedHashBlocks' =
                 [m_verifiedHashBlocks EXCEPT
                    ![depth] = Emplace(EvictSmallest(@), HashBlockIndex, Cur.read)]
        BY <1>4, <2>3 DEF ParentAnswered
      <3>2. Cur.read = Tree[depth][HashBlockIndex]
        BY <2>1, <2>3 DEF VerifierInv, StackInv
      <3>3. depth \in 1 .. Top /\ HashBlockIndex \in Blocks(depth) /\ Cur.read \in Content
        BY <1>0, <2>1, <3>2, CompareSlot, TreeAssumption DEF Levels
      <3>4. CacheTypeOK' /\ CachesInv'
        BY <2>1, <3>1, <3>2, <3>3, EmplaceKeepsCaches
      <3>5. (value => Right) /\ (~sawFault' => value)
        BY <1>0, <1>4, <2>1, <3>2, CompareSlot
      <3> QED
        BY <1>0, <1>4, <2>1, <3>1, <3>4, <3>5, ReturnKeepsInv
    <2> QED
      BY <1>4, <2>2, <2>3 DEF ParentAnswered
  <1>5. CASE ReadHashBlockFails
    <2>1. /\ depth > 0 /\ Return(FALSE) /\ sawFault'
          /\ UNCHANGED <<m_layer0, m_hashBlock, m_verifiedHashBlocks>>
      BY <1>5 DEF ReadHashBlockFails, InHashTreeLayer
    <2>2. CacheTypeOK' /\ CachesInv'
      BY <2>1, SameCaches
    <2>3. sawFault' \in BOOLEAN
      BY <1>5 DEF ReadHashBlockFails
    <2> QED
      BY <1>0, <2>1, <2>2, <2>3, ReturnKeepsInv
  <1>6. CASE ReadHashBlock
    <2>1. /\ depth > 0 /\ depth < Top /\ Cur.read = NoBlock
          /\ depth' = depth + 1 /\ answer' = "none"
          /\ UNCHANGED <<m_layer0, m_hashBlock, m_verifiedHashBlocks>>
      BY <1>6 DEF ReadHashBlock, InHashTreeLayer
    <2>2. PICK data \in Content :
            /\ frame' = [frame EXCEPT
                           ![depth].read = data,
                           ![depth + 1] = [block  |-> HashBlockIndex,
                                           digest |-> sha256Digest(data),
                                           read   |-> NoBlock]]
            /\ sawFault' = (sawFault \/ data # Tree[depth][HashBlockIndex])
      BY <1>6 DEF ReadHashBlock
    <2>3. /\ depth \in 1 .. Top /\ Cur.block \in Blocks(depth - 1)
          /\ HashBlockIndex \in Blocks(depth)
          /\ (~sawFault => Cur.digest = sha256Digest(Tree[depth - 1][Cur.block]))
      BY <1>0, <2>1, CompareSlot
    <2>4. HashBlockIndex \in Nat
      BY <2>3, GeometryAssumption DEF Blocks, Levels
    <2>5. frame \in [LayerRange -> [block : Nat, digest : {sha256Digest(c) : c \in Content},
                                   read : Content \cup {NoBlock}]]
      BY DEF VerifierInv, VerifierTypeOK
    <2>6. depth \in LayerRange /\ depth + 1 \in LayerRange /\ depth # depth + 1
      BY <1>0, <2>1 DEF LayerRange
    <2>7. /\ frame'[depth + 1] = [block |-> HashBlockIndex, digest |-> sha256Digest(data),
                                  read |-> NoBlock]
          /\ frame'[depth] = [Cur EXCEPT !.read = data]
          /\ \A l \in LayerRange : l # depth /\ l # depth + 1 => frame'[l] = frame[l]
      BY <2>2, <2>5, <2>6 DEF Cur
    <2>7a. /\ frame'[depth + 1].block = HashBlockIndex
           /\ frame'[depth + 1].digest = sha256Digest(data)
           /\ frame'[depth + 1].read = NoBlock
      BY <2>7
    <2>8. /\ frame'[depth].block = Cur.block /\ frame'[depth].digest = Cur.digest
          /\ frame'[depth].read = data
      BY <2>5, <2>6, <2>7 DEF Cur
    <2>9. \A l \in 1 .. depth : frame'[l].block = frame[l].block /\ frame'[l].digest = frame[l].digest
      <3> SUFFICES ASSUME NEW l \in 1 .. depth
                   PROVE  frame'[l].block = frame[l].block /\ frame'[l].digest = frame[l].digest
        OBVIOUS
      <3>1. l = depth \/ (l \in LayerRange /\ l # depth /\ l # depth + 1)
        BY <1>0, <2>1 DEF LayerRange
      <3> QED
        BY <2>7, <2>8, <3>1 DEF Cur
    <2>10. \A l \in 1 .. depth - 1 : frame'[l] = frame[l]
      BY <1>0, <2>1, <2>7 DEF LayerRange
    <2>11. VerifierTypeOK'
      <3>1. frame' \in [LayerRange -> [block : Nat, digest : {sha256Digest(c) : c \in Content},
                                      read : Content \cup {NoBlock}]]
        BY <2>2, <2>4, <2>5, <2>6
      <3>2. depth' \in 0 .. Top + 1 /\ answer' \in {"none", "valid", "invalid"}
        BY <1>0, <2>1
      <3>3. sawFault' \in BOOLEAN
        BY <2>2
      <3> QED
        BY <2>1, <3>1, <3>2, <3>3 DEF VerifierInv, VerifierTypeOK
    <2>12. StackInv'
      <3>1. depth' <= (IF Top = 0 THEN 1 ELSE Top)
        BY <1>0, <2>1
      <3>2. m_layer0'
        BY <2>1 DEF VerifierInv, StackInv
      <3>3. \A l \in 1 .. depth' : frame'[l].block \in Blocks(l - 1)
        <4> SUFFICES ASSUME NEW l \in 1 .. depth' PROVE frame'[l].block \in Blocks(l - 1)
          OBVIOUS
        <4>1. CASE l = depth + 1
          BY <1>0, <2>3, <2>7, <4>1
        <4>2. CASE l \in 1 .. depth
          BY <2>9, <4>2 DEF VerifierInv, StackInv
        <4> QED
          BY <1>0, <2>1, <4>1, <4>2
      <3>4. \A l \in 1 .. depth' - 1 :
              /\ frame'[l].read \in Content
              /\ frame'[l + 1].block = frame'[l].block \div HashesPerBlock
              /\ frame'[l + 1].digest = sha256Digest(frame'[l].read)
        <4> SUFFICES ASSUME NEW l \in 1 .. depth' - 1
                     PROVE  /\ frame'[l].read \in Content
                            /\ frame'[l + 1].block = frame'[l].block \div HashesPerBlock
                            /\ frame'[l + 1].digest = sha256Digest(frame'[l].read)
          OBVIOUS
        <4>1. CASE l = depth
          BY <2>7a, <2>8, <4>1 DEF HashBlockIndex
        <4>2. CASE l \in 1 .. depth - 1
          <5>1. l + 1 \in 1 .. depth
            BY <1>0, <4>2
          <5>2. /\ frame'[l] = frame[l]
                /\ frame'[l + 1].block = frame[l + 1].block
                /\ frame'[l + 1].digest = frame[l + 1].digest
            BY <2>9, <2>10, <4>2, <5>1
          <5> QED
            BY <4>2, <5>2 DEF VerifierInv, StackInv
        <4> QED
          BY <1>0, <2>1, <4>1, <4>2
      <3>5. Cur'.read = NoBlock /\ answer' = "none"
        BY <2>1, <2>7 DEF Cur
      <3> QED
        BY <3>1, <3>2, <3>3, <3>4, <3>5 DEF StackInv
    <2>13. CleanInv'
      <3> SUFFICES ASSUME ~sawFault'
                   PROVE  /\ answer' # "invalid"
                          /\ \A l \in 1 .. depth' :
                               /\ frame'[l].digest = sha256Digest(Tree[l - 1][frame'[l].block])
                               /\ frame'[l].read # NoBlock =>
                                    frame'[l].read = Tree[l][frame'[l].block \div HashesPerBlock]
        BY DEF CleanInv
      <3>1. ~sawFault /\ data = Tree[depth][HashBlockIndex]
        BY <2>2
      <3>2. ASSUME NEW l \in 1 .. depth'
            PROVE  /\ frame'[l].digest = sha256Digest(Tree[l - 1][frame'[l].block])
                   /\ frame'[l].read # NoBlock =>
                        frame'[l].read = Tree[l][frame'[l].block \div HashesPerBlock]
        <4>1. CASE l = depth + 1
          <5>1. l - 1 = depth
            BY <1>0, <4>1
          <5> QED
            BY <2>7, <3>1, <4>1, <5>1
        <4>2. CASE l = depth
          BY <2>3, <2>8, <3>1, <4>2 DEF HashBlockIndex
        <4>3. CASE l \in 1 .. depth - 1
          <5>1. l \in 1 .. depth
            BY <1>0, <4>3
          <5> QED
            BY <2>10, <3>1, <4>3, <5>1 DEF VerifierInv, CleanInv
        <4> QED
          BY <1>0, <2>1, <4>1, <4>2, <4>3
      <3> QED
        BY <2>1, <3>2
    <2>14. CachesInv'
      BY <2>1, SameCaches
    <2>15. StepAnswers
      <3>1. 1 \in 1 .. depth /\ depth > 0 /\ ~(depth' = 0)
        BY <1>0, <2>1
      <3>2. frame'[1].block = frame[1].block /\ frame'[1].digest = frame[1].digest
        BY <2>9, <3>1
      <3> QED
        BY <3>1, <3>2 DEF StepAnswers
    <2> QED
      BY <2>2, <2>11, <2>12, <2>13, <2>14, <2>15 DEF VerifierInv
  <1> QED
    BY <1>1, <1>2, <1>3, <1>4, <1>5, <1>6 DEF VerifyStep

------------------------------------------------------------------------------
(* The protected file. *)

\* read() leaves the verifier alone in most of its steps.
LEMMA VerifierUnchanged ==
  ASSUME VerifierInv, UNCHANGED <<verifierVars, sawFault>>
  PROVE  VerifierInv'
  BY DEF VerifierInv, VerifierTypeOK, CachesInv, StackInv, CleanInv, verifierVars,
         Cur, HashBlockIndex

\* An idle verifier stays well when only its answer is taken or a call begins.
LEMMA VerifierIdle ==
  ASSUME VerifierInv, depth = 0, answer' = "none", sawFault' \in BOOLEAN,
         UNCHANGED <<m_layer0, m_hashBlock, m_verifiedHashBlocks, depth, frame>>
  PROVE  VerifierInv'
  <1>1. VerifierTypeOK' /\ CachesInv'
    BY DEF VerifierInv, VerifierTypeOK, CachesInv
  <1>2. StackInv' /\ CleanInv'
    BY GeometryAssumption DEF VerifierInv, StackInv, CleanInv
  <1> QED
    BY <1>1, <1>2 DEF VerifierInv

\* verify() begins with the digest of the block it is given.
LEMMA VerifyStarts ==
  ASSUME VerifierInv, m_layer0, NEW block \in Blocks(0), NEW data \in Content,
         Verify(block, data),
         sawFault' = (sawFault \/ data # Tree[0][block])
  PROVE  /\ VerifierInv'
         /\ depth' = 1
         /\ frame'[1].block = block
         /\ frame'[1].digest = sha256Digest(data)
  <1>0. Top \in Nat /\ LevelBlocks[0] \in Nat /\ block \in Nat /\ block < LevelBlocks[0]
    BY GeometryAssumption DEF Levels, Blocks
  <1>1. /\ depth = 0 /\ depth' = 1 /\ answer' = "none"
        /\ frame' = [frame EXCEPT ![1] = [block |-> block, digest |-> sha256Digest(data),
                                          read |-> NoBlock]]
        /\ UNCHANGED <<m_layer0, m_hashBlock, m_verifiedHashBlocks>>
    BY <1>0 DEF Verify, m_dataBlockCount
  <1>2. 1 \in LayerRange
    BY <1>0 DEF LayerRange
  <1>3. frame'[1].block = block /\ frame'[1].digest = sha256Digest(data) /\ frame'[1].read = NoBlock
    BY <1>1, <1>2 DEF VerifierInv, VerifierTypeOK
  <1>4. VerifierTypeOK'
    <2>1. frame' \in [LayerRange -> [block : Nat, digest : {sha256Digest(c) : c \in Content},
                                    read : Content \cup {NoBlock}]]
      BY <1>0, <1>1 DEF VerifierInv, VerifierTypeOK
    <2>2. depth' \in 0 .. Top + 1 /\ sawFault' \in BOOLEAN
      BY <1>0, <1>1
    <2> QED
      BY <1>1, <2>1, <2>2 DEF VerifierInv, VerifierTypeOK
  <1>5. CachesInv'
    BY <1>1, SameCaches
  <1>6. StackInv'
    BY <1>0, <1>1, <1>3 DEF StackInv, Cur
  <1>7. CleanInv'
    <2> SUFFICES ASSUME ~sawFault', NEW l \in 1 .. depth'
                 PROVE  /\ frame'[l].digest = sha256Digest(Tree[l - 1][frame'[l].block])
                        /\ frame'[l].read = NoBlock
      BY <1>1 DEF CleanInv
    <2>1. data = Tree[0][block]
      OBVIOUS
    <2>2. l = 1 /\ l - 1 = 0
      BY <1>1
    <2> QED
      BY <1>3, <2>1, <2>2
  <1> QED
    BY <1>1, <1>3, <1>4, <1>5, <1>6, <1>7 DEF VerifierInv

\* The block a read is about to fetch lies in the data, and its bytes are the
\* bytes the caller waits for.
LEMMA BlockPosition ==
  ASSUME IInv, pc \in {"loop", "verify"}, MoreBlocks
  PROVE  /\ blkNumber \in Blocks(0)
         /\ size \in Nat /\ req.size \in Nat /\ req.offset \in Nat /\ outPos \in Nat
         /\ outPos + size = req.size
         /\ blkAmount \in Nat /\ blkAmount <= size /\ blkOffset + blkAmount <= BlockSize
         /\ blkNumber * BlockSize + blkOffset = req.offset + outPos
         /\ \A k \in 0 .. blkAmount - 1 :
              ImageByte(req.offset + outPos + k) = Tree[0][blkNumber][blkOffset + k]
  <1> DEFINE N == LevelBlocks[0]
  <1>1. /\ BlockSize \in Nat \ {0} /\ N \in Nat \ {0} /\ MaxRead \in Nat
        /\ blkNumber \in Nat /\ blkOffset \in 0 .. BlockSize - 1 /\ size \in 0 .. MaxRead
        /\ req \in [offset : Nat, size : 0 .. MaxRead] /\ m_fileSize \in 0 .. N * BlockSize
    BY BlockAssumption, GeometryAssumption DEF IInv, TypeOK, Levels, MaxSize
  <1>2. /\ req.offset < m_fileSize /\ req.size <= m_fileSize - req.offset /\ size <= req.size
        /\ blkNumber * BlockSize + blkOffset = req.offset + outPos
    BY DEF IInv, ProgressInv, InBounds, MoreBlocks
  <1>3. size > 0 \/ blkOffset # 0
    BY DEF MoreBlocks
  <1>4. /\ size \in Nat /\ req.size \in Nat /\ req.offset \in Nat /\ outPos \in Nat
        /\ outPos = req.size - size
    BY <1>1, <1>2 DEF outPos
  <1>5. blkAmount \in Nat /\ blkAmount <= size /\ blkOffset + blkAmount <= BlockSize
    BY <1>1 DEF blkAmount
  <1>6. blkNumber * BlockSize < N * BlockSize
    <2>1. blkNumber * BlockSize \in Nat /\ N * BlockSize \in Nat
      BY <1>1
    <2>2. m_fileSize <= N * BlockSize
      BY <1>1
    <2> HIDE DEF N
    <2>3. CASE size > 0
      BY <1>1, <1>2, <1>4, <2>1, <2>2, <2>3
    <2>4. CASE blkOffset # 0
      BY <1>1, <1>2, <1>4, <2>1, <2>2, <2>4
    <2> QED
      BY <1>3, <2>3, <2>4
  <1>7. blkNumber \in Blocks(0)
    BY <1>1, <1>6, MultLess DEF Blocks
  <1>8. ASSUME NEW k \in 0 .. blkAmount - 1
        PROVE  ImageByte(req.offset + outPos + k) = Tree[0][blkNumber][blkOffset + k]
    <2> DEFINE r == blkOffset + k
    <2>1. r \in 0 .. BlockSize - 1
      BY <1>1, <1>5
    <2>2. req.offset + outPos + k = blkNumber * BlockSize + r
      BY <1>1, <1>2, <1>4
    <2> HIDE DEF r
    <2>3. /\ (blkNumber * BlockSize + r) \div BlockSize = blkNumber
          /\ (blkNumber * BlockSize + r) % BlockSize = r
      BY <1>1, <2>1, DivModUnique
    <2> QED
      BY <2>2, <2>3 DEF ImageByte, r
  <1> QED
    BY <1>2, <1>4, <1>5, <1>7, <1>8

\* memcpy out of a block, at the current position.
LEMMA CopyOutBytes ==
  ASSUME IInv, pc \in {"loop", "verify"}, MoreBlocks, NEW block
  PROVE  /\ DOMAIN CopyOut(block) = 0 .. MaxRead - 1
         /\ \A k \in 0 .. outPos - 1 : CopyOut(block)[k] = out[k]
         /\ \A k \in 0 .. blkAmount - 1 : CopyOut(block)[outPos + k] = block[blkOffset + k]
  <1>1. /\ outPos \in Nat /\ blkAmount \in Nat /\ outPos + size = req.size
        /\ blkAmount <= size /\ size \in Nat
    BY BlockPosition
  <1>2. req.size <= MaxRead /\ MaxRead \in Nat /\ req.size \in Nat /\ blkOffset \in Nat
    BY BlockAssumption DEF IInv, TypeOK
  <1>3. ASSUME NEW k \in 0 .. outPos - 1
        PROVE  CopyOut(block)[k] = out[k]
    <2>1. k \in 0 .. MaxRead - 1 /\ k \notin outPos .. outPos + blkAmount - 1
      BY <1>1, <1>2
    <2> QED
      BY <2>1 DEF CopyOut
  <1>4. ASSUME NEW k \in 0 .. blkAmount - 1
        PROVE  CopyOut(block)[outPos + k] = block[blkOffset + k]
    <2>1. /\ outPos + k \in 0 .. MaxRead - 1
          /\ outPos + k \in outPos .. outPos + blkAmount - 1
          /\ blkOffset + (outPos + k) - outPos = blkOffset + k
      BY <1>1, <1>2
    <2> QED
      BY <2>1 DEF CopyOut
  <1> QED
    BY <1>3, <1>4 DEF CopyOut

\* A block's bytes are delivered and the read moves on to the next block.
LEMMA AdvanceKeepsProgress ==
  ASSUME IInv, pc \in {"loop", "verify"}, MoreBlocks, Advance,
         UNCHANGED <<req, m_fileSize>>,
         \A k \in 0 .. outPos - 1 : out'[k] = out[k],
         \A k \in 0 .. blkAmount - 1 : out'[outPos + k] = Tree[0][blkNumber][blkOffset + k]
  PROVE  /\ ProgressInv'
         /\ size' \in 0 .. MaxRead /\ blkOffset' \in 0 .. BlockSize - 1 /\ blkNumber' \in Nat
         /\ pc' = "loop"
  <1>1. /\ outPos \in Nat /\ blkAmount \in Nat /\ outPos + size = req.size
        /\ blkAmount <= size /\ size \in Nat /\ blkOffset + blkAmount <= BlockSize
        /\ req.offset \in Nat /\ req.size \in Nat
        /\ blkNumber * BlockSize + blkOffset = req.offset + outPos
    BY BlockPosition
  <1>2. /\ MaxRead \in Nat /\ size <= MaxRead /\ BlockSize \in Nat \ {0}
        /\ blkNumber \in Nat /\ blkOffset \in 0 .. BlockSize - 1
    BY BlockAssumption DEF IInv, TypeOK
  <1>3. /\ size' = size - blkAmount /\ blkOffset' = 0 /\ blkNumber' = blkNumber + 1
        /\ pc' = "loop"
    BY DEF Advance
  <1>4. outPos' = outPos + blkAmount
    BY <1>1, <1>3 DEF outPos
  <1>5. InBounds' /\ size' <= req'.size
    BY <1>1, <1>3 DEF IInv, ProgressInv, InBounds
  <1>6. size' > 0 => blkNumber' * BlockSize + blkOffset' = req'.offset + outPos'
    <2> SUFFICES ASSUME size' > 0
                 PROVE  blkNumber' * BlockSize + blkOffset' = req'.offset + outPos'
      OBVIOUS
    <2>1. blkAmount = BlockSize - blkOffset
      BY <1>1, <1>2, <1>3 DEF blkAmount
    <2>2. (blkNumber + 1) * BlockSize = blkNumber * BlockSize + BlockSize
      BY <1>2
    <2>3. blkNumber * BlockSize \in Nat
      BY <1>2
    <2> QED
      BY <1>1, <1>2, <1>3, <1>4, <2>1, <2>2, <2>3
  <1>7. ASSUME NEW k \in 0 .. outPos' - 1
        PROVE  out'[k] = ImageByte(req.offset + k)
    <2>1. CASE k \in 0 .. outPos - 1
      BY <2>1 DEF IInv, ProgressInv
    <2>2. CASE k >= outPos
      <3> DEFINE j == k - outPos
      <3>1. j \in 0 .. blkAmount - 1 /\ outPos + j = k /\ req.offset + outPos + j = req.offset + k
        BY <1>1, <1>4, <2>2
      <3>2. ImageByte(req.offset + outPos + j) = Tree[0][blkNumber][blkOffset + j]
        BY <3>1, BlockPosition
      <3> QED
        BY <3>1, <3>2
    <2> QED
      BY <1>1, <1>4, <2>1, <2>2
  <1>8. ProgressInv'
    BY <1>3, <1>5, <1>6, <1>7 DEF ProgressInv, ImageByte
  <1> QED
    BY <1>1, <1>2, <1>3, <1>8

\* The empty caches of a verifier that was just made or destroyed.
LEMMA EmptyCachesOK ==
  ASSUME m_verifiedHashBlocks' = EmptyCaches
  PROVE  /\ CacheTypeOK'
         /\ \A l \in 1 .. Top : DOMAIN m_verifiedHashBlocks'[l] = {}
  BY DEF CacheTypeOK, EmptyCaches

\* The initial state.
LEMMA InitIInv == Init => IInv
  <1> SUFFICES ASSUME Init PROVE IInv
    OBVIOUS
  <1> USE DEF Init, VerifierInit
  <1>0. Top \in Nat /\ BlockSize \in Nat \ {0} /\ MaxRead \in Nat /\ MaxSize \in Nat
    BY GeometryAssumption, BlockAssumption DEF MaxSize, Levels
  <1>1. VerifierTypeOK
    <2>1. frame \in [LayerRange -> [block : Nat, digest : {sha256Digest(c) : c \in Content},
                                   read : Content \cup {NoBlock}]]
      BY NoFrameType
    <2>2. /\ DOMAIN m_verifiedHashBlocks = 1 .. Top
          /\ \A l \in 1 .. Top : DOMAIN m_verifiedHashBlocks[l] = {}
      BY DEF EmptyCaches
    <2>3. m_layer0 \in BOOLEAN /\ sawFault \in BOOLEAN
      OBVIOUS
    <2> QED
      BY <1>0, <2>1, <2>2, <2>3 DEF VerifierTypeOK
  <1>2. CachesInv /\ StackInv /\ CleanInv
    BY <1>0 DEF CachesInv, StackInv, CleanInv, EmptyCaches
  <1>3. TypeOK
    <2>1. DOMAIN out = 0 .. MaxRead - 1
      BY DEF EmptyBuffer
    <2>2. req \in [offset : Nat, size : 0 .. MaxRead] /\ size \in 0 .. MaxRead
      BY <1>0
    <2>3. m_fileSize \in 0 .. MaxSize /\ blkOffset \in 0 .. BlockSize - 1
      BY <1>0
    <2>4. m_directIo \in BOOLEAN /\ result \in BOOLEAN
      OBVIOUS
    <2> QED
      BY <1>1, <2>1, <2>2, <2>3, <2>4 DEF TypeOK
  <1> QED
    BY <1>0, <1>1, <1>2, <1>3 DEF IInv, VerifierInv, CallInv, ProgressInv, BufferInv, NoNumber

\* Every step keeps the invariant.
LEMMA NextIInv == IInv /\ [Next]_vars => IInv'
  <1> SUFFICES ASSUME IInv, [Next]_vars PROVE IInv'
    OBVIOUS
  <1>0. /\ BlockSize \in Nat \ {0} /\ MaxRead \in Nat /\ Top \in Nat /\ MaxSize \in Nat
        /\ DataSizes \subseteq Nat \ {0} /\ Offsets \subseteq Nat
    BY BlockAssumption, GeometryAssumption DEF MaxSize, Levels
  <1>1. VerifierInv /\ TypeOK
    BY DEF IInv
  <1>2. CASE OpenFile
    <2>1. /\ m_fileSize = 0 /\ Open /\ m_fileSize' \in DataSizes /\ m_fileSize' <= MaxSize
          /\ m_directIo' \in BOOLEAN
          /\ UNCHANGED <<sawFault, m_blockBuffer, m_blockBufferNumber, pc, req, blkNumber,
                         blkOffset, size, out, result, depth, frame, answer>>
          /\ m_layer0' = TRUE /\ m_verifiedHashBlocks' = EmptyCaches
      BY <1>2 DEF OpenFile, Open
    <2>2. pc = "idle" /\ depth = 0 /\ answer = "none"
      BY <2>1, <1>0 DEF IInv, CallInv, TypeOK
    <2>3. m_hashBlock' \in Content \cup {NoBlock} /\ (Top > 0 => m_hashBlock' = Tree[Top][0])
      <3>1. CASE Top = 0
        BY <1>0, <1>1, <2>1, <3>1 DEF Open, TypeOK, VerifierTypeOK
      <3>2. CASE Top > 0
        <4>1. PICK data \in Content : sha256Digest(data) = m_rootHash /\ m_hashBlock' = data
          BY <1>0, <2>1, <3>2 DEF Open
        <4>2. Tree[Top][0] \in Content
          BY <1>0, GeometryAssumption, TreeAssumption DEF Levels, Blocks
        <4> QED
          BY <4>1, <4>2, DigestAssumption DEF m_rootHash
      <3> QED
        BY <1>0, <3>1, <3>2
    <2>4. VerifierTypeOK'
      BY <1>1, <2>1, <2>3, EmptyCachesOK DEF TypeOK, VerifierTypeOK, CacheTypeOK
    <2>5. CachesInv'
      BY <2>3, EmptyCachesOK, <2>1 DEF CachesInv
    <2>6. StackInv' /\ CleanInv'
      BY <1>0, <2>1, <2>2 DEF StackInv, CleanInv
    <2>7. TypeOK'
      BY <1>0, <1>1, <2>1, <2>4 DEF TypeOK
    <2>8. CallInv'
      BY <1>0, <2>1, <2>2 DEF CallInv
    <2>9. ProgressInv' /\ BufferInv'
      BY <2>1, <2>2 DEF IInv, ProgressInv, BufferInv
    <2> QED
      BY <2>4, <2>5, <2>6, <2>7, <2>8, <2>9 DEF IInv, VerifierInv
  <1>3. CASE CloseFile
    <2>1. /\ pc = "idle" /\ depth = 0 /\ m_fileSize' = 0 /\ answer' = "none"
          /\ m_blockBuffer' = NoBlock /\ m_blockBufferNumber' = NoNumber
          /\ m_layer0' = FALSE /\ m_hashBlock' = NoBlock /\ m_verifiedHashBlocks' = EmptyCaches
          /\ UNCHANGED <<sawFault, m_directIo, pc, req, blkNumber, blkOffset, size, out, result,
                         depth, frame>>
      BY <1>3 DEF CloseFile, Destroy
    <2>2. VerifierTypeOK'
      BY <1>1, <2>1, EmptyCachesOK DEF TypeOK, VerifierTypeOK, CacheTypeOK
    <2>3. CachesInv'
      BY EmptyCachesOK, <2>1 DEF CachesInv
    <2>4. StackInv' /\ CleanInv'
      BY <1>0, <2>1 DEF StackInv, CleanInv
    <2>5. TypeOK'
      BY <1>0, <1>1, <2>1, <2>2 DEF TypeOK
    <2>6. CallInv' /\ ProgressInv' /\ BufferInv'
      BY <1>0, <2>1 DEF CallInv, ProgressInv, BufferInv
    <2> QED
      BY <2>2, <2>3, <2>4, <2>5, <2>6 DEF IInv, VerifierInv
  <1>4. CASE \E offset \in Offsets, amount \in 0 .. MaxRead : ReadCall(offset, amount)
    <2>1. PICK offset \in Offsets, amount \in 0 .. MaxRead : ReadCall(offset, amount)
      BY <1>4
    <2>2. /\ m_fileSize > 0 /\ pc = "idle"
          /\ req' = [offset |-> offset, size |-> amount] /\ out' = EmptyBuffer
          /\ sawFault' = FALSE
          /\ blkNumber' = offset \div BlockSize /\ blkOffset' = offset % BlockSize
          /\ size' = amount
          /\ UNCHANGED <<m_layer0, m_hashBlock, m_verifiedHashBlocks, depth, frame, answer,
                         m_fileSize, m_directIo, m_blockBuffer, m_blockBufferNumber>>
      BY <2>1 DEF ReadCall, verifierVars
    <2>3. \/ /\ offset >= m_fileSize \/ amount > m_fileSize - offset
             /\ pc' = "returned" /\ result' = FALSE
          \/ /\ ~(offset >= m_fileSize \/ amount > m_fileSize - offset)
             /\ pc' = "loop" /\ UNCHANGED result
      BY <2>1 DEF ReadCall
    <2>4. depth = 0 /\ answer = "none"
      BY <2>2 DEF IInv, CallInv
    <2>5. VerifierInv'
      BY <1>1, <2>2, <2>4, VerifierIdle
    <2>6. /\ offset \in Nat /\ amount \in Nat /\ blkNumber' \in Nat
          /\ blkOffset' \in 0 .. BlockSize - 1
          /\ offset = blkNumber' * BlockSize + blkOffset'
      <3>1. offset \in Nat /\ amount \in Nat
        BY <1>0
      <3> QED
        BY <1>0, <2>2, <3>1, DivMod
    <2>7. req'.offset = offset /\ req'.size = amount /\ outPos' = 0
      BY <2>2, <2>6 DEF outPos
    <2>8. m_fileSize \in Nat
      BY <1>0, <1>1 DEF TypeOK
    <2>9. TypeOK'
      <3>1. DOMAIN out' = 0 .. MaxRead - 1
        BY <2>2 DEF EmptyBuffer
      <3>2. req' \in [offset : Nat, size : 0 .. MaxRead] /\ size' \in 0 .. MaxRead
        BY <2>2, <2>6
      <3>3. VerifierTypeOK' /\ result' \in BOOLEAN /\ pc' \in {"loop", "returned"}
        BY <1>1, <2>3, <2>5 DEF TypeOK, VerifierInv
      <3> QED
        BY <1>1, <2>2, <2>6, <3>1, <3>2, <3>3 DEF TypeOK
    <2>10. CallInv'
      BY <2>2, <2>3, <2>4 DEF IInv, CallInv
    <2>11. InBounds' <=> ~(offset >= m_fileSize \/ amount > m_fileSize - offset)
      BY <2>2, <2>6, <2>7, <2>8 DEF InBounds
    <2>12. ProgressInv'
      <3>1. CASE pc' = "returned"
        BY <2>3, <2>11, <3>1 DEF ProgressInv
      <3>2. CASE pc' = "loop"
        <4>1. InBounds'
          BY <2>3, <2>11, <3>2
        <4>2. size' <= req'.size /\ blkNumber' * BlockSize + blkOffset' = req'.offset + outPos'
          BY <2>2, <2>6, <2>7
        <4>3. \A k \in 0 .. outPos' - 1 : FALSE
          BY <2>7
        <4> QED
          BY <3>2, <4>1, <4>2, <4>3 DEF ProgressInv
      <3> QED
        BY <2>3, <3>1, <3>2
    <2>13. BufferInv'
      BY <2>2, <2>3 DEF IInv, BufferInv
    <2> QED
      BY <2>5, <2>9, <2>10, <2>12, <2>13 DEF IInv
  <1>5. CASE ReadBuffered
    <2>1. /\ pc = "loop" /\ MoreBlocks /\ m_blockBufferNumber = blkNumber
          /\ out' = CopyOut(m_blockBuffer) /\ Advance
          /\ UNCHANGED <<verifierVars, sawFault, m_fileSize, m_directIo, m_blockBuffer,
                         m_blockBufferNumber, req, result>>
      BY <1>5 DEF ReadBuffered
    <2>2. blkNumber \in Nat /\ m_blockBufferNumber # NoNumber
      BY <1>1, <2>1 DEF TypeOK, NoNumber
    <2>3. m_blockBuffer = Tree[0][blkNumber]
      BY <2>1, <2>2 DEF IInv, BufferInv
    <2>4. /\ DOMAIN out' = 0 .. MaxRead - 1
          /\ \A k \in 0 .. outPos - 1 : out'[k] = out[k]
          /\ \A k \in 0 .. blkAmount - 1 : out'[outPos + k] = Tree[0][blkNumber][blkOffset + k]
      BY <2>1, <2>3, CopyOutBytes
    <2>5. /\ ProgressInv'
          /\ size' \in 0 .. MaxRead /\ blkOffset' \in 0 .. BlockSize - 1 /\ blkNumber' \in Nat
          /\ pc' = "loop"
      BY <2>1, <2>4, AdvanceKeepsProgress
    <2>6. VerifierInv'
      BY <1>1, <2>1, VerifierUnchanged
    <2>7. TypeOK'
      BY <1>1, <2>1, <2>4, <2>5, <2>6 DEF TypeOK, VerifierInv
    <2>8. CallInv' /\ BufferInv'
      BY <2>1, <2>5 DEF IInv, CallInv, BufferInv, verifierVars
    <2> QED
      BY <2>5, <2>6, <2>7, <2>8 DEF IInv
  <1>6. CASE ReadBlock
    <2>1. /\ pc = "loop" /\ MoreBlocks /\ pc' = "verify"
          /\ UNCHANGED <<m_fileSize, m_directIo, m_blockBufferNumber, req, blkNumber, blkOffset,
                         size, result>>
      BY <1>6 DEF ReadBlock, NeedsPread
    <2>2. PICK data \in Content :
            /\ IF Straight THEN out' = CopyOut(data) /\ UNCHANGED m_blockBuffer
                           ELSE m_blockBuffer' = data /\ UNCHANGED out
            /\ sawFault' = (sawFault \/ data # Tree[0][blkNumber])
            /\ Verify(blkNumber, data)
      BY <1>6 DEF ReadBlock
    <2>3. blkNumber \in Blocks(0) /\ m_layer0
      BY <2>1, BlockPosition DEF IInv, CallInv
    <2>4. /\ VerifierInv' /\ depth' = 1 /\ frame'[1].block = blkNumber
          /\ frame'[1].digest = sha256Digest(data)
      BY <1>1, <2>2, <2>3, VerifyStarts
    <2>5. (Straight' <=> Straight) /\ MoreBlocks' /\ outPos' = outPos
      BY <2>1 DEF Straight, MoreBlocks, outPos
    <2>6. /\ DOMAIN out' = 0 .. MaxRead - 1
          /\ \A k \in 0 .. outPos - 1 : out'[k] = out[k]
      BY <1>1, <2>1, <2>2, CopyOutBytes DEF TypeOK
    <2>7. Pending(data)'
      <3>1. CASE Straight
        <4>1. blkOffset = 0 /\ blkAmount = BlockSize
          BY <1>0, <1>1, <3>1 DEF Straight, blkAmount, TypeOK
        <4>2. \A k \in 0 .. BlockSize - 1 : out'[outPos + k] = data[k]
          BY <1>0, <2>1, <2>2, <3>1, <4>1, CopyOutBytes
        <4> QED
          BY <2>5, <3>1, <4>2 DEF Pending
      <3>2. CASE ~Straight
        BY <2>2, <2>5, <3>2 DEF Pending
      <3> QED
        BY <3>1, <3>2
    <2>8. m_blockBuffer' \in Content \cup {NoBlock} /\ (Straight => UNCHANGED m_blockBuffer)
      BY <1>1, <2>2 DEF TypeOK
    <2>9. TypeOK'
      BY <1>1, <2>1, <2>4, <2>6, <2>8 DEF TypeOK, VerifierInv
    <2>10. CallInv'
      <3>1. m_layer0' = m_layer0
        BY <2>2 DEF Verify
      <3> QED
        BY <2>1, <2>4, <2>5, <2>7, <3>1 DEF IInv, CallInv
    <2>11. ProgressInv'
      BY <2>1, <2>5, <2>6 DEF IInv, ProgressInv, InBounds, ImageByte
    <2>12. BufferInv'
      BY <2>1, <2>5, <2>8 DEF IInv, BufferInv
    <2> QED
      BY <2>4, <2>9, <2>10, <2>11, <2>12 DEF IInv
  <1>7. CASE ReadBlockFails
    <2>1. /\ pc = "loop" /\ pc' = "returned" /\ result' = FALSE /\ sawFault' = TRUE
          /\ m_blockBufferNumber' = (IF Straight THEN m_blockBufferNumber ELSE NoNumber)
          /\ m_blockBuffer' = (IF Straight THEN m_blockBuffer ELSE NoBlock)
          /\ UNCHANGED <<m_layer0, m_hashBlock, m_verifiedHashBlocks, depth, frame, answer,
                         m_fileSize, m_directIo, req, blkNumber, blkOffset, size, out>>
      BY <1>7 DEF ReadBlockFails, NeedsPread, Fail, verifierVars
    <2>2. depth = 0 /\ answer' = "none"
      BY <2>1 DEF IInv, CallInv
    <2>3. VerifierInv'
      BY <1>1, <2>1, <2>2, VerifierIdle
    <2>4. TypeOK'
      BY <1>1, <2>1, <2>3 DEF TypeOK, VerifierInv
    <2>5. CallInv' /\ ProgressInv'
      BY <2>1, <2>2 DEF IInv, CallInv, ProgressInv
    <2>6. BufferInv'
      BY <2>1 DEF IInv, BufferInv
    <2> QED
      BY <2>3, <2>4, <2>5, <2>6 DEF IInv
  <1>8. CASE BlockVerified
    <2>1. /\ pc = "verify" /\ depth = 0 /\ answer = "valid" /\ Advance /\ answer' = "none"
          /\ UNCHANGED <<m_layer0, m_hashBlock, m_verifiedHashBlocks, depth, frame, sawFault,
                         m_fileSize, m_directIo, m_blockBuffer, req, result>>
          /\ IF Straight THEN UNCHANGED <<m_blockBufferNumber, out>>
                          ELSE m_blockBufferNumber' = blkNumber /\ out' = CopyOut(m_blockBuffer)
      BY <1>8 DEF BlockVerified
    <2>2. MoreBlocks /\ Pending(Tree[0][blkNumber])
      BY <2>1 DEF IInv, CallInv
    <2>3. /\ DOMAIN out' = 0 .. MaxRead - 1
          /\ \A k \in 0 .. outPos - 1 : out'[k] = out[k]
          /\ \A k \in 0 .. blkAmount - 1 : out'[outPos + k] = Tree[0][blkNumber][blkOffset + k]
      <3>1. CASE Straight
        <4>1. blkOffset = 0 /\ blkAmount = BlockSize
          BY <1>0, <1>1, <3>1 DEF Straight, blkAmount, TypeOK
        <4> QED
          BY <1>0, <1>1, <2>1, <2>2, <3>1, <4>1 DEF Pending, TypeOK
      <3>2. CASE ~Straight
        BY <2>1, <2>2, <3>2, CopyOutBytes DEF Pending
      <3> QED
        BY <3>1, <3>2
    <2>4. /\ ProgressInv'
          /\ size' \in 0 .. MaxRead /\ blkOffset' \in 0 .. BlockSize - 1 /\ blkNumber' \in Nat
          /\ pc' = "loop"
      BY <2>1, <2>2, <2>3, AdvanceKeepsProgress
    <2>5. VerifierInv'
      BY <1>1, <2>1, VerifierIdle DEF TypeOK, VerifierTypeOK
    <2>6. blkNumber \in Blocks(0)
      BY <2>1, <2>2, BlockPosition
    <2>7. TypeOK'
      BY <1>1, <2>1, <2>3, <2>4, <2>5, <2>6 DEF TypeOK, VerifierInv
    <2>8. CallInv'
      BY <2>1, <2>4 DEF IInv, CallInv
    <2>9. BufferInv'
      BY <2>1, <2>2, <2>4 DEF IInv, BufferInv, Pending
    <2> QED
      BY <2>4, <2>5, <2>7, <2>8, <2>9 DEF IInv
  <1>9. CASE BlockRejected
    <2>1. /\ pc = "verify" /\ depth = 0 /\ answer = "invalid" /\ answer' = "none"
          /\ pc' = "returned" /\ result' = FALSE
          /\ m_blockBufferNumber' = (IF Straight THEN m_blockBufferNumber ELSE NoNumber)
          /\ UNCHANGED <<m_layer0, m_hashBlock, m_verifiedHashBlocks, depth, frame, sawFault,
                         m_fileSize, m_directIo, m_blockBuffer, req, blkNumber, blkOffset,
                         size, out>>
      BY <1>9 DEF BlockRejected, Fail
    <2>2. sawFault'
      BY <1>1, <2>1 DEF VerifierInv, CleanInv
    <2>3. VerifierInv'
      BY <1>1, <2>1, VerifierIdle DEF TypeOK, VerifierTypeOK
    <2>4. TypeOK'
      BY <1>1, <2>1, <2>3 DEF TypeOK, VerifierInv
    <2>5. CallInv' /\ ProgressInv'
      BY <2>1, <2>2 DEF IInv, CallInv, ProgressInv
    <2>6. BufferInv'
      BY <2>1 DEF IInv, BufferInv
    <2> QED
      BY <2>3, <2>4, <2>5, <2>6 DEF IInv
  <1>10. CASE ReadDone
    <2>1. /\ pc = "loop" /\ ~MoreBlocks /\ pc' = "returned" /\ result' = TRUE
          /\ UNCHANGED <<verifierVars, sawFault, m_fileSize, m_directIo, m_blockBuffer,
                         m_blockBufferNumber, req, blkNumber, blkOffset, size, out>>
      BY <1>10 DEF ReadDone
    <2>2. size' = 0
      BY <1>0, <1>1, <2>1 DEF MoreBlocks, TypeOK
    <2>3. VerifierInv'
      BY <1>1, <2>1, VerifierUnchanged
    <2>4. TypeOK'
      BY <1>1, <2>1, <2>3 DEF TypeOK, VerifierInv
    <2>5. CallInv' /\ BufferInv'
      BY <2>1 DEF IInv, CallInv, BufferInv, verifierVars
    <2>6. ProgressInv'
      BY <2>1, <2>2 DEF IInv, ProgressInv, InBounds, outPos, ImageByte
    <2> QED
      BY <2>3, <2>4, <2>5, <2>6 DEF IInv
  <1>11. CASE VerifierStep
    <2>1. VerifyStep
          /\ UNCHANGED <<m_fileSize, m_directIo, m_blockBuffer, m_blockBufferNumber,
                         pc, req, blkNumber, blkOffset, size, out, result>>
      BY <1>11 DEF VerifierStep, fileVars
    <2>2. VerifierInv' /\ StepAnswers /\ (sawFault => sawFault')
      BY <1>1, <2>1, VerifyStepKeepsInv
    <2>3. pc = "verify" /\ MoreBlocks
      BY <2>2 DEF IInv, CallInv, StepAnswers, VerifierInv, VerifierTypeOK
    <2>4. TypeOK'
      BY <1>1, <2>1, <2>2 DEF TypeOK, VerifierInv
    <2>5. ProgressInv' /\ BufferInv'
      BY <2>1, <2>3 DEF IInv, ProgressInv, BufferInv, InBounds, outPos, ImageByte, Straight
    <2>6. CallInv'
      <3>1. \A data : Pending(data)' <=> Pending(data)
        BY <2>1 DEF Pending, Straight, outPos
      <3>2. PICK data \in Content : frame[1].digest = sha256Digest(data) /\ Pending(data)
        BY <2>2, <2>3 DEF IInv, CallInv, StepAnswers
      <3>3. frame[1].block = blkNumber
        BY <2>2, <2>3 DEF IInv, CallInv, StepAnswers
      <3>4. depth' = 0 /\ answer' = "valid" => Pending(Tree[0][blkNumber])'
        <4> SUFFICES ASSUME depth' = 0, answer' = "valid" PROVE Pending(Tree[0][blkNumber])
          BY <2>1, <3>1
        <4>1. sha256Digest(data) = sha256Digest(Tree[0][blkNumber])
          BY <2>2, <3>2, <3>3 DEF StepAnswers
        <4>2. Tree[0][blkNumber] \in Content
          BY <1>0, <2>3, BlockPosition, TreeAssumption DEF Levels
        <4> QED
          BY <3>2, <4>1, <4>2, DigestAssumption
      <3>5. depth' > 0 => /\ frame'[1].block = blkNumber'
                          /\ \E d \in Content : frame'[1].digest = sha256Digest(d) /\ Pending(d)'
        BY <2>1, <2>2, <3>1, <3>2, <3>3 DEF StepAnswers
      <3>6. MoreBlocks' /\ (depth' = 0 => answer' # "none")
        BY <2>1, <2>2, <2>3 DEF StepAnswers, MoreBlocks
      <3>7. m_layer0' = m_layer0
        BY <2>1 DEF VerifyStep, VerifySingleDataBlock, VerifyTopMost, VerifyCached,
                    ParentAnswered, ReadHashBlock, ReadHashBlockFails
      <3> QED
        BY <2>1, <2>3, <3>4, <3>5, <3>6, <3>7 DEF IInv, CallInv
    <2> QED
      BY <2>2, <2>4, <2>5, <2>6 DEF IInv
  <1>12. CASE CallerReturns
    <2>1. /\ pc = "returned" /\ pc' = "idle" /\ req' = [offset |-> 0, size |-> 0]
          /\ out' = EmptyBuffer /\ result' = FALSE /\ sawFault' = FALSE
          /\ blkNumber' = 0 /\ blkOffset' = 0 /\ size' = 0
          /\ UNCHANGED <<m_layer0, m_hashBlock, m_verifiedHashBlocks, depth, frame, answer,
                         m_fileSize, m_directIo, m_blockBuffer, m_blockBufferNumber>>
      BY <1>12 DEF CallerReturns, verifierVars
    <2>2. depth = 0 /\ answer' = "none"
      BY <2>1 DEF IInv, CallInv
    <2>3. VerifierInv'
      BY <1>1, <2>1, <2>2, VerifierIdle
    <2>4. TypeOK'
      <3>1. DOMAIN out' = 0 .. MaxRead - 1
        BY <2>1 DEF EmptyBuffer
      <3>2. /\ req' \in [offset : Nat, size : 0 .. MaxRead] /\ size' \in 0 .. MaxRead
            /\ blkOffset' \in 0 .. BlockSize - 1
        BY <1>0, <2>1
      <3> QED
        BY <1>1, <2>1, <2>3, <3>1, <3>2 DEF TypeOK, VerifierInv
    <2>5. CallInv' /\ ProgressInv' /\ BufferInv'
      BY <2>1, <2>2 DEF IInv, CallInv, ProgressInv, BufferInv
    <2> QED
      BY <2>3, <2>4, <2>5 DEF IInv
  <1>13. CASE UNCHANGED vars
    <2>1. UNCHANGED <<verifierVars, sawFault, m_fileSize, m_directIo, m_blockBuffer,
                      m_blockBufferNumber, pc, req, blkNumber, blkOffset, size, out, result>>
      BY <1>13 DEF vars, fileVars
    <2>2. VerifierInv'
      BY <1>1, <2>1, VerifierUnchanged
    <2>3. TypeOK'
      BY <1>1, <2>1, <2>2 DEF TypeOK, VerifierInv
    <2>4. CallInv'
      BY <2>1 DEF IInv, CallInv, Pending, Straight, MoreBlocks, outPos, verifierVars
    <2>5. ProgressInv' /\ BufferInv'
      BY <2>1 DEF IInv, ProgressInv, BufferInv, InBounds, Straight, outPos, ImageByte
    <2> QED
      BY <2>2, <2>3, <2>4, <2>5 DEF IInv
  <1> QED
    BY <1>2, <1>3, <1>4, <1>5, <1>6, <1>7, <1>8, <1>9, <1>10, <1>11, <1>12, <1>13
    DEF Next, ReadStep

\* IInv is an invariant.
LEMMA SpecIInv == Spec => []IInv
  BY InitIInv, NextIInv, PTL DEF Spec

------------------------------------------------------------------------------
(* The theorems. *)

\* Every variable keeps its type: the invariant TypeOK of the runs, for every
\* tree, block size and cache size.
THEOREM TypeCorrect == Spec => []TypeOK
  <1>1. IInv => TypeOK
    BY DEF IInv
  <1> QED
    BY <1>1, SpecIInv, PTL

\* In every state of the invariant, a read that has returned true is answered.
LEMMA AuthenticState == IInv => ReadReturnsImage
  <1> SUFFICES ASSUME IInv, pc = "returned", result
               PROVE  InBounds /\ \A k \in 0 .. req.size - 1 : out[k] = ImageByte(req.offset + k)
    BY DEF ReadReturnsImage
  <1>1. InBounds /\ size = 0 /\ \A k \in 0 .. outPos - 1 : out[k] = ImageByte(req.offset + k)
    BY DEF IInv, ProgressInv
  <1>2. outPos = req.size
    BY <1>1 DEF IInv, TypeOK, outPos
  <1> QED
    BY <1>1, <1>2

\* A read that returns true delivers exactly the bytes of the signed image.
THEOREM ReadsAreAuthentic == Spec => []ReadReturnsImage
  BY AuthenticState, SpecIInv, PTL

\* A read inside the file fails only when one of its own preads went wrong.
THEOREM FailuresAreReal == Spec => []NoSpuriousFailure
  <1>1. IInv => NoSpuriousFailure
    BY DEF IInv, ProgressInv, NoSpuriousFailure
  <1> QED
    BY <1>1, SpecIInv, PTL

\* What the caches and the block buffer keep between calls is the image's.
THEOREM KeptBlocksAuthentic == Spec => []KeptBlocksAreImage
  <1>1. IInv => KeptBlocksAreImage
    BY DEF IInv, VerifierInv, CachesInv, BufferInv, KeptBlocksAreImage
  <1> QED
    BY <1>1, SpecIInv, PTL

\* No layer is ever asked about a block it has no hash for.
THEOREM LayersCoverBlocks == Spec => []NeverOutside
  <1>1. IInv => NeverOutside
    <2> SUFFICES ASSUME IInv, depth > 0, Top > 0 PROVE HasHashesFor
      BY DEF NeverOutside
    <2>1. depth <= Top /\ VerifierInv
      BY GeometryAssumption DEF IInv, VerifierInv, StackInv
    <2> QED
      BY <2>1, CompareSlot
  <1> QED
    BY <1>1, SpecIInv, PTL
------------------------------------------------------------------------------
(* The abstract file.                                                         *)

\* The reply of the refinement mapping: what read() has answered, nothing before.
Answered == pc = "returned" /\ result
Reply ==
  [ok    |-> pc = "returned" /\ result,
   bytes |-> [k \in 0 .. (IF pc = "returned" /\ result THEN req.size ELSE 0) - 1 |-> out[k]]]
Phase == IF pc \in {"loop", "verify"} THEN "busy" ELSE pc

\* Until read() has returned true, the client sees the refusal.
LEMMA NothingAnswered ==
  /\ Answered = FALSE => Reply = File!Refused
  /\ Answered' = FALSE => Reply' = File!Refused
  <1>1. 0 .. 0 - 1 = {}
    OBVIOUS
  <1>2. [k \in 0 .. 0 - 1 |-> out[k]] = [k \in {} |-> 0]
    BY <1>1
  <1>3. [k \in 0 .. 0 - 1 |-> out'[k]] = [k \in {} |-> 0]
    BY <1>1
  <1> QED
    BY <1>2, <1>3 DEF Answered, Reply, File!Refused

\* Once it has, the client sees the bytes it asked for.
LEMMA ReplyIsImage == IInv' /\ Answered' = TRUE => Reply' = File!Bytes(req')
  <1> SUFFICES ASSUME IInv', Answered' = TRUE PROVE Reply' = File!Bytes(req')
    OBVIOUS
  <1>1. ReadReturnsImage'
    BY AuthenticState, PTL
  <1>2. \A k \in 0 .. req'.size - 1 : out'[k] = ImageByte(req'.offset + k)
    BY <1>1 DEF ReadReturnsImage, Answered, ImageByte
  <1>3. [k \in 0 .. req'.size - 1 |-> out'[k]]
          = [k \in 0 .. req'.size - 1 |-> ImageByte(req'.offset + k)]
    BY <1>2
  <1> QED
    BY <1>3 DEF Answered, Reply, File!Bytes

\* A step that answers nothing and leaves the call as it is, is invisible.
LEMMA InvisibleStep ==
  ASSUME Answered = FALSE, Answered' = FALSE, Phase' = Phase,
         UNCHANGED <<m_fileSize, req>>
  PROVE  UNCHANGED File!absVars
  <1>1. Reply = File!Refused /\ Reply' = File!Refused
    BY NothingAnswered
  <1> QED
    BY <1>1 DEF File!absVars, Reply, Phase

\* Every step of read(), open and close is a step of the abstract file, or invisible.
LEMMA StepRefines == IInv /\ [Next]_vars => [File!AbsNext]_(File!absVars)
  <1> SUFFICES ASSUME IInv, [Next]_vars PROVE [File!AbsNext]_(File!absVars)
    OBVIOUS
  <1> USE DEF Answered, Phase
  <1>0. TypeOK /\ IInv'
    BY NextIInv DEF IInv
  <1>1. CASE OpenFile
    <2>1. UNCHANGED Reply /\ UNCHANGED Phase
      BY <1>1 DEF OpenFile, Reply
    <2>2. m_fileSize' \in 1 .. MaxSize
      BY <1>1, BlockAssumption, GeometryAssumption DEF OpenFile, MaxSize
    <2>3. File!AbsOpen
      BY <1>1, <2>1, <2>2 DEF OpenFile, File!AbsOpen, Reply, Phase
    <2> QED
      BY <2>3 DEF File!AbsNext
  <1>2. CASE CloseFile
    <2>1. UNCHANGED Reply /\ UNCHANGED Phase
      BY <1>2 DEF CloseFile, Reply
    <2>2. File!AbsClose
      BY <1>2, <2>1 DEF CloseFile, File!AbsClose, Reply, Phase
    <2> QED
      BY <2>2 DEF File!AbsNext
  <1>3. ASSUME NEW offset \in Offsets, NEW amount \in 0 .. MaxRead, ReadCall(offset, amount)
        PROVE  File!AbsNext
    <2>1. Answered = FALSE /\ Answered' = FALSE
      BY <1>3 DEF ReadCall
    <2>2. Reply = File!Refused /\ Reply' = File!Refused
      BY <2>1, NothingAnswered
    <2>3. req' = [offset |-> offset, size |-> amount] /\ req' \in [offset : Nat, size : 0 .. MaxRead]
      BY <1>3, BlockAssumption DEF ReadCall
    <2>4. (offset >= m_fileSize \/ amount > m_fileSize - offset) <=> ~File!Inside(req')
      BY <2>3, <1>0, BlockAssumption DEF File!Inside, TypeOK
    <2>5. Phase' = IF File!Inside(req') THEN "busy" ELSE "returned"
      BY <1>3, <2>4 DEF ReadCall
    <2>6. File!AbsCall
      BY <1>3, <2>2, <2>3, <2>5 DEF ReadCall, File!AbsCall, Reply, Phase
    <2> QED
      BY <2>6 DEF File!AbsNext
  <1>4. CASE ReadBuffered \/ ReadBlock \/ BlockVerified
    <2>1. /\ Answered = FALSE /\ Answered' = FALSE /\ Phase' = Phase
          /\ UNCHANGED <<m_fileSize, req>>
      BY <1>4 DEF ReadBuffered, ReadBlock, BlockVerified, Advance, NeedsPread
    <2> QED
      BY <2>1, InvisibleStep
  <1>5. CASE VerifierStep \/ UNCHANGED vars
    <2>1. UNCHANGED fileVars
      BY <1>5 DEF VerifierStep, vars
    <2> QED
      BY <2>1 DEF fileVars, File!absVars
  <1>6. CASE ReadBlockFails \/ BlockRejected
    <2>1. Answered = FALSE /\ Answered' = FALSE /\ Phase = "busy" /\ Phase' = "returned"
      BY <1>6 DEF ReadBlockFails, BlockRejected, NeedsPread, Fail
    <2>2. Reply' = File!Refused
      BY <2>1, NothingAnswered
    <2>3. UNCHANGED <<m_fileSize, req>>
      BY <1>6 DEF ReadBlockFails, BlockRejected
    <2>4. File!AbsAnswer
      BY <2>1, <2>2, <2>3 DEF File!AbsAnswer, Reply, Phase
    <2> QED
      BY <2>4 DEF File!AbsNext
  <1>7. CASE ReadDone
    <2>1. Answered' = TRUE /\ Phase = "busy" /\ Phase' = "returned"
      BY <1>7 DEF ReadDone
    <2>2. UNCHANGED <<m_fileSize, req>>
      BY <1>7 DEF ReadDone
    <2>3. Reply' = File!Bytes(req)
      BY <1>0, <2>1, <2>2, ReplyIsImage
    <2>4. File!AbsAnswer
      BY <2>1, <2>2, <2>3 DEF File!AbsAnswer, Reply, Phase
    <2> QED
      BY <2>4 DEF File!AbsNext
  <1>8. CASE CallerReturns
    <2>1. Answered' = FALSE /\ Phase = "returned" /\ Phase' = "idle"
      BY <1>8 DEF CallerReturns
    <2>2. Reply' = File!Refused
      BY <2>1, NothingAnswered
    <2>3. File!AbsTake
      BY <1>8, <2>1, <2>2 DEF CallerReturns, File!AbsTake, File!NoRequest, Reply, Phase
    <2> QED
      BY <2>3 DEF File!AbsNext
  <1> QED
    BY <1>1, <1>2, <1>3, <1>4, <1>5, <1>6, <1>7, <1>8 DEF Next, ReadStep

\* read() implements the file of the signed image that its clients see: the
\* safety part of the refinement ImplementsAuthenticFile, for every tree, block
\* size, cache size and read. (That every read is answered is left to TLC.)
THEOREM FileRefined == Spec => File!AbsSafety
  <1>1. Init => File!AbsInit
    <2> SUFFICES ASSUME Init PROVE File!AbsInit
      OBVIOUS
    <2>1. Answered = FALSE /\ Phase = "idle"
      BY DEF Init, Answered, Phase
    <2>2. Reply = File!Refused
      BY <2>1, NothingAnswered
    <2> QED
      BY <2>1, <2>2 DEF Init, File!AbsInit, File!NoRequest, Reply, Phase
  <1> QED
    BY <1>1, StepRefines, SpecIInv, PTL DEF Spec, File!AbsSafety

=============================================================================
