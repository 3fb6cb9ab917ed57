------------------------- MODULE DmVerityProtectedFile -------------------------
(***************************************************************************)
(* IDmVerityProtectedFile (lib/dm-verity/DmVerityProtectedFile.cpp): byte  *)
(* range reads of a data file, every block verified by a DmVerityVerifier. *)
(* Whole blocks are read straight into the caller's buffer, partial ones   *)
(* (all of them on an O_DIRECT file) through one block buffer that keeps   *)
(* the last verified block for the next read.                              *)
(***************************************************************************)
EXTENDS DmVerityVerifier

CONSTANTS
  BlockSize,   \* m_blockSize, in bytes
  DataSizes,   \* the sizes of the data ranges clients open
  Offsets,     \* the offsets clients read at
  MaxRead,     \* bound of the model: no caller's buffer is larger
  NoByte       \* a byte of the caller's buffer read() did not write

ASSUME BlockAssumption ==
  /\ BlockSize \in Nat \ {0}
  /\ DataSizes \subseteq Nat \ {0}
  /\ Offsets \subseteq Nat
  /\ MaxRead \in Nat

VARIABLES
  m_fileSize,          \* size of the data range, 0 when no file is open
  m_directIo,          \* the data file was opened with O_DIRECT
  m_blockBuffer,       \* the bounce buffer
  m_blockBufferNumber, \* the verified block it holds, or NoNumber
  pc,                  \* where read() is
  req,                 \* the arguments of the call, [offset, size]
  blkNumber,           \* locals of read() ...
  blkOffset,           \* ... offset % m_blockSize in the first block, then 0
  size,                \* ... the bytes still to be read
  out,                 \* the caller's buffer
  result               \* what the last call returned

fileVars == <<m_fileSize, m_directIo, m_blockBuffer, m_blockBufferNumber,
              pc, req, blkNumber, blkOffset, size, out, result>>
vars == <<verifierVars, sawFault, fileVars>>

NoNumber == -1                      \* SIZE_MAX
EmptyBuffer == [k \in 0 .. MaxRead - 1 |-> NoByte]
outPos == req.size - size           \* out - buffer, in bytes
MaxSize == LevelBlocks[0] * BlockSize

------------------------------------------------------------------------------
(* open: the verifier opens, and its hashes cover the data range. *)

OpenFile ==
  /\ m_fileSize = 0
  /\ Open
  /\ m_fileSize' \in {n \in DataSizes : n <= MaxSize}
  /\ m_directIo' \in BOOLEAN
  /\ UNCHANGED <<sawFault, m_blockBuffer, m_blockBufferNumber, pc, req, blkNumber,
                 blkOffset, size, out, result>>

CloseFile ==
  /\ m_fileSize > 0 /\ pc = "idle"
  /\ Destroy
  /\ answer' = "none"
  /\ m_fileSize' = 0
  /\ m_blockBuffer' = NoBlock
  /\ m_blockBufferNumber' = NoNumber
  /\ UNCHANGED <<sawFault, m_directIo, pc, req, blkNumber, blkOffset, size, out, result>>

------------------------------------------------------------------------------
(* read(buffer, size, offset) *)

\* The call, up to the first block: a read outside the file is refused.
ReadCall(offset, amount) ==
  /\ m_fileSize > 0 /\ pc = "idle"
  /\ req' = [offset |-> offset, size |-> amount]
  /\ out' = EmptyBuffer
  /\ sawFault' = FALSE
  /\ blkNumber' = offset \div BlockSize
  /\ blkOffset' = offset % BlockSize
  /\ size' = amount
  /\ IF offset >= m_fileSize \/ amount > m_fileSize - offset
     THEN pc' = "returned" /\ result' = FALSE
     ELSE pc' = "loop" /\ UNCHANGED result
  /\ UNCHANGED <<verifierVars, m_fileSize, m_directIo, m_blockBuffer, m_blockBufferNumber>>

\* More blocks to read: an unaligned head is one even when size is 0.
MoreBlocks == size > 0 \/ (~m_directIo /\ blkOffset # 0)
\* A whole block goes straight into the caller's buffer, without O_DIRECT.
Straight == ~m_directIo /\ blkOffset = 0 /\ size >= BlockSize
blkAmount == IF size < BlockSize - blkOffset THEN size ELSE BlockSize - blkOffset

\* Mutant: the head of a block is not skipped.
CopyOutFromStart(block) ==
  [k \in 0 .. MaxRead - 1 |->
     IF k \in outPos .. outPos + blkAmount - 1 THEN block[k - outPos] ELSE out[k]]

CopyOut(block) ==
  [k \in 0 .. MaxRead - 1 |->
     IF k \in outPos .. outPos + blkAmount - 1 THEN block[blkOffset + k - outPos] ELSE out[k]]

Advance ==
  /\ size' = size - blkAmount
  /\ blkOffset' = 0
  /\ blkNumber' = blkNumber + 1
  /\ pc' = "loop"

\* readPartialBlock and readDirectIo: the block buffer already holds the block.
ReadBuffered ==
  /\ pc = "loop" /\ MoreBlocks /\ ~Straight
  /\ m_blockBufferNumber = blkNumber
  /\ out' = CopyOut(m_blockBuffer)
  /\ Advance
  /\ UNCHANGED <<verifierVars, sawFault, m_fileSize, m_directIo, m_blockBuffer,
                 m_blockBufferNumber, req, result>>

NeedsPread == pc = "loop" /\ MoreBlocks /\ (Straight \/ m_blockBufferNumber # blkNumber)

\* pread of a data block, into the caller's buffer or the block buffer, and the
\* call of verify.
ReadBlock ==
  /\ NeedsPread
  /\ \E data \in Content :
       /\ IF Straight
          THEN out' = CopyOut(data) /\ UNCHANGED m_blockBuffer
          ELSE m_blockBuffer' = data /\ UNCHANGED out
       /\ sawFault' = (sawFault \/ data # Tree[0][blkNumber])
       /\ Verify(blkNumber, data)
  /\ pc' = "verify"
  /\ UNCHANGED <<m_fileSize, m_directIo, m_blockBufferNumber, req, blkNumber, blkOffset,
                 size, result>>

Fail ==
  /\ m_blockBufferNumber' = IF Straight THEN m_blockBufferNumber ELSE NoNumber
  /\ pc' = "returned"
  /\ result' = FALSE

\* ... and the pread fails or is short.  What it left in the buffer is not
\* distinguished: the buffer counts as unfilled.
ReadBlockFails ==
  /\ NeedsPread
  /\ Fail
  /\ sawFault' = TRUE
  /\ m_blockBuffer' = IF Straight THEN m_blockBuffer ELSE NoBlock
  /\ UNCHANGED <<verifierVars, m_fileSize, m_directIo, req, blkNumber, blkOffset, size, out>>

\* verify returned true.
BlockVerified ==
  /\ pc = "verify" /\ depth = 0 /\ answer = "valid"
  /\ IF Straight
     THEN UNCHANGED <<m_blockBufferNumber, out>>
     ELSE m_blockBufferNumber' = blkNumber /\ out' = CopyOut(m_blockBuffer)
  /\ Advance
  /\ answer' = "none"
  /\ UNCHANGED <<m_layer0, m_hashBlock, m_verifiedHashBlocks, depth, frame, sawFault,
                 m_fileSize, m_directIo, m_blockBuffer, req, result>>

\* verify returned false.
BlockRejected ==
  /\ pc = "verify" /\ depth = 0 /\ answer = "invalid"
  /\ Fail
  /\ answer' = "none"
  /\ UNCHANGED <<m_layer0, m_hashBlock, m_verifiedHashBlocks, depth, frame, sawFault,
                 m_fileSize, m_directIo, m_blockBuffer, req, blkNumber, blkOffset, size, out>>

ReadDone ==
  /\ pc = "loop" /\ ~MoreBlocks
  /\ pc' = "returned"
  /\ result' = TRUE
  /\ UNCHANGED <<verifierVars, sawFault, m_fileSize, m_directIo, m_blockBuffer,
                 m_blockBufferNumber, req, blkNumber, blkOffset, size, out>>

\* The caller takes the result.
CallerReturns ==
  /\ pc = "returned"
  /\ pc' = "idle"
  /\ req' = [offset |-> 0, size |-> 0]
  /\ out' = EmptyBuffer
  /\ result' = FALSE
  /\ sawFault' = FALSE
  /\ blkNumber' = 0 /\ blkOffset' = 0 /\ size' = 0
  /\ UNCHANGED <<verifierVars, m_fileSize, m_directIo, m_blockBuffer, m_blockBufferNumber>>

VerifierStep == VerifyStep /\ UNCHANGED fileVars

\* The steps of read() itself, which its thread takes until it returns.
ReadStep ==
  \/ ReadBuffered
  \/ ReadBlock
  \/ ReadBlockFails
  \/ BlockVerified
  \/ BlockRejected
  \/ ReadDone
  \/ VerifierStep

Init ==
  /\ VerifierInit
  /\ m_fileSize = 0
  /\ m_directIo = FALSE
  /\ m_blockBuffer = NoBlock
  /\ m_blockBufferNumber = NoNumber
  /\ pc = "idle"
  /\ req = [offset |-> 0, size |-> 0]
  /\ blkNumber = 0 /\ blkOffset = 0 /\ size = 0
  /\ out = EmptyBuffer
  /\ result = FALSE

Next ==
  \/ OpenFile
  \/ CloseFile
  \/ \E offset \in Offsets, amount \in 0 .. MaxRead : ReadCall(offset, amount)
  \/ ReadStep
  \/ CallerReturns

Spec == Init /\ [][Next]_vars
FairSpec == Spec /\ WF_vars(ReadStep)

------------------------------------------------------------------------------
(* Properties *)

ImageByte(p) == Tree[0][p \div BlockSize][p % BlockSize]
InBounds == req.offset < m_fileSize /\ req.size <= m_fileSize - req.offset

TypeOK ==
  /\ VerifierTypeOK
  /\ m_fileSize \in 0 .. MaxSize
  /\ m_directIo \in BOOLEAN
  /\ m_blockBuffer \in Content \cup {NoBlock}
  /\ m_blockBufferNumber \in Blocks(0) \cup {NoNumber}
  /\ pc \in {"idle", "loop", "verify", "returned"}
  /\ req \in [offset : Nat, size : 0 .. MaxRead]
  /\ blkNumber \in Nat
  /\ blkOffset \in 0 .. BlockSize - 1
  /\ size \in 0 .. MaxRead
  /\ DOMAIN out = 0 .. MaxRead - 1
  /\ result \in BOOLEAN

\* A read that returned true delivered exactly the bytes of the signed image
\* at the requested offset, whatever the files held when they were read and
\* whichever blocks came from a cache.
ReadReturnsImage ==
  pc = "returned" /\ result =>
    /\ InBounds
    /\ \A k \in 0 .. req.size - 1 : out[k] = ImageByte(req.offset + k)

\* A read inside the file returns false only when one of its own preads failed
\* or returned a block that is not the image's: no earlier failure, eviction or
\* half-filled buffer makes a later read of intact data fail.
NoSpuriousFailure ==
  pc = "returned" /\ ~result /\ InBounds => sawFault

\* What outlives a call is verified: the topmost hash block, every cached hash
\* block, and the block buffer under its number, also after a failed read.
KeptBlocksAreImage ==
  /\ m_layer0 /\ Top > 0 => m_hashBlock = Tree[Top][0]
  /\ \A l \in 1 .. Top : \A i \in DOMAIN m_verifiedHashBlocks[l] :
       m_verifiedHashBlocks[l][i] = Tree[l][i]
  /\ pc # "verify" /\ m_blockBufferNumber # NoNumber =>
       m_blockBuffer = Tree[0][m_blockBufferNumber]

\* No layer ever holds more than kMaxCacheBlocks hash blocks ("max memory usage
\* of 256KB").
CacheBounded ==
  \A l \in 1 .. Top : Cardinality(DOMAIN m_verifiedHashBlocks[l]) <= kMaxCacheBlocks

\* The layers' internal error "block is outside of count, should never happen"
\* does not happen: every layer is asked only about blocks it has a hash for.
NeverOutside ==
  depth > 0 /\ Top > 0 => HasHashesFor

\* The interface's promise that a block is verified "and if valid" copied into
\* the caller's buffer: no byte of the buffer differs from the image.
OnlyVerifiedBytesCopied ==
  pc = "returned" /\ InBounds =>
    \A k \in 0 .. req.size - 1 : out[k] \in {NoByte, ImageByte(req.offset + k)}

(* The promise this component keeps, in terms of its own state: the reply is *)
(* visible only once read() has returned true.                               *)
File == INSTANCE AuthenticFile WITH
  ByteAt   <- ImageByte,
  Capacity <- MaxSize,
  fileSize <- m_fileSize,
  phase    <- IF pc \in {"loop", "verify"} THEN "busy" ELSE pc,
  request  <- req,
  reply    <- [ok    |-> pc = "returned" /\ result,
               bytes |-> [k \in 0 .. (IF pc = "returned" /\ result THEN req.size ELSE 0) - 1
                            |-> out[k]]]

\* read() implements the abstract file: every step of the code is a step of
\* AuthenticFile or invisible to its clients, and every read is answered.
ImplementsAuthenticFile == File!AbsSpec
=============================================================================
