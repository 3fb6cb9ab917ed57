---------------------------- MODULE VerityGeometry ----------------------------
(***************************************************************************)
(* Where the blocks of a dm-verity image are. Two parts of the library     *)
(* work it out from the same superblock: the mounter, before it hands the  *)
(* image to the kernel (lib/dm-verity/DmVerityMounterLinux.cpp), and the   *)
(* verifier that reads in user space (DmVerityVerifier.cpp).               *)
(*                                                                         *)
(* A superblock says how many data blocks there are; "supported" stands    *)
(* for its signature, version, algorithm, block sizes and salt size, which *)
(* have to be the ones the library knows. A range of a file has an offset  *)
(* and a size. All arithmetic is that of 64-bit words, here modulo Word.   *)
(***************************************************************************)
EXTENDS Naturals

CONSTANTS
    Block,          \* 4096, the size of data and hash blocks
    HashesPerBlock, \* 128, the digests in a hash block
    MaxDataSize,    \* 512 MB, the limit of the verifier
    Word            \* 2^64

ASSUME VerityAssumption ==
    /\ Block \in Nat \ {0} /\ HashesPerBlock \in 2..Block
    /\ Word \in Nat \ {0} /\ Word % Block = 0
    /\ MaxDataSize \in Nat /\ 2 * MaxDataSize + Block < Word

Wrap(n) == n % Word

checkSuperBlock(sb) == sb.supported

DataSize(sb) == Wrap(sb.dataBlocks * Block)

\* DIV_ROUND_UP(n, hashesPerBlock)
HashBlocksFor(n) == Wrap(n + HashesPerBlock - 1) \div HashesPerBlock

\* Layer by layer, up to the one that is a single block.
HashBlocks[n \in Nat] ==
    IF HashBlocksFor(n) > 1 THEN HashBlocksFor(n) + HashBlocks[HashBlocksFor(n)]
    ELSE HashBlocksFor(n)

(***************************************************************************)
(* The mounter                                                             *)
(***************************************************************************)

\* calcRequiredHashBlocks(): the root hash is that of a single data block.
calcRequiredHashBlocks(n) == IF n = 1 THEN 0 ELSE HashBlocks[n]

checkFileRanges(data, hashes) ==
    /\ \A n \in {data.offset, data.size, hashes.offset, hashes.size} : n % Block = 0
    /\ hashes.offset >= Wrap(data.offset + data.size)

\* readDmVeritySuperBlock(), for a file that ends at the given offset.
readDmVeritySuperBlock(sb, end, data, hashes) ==
    /\ hashes.size >= Block
    /\ hashes.offset + Block <= end
    /\ checkSuperBlock(sb)
    /\ DataSize(sb) <= data.size
    /\ Wrap(calcRequiredHashBlocks(sb.dataBlocks) * Block) <= hashes.size - Block

\* The checks with which doMount() begins.
MounterAccepts(sb, end, data, hashes) ==
    /\ checkFileRanges(data, hashes)
    /\ readDmVeritySuperBlock(sb, end, data, hashes)
    /\ data.size = DataSize(sb)

(***************************************************************************)
(* The verifier and the protected file                                     *)
(***************************************************************************)

\* checkAndCalcFileRange()
RangeInFile(range, end) == range.offset < end /\ range.size <= end - range.offset

\* Mutant: the block of the superblock is not counted
parseDmVeritySuperBlockTreeOnly(sb, end, hashes) ==
    /\ hashes.offset + Block <= end
    /\ checkSuperBlock(sb)
    /\ sb.dataBlocks # 0
    /\ DataSize(sb) <= MaxDataSize
    /\ sb.dataBlocks # 1 => Wrap(HashBlocks[sb.dataBlocks] * Block) <= hashes.size

\* parseDmVeritySuperBlock(), up to the root hash.
parseDmVeritySuperBlock(sb, end, hashes) ==
    /\ hashes.offset + Block <= end
    /\ checkSuperBlock(sb)
    /\ sb.dataBlocks # 0
    /\ DataSize(sb) <= MaxDataSize
    /\ sb.dataBlocks # 1 => Wrap((1 + HashBlocks[sb.dataBlocks]) * Block) <= hashes.size

\* IDmVerityProtectedFile::open()
ReaderAccepts(sb, end, data, hashes) ==
    /\ RangeInFile(data, end)
    /\ RangeInFile(hashes, end)
    /\ parseDmVeritySuperBlock(sb, end, hashes)
    /\ data.size <= DataSize(sb)

===============================================================================
