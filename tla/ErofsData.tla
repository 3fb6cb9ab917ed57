----------------------------- MODULE ErofsData -----------------------------
(***************************************************************************)
(* The data of an inode of an EROFS image: the inode's format, the map of  *)
(* compressed extents, the flat and the compressed reader with its cache   *)
(* of one decompressed block (lib/erofs/ErofsInode.cpp, ErofsExtentMap.cpp,*)
(* ErofsInodeFlatDataReader.cpp, ErofsInodeCompressedDataReader.cpp), and  *)
(* the entry that hands the data to clients or writes it to a file         *)
(* (lib/oci/OCIErofsImageEntry.cpp).                                       *)
(*                                                                         *)
(* A byte of a file is its position in the file, so that a byte from the   *)
(* wrong place is seen.  A block number stands for an address.  Every read *)
(* of the image may fail, or give a block that does not decompress.        *)
(***************************************************************************)
EXTENDS Integers, Sequences, FiniteSetsExt, SequencesExt

CONSTANTS
    Inodes,         \* the inodes of the image that are opened, see Inode
    BlockSize,      \* 4096; also the size of a logical cluster
    InitialEntries, \* entries before the first aligned 2B pack: 6
    PackEntries,    \* entries of a 2B pack: 16
    BufferSize,     \* the buffer of writeTo()
    PathMax,        \* PATH_MAX, the buffer for the target of a symlink
    MaxSizes,       \* limits a caller of writeTo() gives
    ReadSizes,      \* sizes a client asks for
    MaxCalls        \* calls of a client

Min2(a, b) == IF a <= b THEN a ELSE b
DivRoundUp(n, d) == (n + d - 1) \div d

Formats == {"FlatPlain", "FlatInline", "CompressedFull", "CompressedCompact", "ChunkBased", "Invalid"}

\* An inode: its format and size, whether it has extended attributes, and for
\* compressed ones where each extent starts, which are stored plain, and whether
\* the compact index has 2B packs (Compacted2b).
Inode(i) ==
    /\ i.format \in Formats /\ i.size \in Nat /\ i.xattr \in BOOLEAN
    /\ i.kind \in {"regular", "symlink", "directory"}
    /\ i.starts \in Seq(Nat) /\ i.plain \subseteq Nat /\ i.twoB \in BOOLEAN

-----------------------------------------------------------------------------
(* What mkfs.erofs puts into the image.                                      *)

\* The end of extent k.
EndOf(i, k) == IF k = Len(i.starts) THEN i.size ELSE i.starts[k + 1]

\* The bytes of extent k; its block has number k.
Stored(i, k) == [j \in 1 .. EndOf(i, k) - i.starts[k] |-> i.starts[k] + j - 1]

\* The extents of a compressed file: the first one starts with the file, and each
\* one in a cluster of its own, of which the index has one entry.
WellFormed(i) ==
    /\ Inode(i)
    /\ i.format \in {"CompressedFull", "CompressedCompact"} =>
        /\ i.starts # <<>> => i.starts[1] = 0
        /\ i.size > 0 => i.starts # <<>>
        /\ \A k \in DOMAIN i.starts :
            /\ i.starts[k] < i.size
            /\ \A l \in DOMAIN i.starts : k < l => i.starts[k] \div BlockSize < i.starts[l] \div BlockSize

\* One entry for each logical cluster: the extent that starts in it, if any.
\* A cluster in which the file ends may be a head at the end of the file.
Entries(i) ==
    LET Starts(c) == {k \in DOMAIN i.starts : i.starts[k] \div BlockSize = c}
        AtEnd(c) == c = i.size \div BlockSize
    IN  [n \in 1 .. DivRoundUp(i.size, BlockSize) |->
            IF Starts(n - 1) # {}
            THEN LET k == CHOOSE k \in Starts(n - 1) : TRUE
                 IN  [type |-> IF k \in i.plain THEN "Plain" ELSE "Head1",
                      offset |-> i.starts[k] % BlockSize, block |-> k]
            ELSE IF AtEnd(n - 1)
                 THEN [type |-> "Plain", offset |-> i.size % BlockSize, block |-> 0]
                 ELSE [type |-> "NonHead", offset |-> 0, block |-> 0]]

\* A pack of entries holds the number of the block before its first head.
PackBlock(entries, first) ==
    LET before == {k \in 1 .. first - 1 : entries[k].type # "NonHead"}
    IN  IF before = {} THEN 0 ELSE entries[Max(before)].block

-----------------------------------------------------------------------------
(* The inode and its extents.                                                *)

\* processCompactInode(), processExtendedInode(): an inode with attributes is
\* left as it was constructed, without a type or data.
processInode(i) ==
    IF i.xattr THEN [dataFormat |-> "Invalid", size |-> 0, kind |-> "unknown"]
    ELSE [dataFormat |-> i.format, size |-> i.size, kind |-> i.kind]

\* ErofsExtentMap::add(): the extent before ends where this one starts, the
\* last one where the file does.  A head at the end of the file is no extent.
add(map, blocks, size, type, offset, block) ==
    IF offset > size \/ (offset # size /\ Len(map) >= blocks) THEN {}
    ELSE IF offset = size THEN {map}
    ELSE LET closed == IF map = <<>> THEN map
                       ELSE [map EXCEPT ![Len(map)].size = offset - map[Len(map)].offset]
         IN  {Append(closed, [plain |-> type = "Plain", offset |-> offset,
                              size |-> IF Len(map) + 1 = blocks THEN size - offset ELSE 0,
                              block |-> block])}

\* The heads among the entries are added in order, the block of entry n being
\* blockOf[n]: the map after each of the entries, ...
Filling(i, entries, blockOf) ==
    LET Add(m, n) == add(m, Len(i.starts), i.size, entries[n].type,
                         (n - 1) * BlockSize + entries[n].offset, blockOf[n])
        filled[n \in 0 .. Len(entries)] ==
            IF n = 0 THEN {<<>>}
            ELSE IF entries[n].type = "NonHead" THEN filled[n - 1]
            ELSE UNION {Add(m, n) : m \in filled[n - 1]}
    IN  filled

\* ... which must be full in the end.
Fill(i, entries, blockOf) ==
    {m \in Filling(i, entries, blockOf)[Len(entries)] : Len(m) = Len(i.starts)}

fromLegacyIndexes(i) ==
    LET entries == Entries(i) IN Fill(i, entries, [n \in DOMAIN entries |-> entries[n].block])

\* The first of the entries of the pack that entry n is in, of count entries:
\* pairs up to the alignment of the 2B packs, 2B packs, and pairs again, the
\* last of them alone when count is odd.
PackStart(n, count, twoB) ==
    LET aligned == twoB /\ InitialEntries <= count
        large == ((count - InitialEntries) \div PackEntries) * PackEntries
    IN  IF aligned /\ n > InitialEntries /\ n <= InitialEntries + large
        THEN n - ((n - InitialEntries - 1) % PackEntries)
        ELSE n - ((n - 1) % 2)

\* The block of entry n of the pack that starts with entry first: the heads of
\* a pack have the blocks after the one the pack gives.
processCompactIndexes(entries, first, n) ==
    PackBlock(entries, first) + 1 + Cardinality({k \in first .. n - 1 : entries[k].type # "NonHead"})

fromCompactIndexes(i) ==
    LET entries == Entries(i)
    IN  Fill(i, entries, [n \in DOMAIN entries |->
                processCompactIndexes(entries, PackStart(n, Len(entries), i.twoB), n)])

\* The map of extents of each inode, {} when it has none or it does not parse; a
\* flat one needs no map.
mapOf ==
    [i \in Inodes |->
        CASE i.format \in {"FlatPlain", "FlatInline"} -> {<<>>}
          [] i.format = "CompressedFull" -> fromLegacyIndexes(i)
          [] i.format = "CompressedCompact" -> fromCompactIndexes(i)
          [] OTHER -> {}]

\* The first extent that reaches the offset; 0 is the end of the map.
find(map, offset) ==
    LET reach == {k \in DOMAIN map : map[k].offset + map[k].size - 1 >= offset}
    IN  IF reach = {} THEN 0
        ELSE IF map[Min(reach)].offset > offset THEN Min(reach) - 1 ELSE Min(reach)

-----------------------------------------------------------------------------
(* The state of an entry, of a call in progress, and of the client.          *)

VARIABLES
    inode,      \* the inode of the image
    client,     \* "read" anywhere, "stream" in order, or "write" to a file
    maxSize,    \* the limit given to writeTo()
    extents,    \* {} before the reader exists, {map} after, {<<>>} when flat
    last,       \* m_lastDecompressedBlockAddr; 0 is SIZE_MAX
    block,      \* m_decompressedBlock; its bytes are -1 after a failed decompression
    pc,         \* where the call is
    req,        \* the offset and size of the call
    got,        \* the bytes it has copied to the caller's buffer
    at,         \* the extent it is at
    trouble,    \* has a read of the image failed in this call?
    result,     \* what it returned: {} before, {-1} when it failed
    streamed,   \* the bytes a client has had from read() in order
    target,     \* the file writeTo() makes
    outcome,    \* of writeTo(): "", "ok" or "error"
    calls

entryVars == <<inode, client, maxSize>>
readerVars == <<extents, last, block>>
callVars == <<req, got, at, trouble, result>>
clientVars == <<streamed, target, outcome>>
vars == <<entryVars, readerVars, pc, callVars, clientVars, calls>>

fields == processInode(inode)

Init ==
    /\ inode \in Inodes
    /\ client \in {"read", "stream", "write"}
    /\ maxSize \in MaxSizes /\ (client # "write" => maxSize = Max(MaxSizes))
    /\ extents = {} /\ last = 0 /\ block = <<>>
    /\ pc = "idle" /\ req = [offset |-> 0, size |-> 0]
    /\ got = <<>> /\ at = 0 /\ trouble = FALSE /\ result = {}
    /\ streamed = <<>> /\ target = <<>> /\ outcome = ""
    /\ calls = 0

\* Where the file of the client continues.
NextOffset == IF client = "stream" THEN Len(streamed) ELSE Len(target)

\* ErofsInode::read() up to the creation of the reader: past the end there is
\* nothing to read, and a size is cut to what is left.
BeginRead(offset, size) ==
    LET n == IF offset >= fields.size THEN 0 ELSE Min2(size, fields.size - offset)
    IN  /\ req' = [offset |-> offset, size |-> n]
        /\ got' = <<>> /\ at' = 0 /\ trouble' = FALSE
        /\ IF n = 0 THEN pc' = "returned" /\ result' = {0}
                    ELSE pc' = "reader" /\ result' = {}

\* A client calls read() on the entry.
CallRead ==
    /\ pc = "idle" /\ client # "write" /\ calls < MaxCalls
    /\ calls' = calls + 1
    /\ \E size \in ReadSizes, offset \in 0 .. fields.size :
            /\ client = "stream" => offset = NextOffset
            /\ BeginRead(offset, size)
    /\ UNCHANGED <<entryVars, readerVars, clientVars>>

\* writeTo() reads the next buffer of a file, or the whole of a symlink.
CallWriteTo ==
    /\ pc = "idle" /\ client = "write" /\ outcome = ""
    /\ fields.kind \in {"regular", "symlink"}
    /\ fields.kind = "regular" => NextOffset < fields.size
    /\ BeginRead(NextOffset, IF fields.kind = "regular" THEN BufferSize ELSE PathMax - 1)
    /\ UNCHANGED <<entryVars, readerVars, clientVars, calls>>

\* Mutant: a failed read is tried again
FailsAgain ==
    /\ result' = {} /\ pc' = "reader" /\ UNCHANGED <<req, at>>

\* The reader's false becomes -1.
Fails ==
    /\ result' = {-1} /\ pc' = "returned" /\ UNCHANGED <<req, at>>

\* The reader is made by the first read that needs it; a map that cannot be
\* read or does not parse leaves none, and the next read tries again.
CreateReader ==
    /\ pc = "reader"
    /\ LET flat == fields.dataFormat \in {"FlatPlain", "FlatInline"}
           built == mapOf[inode]
       IN  \/ /\ extents # {} \/ built # {}
              /\ extents' = IF extents = {} THEN built ELSE extents
              /\ pc' = IF flat THEN "flat" ELSE "find"
              /\ UNCHANGED callVars
           \/ /\ extents = {} /\ (built = {} \/ ~flat)
              /\ extents' = extents
              /\ trouble' = TRUE /\ Fails /\ UNCHANGED got
    /\ UNCHANGED <<entryVars, last, block, clientVars, calls>>

\* The bytes from up to before to of the file.
Slice(from, to) == [j \in 1 .. to - from |-> from + j - 1]

Succeeds(bytes) ==
    /\ got' = bytes /\ result' = {req.size} /\ pc' = "returned"
    /\ UNCHANGED <<req, at, trouble>>

\* Mutant: the tail is taken to hold the last block even when it is full
contigRoundedDown == ((fields.size - 1) \div BlockSize) * BlockSize

\* The bytes of an inline file that are in blocks; the others follow the inode.
contig == (fields.size \div BlockSize) * BlockSize

\* The image holds the first contig bytes in blocks and the rest behind the
\* inode: a byte read from the wrong one of the two is -1.
FlatBytes(from, to, inTail) ==
    [j \in 1 .. to - from |->
        LET p == from + j - 1
        IN  IF fields.dataFormat = "FlatInline"
               /\ inTail # (p >= (fields.size \div BlockSize) * BlockSize)
            THEN -1 ELSE p]

\* The flat readers: a plain one reads once, an inline one from the blocks, the
\* tail or both.
ReadFlat ==
    /\ pc = "flat"
    /\ LET end == req.offset + req.size
           c == IF fields.dataFormat = "FlatPlain" THEN fields.size ELSE contig
       IN  \/ Succeeds(IF end >= c
                       THEN FlatBytes(req.offset, IF c > req.offset THEN c ELSE req.offset, FALSE)
                            \o FlatBytes(IF c > req.offset THEN c ELSE req.offset, end, TRUE)
                       ELSE FlatBytes(req.offset, end, FALSE))
           \/ /\ trouble' = TRUE /\ Fails
              /\ got' \in {<<>>, FlatBytes(req.offset, IF c > req.offset /\ c <= end THEN c ELSE req.offset, FALSE)}
    /\ UNCHANGED <<entryVars, readerVars, clientVars, calls>>

FindExtent ==
    /\ pc = "find"
    /\ \E map \in extents :
        LET k == find(map, req.offset)
        IN  IF k = 0 THEN Fails /\ UNCHANGED <<got, trouble>>
            ELSE at' = k /\ pc' = "extent" /\ UNCHANGED <<req, got, trouble, result>>
    /\ UNCHANGED <<entryVars, readerVars, clientVars, calls>>

\* Where the next byte is within the extent, and how many the call wants of it.
InExtent(e) == IF got = <<>> THEN req.offset - e.offset ELSE 0
Wanted(e) == Min2(e.size - InExtent(e), req.size - Len(got))

\* After the bytes of an extent: the next one, or the end of the call.
Copied(bytes) ==
    /\ got' = got \o bytes
    /\ IF Len(got') = req.size
       THEN result' = {req.size} /\ pc' = "returned" /\ at' = at
       ELSE at' = at + 1 /\ pc' = "extent" /\ result' = result
    /\ UNCHANGED <<req, trouble>>

\* What a block holds: of an lz4 block, all of the extent decompressed.
BlockBytes(k) == Stored(inode, k)

\* A plain extent is read where it is.
ReadUncompressed ==
    /\ pc = "extent"
    /\ \E map \in extents :
        LET e == map[at]
        IN  /\ e.plain
            /\ \/ Copied(SubSeq(BlockBytes(e.block), InExtent(e) + 1, InExtent(e) + Wanted(e)))
               \/ trouble' = TRUE /\ Fails /\ UNCHANGED got
    /\ UNCHANGED <<entryVars, readerVars, clientVars, calls>>

\* An lz4 block that is the last one decompressed is copied from the buffer.
ReadCached ==
    /\ pc = "extent"
    /\ \E map \in extents :
        LET e == map[at]
        IN  /\ ~e.plain /\ last = e.block
            /\ Copied(SubSeq(block, InExtent(e) + 1, InExtent(e) + Wanted(e)))
    /\ UNCHANGED <<entryVars, readerVars, clientVars, calls>>

\* decompressLz4(): the block must decompress to the size of the extent.
Decompress(e) == IF Len(BlockBytes(e.block)) = e.size THEN {BlockBytes(e.block)} ELSE {}

\* Mutant: the buffer still counts as the old block while it is overwritten
InvalidateKeeps == last

\* The buffer is marked empty before a block is decompressed into it.
Invalidate == 0

\* Otherwise the block is read; a whole extent is decompressed straight into
\* the caller's buffer, a part of one through the buffer that is kept.
ReadLz4 ==
    /\ pc = "extent"
    /\ \E map \in extents :
        LET e == map[at]
            whole == InExtent(e) = 0 /\ Wanted(e) = e.size
        IN  /\ ~e.plain /\ last # e.block
            /\ \/ \E bytes \in Decompress(e) :
                    /\ IF whole THEN UNCHANGED <<last, block>>
                                ELSE last' = e.block /\ block' = bytes
                    /\ Copied(SubSeq(bytes, InExtent(e) + 1, InExtent(e) + Wanted(e)))
               \/ \* the read fails
                  trouble' = TRUE /\ Fails /\ UNCHANGED <<got, last, block>>
               \/ \* the block does not decompress
                  /\ trouble' = TRUE /\ Fails /\ UNCHANGED got
                  /\ IF whole THEN UNCHANGED <<last, block>>
                              ELSE last' = Invalidate /\ block' = [j \in 1 .. e.size |-> -1]
    /\ UNCHANGED <<entryVars, extents, clientVars, calls>>

\* read() of the entry: a positive result moves the offset.
ReturnRead ==
    /\ pc = "returned" /\ client # "write"
    /\ pc' = "idle"
    /\ streamed' = IF client = "stream" /\ result # {-1} THEN streamed \o got ELSE streamed
    /\ UNCHANGED <<entryVars, readerVars, callVars, target, outcome, calls>>

\* writeTo() after a read: an error, a size above the limit or a failing write
\* ends it and leaves what is written.
WriteChunk ==
    /\ pc = "returned" /\ client = "write"
    /\ pc' = "idle"
    /\ \/ /\ result = {-1} \/ got = <<>> \/ Len(target) + Len(got) > maxSize
          /\ outcome' = "error" /\ target' = target
       \/ /\ result # {-1} /\ got # <<>> /\ Len(target) + Len(got) <= maxSize
          /\ \/ \* write() is complete, or symlinkat() succeeds
                /\ target' = target \o got
                /\ outcome' = IF fields.kind = "symlink" THEN "ok" ELSE ""
             \/ \* write() fails or is short
                /\ \E n \in 0 .. Len(got) - 1 :
                    target' = IF fields.kind = "symlink" THEN target ELSE target \o SubSeq(got, 1, n)
                /\ outcome' = "error"
    /\ UNCHANGED <<entryVars, readerVars, callVars, streamed, calls>>

\* All is written; fchmod() may fail.  A directory is only made; an inode of
\* another type is not supported.
FinishWriteTo ==
    /\ pc = "idle" /\ client = "write" /\ outcome = ""
    /\ \/ fields.kind = "regular" /\ NextOffset >= fields.size /\ outcome' \in {"ok", "error"}
       \/ fields.kind = "directory" /\ outcome' \in {"ok", "error"}
       \/ fields.kind = "unknown" /\ outcome' = "error"
    /\ UNCHANGED <<entryVars, readerVars, pc, callVars, streamed, target, calls>>

Step == CreateReader \/ ReadFlat \/ FindExtent \/ ReadUncompressed \/ ReadCached \/ ReadLz4

Next ==
    \/ CallRead \/ CallWriteTo \/ Step \/ ReturnRead \/ WriteChunk \/ FinishWriteTo

\* What a caller of writeTo() waits for.
WriteStep == CallWriteTo \/ Step \/ WriteChunk \/ FinishWriteTo

Spec == Init /\ [][Next]_vars /\ WF_vars(WriteStep)

-----------------------------------------------------------------------------
(* Properties *)

\* The type invariant.
TypeOK ==
    /\ inode \in Inodes /\ Inode(inode)
    /\ pc \in {"idle", "reader", "flat", "find", "extent", "returned"}
    /\ req \in [offset : Nat, size : Nat]
    /\ last \in Nat /\ at \in Nat /\ trouble \in BOOLEAN
    /\ outcome \in {"", "ok", "error"}

\* A read that succeeds gives the bytes of the file that were asked for,
\* whatever was read before, from the cache or not, and whatever failed before.
\* A read fails only because the image could not be read, or because the inode
\* has a format that is not supported: never for an offset or a size
\* (ErofsInode::read() with its readers).
ReadsGiveFile ==
    /\ pc = "returned" /\ result \notin {{}, {-1}} =>
            got = Slice(req.offset, req.offset + req.size) /\ result = {req.size}
    /\ result = {-1} => trouble

\* The extents that are read from either form of index are the ones the image
\* was made with: they follow each other without a gap from the first byte to
\* the last, so that find() never leaves the map (ErofsExtentMap::add, find).
ExtentsCoverFile ==
    \A map \in extents : inode.format \in {"CompressedFull", "CompressedCompact"} =>
        map = [k \in DOMAIN inode.starts |->
                [plain |-> k \in inode.plain, offset |-> inode.starts[k],
                 size |-> EndOf(inode, k) - inode.starts[k], block |-> k]]

\* What a client gets in order is the file's beginning, and a result of 0 means
\* that it has had all of it; what writeTo() leaves is always a beginning of
\* the file, all of it when it succeeds (a symlink's target is cut at PATH_MAX),
\* and never more than the limit
\* (OCIErofsImageEntry::read, writeTo).
EntryComplete ==
    /\ streamed = Slice(0, Len(streamed))
    /\ client = "stream" /\ pc = "returned" /\ result = {0} /\ req.offset = fields.size =>
            Len(streamed) = fields.size
    /\ target = Slice(0, Len(target)) /\ Len(target) <= maxSize
    /\ outcome = "ok" =>
            Len(target) = CASE inode.kind = "regular" -> inode.size
                            [] inode.kind = "symlink" -> Min2(inode.size, PathMax - 1)
                            [] inode.kind = "directory" -> 0

\* writeTo() ends: every turn of its loop writes something or gives up.
WriteToEnds == client = "write" ~> outcome # ""
=============================================================================
