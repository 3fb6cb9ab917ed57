------------------------ MODULE OCIArchiveBackingStore ------------------------
(***************************************************************************)
(* The files of an OCI package in a tar or zip archive                     *)
(* (lib/oci/OCIArchiveBackingStore.cpp on                                  *)
(* lib/archive/LibarchiveFileReader.cpp): a cache of the small files,      *)
(* readers that walk a clone of the archive, and ranges of the archive     *)
(* file that can be mapped.                                                *)
(*                                                                         *)
(* An archive is a sequence of headers, each followed by its data; sizes   *)
(* are in units of which a header and the padding of tar take Block. A tar *)
(* entry is any number of extension headers and then the header of the     *)
(* file or directory; its position is that of the first of them. Parsing   *)
(* is libarchive's, which is external. The archive does not change, but    *)
(* reading it can fail at any time.                                        *)
(***************************************************************************)
EXTENDS Integers, Sequences, FiniteSetsExt

CONSTANTS
    Paths,      \* paths of the files in the archive
    Archives,   \* the archives the store may be opened on
    Block,      \* size of a header, and what tar rounds data up to
    Threshold,  \* cacheThreshold
    CacheSpace, \* the initial cacheSpace
    Readers,    \* names for the readers that getFile() returns
    MaxFds      \* how many clones are made

\* kind: "ext", "dir" or "file"; packed: the data is compressed (zip only)
Header == [kind : {"ext", "dir", "file"}, path : Paths, size : Nat, packed : BOOLEAN]

\* What the constants are; a zip has no extension headers.
StoreConstants ==
    /\ "none" \notin Paths
    /\ \A a \in Archives :
          /\ a.format \in {"tar", "tgz", "zip"} /\ a.headers \in Seq(Header)
          /\ a.format = "zip" => \A i \in DOMAIN a.headers : a.headers[i].kind # "ext"
    /\ Block \in Nat \ {0} /\ Threshold \in Nat /\ CacheSpace \in Nat /\ MaxFds \in Nat

VARIABLES
    archive, \* the archive file
    phase,   \* "caching" (the constructor) or "open"
    space,   \* cacheSpace
    cache,   \* m_cache: path -> [entry, size], the first size units of an entry
    clones,  \* the archive readers by descriptor: [entry, pos]; 0 is m_archive
    readers, \* [Readers -> what getFile() returned, and what read() has given]
    answer,  \* what the last call returned, if it was readFile() or getMappableFile()
    failed,  \* whether a read from the archive has failed
    fds      \* the open descriptors of the store and its clones

vars == <<archive, phase, space, cache, clones, readers, answer, failed, fds>>

Headers == archive.headers

\* The entries: positions of the headers that are no extension headers.
IsEntry(i) == Headers[i].kind # "ext"

IsFile(i) == Headers[i].kind = "file"

NoAnswer == [op |-> "none", path |-> "none", entry |-> 0, size |-> 0]

NoReader == [kind |-> "none", entry |-> 0, path |-> "none", pos |-> 0, clone |-> 0, got |-> <<>>]

(***************************************************************************)
(* The layout of the archive file                                          *)
(***************************************************************************)

RoundUp(n) == ((n + Block - 1) \div Block) * Block

\* The data of a header takes up whole blocks in a tar, and no padding in a zip.
DataSpace(i) == IF archive.format = "zip" THEN Headers[i].size ELSE RoundUp(Headers[i].size)

\* Where each header is.
HeaderOffset[i \in 0..Len(Headers)] ==
    IF i <= 1 THEN 0 ELSE HeaderOffset[i - 1] + Block + DataSpace(i - 1)

\* The first header of the entry whose last header is i.
FirstHeader(i) ==
    CHOOSE j \in 1..i : /\ \A k \in j..(i - 1) : ~IsEntry(k)
                        /\ j = 1 \/ IsEntry(j - 1)

\* archive_read_header_position()
HeaderPosition(i) == HeaderOffset[FirstHeader(i)]

\* What pread() finds at an offset: a header, or 0.
HeaderAt(offset) ==
    LET at == {i \in DOMAIN Headers : HeaderOffset[i] = offset}
    IN  IF at = {} THEN 0 ELSE CHOOSE i \in at : TRUE

\* Mutant: an entry has one header
TarSingleHeader(start) == start + Block

\* The loop of getTarArchiveEntryMappableFile(): extension headers are skipped
\* by the size they state. Gives the offset of the data, or 0 for an error.
TarDataOffset(start) ==
    LET walk[n \in 0..Len(Headers)] == [offset \in Nat |->
            LET i == HeaderAt(offset)
            IN  IF n = 0 \/ i = 0 \/ Headers[i].size = 0 THEN 0
                ELSE IF Headers[i].kind = "file" THEN offset + Block
                ELSE IF Headers[i].kind = "ext"
                     THEN walk[n - 1][offset + Block + RoundUp(Headers[i].size)]
                ELSE 0]
    IN  walk[Len(Headers)][start]

\* getZipArchiveEntryMappableFile(): only data that is stored.
ZipDataOffset(start) ==
    LET i == HeaderAt(start)
    IN  IF i = 0 \/ Headers[i].packed \/ Headers[i].size = 0 THEN 0 ELSE start + Block

(***************************************************************************)
(* The constructor                                                         *)
(***************************************************************************)

\* readArchiveFileEntry() returns what it has read before a read fails.
ReadLengths(i) == IF failed' THEN 0..Headers[i].size ELSE {Headers[i].size}

CachesFile(i) ==
    /\ IsFile(i) /\ Headers[i].size > 0
    /\ Headers[i].size <= Threshold /\ Headers[i].size <= space
    /\ Headers[i].path \notin DOMAIN cache

CachePut(p, content) == [q \in DOMAIN cache \union {p} |-> IF q = p THEN content ELSE cache[q]]

\* What is subtracted from the space: the size of a vector that has been moved
\* from, which is empty.
Charged(size) == 0

\* One turn of the loop in cacheSmallFiles().
CacheSmallFile ==
    /\ phase = "caching" /\ clones[0].entry < Len(Headers)
    /\ LET i == clones[0].entry + 1
       IN  /\ clones' = [clones EXCEPT ![0].entry = i]
           /\ IF CachesFile(i)
              THEN /\ failed' \in {failed, TRUE}
                   /\ \E n \in ReadLengths(i) :
                         /\ cache' = CachePut(Headers[i].path, [entry |-> i, size |-> n])
                         /\ space' = space - Charged(n)
              ELSE UNCHANGED <<cache, space, failed>>
    /\ UNCHANGED <<archive, phase, readers, answer, fds>>

\* The loop ends at the end of the archive, or when a header cannot be read.
EndCaching ==
    /\ phase = "caching"
    /\ phase' = "open"
    /\ failed' = (failed \/ clones[0].entry < Len(Headers))
    /\ UNCHANGED <<archive, space, cache, clones, readers, answer, fds>>

(***************************************************************************)
(* Walking a clone                                                         *)
(***************************************************************************)

FreshFd == Cardinality(DOMAIN clones)

\* The entry of a path that the walk stops at, if no read fails before.
Found(p) == {i \in DOMAIN Headers :
                /\ IsFile(i) /\ Headers[i].path = p
                /\ \A j \in 1..(i - 1) : ~(IsFile(j) /\ Headers[j].path = p)}

CloneAt(fd, entry) ==
    [c \in DOMAIN clones \union {fd} |-> IF c = fd THEN [entry |-> entry, pos |-> 0] ELSE clones[c]]

\* Mutant: the readers walk m_archive
SharedFd == 0

\* The descriptor of the clone a reader walks.
ReaderFd == FreshFd

\* clone(): the descriptor is duplicated, then libarchive opens the archive.
\* When that fails the object forgets the descriptor.
CloneFails ==
    /\ phase = "open" /\ FreshFd <= MaxFds
    /\ fds' = fds \union {FreshFd}
    /\ clones' = CloneAt(FreshFd, 0)
    /\ failed' = TRUE
    /\ answer' = NoAnswer
    /\ UNCHANGED <<archive, phase, space, cache, readers>>

Fits(size, max) == size <= max

\* readFile(): the cache, or a clone that is closed again.
ReadFile(p, max) ==
    /\ phase = "open"
    /\ IF p \in DOMAIN cache
       THEN /\ answer' = IF Fits(cache[p].size, max)
                         THEN [op |-> "read", path |-> p, entry |-> cache[p].entry, size |-> cache[p].size] ELSE NoAnswer
            /\ UNCHANGED failed
       ELSE \/ \E i \in Found(p) :
                  /\ Fits(Headers[i].size, max)
                  /\ failed' \in {failed, TRUE}
                  /\ \E n \in ReadLengths(i) :
                        answer' = [op |-> "read", path |-> p, entry |-> i, size |-> n]
            \/ /\ Found(p) = {} \/ \A i \in Found(p) : ~Fits(Headers[i].size, max)
               /\ answer' = NoAnswer
               /\ UNCHANGED failed
            \/ /\ answer' = NoAnswer
               /\ failed' = TRUE
    /\ UNCHANGED <<archive, phase, space, cache, clones, readers, fds>>

\* getFile(): a reader of the cached contents, or of an entry of a clone.
GetFile(r, p) ==
    /\ phase = "open" /\ readers[r].kind = "none"
    /\ IF p \in DOMAIN cache
       THEN /\ readers' = [readers EXCEPT ![r] = [NoReader EXCEPT
                              !.kind = "buffer", !.path = p, !.entry = cache[p].entry]]
            /\ UNCHANGED <<clones, fds>>
       ELSE /\ FreshFd <= MaxFds
            /\ \E i \in Found(p) :
                  /\ readers' = [readers EXCEPT ![r] = [NoReader EXCEPT
                                    !.kind = "entry", !.path = p, !.entry = i, !.clone = ReaderFd]]
                  /\ clones' = CloneAt(ReaderFd, i)
                  /\ fds' = fds \union {ReaderFd}
    /\ answer' = NoAnswer
    /\ UNCHANGED <<archive, phase, space, cache, failed>>

\* read(): one unit, where the reader or its clone is.
ReadSome(r) ==
    /\ readers[r].kind # "none"
    /\ LET rd == readers[r]
           c == clones[rd.clone]
       IN  \/ /\ rd.kind = "buffer" /\ rd.pos < cache[rd.path].size
              /\ readers' = [readers EXCEPT ![r].pos = @ + 1,
                                ![r].got = Append(@, <<rd.entry, rd.pos>>)]
              /\ UNCHANGED <<clones, failed>>
           \/ /\ rd.kind = "entry" /\ c.pos < Headers[c.entry].size
              /\ clones' = [clones EXCEPT ![rd.clone].pos = @ + 1]
              /\ readers' = [readers EXCEPT ![r].got = Append(@, <<c.entry, c.pos>>)]
              /\ UNCHANGED failed
    /\ answer' = NoAnswer
    /\ UNCHANGED <<archive, phase, space, cache, fds>>

\* A reader is destroyed, and closes the descriptor of its clone.
CloseReader(r) ==
    /\ readers[r].kind # "none"
    /\ readers' = [readers EXCEPT ![r] = NoReader]
    /\ fds' = IF readers[r].kind = "entry" THEN fds \ {readers[r].clone} ELSE fds
    /\ answer' = NoAnswer
    /\ UNCHANGED <<archive, phase, space, cache, clones, failed>>

\* The data of the entry as a range of the archive file. The descriptor that
\* goes with it is another duplicate, closed with the OCIMappableFile.
DataOffset(i) ==
    IF archive.format = "zip" THEN ZipDataOffset(HeaderPosition(i))
    ELSE TarDataOffset(HeaderPosition(i))

GetMappableFile(p) ==
    /\ phase = "open" /\ archive.format # "tgz"
    /\ \E i \in Found(p) :
          /\ Headers[i].size > 0
          /\ DataOffset(i) # 0
          /\ answer' = [op |-> "map", path |-> p, offset |-> DataOffset(i), size |-> Headers[i].size]
    /\ UNCHANGED <<archive, phase, space, cache, clones, readers, failed, fds>>

(***************************************************************************)
(* The specification                                                       *)
(***************************************************************************)

Init ==
    /\ archive \in Archives
    /\ phase = "caching"
    /\ space = CacheSpace
    /\ cache = <<>>
    /\ clones = [c \in {0} |-> [entry |-> 0, pos |-> 0]]
    /\ readers = [r \in Readers |-> NoReader]
    /\ answer = NoAnswer
    /\ failed = FALSE
    /\ fds = {0}

Next ==
    \/ CacheSmallFile \/ EndCaching
    \/ CloneFails
    \/ \E p \in Paths, max \in {Threshold, CacheSpace} : ReadFile(p, max)
    \/ \E r \in Readers, p \in Paths : GetFile(r, p)
    \/ \E r \in Readers : ReadSome(r) \/ CloseReader(r)
    \/ \E p \in Paths : GetMappableFile(p)

Spec == Init /\ [][Next]_vars

(***************************************************************************)
(* Properties                                                              *)
(***************************************************************************)

TypeOK ==
    /\ archive \in Archives
    /\ phase \in {"caching", "open"}
    /\ space \in 0..CacheSpace
    /\ DOMAIN cache \subseteq Paths
    /\ \A p \in DOMAIN cache : cache[p].entry \in DOMAIN Headers /\ cache[p].size \in 0..Threshold
    /\ 0 \in DOMAIN clones
    /\ \A c \in DOMAIN clones : clones[c].entry \in 0..Len(Headers)
    /\ DOMAIN readers = Readers
    /\ \A r \in Readers : readers[r].clone \in DOMAIN clones
    /\ failed \in BOOLEAN
    /\ fds \subseteq DOMAIN clones

(* A range that getMappableFile() returned for a path is the data of the    *)
(* entry of that path, whatever extension headers of whatever size precede  *)
(* it and whatever comes before it in the archive.                          *)
MappedIsEntry ==
    answer.op = "map" => \E i \in Found(answer.path) :
        answer.offset = HeaderOffset[i] + Block /\ answer.size = Headers[i].size

(* However the read() calls on several readers of one store interleave, and *)
(* whichever of them are closed meanwhile, each reader gives the data of    *)
(* its own entry, in order and without gaps.                                *)
ReadersInOrder ==
    \A r \in Readers : \A k \in DOMAIN readers[r].got :
        readers[r].got[k] = <<readers[r].entry, k - 1>>

OnlyOnce(p) == Cardinality({i \in DOMAIN Headers : IsFile(i) /\ Headers[i].path = p}) = 1

(* A path that is in the archive once stands for one and the same file,     *)
(* whether it comes from the cache or from the archive and by which call;   *)
(* and unless a read has failed, readFile() and the cache have all of it.   *)
SameFileEveryWay ==
    \A p \in Paths : OnlyOnce(p) =>
        LET i == CHOOSE i \in Found(p) : TRUE
            Whole(f) == f.entry = i /\ (failed \/ f.size = Headers[i].size)
        IN  /\ p \in DOMAIN cache => Whole(cache[p])
            /\ (answer.op = "read" /\ answer.path = p) => Whole(answer)
            /\ \A r \in Readers : readers[r].path = p => readers[r].entry = i

(* "The maximum space available in the cache" (cacheSmallFiles): the cached *)
(* files take no more than it.                                              *)
CacheWithinSpace ==
    MapThenSumSet(LAMBDA p : cache[p].size, DOMAIN cache) <= CacheSpace

(* "The file descriptor is still owned by this object, and will be closed   *)
(* when the object is destroyed" (LibarchiveFileReader::fd): the open       *)
(* descriptors are those of the store and of the readers there are.         *)
DescriptorsOwned ==
    fds \subseteq {0} \union {readers[r].clone : r \in {x \in Readers : readers[x].kind = "entry"}}

===============================================================================
