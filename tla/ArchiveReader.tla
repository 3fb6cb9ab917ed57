----------------------------- MODULE ArchiveReader -----------------------------
(***************************************************************************)
(* ArchiveReader and its entries (lib/archive/ArchiveReader.cpp,           *)
(* ArchiveEntries.cpp): the iteration over a tar or zip archive that       *)
(* returns every parent directory before its children, refuses paths       *)
(* within symlinks, checks entries against the signed digests, and shares  *)
(* one position in the archive with every entry object it has returned.    *)
(*                                                                         *)
(* libarchive is external: nextHeader answers with any header, the end of  *)
(* the archive or an error, and readData with the next chunk of the entry  *)
(* the archive is at, 0 at its end, or an error.                           *)
(* A path is the sequence of its components, already lexically normal; a   *)
(* trailing slash is a last component "".                                  *)
(***************************************************************************)
EXTENDS Integers, Sequences, FiniteSets

CONSTANTS
  Headers,                 \* the headers: [path, type, body, size]
  MaxHeaders,              \* bound of the model: headers in an archive
  MaxReads,                \* bound of the model: reads of one entry object
  BufferSizes,             \* the sizes of the buffers clients read into, in chunks
  DigestMaps,              \* the FileDigestMaps readers are created with
  NoDigests,               \* ... or none: the package is not verified
  sha256Digest(_),         \* the SHA256 of a body
  m_maxArchiveDirectories, \* MAX_DIRECTORY_COUNT
  MAX_SYMLINK_COUNT,
  MAX_PACKAGE_ENTRY_SIZE

ASSUME LimitsAssumption ==
  /\ MaxHeaders \in Nat /\ MaxReads \in Nat
  /\ BufferSizes \subseteq Nat
  /\ m_maxArchiveDirectories \in Nat
  /\ MAX_SYMLINK_COUNT \in Nat
  /\ MAX_PACKAGE_ENTRY_SIZE \in Nat

\* lexically_normal(): "." is a path of its own, a trailing slash is at the end.
NormalPath(path) ==
  \A i \in 1 .. Len(path) : path[i] \in {".", ""} => i = Len(path) /\ (path[i] = "." => i = 1)

ASSUME HeadersAssumption ==
  \A h \in Headers : /\ h.type \in {"directory", "regular", "symlink", "other"}
                     /\ h.path \in Seq(STRING) /\ h.body \in Seq(STRING)
                     /\ NormalPath(h.path)
                     /\ h.size \in Nat

ASSUME DigestsAssumption ==
  /\ NoDigests \notin DigestMaps
  /\ \A map \in DigestMaps : IsFiniteSet(DOMAIN map) /\ \A path \in DOMAIN map : map[path] # NoDigests

VARIABLES
  m_digests,          \* the digest map of this reader, or NoDigests
  m_fstreeRoot,       \* the directories returned or queued, as paths
  m_fstreeSize,
  m_entryStack,       \* entries queued behind their parent directories
  m_symlinks,         \* the paths of the symlinks met so far
  m_verifiedEntries,  \* entries met that have a signed digest
  error,              \* SharedReadState: the error code, or "none"
  endOfArchive,
  entryIndex,
  archive,            \* libarchive: the header it is at, and the chunks read
  walking,            \* next() is in its loop over the headers
  returned            \* the entry objects returned to the client, in order

readState == <<error, endOfArchive, entryIndex, archive>>
vars == <<m_digests, m_fstreeRoot, m_fstreeSize, m_entryStack, m_symlinks,
          m_verifiedEntries, readState, walking, returned>>

NoHeader == [path |-> <<>>, type |-> "other", body |-> <<>>, size |-> 0]

------------------------------------------------------------------------------
(* Paths *)

IsPrefixPath(p, q) == Len(p) <= Len(q) /\ \A i \in 1 .. Len(p) : p[i] = q[i]
ParentPath(path) == SubSeq(path, 1, Len(path) - 1)
HasFilename(path) == path[Len(path)] # ""
\* The elements of a sequence that are not in a set, in their order.
Excluding(seq, set) ==
  LET kept[i \in 0 .. Len(seq)] ==
        IF i = 0 THEN <<>>
        ELSE IF seq[i] \in set THEN kept[i - 1] ELSE Append(kept[i - 1], seq[i])
  IN  kept[Len(seq)]
\* The directories a path names, outermost first.
Named(path) == Excluding(path, {".", ""})
DirectoriesOf(path) == [i \in 1 .. Len(Named(path)) |-> SubSeq(Named(path), 1, i)]

\* verifyPackagePath: not empty, not absolute, no '..'.
VerifyPackagePath(path) ==
  /\ path # <<>>
  /\ \A i \in 1 .. Len(path) : path[i] \notin {"/", ".."}

\* Mutant: only the symlink's own path is refused.
IsSymLink(path) == path \in m_symlinks
WithinSymLink(path) == \E symlink \in m_symlinks : IsPrefixPath(symlink, path)

------------------------------------------------------------------------------
(* Entry objects.  read is what read() delivered and fed to the digest       *)
(* builder.  History: own is the body of the entry's header, answers what    *)
(* the reads with a buffer returned.                                         *)

Entry(type, path, index, digest, size, own) ==
  [type |-> type, path |-> path, index |-> index, digest |-> digest, size |-> size,
   eof |-> FALSE, read |-> <<>>, own |-> own, answers |-> {}, reads |-> 0]

DirectoryEntry(path) == Entry("directory", path, 0, NoDigests, 0, <<>>)

SignedDigest(path) ==
  IF m_digests = NoDigests \/ path \notin DOMAIN m_digests THEN NoDigests ELSE m_digests[path]

------------------------------------------------------------------------------
(* updateParentEntryStack: queue an entry for each directory not met before, *)
(* until there are too many.  verifyPackagePath has refused every '..'.      *)

NewDirectories(path) == Excluding(DirectoriesOf(path), m_fstreeRoot)
\* m_fstreeSize++ > m_maxArchiveDirectories, for the i-th new directory.
TooMany(i) == m_fstreeSize + i - 1 > m_maxArchiveDirectories
TooManyDirectories(path) == \E i \in 1 .. Len(NewDirectories(path)) : TooMany(i)
\* Mutant: only the innermost directory is queued.
QueuedInnermost(path) ==
  LET dirs == NewDirectories(path)
  IN  IF dirs = <<>> THEN <<>> ELSE <<DirectoryEntry(dirs[Len(dirs)])>>
QueuedParents(path) ==
  LET dirs == NewDirectories(path)
      fit  == Cardinality({i \in 1 .. Len(dirs) : ~TooMany(i)})
  IN  [i \in 1 .. fit |-> DirectoryEntry(dirs[i])]

UpdateTree(path) ==
  LET dirs  == NewDirectories(path)
      added == {i \in 1 .. Len(dirs) : i = 1 \/ ~TooMany(i - 1)}
  IN  /\ m_fstreeRoot' = m_fstreeRoot \cup {dirs[i] : i \in added}
      /\ m_fstreeSize' = m_fstreeSize + Cardinality(added)

------------------------------------------------------------------------------
(* next() *)

SetError(code) == error' = code

\* Nothing more after an error or the end.
NextNothing ==
  /\ ~walking
  /\ error # "none" \/ endOfArchive
  /\ UNCHANGED vars

\* A queued entry is returned first.
NextQueued ==
  /\ ~walking
  /\ error = "none" /\ ~endOfArchive
  /\ m_entryStack # <<>>
  /\ returned' = Append(returned, Head(m_entryStack))
  /\ m_entryStack' = Tail(m_entryStack)
  /\ UNCHANGED <<m_digests, m_fstreeRoot, m_fstreeSize, m_symlinks, m_verifiedEntries,
                 readState, walking>>

NextWalk ==
  /\ ~walking
  /\ error = "none" /\ ~endOfArchive
  /\ m_entryStack = <<>>
  /\ walking' = TRUE
  /\ UNCHANGED <<m_digests, m_fstreeRoot, m_fstreeSize, m_entryStack, m_symlinks,
                 m_verifiedEntries, readState, returned>>

\* Mutant: signed files that are missing are not noticed.
HeaderEofUnchecked ==
  /\ walking
  /\ endOfArchive' = TRUE
  /\ walking' = FALSE
  /\ UNCHANGED <<m_digests, m_fstreeRoot, m_fstreeSize, m_entryStack, m_symlinks,
                 m_verifiedEntries, error, entryIndex, archive, returned>>

\* nextHeader: ARCHIVE_EOF.
HeaderEof ==
  /\ walking
  /\ endOfArchive' = TRUE
  /\ SetError(IF m_digests # NoDigests /\ Cardinality(DOMAIN m_digests) # m_verifiedEntries
              THEN "PackageSignatureInvalid" ELSE "none")
  /\ walking' = FALSE
  /\ UNCHANGED <<m_digests, m_fstreeRoot, m_fstreeSize, m_entryStack, m_symlinks,
                 m_verifiedEntries, entryIndex, archive, returned>>

\* nextHeader: an error.
HeaderFails ==
  /\ walking
  /\ SetError("PackageContentsInvalid")
  /\ walking' = FALSE
  /\ UNCHANGED <<m_digests, m_fstreeRoot, m_fstreeSize, m_entryStack, m_symlinks,
                 m_verifiedEntries, endOfArchive, entryIndex, archive, returned>>

\* nextHeader: a header.  The archive has moved on, whatever becomes of the
\* header, so entries returned before can no longer read.
MoveTo(h) ==
  /\ walking /\ entryIndex < MaxHeaders
  /\ entryIndex' = entryIndex + 1
  /\ archive' = [header |-> h, read |-> 0]
  /\ UNCHANGED <<m_digests, endOfArchive>>

InvalidPath(h) == ~VerifyPackagePath(h.path) \/ WithinSymLink(h.path)

\* The path is not one a package may contain, or is within a symlink.
HeaderInvalid(h) ==
  /\ InvalidPath(h)
  /\ MoveTo(h)
  /\ SetError("PackageInvalidEntry")
  /\ walking' = FALSE
  /\ UNCHANGED <<m_fstreeRoot, m_fstreeSize, m_entryStack, m_symlinks, m_verifiedEntries,
                 returned>>

\* A directory: queue it and its parents, and return the first of them.  One
\* that was returned before is skipped.
HeaderDirectory(h) ==
  LET queue == QueuedParents(h.path) IN
  /\ h.type = "directory" /\ ~InvalidPath(h)
  /\ MoveTo(h)
  /\ UpdateTree(h.path)
  /\ SetError(IF TooManyDirectories(h.path) THEN "PackageContentsInvalid" ELSE error)
  /\ \/ /\ queue = <<>>
        /\ walking' = ~TooManyDirectories(h.path)
        /\ UNCHANGED <<m_entryStack, returned>>
     \/ /\ queue # <<>>
        /\ returned' = Append(returned, Head(queue))
        /\ m_entryStack' = Tail(queue)
        /\ walking' = FALSE
  /\ UNCHANGED <<m_symlinks, m_verifiedEntries>>

\* createEntry and the entries' create: why a file or symlink is refused.
Signed(h) == m_digests = NoDigests \/ h.path \in DOMAIN m_digests
CreateError(h) ==
  IF h.type \in {"regular", "symlink"} /\ ~Signed(h) THEN "PackageSignatureInvalid"
  ELSE IF h.type = "other" THEN "PackageInvalidEntry"
  ELSE IF h.type = "symlink" /\ h.body = <<>> THEN "PackageInvalidEntry"
  ELSE IF /\ h.type = "symlink" /\ m_digests # NoDigests
          /\ m_digests[h.path] # sha256Digest(h.body) THEN "PackageSignatureInvalid"
  ELSE IF h.type = "regular" /\ h.size > MAX_PACKAGE_ENTRY_SIZE THEN "PackageContentsInvalid"
  ELSE "none"

TooManySymlinks(h) == h.type = "symlink" /\ Cardinality(m_symlinks) >= MAX_SYMLINK_COUNT

\* A file or symlink.  Its parents not returned before come first and the
\* entry waits behind them.
HeaderFile(h) ==
  LET parents  == IF Len(h.path) > 1 THEN QueuedParents(ParentPath(h.path)) ELSE <<>>
      tooMany  == Len(h.path) > 1 /\ TooManyDirectories(ParentPath(h.path))
      refused  == IF ~HasFilename(h.path) THEN "PackageInvalidEntry"
                  ELSE IF TooManySymlinks(h) THEN "PackageContentsInvalid"
                  ELSE IF CreateError(h) # "none" THEN CreateError(h)
                  ELSE IF tooMany THEN "PackageContentsInvalid"
                  ELSE "none"
      queue    == parents \o <<Entry(h.type, h.path, entryIndex', SignedDigest(h.path),
                                      IF h.type = "symlink" THEN Len(h.body) ELSE h.size,
                                      h.body)>>
  IN
  /\ h.type # "directory" /\ ~InvalidPath(h)
  /\ MoveTo(h)
  /\ walking' = FALSE
  /\ IF HasFilename(h.path) /\ Len(h.path) > 1
     THEN UpdateTree(ParentPath(h.path))
     ELSE UNCHANGED <<m_fstreeRoot, m_fstreeSize>>
  /\ m_symlinks' = IF h.type = "symlink" /\ HasFilename(h.path) /\ ~TooManySymlinks(h)
                   THEN m_symlinks \cup {h.path} ELSE m_symlinks
  /\ m_verifiedEntries' = IF /\ HasFilename(h.path) /\ ~TooManySymlinks(h)
                             /\ m_digests # NoDigests /\ Signed(h)
                             /\ h.type \in {"regular", "symlink"}
                          THEN m_verifiedEntries + 1 ELSE m_verifiedEntries
  /\ SetError(refused)
  /\ IF refused = "none"
     THEN returned' = Append(returned, Head(queue)) /\ m_entryStack' = Tail(queue)
     ELSE m_entryStack' = (IF HasFilename(h.path) THEN parents ELSE <<>>) /\ UNCHANGED returned

------------------------------------------------------------------------------
(* ArchiveFileEntry::read *)

\* checkReadState: the archive has no error and is still at this entry.
\* Mutant: an entry reads whatever the archive is at.
CheckErrorOnly(entry) == error = "none"
CheckReadState(entry) == error = "none" /\ ~endOfArchive /\ entryIndex = entry.index

\* What read() returns, once libarchive returned rd: the end of the entry is
\* when its digest is compared.
ReadAnswer(entry, rd, chunks) ==
  IF rd = "eof" /\ entry.digest # NoDigests /\ sha256Digest(chunks) # entry.digest
  THEN "mismatch" ELSE rd

\* A read() with a buffer of n bytes.  A buffer holds a chunk; libarchive
\* returns 0 for an empty one as it does at the end.
ReadEntry(i, n) ==
  LET entry  == returned[i]
      body   == archive.header.body
      rd     == IF n > 0 /\ archive.read < Len(body) THEN "data" ELSE "eof"
      chunks == IF rd = "data" THEN Append(entry.read, body[archive.read + 1]) ELSE entry.read
      Answer(value) == [entry EXCEPT !.answers = IF n > 0 THEN @ \cup {value} ELSE @,
                                     !.reads = @ + 1]
  IN
  /\ ~walking /\ entry.type = "regular" /\ entry.reads < MaxReads
  /\ \/ /\ ~CheckReadState(entry)
        /\ returned' = [returned EXCEPT ![i] = Answer("error")]
        /\ UNCHANGED readState
     \/ /\ CheckReadState(entry) /\ entry.eof
        /\ returned' = [returned EXCEPT ![i] = Answer("eof")]
        /\ UNCHANGED readState
     \/ /\ CheckReadState(entry) /\ ~entry.eof
        /\ returned' = [returned EXCEPT ![i] = [Answer(ReadAnswer(entry, rd, chunks)) EXCEPT
                                                 !.eof = (rd = "eof"), !.read = chunks]]
        /\ archive' = [archive EXCEPT !.read = IF rd = "data" THEN @ + 1 ELSE @]
        /\ UNCHANGED <<error, endOfArchive, entryIndex>>
     \/ /\ CheckReadState(entry) /\ ~entry.eof
        /\ SetError("PackageContentsInvalid")
        /\ returned' = [returned EXCEPT ![i] = Answer("error")]
        /\ UNCHANGED <<endOfArchive, entryIndex, archive>>
  /\ UNCHANGED <<m_digests, m_fstreeRoot, m_fstreeSize, m_entryStack, m_symlinks,
                 m_verifiedEntries, walking>>

------------------------------------------------------------------------------
Init ==
  /\ m_digests \in DigestMaps \cup {NoDigests}
  /\ m_fstreeRoot = {}
  /\ m_fstreeSize = 0
  /\ m_entryStack = <<>>
  /\ m_symlinks = {}
  /\ m_verifiedEntries = 0
  /\ error = "none"
  /\ endOfArchive = FALSE
  /\ entryIndex = 0
  /\ archive = [header |-> NoHeader, read |-> 0]
  /\ walking = FALSE
  /\ returned = <<>>

HeaderStep ==
  \/ HeaderEof
  \/ HeaderFails
  \/ \E h \in Headers : HeaderInvalid(h) \/ HeaderDirectory(h) \/ HeaderFile(h)

NextStep == NextNothing \/ NextQueued \/ NextWalk \/ HeaderStep

Next ==
  \/ NextStep
  \/ \E i \in 1 .. Len(returned), n \in BufferSizes : ReadEntry(i, n)

Spec == Init /\ [][Next]_vars

------------------------------------------------------------------------------
(* Properties *)

Digests == {NoDigests} \cup UNION {{map[path] : path \in DOMAIN map} : map \in DigestMaps}

EntryTypes ==
  [type : {"directory", "regular", "symlink"}, path : Seq(STRING), index : 0 .. MaxHeaders,
   digest : Digests, size : Nat, eof : BOOLEAN, read : Seq(STRING), own : Seq(STRING),
   answers : SUBSET {"data", "eof", "mismatch", "error"}, reads : 0 .. MaxReads]

TypeOK ==
  /\ m_digests \in DigestMaps \cup {NoDigests}
  /\ m_fstreeRoot \subseteq Seq(STRING)
  /\ m_fstreeSize \in Nat /\ m_verifiedEntries \in Nat
  /\ m_entryStack \in Seq(EntryTypes) /\ returned \in Seq(EntryTypes)
  /\ entryIndex \in 0 .. MaxHeaders
  /\ error \in {"none", "PackageInvalidEntry", "PackageContentsInvalid",
                "PackageSignatureInvalid"}
  /\ endOfArchive \in BOOLEAN /\ walking \in BOOLEAN
  /\ archive \in [header : Headers \cup {NoHeader}, read : Nat]
  /\ archive.read \in 0 .. Len(archive.header.body)
  /\ m_symlinks \subseteq {h.path : h \in Headers}

\* "The reader is guaranteed to give you the parent directory entries of a
\* file or symlink entry before the actual file or symlink entry", also when
\* the archive lists children first, repeats directories or lists no
\* directory at all.
ParentsFirst ==
  \A i \in 1 .. Len(returned) :
    \A k \in 1 .. Len(DirectoriesOf(ParentPath(returned[i].path))) :
      \E j \in 1 .. i - 1 :
        /\ returned[j].type = "directory"
        /\ returned[j].path = DirectoriesOf(ParentPath(returned[i].path))[k]

\* Each directory is returned once.
DirectoriesOnce ==
  \A i, j \in 1 .. Len(returned) :
    returned[i].type = "directory" /\ returned[j] .type = "directory"
      /\ returned[i].path = returned[j].path => i = j

\* A directory is returned once and before everything in it, in whatever order the
\* archive lists them.
DirectoryOrder == ParentsFirst /\ DirectoriesOnce

\* No entry follows a symlink it would be written through.
NothingWithinSymlinks ==
  \A i, j \in 1 .. Len(returned) :
    i < j /\ returned[i].type = "symlink" => ~IsPrefixPath(returned[i].path, returned[j].path)

\* An entry object reads its own data or nothing: objects the client kept from
\* earlier calls of next(), and objects queued behind their parents, never
\* return bytes of another entry of the archive.
ReadsOwnData ==
  \A i \in 1 .. Len(returned) : IsPrefixPath(returned[i].read, returned[i].own)

\* read() returns 0 once the whole entry was read ("the number of bytes read or
\* 0 if reached the end of the entry").
EofIsEnd ==
  \A i \in 1 .. Len(returned) :
    "eof" \in returned[i].answers => returned[i].read = returned[i].own

\* An entry with a signed digest ends without an error only if its contents
\* match, until a read has reported the mismatch.
EndIsVerified ==
  \A i \in 1 .. Len(returned) :
    LET entry == returned[i] IN
    "eof" \in entry.answers /\ "mismatch" \notin entry.answers /\ entry.digest # NoDigests =>
      sha256Digest(entry.read) = entry.digest

\* What a client reads through any entry object it has kept: the entry's own data,
\* all of it before the end, and the end only when it matches the signed digest.
EntryReads == ReadsOwnData /\ EofIsEnd /\ EndIsVerified

\* ... but a read repeated after the mismatch should not report the end either.
EndIsAlwaysVerified ==
  \A i \in 1 .. Len(returned) :
    "eof" \in returned[i].answers /\ returned[i].digest # NoDigests =>
      sha256Digest(returned[i].read) = returned[i].digest

\* With a digest map, every file and symlink returned is one of the map.
OnlySignedFiles ==
  \A i \in 1 .. Len(returned) :
    m_digests # NoDigests /\ returned[i].type # "directory" =>
      /\ returned[i].path \in DOMAIN m_digests
      /\ returned[i].digest = m_digests[returned[i].path]

\* "The maximum number of symlinks allowed in an archive", counted over
\* everything the reader returned or queued.
SymlinkLimit ==
  Cardinality({i \in 1 .. Len(returned) : returned[i].type = "symlink"}) <= MAX_SYMLINK_COUNT

\* "The maximum number of directories allowed in a archive".
DirectoryLimit ==
  Cardinality({i \in 1 .. Len(returned) : returned[i].type = "directory"}) <= m_maxArchiveDirectories

NoPathRepeated ==
  \A i, j \in 1 .. Len(returned) :
    i # j /\ returned[i].type # "directory" /\ returned[j].type # "directory" =>
      returned[i].path # returned[j].path

\* Without an error, the end of a verified archive means that every signed
\* file was in it.
AllSignedFilesFound ==
  endOfArchive /\ error = "none" /\ m_digests # NoDigests =>
    \A path \in DOMAIN m_digests :
      \E i \in 1 .. Len(returned) : returned[i].path = path /\ returned[i].type # "directory"

\* ... which holds as long as the archive has no path twice: the reader counts
\* the signed entries it meets.
AllSignedFilesFoundOnce == NoPathRepeated => AllSignedFilesFound

\* The files of a verified package are those that are signed: none but them is
\* returned, and none of them is missing at the end.
SignedFiles == OnlySignedFiles /\ AllSignedFilesFoundOnce
=============================================================================
