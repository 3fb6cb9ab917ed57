# A TLA+ model of ralf-utils

ralf-utils is a C++ library (and tools) that opens, verifies, reads, extracts and
mounts application packages. A package is an OCI artifact (a directory, tar or
zip of content-addressed blobs with a signed manifest, whose image layer is an
EROFS image with a dm-verity hash tree, or a tar or zip) or a W3C widget (a zip with an XML
signature that lists digests). Everything the library hands to its clients under
a verification bundle is meant to go back to a trusted signature, although files
can be damaged or rewritten while they are open, calls fail, and several
processes work on one kernel.

This directory holds the modules, the TLC configurations that check them on small
instances, and machine-checked proofs. `PROJECT.json` lists components, runs,
theorems, the source lines behind each definition, and the hazards the
properties are for.

    tlc -config DmVerityRead.cfg MCDmVerity      # one run: a cfg and its MC module
    tlapm DmVerity_proofs.tla                    # proofs: the modules *_proofs, and Induction

Definitions with a comment that begins with `Mutant:` are not used by any specification.
Each is a plausible mistake in the definition named beside it in `PROJECT.json`;
with it in place TLC finds the property violated, which shows that the property
can tell the code from the mistake.

## The parts of the system

| Part | State it keeps | Operations | Module |
|---|---|---|---|
| dm-verity verifier, `lib/dm-verity/DmVerityVerifier.cpp` | layers of the hash tree, a cache of verified hash blocks per layer | open, verify (recursive verifyBlock) | `DmVerityVerifier` |
| dm-verity protected file, `DmVerityProtectedFile.cpp` | the last verified block | open, read, size, close | `DmVerityProtectedFile`, promise in `AuthenticFile` |
| dm-verity geometry: superblock and ranges in mounter and verifier | none | the checks before an image is mounted or read | `VerityGeometry` |
| dm-verity mounter, `DmVerityMounterLinux.cpp`, `DevMapper.cpp`, `UDevNotifySemaphore.cpp`, `DmVerityMount.cpp` | loop devices, mapped devices, semaphores, mounts (in the kernel); the mount object | mount, unmount, detach, status, destructor | `DmVerityMounter` |
| EROFS reader, `lib/erofs/ErofsReader.cpp` | queue of directories, current directory, block buffer | create, hasNext, next | `ErofsReader` |
| EROFS data, `ErofsInode.cpp`, `ErofsExtentMap.cpp`, the data readers, `lib/oci/OCIErofsImageEntry.cpp` | extents, one decompressed block, the entry's position | open, read, writeTo | `ErofsData` |
| archive reader, `lib/archive/ArchiveReader.cpp`, `ArchiveEntries.cpp` | directories seen, queued entries, symlinks, verified entries, shared position | next, read | `ArchiveReader` |
| extraction, `lib/core/Package.cpp`, `Utils.cpp`, `writeTo` of entries | totals, directory times, the target directory | extractTo | `PackageExtract` |
| OCI package, `lib/oci/OCIPackage.cpp`, `OCIDescriptor.cpp`, `OCIDirBackingStore.cpp` | manifests, cached config and meta data | open, metaData, auxMetaDataFile, createReader, mount, verify | `OCIPackage` |
| OCI image layer reader, `OCIArchiveImageLayerReader.cpp` | running digest, position | read and skip callbacks, next | `OCIImageLayerReader` |
| OCI archive backing store, `OCIArchiveBackingStore.cpp`, `LibarchiveFileReader.cpp` | cache of small files, index, clones, descriptors | getFile, mapped ranges, readers | `OCIArchiveBackingStore` |
| W3C package, `lib/w3c-widget/W3CPackage.cpp`, `W3CPackageMetaDataBuilder.cpp` | digests, cached meta data under a lock | open, verify, metaData, auxMetaDataFile | `W3CPackage` |
| versions and constraints, `lib/core/VersionNumber.cpp`, `VersionConstraint.cpp` | none | parse, compare, increment, satisfied | `Versions` |
| meta data, `PackageMetaData.h`, `W3CPackageMetaDataImpl.cpp`, `OCIPackageMetaDataImpl.cpp` | the fields of a package's meta data | one handler per element, capability, field and configuration | `MetaData`, `W3CPackageMetaData`, `OCIPackageMetaData` |
| writers of unwgt, `tools/unwgt/configxml.cpp`, `configspec.cpp` | none | meta data to config.xml and to config JSON | `ConfigWriters`; reading and writing are composed in `MetaDataBuild` |
| JSON, `thirdparty/nlohmann_json`, as far as the library uses it | lexer, stacks of parser and DOM builder | parse, dump, compare | `Json` |
| certificates, bundles, XML signatures, `lib/crypto` | certificates of a bundle | load, verifyCertificate, verify of a signature | `Trust` |
| unwgt and the class `Package`, `tools/unwgt/unwgt.cpp`, `lib/core/Package.cpp` | options, credentials, the open package, output | main() from options to exit code; open and openWithoutVerification | `Unwgt` |

How they interact. `Package` finds the format and dispatches to an OCI or W3C
package; unwgt is a client of it. Opening goes through `Trust`: an OCI package asks
the bundle about the certificates and the signature of its signature manifest, a W3C
package about its XML signature. An OCI package reads blobs through a backing store
and parses index, manifests and config with `Json`; `createReader()` gives an
`OCIImageLayerReader` over a stream of the store, or, for EROFS, an `ErofsReader` over a
`DmVerityProtectedFile` over a mapped range; `mount()` hands that range to the
mounter, and both go by `VerityGeometry`. A W3C package reads a zip and gives an
`ArchiveReader` with the signed digests. `extractTo()` pulls entries from either reader
and calls their `writeTo()`. Threads may share a package object (its meta data is under
a lock); entry objects share one position in the archive with their reader; processes
meet only in the kernel, when they mount.

What is hard: files change between two reads of the same bytes (caches and
checks against what is used later), callbacks under libarchive that feed a digest,
entry objects that outlive their turn, unsigned arithmetic at block boundaries and of
sizes an unsigned superblock gives, failure of any one of some twenty system calls in a
mount with its clean-up, races of processes for loop devices, device numbers and names,
udev that answers late or never, handlers of meta data that overwrite one another's
members, certificates that do not belong to a signature, and orders of calls no test
makes. `PROJECT.json` lists 40 such places.

## Modules

**`DmVerityVerifier`, `DmVerityProtectedFile`, `AuthenticFile`, `MCDmVerity`.**
Level 0 of `Tree` is the data, level `Top` the single topmost hash block, `Top = 0` the
case without hash blocks. `verifyBlock()` is recursive in the code; `depth` and
`frame` are its call stack, one action per pread or answer. Every pread (`Content`)
returns any block at all, or fails: a file that is rewritten between two reads
is the normal case. `read()` is a loop over blocks with the direct and the
buffered path. A digest is an injective function of a block. `AuthenticFile` is
the promise: a file of fixed bytes whose reads give exactly these bytes or
nothing; `ImplementsAuthenticFile` is the refinement (bytes of calls in progress and
of failed calls are mapped to nothing).

**`DmVerityMounter`.** One action per system call of `doMount()` for each process, over a
kernel of loop devices, mapped devices (name, number, table), device nodes, udev
events, semaphores and stacks of mounts. Each call may fail, each process may crash
between two calls, udev and other programs act at any time. The clean-up runs in the
order of the code's scope exits.

**`ErofsReader`.** `next()` is cut into its parts only because reading a
directory is a loop; no other action is enabled before it has returned. A directory
is a sequence of blocks that pass through one buffer, so that a block that could not
be read leaves the previous one. The content of inodes, dirents and the superblock is
abstracted to accepted or rejected.

**`ArchiveReader`, `PackageExtract`.** libarchive is external: a header is any
of `Headers`. Paths are sequences of components. `PackageExtract` extends the
reader by the target directory, a function from paths to nodes, with the
options, the limits, and writes that may fail. After a failed write the file is removed, or, when
unlinkat() fails as well, stays with whatever has reached the disk (`unremoved`). A client that
iterates over the reader itself is another branch of the same specification.

**`OCIPackage`, `VerityGeometry`.** A blob is its digest; `Meaning` says what it parses to,
and index and layout are JSON values that the code takes apart. The file
blobs/sha256/d may hold another content, or change (`MaxChanges`). Opening walks the
index and the manifests in the code's order, over a tar, a compressed tar or a
directory. `VerityGeometry` has, side by side, what the mounter and the user-space
verifier require of the range, the superblock and the hash tree. No digest covers the
superblock, so it is anything at all. `Word` is the width of the unsigned arithmetic.

**`OCIImageLayerReader`.** libarchive calls the read and skip callbacks as it likes;
the digest is over what they hand on.

**`OCIArchiveBackingStore`.** Archives are sequences of headers with data, with the
positions libarchive reports (that of the first extension header in tar), from which the code
computes ranges to map.

**`W3CPackage`.** Threads walk the zip entry by entry while it changes; a digest is its
content.

**`ErofsData`.** A byte of a file is its position in the file, so that a byte from the wrong
place is seen. The on-disk index (full, or compact with its 4B and 2B packs) is the
encoding of the extents the image was made with, and the map is decoded from it as the code
does. A client reads anywhere or in order, or calls `writeTo()`; each read of the
image, each decompression and each write may fail, and what the cache holds after a
failure is what the code leaves in it.

**`Versions`, `MetaData`, `W3CPackageMetaData`, `OCIPackageMetaData`, `ConfigWriters`, `MetaDataBuild`.**
Each handler is an operator from meta data to meta data, or to an error.
`MetaDataBuild` is the state machine: the elements of a config.xml in the order of the
schema, its capabilities in every order, the fields of a config JSON in the order the code
asks for them. Texts are abstracted to words, numbers with a unit, and lists; sizes wrap at
`WordMod`, versions at `FieldMod`.

**`Json`.** The lexer takes one step for every character it gets, the parser one for every
token; the DOM builder writes through paths, which are the code's pointers into
the value under construction. A text grows while it is read, so that every text over
an alphabet is explored as far as the lexer wants to read.

**`Trust`, `Unwgt`.** A certificate is its names, its key, the key it was signed by,
whether it may issue and whether it has expired; OpenSSL is external: it follows issuers by
name to a self-issued certificate of the store, and may run out of resources. `Unwgt`
goes through main() option by option.

**Proof modules.** `DmVerity_proofs`, `PackageExtract_proofs`, `DmVerityMounter_proofs`,
`OCIStore_proofs` and `OCIPackage_proofs` each extend the component of their name, `Erofs_proofs`
(walk and data) extends `MCErofs` and `Trust_proofs` (the tool and the widget) `MCTrust`, where the two
machines meet. `OCIPackage_proofs` extends `MetaDataBuild` as well, for the theorems about the config JSON of
such a package and the order of capabilities in a config.xml. `Induction` holds what they share about recursive functions.

**MC modules with parts.** `MCErofs` (walk, data), `MCOCIStore` (layer, and the store as
`Store`) and `MCTrust` (tool, and the widget as `Widget`) each run two state machines that share nothing that
changes: `part` says which one moves, the other stays in one initial state, and
fairness is asked of the one that moves. Every behaviour is one of one machine, as
in two separate runs. `MCDocuments` runs the JSON parser (`part = "text"`) and the building of meta data
(`part = "document"`) in the same way.

## Runs and what they show

Passing runs:

| Run | Shows |
|---|---|
| `dm_verity_read` | reads over three blocks and two hash layers with a cache of one block: reads that succeed give the image's bytes, failures have a cause, and the file implements `AuthenticFile` |
| `package_archive` | every archive of up to three headers, with and without digests. A client that iterates, and reads from old entry objects: parents first and once, nothing within symlinks, an entry reads only its own data, the end of an entry means its digest matched, only signed files. A client that extracts into one of four targets with every option: only verified contents stay, except of one file whose removal failed, and then the extraction fails; nothing is written through a symlink, the result is a tree, success is complete, KeepExistingFiles keeps files, limits hold (of the other options see below) |
| `mounter_races` | two processes on one mount point, with failures and crashes at every system call and mounts that are in use: each mounts its own image; loops, devices and semaphores are reclaimed; only a process's own device is removed |
| `mounter_returns` | mount points of their own, one device name: a failed mount is undone (unless the mount is in use); liveness: `mount()` returns even if udev never does |
| `oci_package` | signed and unsigned manifests in any order on a changing file: image, hash tree, config and meta data come from a signed manifest; `verify()` covers what is handed out; whatever the superblock says, the hash tree of an image that is mounted or read lies inside the blob, and mounter and verifier agree on where it is |
| `oci_store` | archives of every format with extension headers and repeated paths: mapped ranges are the right entry's data, readers and cache agree; and a layer read and skipped in pieces while it changes: the end without error means the signed layer was read |
| `erofs` | trees and directories that contain each other, with every read free to fail: index in bounds, parents first, nothing given twice; on trees a walk without error gives exactly the paths that names lead to; liveness: it ends. File data of every supported format: a read gives the bytes asked for whatever the cache held and whatever failed before, an entry's client and `writeTo()` get a beginning of the file, all of it on success; liveness: `writeTo()` ends |
| `documents` | Of a config.xml, every pair of capabilities in every order, and triples of those that share a member: the order does not matter; written by unwgt and read again, it gives the same meta data but for the losses that `Rewritten` lists (below), and cannot be read if a text has markup that the writer does not escape. Of a config JSON: configurations are honoured together; a dependency's text allows exactly the versions its grammar says, where a bare version is a prefix as the tests want. Of JSON texts, up to nine fragments over five alphabets: accepted exactly when the grammar of RFC 8259 (with comments for a manifest) accepts them, with the value it says; a parsed configuration survives the library's own JSON values, `dump()` and a second parse |
| `trust` | unwgt with any few options on packages of both formats with up to three of six certificates in any order: opening with a bundle succeeds exactly when the signature goes back to the bundle, and without `-n` nothing comes out of any other package. Two threads on a changing widget: what verify() accepts is signed, no signed file is missing (unless one is listed twice), meta data is signed |

Several of these properties are conjunctions of named parts, each with its own comment in
the module (`DirectoryOrder`, `EntryReads`, `SignedFiles`, `StaysInTarget`, `OptionsHonoured`,
`NothingLeftBehind`, `HandedOutIsSigned`, `ReadersGiveFile`, `WidgetVerified`). Type
invariants describe the state; those of dm-verity, EROFS, the archive reader, the mounter,
the layer reader, the archive store and the OCI package are proved. The modules also keep a few formulas
that hold and are not part of a run. Of these, `KeptBlocksAreImage` and `NeverOutside` (dm-verity),
`NothingWithinSymlinks` and `ReadsOwnData` (archive reader), `DistinctVolumeNames` (mounter),
`DigestCoversHanded` (layer), `ExtentsCoverFile` (EROFS data) and `MetaDataStable` (widget) are theorems; `CacheBounded` (dm-verity)
and `StacksAgree` (JSON) say less than a property of a run.

Runs that TLC must find violated, each a disagreement between the code and a
line of the repository that the finding in `PROJECT.json` quotes:

| Run | Shows |
|---|---|
| `oci_verified_signed` | other layers of an earlier, unsigned data manifest are given out and verified beside those of the signed one |
| `erofs_read_errors` | `if (!inode.read(...))` does not see -1: a directory block that cannot be read, or that dm-verity rejects, shows the previous block's entries and no error |
| `config_xml_inverse` | what unwgt writes as config.xml does not read back as the same meta data, although `configxml.cpp:479` calls it the inverse |

`Rewritten` in `MetaDataBuild` names all that the writer loses, and `XmlRoundTrip` (`documents`)
checks that there is nothing else:

- the watchdog interval: written as `watchdog-sec` (`configxml.cpp:369`), read as
  `watchdog-timeout-sec` (`W3CPackageMetaDataImpl.cpp:1221`);
- the size of the drm-store: written as `storageSizeKB` (`configxml.cpp:274`), read as `storageSize`
  (`W3CPackageMetaDataImpl.cpp:1425`);
- forwarded multicast (`configxml.cpp:194`), and all icons but the first;
- memory below a whole megabyte, an input handling without keys, and what the capabilities of a runtime say;
- the type, for a runtime whose mime type says something else;
- the whole document, when an id, a path, a mime type, a filter or the content of a
  capability has markup: these are written as they are (`configxml.cpp:684`-`708`), so that the document does not parse.

### Stated, and not true of the code

The modules also state what documentation or comments promise where the code does
something else. No run is kept for these; checked in the MC module and with the cfg named
here, each is violated.

| Property (cfg) | What the code does instead |
|---|---|
| `OnlyVerifiedBytesCopied` (`DmVerityRead`) | a failed read leaves unverified bytes in the caller's buffer; `IDmVerityProtectedFile.h:82` says a block is copied "if valid" |
| `AllSignedFilesFound` (`PackageArchive`), `VerifyFindsAll` of `W3CPackage` (`Trust`) | missing signed files are noticed by counting, and a repeated entry hides one; `W3CPackage.cpp:648` "Check that all files in the digest map were found" |
| `DirectoryLimit` (`PackageArchive`) | one directory more than `m_maxArchiveDirectories` |
| `EndIsAlwaysVerified` (`PackageArchive`) | a second read after a digest mismatch reports a clean end |
| `EofIsEnd` (`PackageArchive` with `BufferSizes = {0, 1}`) | a read with an empty buffer ends the entry |
| `NoTimesThroughSymlink` (`PackageArchive`) | directory times are set through a symlink that replaced the directory |
| `LimitIsInclusive` (`PackageArchive`) | exactly the maximum number of entries is refused |
| `SkipSkipsFiles`, `NoOverwriteIsForDirectories`, `NoOverwriteKeepsMetadata`, `NeverOverwrites` (`PackageArchive`) | the extraction options do not do what `include/Package.h:190-213` and `:322` say: SkipExistingFiles fails on an existing file, NoOverwriteDirectories has the same bit, directory times change all the same, and the default overwrites |
| `StatusReflectsMount` (`MounterReturns` with `MayBeBusy = TRUE`), `DestructorUnmounts` (`MounterRaces`) | after an unmount the kernel refused, the object believes it is unmounted; `PackageMount.h:76`, `:162` |
| `OnlyOwnMountUnmounted` (`MounterRaces`) | unmount() takes the topmost mount, whoever made it |
| `VerifiedSizes`, `VerifyKeepsLimits` (`OCIPackage`), `VerifyCountsDirectories` of `W3CPackage` (`Trust`) | verify() ignores sizes of blobs (`OCIPackage.cpp:904`), and limits or directories (`Package.h:403-406`) |
| `EndStaysEnd` (`OCIStore`) | next() after the end finalises the digest again and reports a mismatch |
| `CacheWithinSpace`, `DescriptorsOwned` of `OCIArchiveBackingStore` (`OCIStore`) | contents are moved before their size is subtracted, so the cache outgrows its space; a failing clone leaks a descriptor |
| `GenerateReturns`, `AddedOnce` of `W3CPackage` (`Trust`) | a null pointer is used after config.xml did not parse; a second config.xml replaces the first |
| `UnsupportedFails`, `HasNextGives` (`Erofs`) | an image with other blocks than 4k opens and looks empty; next() returns nullptr although hasNext() was true |
| `JsonRoundTrip` (`Documents`) | the config JSON unwgt writes does not read back as the same meta data, although `configspec.cpp:118-119` calls it the inverse |
| `DependencyAsDocumented` (`Documents`) | `include/VersionConstraint.h:62` says that "1.2.3" "Must match version exactly", the words it has for "=1.2.3"; `VersionConstraint.cpp:163-168` accepts every version with that prefix, 1.2.3.4 among them, and `test/core/VersionConstraintTest.cpp:47-65` expects that. `DependencyMeaning` follows code and tests |

Smaller differences the models follow, without a formula of their own:

- Extraction: when a file whose writing failed cannot be removed, the failure of unlinkat() is only
  logged (`ArchiveEntries.cpp:504-505`) and the unverified file stays.
- EROFS data: extents are not checked to be added in order, although the comment of
  `add()` says an error is returned; "must be 8 byte aligned" is tested with `& 0x3`; a
  FlatInline file without a tail whose inode ends the image cannot be opened; a
  ChunkBased read returns -1 without an error; the target of a symlink is cut at
  PATH_MAX - 1; a failing writeTo() leaves what it has written.
- Meta data: "only the last <content> tag is used" and "it's just the last <icon> element
  that is used" are not so for every format; of a capability given twice the last one
  counts for members and the first for vendor configurations; a port of 70000 is
  accepted as 4464; the last field of a version is cut to 32 bits, and 64-bit overflow throws.
- JSON: of members with one name the last counts; a NUL byte where a token may start is the
  end of the input; a number above the largest int64_t becomes negative in a configuration.
- unwgt: `-x` ignores its list of members; `-X` is documented and not accepted; a
  listing that names a missing member succeeds; short writes of a single file count as success;
  `-n -S` says that there are no certificates and succeeds; output written before a digest
  fails stays, with exit code 1; an OCI package hides an expired certificate behind
  PackageSignatureInvalid, a widget does not. Reading a file of several
  certificates stops silently at the first that cannot be parsed. Without certificates
  verification fails, so that nothing is accepted.
- Geometry: for a number of data blocks whose size in bytes exceeds 64 bits, the products wrap
  and the checks that the hash blocks fit the file pass. `TreeInFile` speaks of
  the others. A read of such an image is still checked against the root hash block by block.

### Bounds

For all of them but `XmlRoundTrip` (meta data), the JSON parser and liveness,
the theorems below hold without these bounds.

- dm-verity: blocks of 2 bytes, 2 hashes per block, 1 and 3 data blocks: every kind of
  layer, a cache, unaligned first and last blocks and short last blocks
  occur. One cached block makes every second miss evict.
- Archives: three headers out of sixteen are enough for a parent, a child and an entry that
  collides with either. With a limit of one directory, one symlink and two units of size
  every limit is met, and the limits of the extraction (`SizeLimits`, `EntriesLimits`) are met or
  out of reach. `MaxReads` lets an old entry object be read after the archive has moved on.
- Mounter: two processes, two loops, two numbers, two names: with more than two, no
  new pair of racing calls appears. `MaxRetries` stands for the loops with a fixed
  count. Loops, names and numbers are interchangeable, and `mounter_races`, which checks
  only safety, uses that symmetry; `mounter_returns` uses none.
- OCI: one change of the file; each open reads each blob at most twice, so one
  change separates any check from any use. Sizes are in half blocks and two hashes fit a block, so
  that the image has three data blocks and a tree of two levels; `Word = 44` makes sums and
  products of a forged superblock wrap, as 2^64 does, while everything an image within the limit on its size
  leads to stays below it, and the superblock has every number of data blocks below it.
- Layer: four blocks, two values, two changes.
- Store: two paths, two readers (interchangeable), blocks of two units, a cache of three.
- W3C: two threads (interchangeable), packages of up to four entries, two changes.
- EROFS walk: four inodes, three names, blocks of up to three dirents, directories of up to two
  blocks; `MaxGiven` cuts walks over directories that contain each other and is more than
  any of the trees holds.
- EROFS data: blocks of two bytes, files of up to nine clusters, which a compact index covers
  with all four kinds of packs (`InitialEntries = 2`, `PackEntries = 4` for 6 and 16);
  three calls of a client see a cache that a read, or a failure, has left.
- Meta data: a handler changes few members and reads fewer; two capabilities (three
  among those that share a member) show every dependence on the order. `FieldMod = 3`, `LongMod = 9`,
  `Kilo = 2` let fields, sizes and ports reach and pass their limits.
- JSON: integers of `Width = 5` bits reach the boundary of signed and unsigned numbers in
  two digits; nine fragments nest containers, leave them and go on; the hex digits
  of an escape are one element.
- Trust: six certificates (two roots, an issuer and a signer below it, one the signer had
  no right to issue, another with the issuer's name), chains within `MaxChain = 4`.

Deadlock checking is off where the system may stop: an extraction that has ended, a
process that has crashed, a package that did not open, a client that makes no further
call.

### Fairness

- `WF(ReadStep)` (dm-verity): a thread inside `read()` goes on; used by the
  refinement to `AuthenticFile`, whose promise includes that a read ends. All
  its loops are bounded by the size asked for and the depth of the tree.
- `WF(MountStep(p))`: a thread inside `mount()` goes on. Nothing is assumed of
  udev: the wait on the semaphore has a timeout.
- `WF` of `Create`, `Step` and `NextEntry` (EROFS walk): the client calls `next()` until
  there is nothing left, as `extractTo()` does; no read of the image blocks for ever.
- `WF(WriteStep)` (EROFS data): a thread inside `writeTo()` goes on; its loop is bounded by
  the size of the file.

## Proofs

The theorems hold for every value of the constants that satisfies the named assumptions of the
module (`ASSUME`), so for any number of processes, threads, blobs, headers, certificates and blocks, and
for every behaviour of the files and of the calls that may fail. The assumptions are types of
the inputs; what a parser, libarchive or the JSON library guarantees of what it returns (finite
objects, sequences, whole numbers); that the names of a directory differ; that an inode describes its own
file (`WellFormed`; the walk, where directories may contain anything, does not assume it); that a config.xml
has finitely many elements and no capability twice (`XmlAssumption`; the schema would allow a repetition,
and then the order does matter, see above); that a 64-bit
word is more than twice the largest image; and that a digest that matches belongs to the content.
Every theorem goes through an inductive invariant with
one lemma per action, because the properties are not inductive as they stand: they speak of the end
of a call, the invariant says what is known in the middle of it.

**`DmVerity_proofs`**, from the geometry that `parseDmVeritySuperBlock` computes, digests that
are injective on contents, and the root hash being that of the tree:

- `TypeCorrect`, `ReadsAreAuthentic` (a read that returns true gave the image's
  bytes), `FailuresAreReal`, `KeptBlocksAuthentic`, `LayersCoverBlocks`;
- `FileRefined`: the detailed specification implements the safety of `AuthenticFile`. Every action is a
  call, an answer, or a stutter of the abstract file. That each read is answered is liveness,
  and stays with TLC.

The invariant `IInv` has five parts: `TypeOK`; `VerifierInv` (cached blocks are the tree's,
and the call stack: each activation has asked its parent about the hash block it has read, so
a "valid" answer from the top makes each block below the tree's); `CallInv` (the block
being verified is the one that was read, and its position in the request);
`ProgressInv` (what has been copied so far is the image's); `BufferInv` (the block
buffer holds a verified block or is marked empty). Block and byte arithmetic is in lemmas of
its own.

**`Erofs_proofs`**, about the walk, for every image, also one whose directories contain each
other, and every pattern of failing reads, stale buffers included:

- `ErofsTypeCorrect`, `ErofsIndexInBounds` (m_currentDir is indexed only where there
  is an entry), `ErofsParentFirst` (the guarantee in `IErofsReader.h`);
- `TreeInvariant`, `WalkIsComplete`: on a tree, a walk that ends without an error has given exactly the
  paths that names lead to, each once.

The queue has to hold only directories already given: each queued directory was given
or is the entry that next() is about to return (`QueueInv`), the parent of that entry
was given (`EntryInv`), and an error may be set only where `ControlInv` says; once there
is an error nothing is said of the queue, and nothing more is given. For completeness `TreeInv` adds,
while nothing has failed, that the list being walked is that of its directory, block by
block (`Lists`), that what is given, queued or listed are distinct paths of the tree (`Structure`), and
that every path is among them or below a directory that is queued (`Complete`). What the walk is compared
with is not another walk but a recursive function along a path (`Leads`).

About the data, for files of any size, format and layout and any number of reads:

- `DataInvariant`, `ExtentsAreFile`: the extents read from a compressed file's index, full or compact, cover the file
  one behind the other;
- `ReadsAreFile`, `EntriesAreComplete`: a read gives the bytes asked for whatever the cache held and
  whatever failed before, and a client or `writeTo()` that succeeds had all of the file.

`DataInv` says how far the index has been read (`MapInv`), what of the request has been answered and that the
extent at hand holds the position (`CallInv`), that the cached block is the one its key names (`CacheInv`), and
that what an entry has given is a beginning of its file (`ClientInv`).

**`PackageExtract_proofs`**, for archives of any length, any target directory, all options and limits:

- of the reader: `ReaderTypeCorrect`, `DirectoriesOrdered`, `NothingThroughSymlinks`,
  `ReadsNothingElse`, `FilesAreSigned`, and `ReadsAreOwn`, which assumes that no read has an empty buffer,
  since the end after one is no end (`EofIsEnd` above);
- `ReaderDriven`: an extraction takes only steps of the reader's own specification, so each theorem about
  the reader holds during an extraction;
- of the extraction: `ContentsVerified`, `ExtractionStaysInTarget`, `SuccessComplete`, `OptionsKept`.

`ReaderInv` speaks of `Entries`, what was returned followed by what is queued, as if next() had
already returned all of it: `OrderInv` (once each, after the parents), `SymlinkInv`, `EntryInv` with
`ReadInv` (an entry has read a beginning of its own data), `AtInv` (at most one file object is the one the
archive is at, and it has read what the archive has been read of it: this is why an old object
gives nothing of another entry), `CountInv` (the count of verified entries is that of the files). `ExtractInv` adds
the totals (`CountsInv`), the target (`ContentsInv`, `WrittenInv`, `WayInv`, `KeepInv`) and the
directories whose times are still to be set (`Timed`): setting a time touches a node again, after
all the entries, and a later file may have taken its place. `RemovalInv` says that a file that could not be
removed is the one being written when the extraction failed, and that nothing is written after it: the one
exception `ContentsVerified` makes.

**`DmVerityMounter_proofs`**, for any number of processes, loops, names, numbers and mount points:

- `MounterTypeCorrect`, `MountsAreOwn`, `NothingIsLeft`, `VolumeNamesDistinct`, and the action property
  `OthersDevicesStay`;
- `FailedMountsUndone`, under `Undisturbed`: nobody opens a file on the mount before mount()
  has returned, and no two processes share a mount point. Without either it is not so:
  a mount that is in use cannot be unmounted, and umount2() takes the topmost mount.

`MounterInv` says at each system call which loop the process has open and attached, which device is its own
and how far its table is loaded (`Core`), that distinct devices have distinct numbers, that a device
marked for removal is in use (`DeferredInUse`), and that what nobody uses is reclaimed, apart from a loop
without autoclear whose process has crashed (`Reclaimed`, `SemaphoresReclaimed`).

**`OCIStore_proofs`**, for layers of any length (`LayerConstants`): `LayerEndVerified` and
`LayerDigestCovers`. `LayerInv`: what libarchive was handed or skipped is what was digested, block by block, except
for the rest that next() reads at the end (`HandedInv`); after the digest was compared libarchive
is called again only when it matched (`FinalInv`).

And about the archive backing store, for every archive (`StoreConstants`: a zip has no extension headers)
and any number of readers: `MappedAreEntries` and `ReadersGiveTheirFiles`. The layout of the archive comes
first: headers have distinct offsets, so that pread() at an offset finds one header (`HeaderFound`), the
headers of a tar entry before its last are extension headers one behind the other, and so the loop in
getTarArchiveEntryMappableFile() ends behind the last of them (`DataIsBehindHeader`). `StoreInv`: what is
cached and what was answered is a file of its path, and whole unless a read failed (`CacheInv`,
`AnswerOK`); a reader of an entry is alone on its clone, and as far on it as what it has given, which is
its entry so far (`OwnClone`, `InOrder`).

**`OCIPackage_proofs`**, for every set of blobs, index, order of manifests and changes of the file:
`TreesAreSigned`, `HandedOutSigned`, `VerifyIsSound`. `PackageInv`: what is in the tree came from a data manifest
of the index (`TreeInv`), the manifest is a signed one from the moment the package is
open (`PhaseInv`), what is handed out is what the tree names (`AnswerInv`), and verify() has matched
every blob before the one it is at (`VerifyInv`).

`TreesAreInFile`: the loops that count the hash blocks of an image, the mounter's and the verifier's, count
those of the tree (`HashBlocksCounted`, by induction over the layers), and there are at most twice as many as
data blocks (`HashBlocksBound`). So no sum of an image that passed the limit on its size wraps in 64 bits
(`PackageAssumption`, `VerityAssumption`: the limits are 2 GB and 512 MB), and what wrapped does not
pass (`Wrapped`). `AcceptedInv` carries what was accepted to the moment it is used.

About the config JSON, for every document and every width of a version's field:

- `ConfigurationsAreHonoured`, from `ConfigInv`: until the configuration is read, which is the last field, no
  handler has touched what it is about; reading it is a recursion over the keys, and after each set of
  keys (`Configured`) low power, pausing, the values kept and the ports are as those keys say;
- `DependenciesMeanTheirText`: `ConstraintMeans` takes the parts a constraint is made of to inequalities between
  versions read as numbers of four digits. compare() is their order (`CompareIs`, the first digit that
  differs decides), incrementing is one more in a digit with carry (`IncrementIs`), and the versions that start
  like a given one are those from it up to the incremented one (`UpToNext`, `BareMeans`, `TildeMeans`, `CaretMeans`).

About config.xml, for documents with any number of elements and capabilities:

- `OrderOfCapabilitiesIrrelevant`: the meta data built is that of the capabilities in any other order. The handler of a
  capability changes one member of the meta data (`MemberOf`), or one of the vendor configurations (`ConfigOf`), and reads no
  other (`ChangesOnly`, `Agree`), so handlers of different members commute; those that share a member
  commute by cases. From two handlers to all of them goes a recursion over the set of
  capabilities that are left (`SetRead`), which does not depend on the one that is taken first, and
  gives what the sequence gives (`ListRead`). `XmlInv` carries it from the elements before the capabilities
  (`HeadPhase`) through them (`CapabilityPhase`) to those behind (`TailPhase`).

**`Trust_proofs`**, for any certificates, with any names, in any order:

- `TrustIsSound`: a chain that OpenSSL builds from names is a path of signatures
  from the signer to a certificate of the bundle, so the bundle vouches for the signer;
- `ProperlySignedOpens`, the converse: the sorting of certificates finds the one order of a
  chain (by induction over the certificates placed so far), and OpenSSL finds one issuer at a time. It assumes
  `ShortChains`, no more certificates than OpenSSL follows: a longer chain is refused;
- `ToolOnlyVerified`: what comes out of unwgt, from `ToolInv` (nothing is out before the package is
  open; an open package was verified by the certificates the options name; exit code 0 means
  that every part that came out matched its digest);
- `WidgetIsVerified`, `MetaDataIsSigned`: any number of threads. `WidgetInv`: the digest map is that of one sound
  signature from opening on, whatever happens to the file; each running verify() has seen only entries that match it
  and its running total is that of `TotalSize`; the meta data under construction is listed;
- `MetaDataIsShared`, an action property: once there is meta data it stays, and every thread is given that.
  `SharedInv`: only the thread that holds the lock reads config.xml, and only while there is none.

**`Induction`** has what the proofs about recursive functions need: bounded and strong induction, and
the existence of functions defined by recursion, over an interval or to any smaller number. They are stated with sets in place of predicates and go back
to the library's theorem that a non-empty set of natural numbers has a least element.

Only model-checked:

- liveness: `MountReturns`, `WalkEnds`, `WriteToEnds`, and the liveness part of `AuthenticFile`. The proof
  system does not reason about fairness;
- `ParsesJson`, `ConfigurationSurvives`: they compare with RECURSIVE operators over nested values, which the
  provers' translation does not accept, and would need induction over those values;
- `XmlRoundTrip`: the writer's output for every member is read by every handler; a table TLC
  goes through for the documents given.


## Not modelled

- OpenSSL (digests, PKCS7, certificate chains), libxml (parsing, schema, canonical form),
  libarchive, LZ4, strtod, the kernel, udev: external, modelled by how the code uses
  them. A digest or signature that matches is taken to belong to the content.
- `verifyPkcs7()`, which only tests use, and printing of certificates.
- Of the vendored JSON library: binary formats, JSON pointers and patches, callbacks,
  iterators, conversion templates and floating-point conversion. The repository reads and
  writes JSON files with none of these.
- The skip and seek callbacks of `LibarchiveFileReader`, which move libarchive's position in
  the file and hand on no data, and `seek()` of the store's readers, which nothing calls.
- `unpackedSize()` of a widget, an estimate; modification times of EROFS entries and advice for
  read-ahead, which no property can tell.
- The wrappers of libarchive, logging, errors and the public classes that only forward:
  no state of their own.

`checkImageFile()` of the mounter is called by no code of the library, and nothing in the
repository creates an `OCIDirBackingStore`; the latter is modelled as one of the stores all
the same.

## Plan

Done, in this order: dm-verity (verifier, file, abstract file, proofs), archives and
extraction, the mounter, OCI packages, layers and store, W3C packages, the EROFS walk with
proofs, EROFS data, versions and meta data with their writers, JSON, trust and unwgt, the
geometry of dm-verity images; then the theorems about the layer reader, the refinement to `AuthenticFile`,
the mounter, OCI packages, the archive reader and extraction, trust, unwgt and widgets; then
the archive store, the geometry, the completeness of the EROFS walk, EROFS data, the meta data the threads
of a widget share, the config JSON, and the order of capabilities.

What stays open, beyond what the provers cannot do: a proof of `XmlRoundTrip`, handler by handler.
