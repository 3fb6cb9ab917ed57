----------------------------- MODULE PackageExtract -----------------------------
(***************************************************************************)
(* Package::extractTo (lib/core/Package.cpp) over an ArchiveReader, with   *)
(* the entries' writeTo (lib/archive/ArchiveEntries.cpp) and               *)
(* checkExtraction (lib/core/Utils.cpp): the target directory may hold     *)
(* files, directories and symlinks already.                                *)
(* A client that iterates over the package itself is included.             *)
(* The file system is external: target maps the paths below the target     *)
(* directory to nodes, and any call that writes may fail.                  *)
(***************************************************************************)
EXTENDS ArchiveReader

CONSTANTS
  InitialTargets,   \* what the target directory holds before the extraction
  OptionSets,       \* the ExtractOptions callers pass: sets of bit numbers
  SizeLimits,       \* maxExtractionBytes
  EntriesLimits     \* maxExtractionEntries

\* The bits of the ExtractOption enumerators.
KeepExistingFiles == 0
SkipExistingFiles == 1
NoOverwriteDirectories == 1

VARIABLES
  target,           \* [path -> node] of the target directory
  initial,          \* history: target at the call
  options,          \* the arguments of the call ...
  wanted,           \* history: the names of the options the caller gave
  sizeLimit, entriesLimit,
  totalExtracted,   \* the locals of extractTo
  totalEntries,     \* entries written: the first totalEntries of returned
  dirModTimes,      \* directories whose times are set at the end
  result,           \* "none" while it runs, then "ok" or the error
  outside,          \* history: the calls that went through a symlink
  unremoved         \* history: the files that a failed writeTo could not remove

extractVars == <<target, initial, options, wanted, sizeLimit, entriesLimit, totalExtracted,
                 totalEntries, dirModTimes, result, outside, unremoved>>

\* A node; mode and times are "old" in the target of the call, and "package" once they
\* come from the package.
Node(type, body) == [type |-> type, body |-> body, mode |-> "package", times |-> "package"]

Nodes == [type : {"directory", "regular", "symlink"}, body : Seq(STRING),
          mode : {"old", "package"}, times : {"old", "now", "package"}]

ParentsOf(path) == {SubSeq(path, 1, i) : i \in 1 .. Len(path) - 1}

\* What has a parent has it as a directory.
IsTree(files) ==
  \A path \in DOMAIN files : \A dir \in ParentsOf(path) :
    dir \in DOMAIN files /\ files[dir].type = "directory"

IsFileSystem(files) ==
  /\ DOMAIN files \subseteq Seq(STRING) /\ \A path \in DOMAIN files : files[path] \in Nodes
  /\ \A path \in DOMAIN files : files[path].type = "directory" => files[path].body = <<>>
  /\ IsTree(files)

ASSUME CallsAssumption ==
  /\ \A files \in InitialTargets : IsFileSystem(files)
  /\ SizeLimits \subseteq Nat /\ EntriesLimits \subseteq Nat

------------------------------------------------------------------------------
(* The target directory, as the *at() calls see it. *)

Exists(path) == path \in DOMAIN target
\* A symlink on the way: the call acts outside of the target directory.
ThroughSymlink(path) == \E dir \in ParentsOf(path) : Exists(dir) /\ target[dir].type = "symlink"
\* The way to the path is made of directories.
Reachable(path) == \A dir \in ParentsOf(path) : Exists(dir) /\ target[dir].type = "directory"
IsEmptyDir(path) == \A other \in DOMAIN target : path \notin ParentsOf(other)

Put(path, node) == [p \in DOMAIN target \cup {path} |-> IF p = path THEN node ELSE target[p]]
Without(path) == [p \in DOMAIN target \ {path} |-> target[p]]

------------------------------------------------------------------------------
(* checkExtraction: "Extract", "Skip" or "error".  It unlinks what it lets   *)
(* the entry replace.                                                        *)

\* Mutants: existing files are replaced whatever the options; existing files are
\* left without being asked to.
CheckExtractionForce(path, type) ==
  IF ~Reachable(path) THEN "error"
  ELSE IF Exists(path) /\ target[path].type = "directory"
  THEN IF type = "directory" THEN "Skip"
       ELSE IF IsEmptyDir(path) THEN "Extract" ELSE "error"
  ELSE "Extract"
CheckExtractionLeave(path, type) ==
  IF ~Reachable(path) THEN "error"
  ELSE IF ~Exists(path) THEN "Extract"
  ELSE IF KeepExistingFiles \in options THEN "error"
  ELSE "Skip"

CheckExtraction(path, type) ==
  IF ~Reachable(path) THEN "error"
  ELSE IF ~Exists(path) THEN "Extract"
  ELSE IF KeepExistingFiles \in options THEN "error"
  ELSE IF SkipExistingFiles \in options
  THEN IF \/ type = "directory" /\ target[path].type # "directory"
          \/ type # "directory" /\ target[path].type = "regular"
       THEN "error" ELSE "Skip"
  ELSE IF target[path].type = "directory"
  THEN IF type = "directory" THEN "Skip"
       ELSE IF IsEmptyDir(path) THEN "Extract" ELSE "error"
  ELSE "Extract"

------------------------------------------------------------------------------
(* The loop of extractTo. *)

Extracting == result = "none"
Writing == Extracting /\ ~walking /\ totalEntries < Len(returned)
Current == returned[totalEntries + 1]

Finish(value) == result' = value

\* The flags of the options with these names.
Bits(names) ==
  {IF name = "KeepExistingFiles" THEN KeepExistingFiles
   ELSE IF name = "SkipExistingFiles" THEN SkipExistingFiles
   ELSE NoOverwriteDirectories : name \in names}

\* The call: a reader is created, the limits are read.
Start ==
  /\ result = "idle"
  /\ target' \in InitialTargets
  /\ initial' = target'
  /\ wanted' \in OptionSets
  /\ options' = Bits(wanted')
  /\ sizeLimit' \in SizeLimits
  /\ entriesLimit' \in EntriesLimits
  /\ Finish("none")
  /\ UNCHANGED <<vars, totalExtracted, totalEntries, dirModTimes, outside, unremoved>>

\* A client may iterate over the package itself instead: createReader(), then next()
\* and read() of the entries it has kept.
CreateReader ==
  /\ result = "idle"
  /\ Finish("reader")
  /\ UNCHANGED <<vars, target, initial, options, wanted, sizeLimit, entriesLimit,
                 totalExtracted, totalEntries, dirModTimes, outside, unremoved>>

Iterate ==
  /\ result = "reader"
  /\ Next
  /\ UNCHANGED extractVars

\* readerImpl->next().
ReaderNext ==
  /\ Extracting /\ totalEntries = Len(returned)
  /\ error = "none" /\ ~endOfArchive
  /\ NextStep
  /\ UNCHANGED extractVars

\* The entry's size would exceed what may be extracted.
SizeLimitExceeded ==
  /\ Writing
  /\ totalExtracted + Current.size > sizeLimit
  /\ Finish("PackageExtractLimitExceeded")
  /\ UNCHANGED <<vars, target, initial, options, wanted, sizeLimit, entriesLimit,
                 totalExtracted, totalEntries, dirModTimes, outside, unremoved>>

\* After writeTo: count the entry, then compare with the limit.
CountEntry(entry, amount) ==
  /\ totalExtracted' = totalExtracted + amount
  /\ totalEntries' = totalEntries + 1
  /\ \/ /\ totalEntries' >= entriesLimit
        /\ Finish("PackageExtractLimitExceeded")
        /\ UNCHANGED dirModTimes
     \/ /\ totalEntries' < entriesLimit
        /\ Finish("none")
        /\ dirModTimes' = IF entry.type = "directory" THEN Append(dirModTimes, entry.path)
                          ELSE dirModTimes

MayWrite == Writing /\ totalExtracted + Current.size <= sizeLimit
SameCall == UNCHANGED <<vars, initial, options, wanted, sizeLimit, entriesLimit>>

\* writeTo finds the entry in the target already and leaves it; the mode of a
\* directory is updated unless NoOverwriteDirectories is given.
WriteSkipped ==
  /\ MayWrite
  /\ CheckExtraction(Current.path, Current.type) = "Skip"
  /\ CountEntry(Current, IF Current.type = "symlink" THEN Len(Current.own) ELSE 0)
  /\ target' = IF {SkipExistingFiles, NoOverwriteDirectories} \cap options = {}
               THEN [target EXCEPT ![Current.path].mode = "package"] ELSE target
  /\ SameCall /\ UNCHANGED <<outside, unremoved>>

\* The archive yields no more than the size of the header, and the digest is
\* the signed one.
ContentsValid(entry) ==
  /\ Len(entry.own) <= entry.size
  /\ entry.digest # NoDigests => sha256Digest(entry.own) = entry.digest

\* A new directory gets its times at the end of the extraction.
NodeOf(entry) ==
  [Node(entry.type, entry.own) EXCEPT !.times = IF entry.type = "directory" THEN "now" ELSE @]

WriteEntry ==
  /\ MayWrite
  /\ CheckExtraction(Current.path, Current.type) = "Extract"
  /\ Current.type = "regular" => CheckReadState(Current) /\ ContentsValid(Current)
  /\ target' = Put(Current.path, NodeOf(Current))
  /\ CountEntry(Current, Len(Current.own))
  /\ SameCall /\ UNCHANGED <<outside, unremoved>>

\* What a failed writeTo leaves: the entry it was to replace is gone, and of a
\* file nothing of the new contents stays.
\* Mutant: a file that failed to verify is not removed.
LeftAfterFailureKeepsFile(entry) ==
  IF CheckExtraction(entry.path, entry.type) = "Extract" /\ entry.type = "regular"
  THEN {Put(entry.path, Node("regular", entry.own))} ELSE {target}
LeftAfterFailure(entry) ==
  IF CheckExtraction(entry.path, entry.type) = "Extract"
  THEN {target, Without(entry.path)} ELSE {target}

\* ... unless the file cannot be removed either, which is only logged: then it stays with
\* what had been written of it.
PartOf(entry) ==
  {[Node("regular", SubSeq(entry.own, 1, n)) EXCEPT !.times = time] :
     n \in 0 .. Len(entry.own), time \in {"now", "package"}}
LeftUnremoved(entry) ==
  IF /\ CheckExtraction(entry.path, entry.type) = "Extract"
     /\ entry.type = "regular" /\ CheckReadState(entry)
  THEN {Put(entry.path, part) : part \in PartOf(entry)} ELSE {}

\* writeTo fails: checkExtraction refuses, a system call fails, the archive is
\* damaged or the contents are not valid.
WriteFails ==
  /\ MayWrite
  /\ \/ target' \in LeftAfterFailure(Current) /\ UNCHANGED unremoved
     \/ target' \in LeftUnremoved(Current) /\ unremoved' = {Current.path}
  /\ Finish("error")
  /\ outside' = outside \cup (IF ThroughSymlink(Current.path) THEN {"write"} ELSE {})
  /\ SameCall /\ UNCHANGED <<totalExtracted, totalEntries, dirModTimes>>

\* A failed next() ends the extraction.
ReaderFailed ==
  /\ Extracting /\ ~walking /\ totalEntries = Len(returned)
  /\ error # "none"
  /\ Finish("error")
  /\ UNCHANGED <<vars, target, initial, options, wanted, sizeLimit, entriesLimit,
                 totalExtracted, totalEntries, dirModTimes, outside, unremoved>>

\* The end: set the times of the directories, following symlinks.
SetDirectoryTimes ==
  LET dirs  == {dirModTimes[i] : i \in 1 .. Len(dirModTimes)}
      found == {dir \in dirs : Exists(dir) /\ Reachable(dir)}
  IN
  /\ Extracting /\ ~walking /\ totalEntries = Len(returned)
  /\ error = "none" /\ endOfArchive
  /\ target' = [path \in DOMAIN target |->
                  IF path \in found /\ target[path].type # "symlink"
                  THEN [target[path] EXCEPT !.times = "package"] ELSE target[path]]
  /\ outside' = outside \cup
       {"times" : dir \in {d \in dirs : ThroughSymlink(d) \/ (d \in found /\ target[d].type = "symlink")}}
  /\ Finish("ok")
  /\ SameCall /\ UNCHANGED <<totalExtracted, totalEntries, dirModTimes, unremoved>>

ExtractInit ==
  /\ Init
  /\ target = [path \in {} |-> Node("regular", <<>>)]
  /\ initial = target
  /\ wanted = {} /\ options = {}
  /\ sizeLimit = 0 /\ entriesLimit = 0
  /\ totalExtracted = 0
  /\ totalEntries = 0
  /\ dirModTimes = <<>>
  /\ result = "idle"
  /\ outside = {}
  /\ unremoved = {}

ExtractNext ==
  \/ Start
  \/ CreateReader
  \/ Iterate
  \/ ReaderNext
  \/ SizeLimitExceeded
  \/ WriteSkipped
  \/ WriteEntry
  \/ WriteFails
  \/ ReaderFailed
  \/ SetDirectoryTimes

allVars == <<vars, extractVars>>
ExtractSpec == ExtractInit /\ [][ExtractNext]_allVars

------------------------------------------------------------------------------
(* Properties *)

Limited == result = "PackageExtractLimitExceeded"
Superseded(i) == \E j \in i + 1 .. totalEntries : returned[j].path = returned[i].path

ExtractTypeOK ==
  /\ TypeOK
  /\ totalEntries \in 0 .. Len(returned)
  /\ totalExtracted \in Nat
  /\ result \in {"idle", "reader", "none", "ok", "error", "PackageExtractLimitExceeded"}
  /\ outside \subseteq {"write", "times"}
  /\ unremoved \subseteq DOMAIN target
  /\ \A path \in DOMAIN target : target[path].type \in {"directory", "regular", "symlink"}

\* Every file of the target directory was there before, untouched, or holds
\* contents that match the signed digest: a file that fails to verify does not
\* stay, also when the extraction is abandoned halfway.  Only one whose removal
\* failed too stays: it is the last that was written, and the call gives an error.
OnlyVerifiedContents ==
  m_digests # NoDigests =>
    \A path \in DOMAIN target :
      target[path].type = "regular" =>
        \/ path \in DOMAIN initial /\ target[path] = initial[path]
        \/ path \in DOMAIN m_digests /\ m_digests[path] = sha256Digest(target[path].body)
        \/ result = "error" /\ path = Current.path /\ unremoved = {path}

\* No file, directory or symlink is written through a symlink, whether it was
\* in the target directory before or came from the archive.
NoWriteThroughSymlink == "write" \notin outside

\* ... and no directory's modification time is set through one.
NoTimesThroughSymlink == "times" \notin outside

\* The target directory stays a tree.
TargetIsTree == IsTree(target)

\* Whatever the archive lists and the target directory held, the extraction
\* stays within the target directory and leaves a tree.
StaysInTarget == NothingWithinSymlinks /\ NoWriteThroughSymlink /\ TargetIsTree

\* A successful extraction that skips nothing wrote every entry the reader
\* returned, and the last of several with the same path.
SuccessIsComplete ==
  result = "ok" /\ SkipExistingFiles \notin options =>
    \A i \in 1 .. Len(returned) :
      ~Superseded(i) =>
        /\ Exists(returned[i].path)
        /\ target[returned[i].path].type = returned[i].type
        /\ target[returned[i].path].body = returned[i].own

\* With KeepExistingFiles nothing that was in the target directory changes.
KeepKeepsFiles ==
  "KeepExistingFiles" \in wanted =>
    \A path \in DOMAIN initial : Exists(path) /\ target[path] = initial[path]

\* What was extracted never exceeds the limits, nor the symlinks of the archive
\* theirs.
WithinLimits ==
  /\ SymlinkLimit
  /\ totalExtracted <= sizeLimit
  /\ result = "ok" => totalEntries <= entriesLimit

\* What the caller has asked for is kept, whatever the archive holds and
\* whatever fails: the files it wants to keep, and its limits.
OptionsHonoured == KeepKeepsFiles /\ WithinLimits

\* "the maximum number of files, directories or symlinks that can be extracted":
\* only a package that exceeds it is refused.
LimitIsInclusive ==
  Limited /\ totalEntries > 0 /\ totalEntries = Len(returned) => totalEntries > entriesLimit

\* SkipExistingFiles: "If a file already exists in the target directory then it
\* is not replaced and the file is not extracted": the check does not refuse it.
SkipSkipsFiles ==
  MayWrite /\ wanted = {"SkipExistingFiles"} /\ Current.type = "regular" /\ Reachable(Current.path)
    /\ Exists(Current.path) /\ target[Current.path].type = "regular"
      => CheckExtraction(Current.path, "regular") = "Skip"

\* NoOverwriteDirectories leaves the metadata of directories alone; files are
\* still overwritten, the default.
NoOverwriteIsForDirectories ==
  MayWrite /\ wanted = {"NoOverwriteDirectories"} /\ Current.type = "regular" /\ Reachable(Current.path)
    /\ Exists(Current.path) /\ target[Current.path].type = "regular"
      => CheckExtraction(Current.path, "regular") = "Extract"

\* NoOverwriteDirectories: "this flag ensures the meta-data (permissions, owner,
\* etc) is not changed" of a directory that exists already.
NoOverwriteKeepsMetadata ==
  "NoOverwriteDirectories" \in wanted =>
    \A path \in DOMAIN initial :
      initial[path].type = "directory" /\ Exists(path) => target[path] = initial[path]

\* "This method will not overwrite files in the target directory".
NeverOverwrites ==
  \A path \in DOMAIN initial :
    initial[path].type = "regular" => Exists(path) /\ target[path] = initial[path]
=============================================================================
