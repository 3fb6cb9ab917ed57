------------------------------ MODULE W3CPackage ------------------------------
(***************************************************************************)
(* A widget package (lib/w3c-widget/W3CPackage.cpp and                     *)
(* W3CPackageMetaDataBuilder.cpp): a zip with a signature file that lists  *)
(* the digests of the other files. Threads call verify() and metaData() on *)
(* one package object; both walk the zip again, entry by entry, while the  *)
(* package file may be written to.                                         *)
(*                                                                         *)
(* A digest stands for its content. Sound signatures are a set of contents *)
(* of the signature file. Reading fails at any time.                       *)
(***************************************************************************)
EXTENDS Naturals, Sequences, FiniteSetsExt, SequencesExt

CONSTANTS
    Paths,      \* normalised paths, "signature1", "config" and "appsecrets" among them
    Contents,   \* contents of files and targets of links
    SizeOf,     \* [Contents -> Nat]
    References, \* what a signature file lists: [Contents -> a map of paths to contents]
    Signed,     \* the signature files that the bundle vouches for
    Parsable,   \* the contents that W3CPackageMetaDataImpl::fromConfigXml() accepts
    Packages,   \* the packages to open: sequences of entries
    Threads,
    MaxBytes, MaxEntries, \* m_maxExtractionBytes, m_maxExtractionEntries
    MaxChanges  \* how often the package file changes

None == "none"

Short == "short" \* what is left of a content when reading it fails

\* plain: the path is stored as config.xml and not, say, as ./config.xml
Entry == [path : Paths, kind : {"file", "dir", "link"}, content : Contents, plain : BOOLEAN]

VARIABLES
    file,     \* the entries of the package file
    changes,  \* how often it has changed
    bundle,   \* whether the package was opened with a bundle
    phase,    \* "closed", "open", "failed", or "crashed" (the process has died)
    digests,  \* m_digests, empty without a bundle
    metaData, \* m_metaData, or None
    lock,     \* the thread that holds m_cachedDataLock, or None
    call      \* what each thread is doing, and the last result it got

vars == <<file, changes, bundle, phase, digests, metaData, lock, call>>

NoMetaData == [config |-> None, appsecrets |-> None]

Idle == [op |-> "idle", result |-> "none", pos |-> 0, total |-> 0, seen |-> <<>>,
         builder |-> NoMetaData, got |-> NoMetaData]

\* A call returns: the thread keeps the result until its next call.
Returns(t, result) == call' = [call EXCEPT ![t].op = "idle", ![t].result = result]

(***************************************************************************)
(* Opening                                                                 *)
(***************************************************************************)

SignatureEntries ==
    {i \in DOMAIN file : file[i].path = "signature1" /\ file[i].kind = "file" /\ file[i].plain}

\* readAndVerifySignature(): the references of the signature file, and the
\* signature file itself.
DigestMap(s) ==
    [p \in DOMAIN References[s] \union {"signature1"} |->
        IF p \in DOMAIN References[s] THEN References[s][p] ELSE s]

Open ==
    /\ phase = "closed"
    /\ \/ /\ ~bundle
          /\ phase' = "open" /\ UNCHANGED digests
       \/ /\ bundle /\ SignatureEntries # {}
          /\ LET s == file[Min(SignatureEntries)].content
             IN  s \in Signed /\ digests' = DigestMap(s)
          /\ phase' = "open"
       \/ phase' = "failed" /\ UNCHANGED digests
    /\ UNCHANGED <<file, changes, bundle, metaData, lock, call>>

(***************************************************************************)
(* verify()                                                                *)
(***************************************************************************)

\* Without a bundle, or with too many digests, it fails at once.
BeginVerify(t) ==
    /\ phase = "open" /\ call[t].op = "idle"
    /\ \/ /\ bundle /\ Cardinality(DOMAIN digests) <= MaxEntries
          /\ call' = [call EXCEPT ![t] = [Idle EXCEPT !.op = "verify", !.pos = 1]]
       \/ call' = [call EXCEPT ![t] = [Idle EXCEPT !.result = "error"]]
    /\ UNCHANGED <<file, changes, bundle, phase, digests, metaData, lock>>

\* verifyArchiveFileEntry(), and the digest of the target of a link.
MatchesDigest(e) == e.path \in DOMAIN digests /\ e.content = digests[e.path]

EntrySize(e) == IF e.kind = "file" THEN SizeOf[e.content] ELSE 0

SizeAllowed(total) == total <= MaxBytes

\* One turn of the loop: directories are passed over.
VerifyEntry(t) ==
    /\ phase = "open" /\ call[t].op = "verify" /\ call[t].pos \in DOMAIN file
    /\ LET e == file[call[t].pos]
           total == call[t].total + EntrySize(e)
       IN  \/ /\ e.kind = "dir"
              /\ call' = [call EXCEPT ![t].pos = @ + 1]
           \/ /\ e.kind # "dir" /\ MatchesDigest(e) /\ SizeAllowed(total)
              /\ call' = [call EXCEPT ![t].pos = @ + 1, ![t].total = total,
                                      ![t].seen = Append(@, e)]
           \/ /\ e.kind # "dir"
              /\ Returns(t, "error")
    /\ UNCHANGED <<file, changes, bundle, phase, digests, metaData, lock>>

\* Mutant: missing files are not noticed
AnyCount(n) == TRUE

\* entriesVerified against the size of the digest map.
CountMatches(n) == n = Cardinality(DOMAIN digests)

\* The loop ends with the last entry, or with one whose header cannot be read.
EndVerify(t) ==
    /\ phase = "open" /\ call[t].op = "verify"
    /\ Returns(t, IF CountMatches(Len(call[t].seen)) THEN "verified" ELSE "error")
    /\ UNCHANGED <<file, changes, bundle, phase, digests, metaData, lock>>

(***************************************************************************)
(* metaData(), auxMetaDataFile(), auxMetaDataFileCount(), auxMetaDataKeys():*)
(* they take the lock and read the meta data unless there is some already. *)
(***************************************************************************)

GetMetaData(t) ==
    /\ phase = "open" /\ call[t].op = "idle" /\ lock = None
    /\ IF metaData # NoMetaData
       THEN /\ call' = [call EXCEPT ![t] = [Idle EXCEPT !.result = "meta", !.got = metaData]]
            /\ UNCHANGED lock
       ELSE /\ lock' = t
            /\ call' = [call EXCEPT ![t] = [Idle EXCEPT !.op = "meta", !.pos = 1]]
    /\ UNCHANGED <<file, changes, bundle, phase, digests, metaData>>

\* Mutant: a file without a digest passes
UnlistedPasses(p, c) == p \in DOMAIN digests => c = digests[p]

\* verifyFileContents()
VerifyFileContents(p, c) == bundle => p \in DOMAIN digests /\ c = digests[p]

IsMetaDataFile(e) == e.kind = "file" /\ e.path \in {"config", "appsecrets"}

\* addMetaDataFile(), which is given the path as it is stored.
AddMetaDataFile(b, e, c) == IF e.plain THEN [b EXCEPT ![e.path] = c] ELSE b

\* One turn of the loop of readMetaData().
ReadMetaDataEntry(t) ==
    /\ phase = "open" /\ call[t].op = "meta" /\ call[t].pos \in DOMAIN file
    /\ LET e == file[call[t].pos]
       IN  \/ /\ ~IsMetaDataFile(e)
              /\ call' = [call EXCEPT ![t].pos = @ + 1]
              /\ UNCHANGED lock
           \/ /\ IsMetaDataFile(e)
              /\ \E c \in {e.content, Short} :
                    /\ VerifyFileContents(e.path, c)
                    /\ call' = [call EXCEPT ![t].pos = @ + 1,
                                            ![t].builder = AddMetaDataFile(@, e, c)]
              /\ UNCHANGED lock
           \/ /\ IsMetaDataFile(e)
              /\ Returns(t, "error")
              /\ lock' = None
    /\ UNCHANGED <<file, changes, bundle, phase, digests, metaData>>

\* generate(): when config.xml does not parse there is no object that the
\* appsecrets could be added to.
Generate(t) ==
    /\ phase = "open" /\ call[t].op = "meta"
    /\ LET b == call[t].builder
       IN  \/ /\ b.config \in Parsable
              /\ metaData' = b
              /\ call' = [call EXCEPT ![t].op = "idle", ![t].result = "meta", ![t].got = b]
              /\ UNCHANGED phase
           \/ /\ b.config \notin Parsable /\ (b.config = None \/ b.appsecrets = None)
              /\ Returns(t, "error")
              /\ UNCHANGED <<phase, metaData>>
           \/ /\ b.config \notin Parsable /\ b.config # None /\ b.appsecrets # None
              /\ phase' = "crashed"
              /\ Returns(t, "error")
              /\ UNCHANGED metaData
    /\ lock' = None
    /\ UNCHANGED <<file, changes, bundle, digests>>

(***************************************************************************)
(* The specification                                                       *)
(***************************************************************************)

\* The package file changes: an entry gets another content.
ChangeFile ==
    /\ changes < MaxChanges
    /\ \E i \in DOMAIN file, c \in Contents :
          /\ file[i].content # c
          /\ file' = [file EXCEPT ![i].content = c]
    /\ changes' = changes + 1
    /\ UNCHANGED <<bundle, phase, digests, metaData, lock, call>>

Init ==
    /\ file \in Packages
    /\ changes = 0
    /\ bundle \in BOOLEAN
    /\ phase = "closed"
    /\ digests = [p \in {} |-> None]
    /\ metaData = NoMetaData
    /\ lock = None
    /\ call = [t \in Threads |-> Idle]

Next ==
    \/ Open
    \/ \E t \in Threads :
          \/ BeginVerify(t) \/ VerifyEntry(t) \/ EndVerify(t)
          \/ GetMetaData(t) \/ ReadMetaDataEntry(t) \/ Generate(t)
    \/ ChangeFile

Spec == Init /\ [][Next]_vars

(***************************************************************************)
(* Properties                                                              *)
(***************************************************************************)

TypeOK ==
    /\ file \in Seq(Entry)
    /\ changes \in 0..MaxChanges
    /\ bundle \in BOOLEAN
    /\ phase \in {"closed", "open", "failed", "crashed"}
    /\ DOMAIN digests \subseteq Paths
    /\ metaData.config \in Contents \union {None, Short}
    /\ lock \in Threads \union {None}
    /\ \A t \in Threads : /\ call[t].op \in {"idle", "verify", "meta"}
                          /\ call[t].pos \in 0..(Len(file) + 1)
                          /\ call[t].op = "meta" => lock = t

\* A signature lists a content for a path.
Lists(s, p, c) == p \in DOMAIN DigestMap(s) /\ DigestMap(s)[p] = c

\* The bytes of the files among entries.
TotalSize(entries) ==
    LET total[n \in 0..Len(entries)] ==
            IF n = 0 THEN 0 ELSE total[n - 1] + EntrySize(entries[n])
    IN  total[Len(entries)]

(* verify() succeeds only with a bundle, only when each entry that it read  *)
(* had, when it read it, the content that a sound signature lists for its   *)
(* path, and only within the limit on bytes: whatever the file became later *)
(* and whatever other threads did.                                          *)
VerifySound ==
    \A t \in Threads : call[t].result = "verified" =>
        /\ bundle
        /\ \E s \in Signed : \A i \in DOMAIN call[t].seen :
              LET e == call[t].seen[i] IN Lists(s, e.path, e.content)
        /\ TotalSize(call[t].seen) <= MaxBytes

SeenPaths(t) == {call[t].seen[i].path : i \in DOMAIN call[t].seen}

(* When no path occurs twice in what verify() read, its success means that  *)
(* every signed file was there, although the walk also ends when a header   *)
(* cannot be read.                                                          *)
VerifyComplete ==
    \A t \in Threads :
        (call[t].result = "verified" /\ Cardinality(SeenPaths(t)) = Len(call[t].seen)) =>
            SeenPaths(t) = DOMAIN digests

(* With a bundle, the meta data is what a sound signature lists for         *)
(* config.xml and for appsecrets.json, also when the file is written to     *)
(* between opening and reading, or between the two files.                   *)
MetaDataSigned ==
    (bundle /\ metaData # NoMetaData) =>
        \E s \in Signed : \A p \in DOMAIN metaData :
            metaData[p] # None => Lists(s, p, metaData[p])

(* Once there is meta data it stays, and what any thread was given is it:   *)
(* all threads get the same, also when the package file changes while       *)
(* several of them ask.                                                     *)
MetaDataStable ==
    [][/\ metaData # NoMetaData => metaData' = metaData
       /\ \A t \in Threads : call'[t].result = "meta" => call'[t].got = metaData']_vars

(* "Check that all files in the digest map were found in the package"       *)
(* (verify): after a success they were.                                     *)
VerifyFindsAll ==
    \A t \in Threads : call[t].result = "verified" => SeenPaths(t) = DOMAIN digests

(* maxExtractionEntries is "the maximum number of files, directories or     *)
(* symlinks" and verify() fails when a package exceeds it (Package.h).      *)
VerifyCountsDirectories ==
    \A t \in Threads : call[t].result = "verified" => Len(file) <= MaxEntries

(* generate() "will fail and return a nullptr if some key files are missing *)
(* or corrupt (ie. config.xml)": it does not end the process.               *)
GenerateReturns == phase # "crashed"

(* addMetaDataFile() "will fail if the file has previously been added": the *)
(* contents that were added first stay.                                     *)
AddedOnce ==
    [][\A t \in Threads : \A p \in DOMAIN NoMetaData :
          (call[t].op = "meta" /\ call'[t].op = "meta" /\ call[t].builder[p] # None)
              => call'[t].builder[p] = call[t].builder[p]]_vars

===============================================================================
