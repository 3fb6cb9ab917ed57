----------------------------- MODULE ErofsReader -----------------------------
(***************************************************************************)
(* The walk over an EROFS image (lib/erofs/ErofsReader.cpp): create()      *)
(* checks the superblock and reads the root directory; next() gives the    *)
(* entries of one directory after the other, and queues the directories it *)
(* meets.                                                                  *)
(*                                                                         *)
(* Directories are read block by block into one buffer, m_dirBlockBuffer.  *)
(* A block is the list of its dirents, "." and ".." left out; a block that *)
(* processDirectoryBlock() rejects has ok = FALSE. A path is the sequence  *)
(* of its names. Each read of the image may fail.                          *)
(***************************************************************************)
EXTENDS Naturals, Sequences

CONSTANTS
    Names,    \* file names that validateFileName() accepts
    Inodes,   \* inode numbers
    Images,   \* the images to walk
    Faults,   \* what may fail: "superblock", "inode", "block"
    MaxGiven  \* bound: entries given by one reader

Kinds == {"regular", "directory", "symlink", "device"}

Dirent == [name : Names, type : Kinds, inode : Inodes]

Block == [ok : BOOLEAN, entries : Seq(Dirent)]

\* root: rootInode(); kind: the type in each inode; blocks: the data of each inode.
Image == [fourK : BOOLEAN, root : Inodes, kind : [Inodes -> Kinds], blocks : [Inodes -> Seq(Block)]]

ASSUME ErofsAssumption == Images \subseteq Image /\ MaxGiven \in Nat

\* The buffer before anything is read into it, or after a read that stopped half way.
Unparsable == [ok |-> FALSE, entries |-> <<>>]

Path == Seq(Names)

VARIABLES
    image,   \* the image file, which does not change
    pc,      \* "new", "idle" (between calls), "open" and "read" (in readDirectory()),
             \* "closed" (create() has failed)
    created, \* whether the constructor has returned
    error,   \* m_error is set
    queue,   \* m_dirStack: the directories still to read, the current one first
    dir,     \* m_currentDir
    index,   \* m_currentDirIndex
    buffer,  \* m_dirBlockBuffer
    read,    \* locals of readDirectory(): blocks read, entries found
    entry,   \* the path of the entry that next() has made and not yet returned
    result,  \* what next() has returned last: "none", "entry" or "null"
    given,   \* ghost: the paths next() has returned
    missed   \* ghost: a directory block could not be read

walk == <<queue, dir, index>>
vars == <<image, pc, created, error, queue, dir, index, buffer, read, entry, result, given, missed>>

Directory == [path : Path, inode : Inodes]

\* The directory that readDirectory() is called for.
Reading == IF created THEN Head(queue) ELSE [path |-> <<>>, inode |-> image.root]

MayFail(what) == IF what \in Faults THEN BOOLEAN ELSE {FALSE}

(***************************************************************************)
(* next() returns the entry it has made.                                   *)
(***************************************************************************)
Return(path) ==
    /\ pc' = "idle" /\ result' = "entry" /\ given' = Append(given, path)

Init ==
    /\ image \in Images
    /\ pc = "new" /\ created = FALSE /\ error = FALSE
    /\ queue = <<>> /\ dir = <<>> /\ index = 0
    /\ buffer = Unparsable /\ read = [blocks |-> 0, entries |-> <<>>]
    /\ entry = <<>> /\ result = "none" /\ given = <<>> /\ missed = FALSE

(***************************************************************************)
(* The constructor: the superblock is read and parsed; an image with other *)
(* blocks than 4k is only logged; then the root directory is read.         *)
(***************************************************************************)
CreateFails ==
    /\ pc = "new" /\ "superblock" \in Faults
    /\ error' = TRUE /\ created' = TRUE /\ pc' = "closed"
    /\ UNCHANGED <<image, walk, buffer, read, entry, result, given, missed>>

CreateUnsupported ==
    /\ pc = "new" /\ ~image.fourK
    /\ created' = TRUE /\ pc' = "idle"
    /\ UNCHANGED <<image, error, walk, buffer, read, entry, result, given, missed>>

Create ==
    /\ pc = "new" /\ image.fourK
    /\ pc' = "open"
    /\ UNCHANGED <<image, created, error, walk, buffer, read, entry, result, given, missed>>

(***************************************************************************)
(* readDirectory() has failed: create() fails, or next() returns nullptr   *)
(* and drops the entry it has made.                                        *)
(***************************************************************************)
DirectoryFails ==
    /\ error' = TRUE /\ created' = TRUE
    /\ pc' = IF created THEN "idle" ELSE "closed"
    /\ result' = IF created THEN "null" ELSE result
    /\ UNCHANGED <<walk, given>>

\* readDirectory() constructs the inode and checks its type.
OpenDirectory ==
    /\ pc = "open"
    /\ \E fails \in MayFail("inode") :
         IF fails \/ image.kind[Reading.inode] # "directory"
         THEN DirectoryFails /\ UNCHANGED read
         ELSE /\ pc' = "read" /\ read' = [blocks |-> 0, entries |-> <<>>]
              /\ UNCHANGED <<created, error, walk, result, given>>
    /\ UNCHANGED <<image, buffer, entry, missed>>

(***************************************************************************)
(* One block is read and processed. ErofsInode::read() returns -1 when it  *)
(* fails, which the test for zero lets pass: the buffer is processed as it *)
(* is, with the previous block in it unless the failing read wrote to it   *)
(* or the new block is shorter.                                            *)
(***************************************************************************)
FailedRead == {buffer, Unparsable}

ReadBlock ==
    /\ pc = "read" /\ read.blocks < Len(image.blocks[Reading.inode])
    /\ \E fails \in MayFail("block") :
         /\ missed' = (missed \/ fails)
         /\ buffer' \in IF fails THEN FailedRead
                        ELSE {image.blocks[Reading.inode][read.blocks + 1]}
    /\ IF buffer'.ok
       THEN /\ read' = [blocks |-> read.blocks + 1, entries |-> read.entries \o buffer'.entries]
            /\ UNCHANGED <<pc, created, error, walk, result, given>>
       ELSE DirectoryFails /\ UNCHANGED read
    /\ UNCHANGED <<image, entry>>

(***************************************************************************)
(* readDirectory() has read everything. The constructor queues the root    *)
(* unless it is empty; next() goes on to the following directory when this *)
(* one is empty.                                                           *)
(***************************************************************************)
RootRead ==
    /\ ~created
    /\ created' = TRUE /\ pc' = "idle"
    /\ dir' = read.entries /\ index' = 0
    /\ queue' = IF read.entries = <<>> THEN <<>> ELSE <<Reading>>
    /\ UNCHANGED <<result, given>>

\* Mutant: an empty directory becomes the current one.
StopAtEmpty ==
    /\ created /\ read.entries = <<>>
    /\ Return(entry)
    /\ UNCHANGED <<created, queue, dir, index>>

\* Mutant: an empty directory stays at the front.
KeepEmpty ==
    /\ created /\ read.entries = <<>>
    /\ pc' = "open"
    /\ UNCHANGED <<created, queue, dir, index, result, given>>

SkipEmpty ==
    /\ created /\ read.entries = <<>>
    /\ queue' = Tail(queue)
    /\ IF queue' = <<>> THEN Return(entry) ELSE pc' = "open" /\ UNCHANGED <<result, given>>
    /\ UNCHANGED <<created, dir, index>>

\* Mutant: the entry made before is lost when a directory is entered.
EnterDrops ==
    /\ created /\ read.entries # <<>>
    /\ dir' = read.entries
    /\ pc' = "idle" /\ result' = "null"
    /\ UNCHANGED <<created, queue, index, given>>

Enter ==
    /\ created /\ read.entries # <<>>
    /\ dir' = read.entries
    /\ Return(entry)
    /\ UNCHANGED <<created, queue, index>>

EndDirectory ==
    /\ pc = "read" /\ read.blocks = Len(image.blocks[Reading.inode])
    /\ RootRead \/ SkipEmpty \/ Enter
    /\ UNCHANGED <<image, error, buffer, read, entry, missed>>

(***************************************************************************)
(* next(): the entry at m_currentDirIndex is made; a directory is queued;  *)
(* after the last entry of a directory the next one is read.               *)
(***************************************************************************)
hasNext == ~error /\ queue # <<>>

NextNull ==
    /\ pc = "idle" /\ ~hasNext
    /\ result' = "null"
    /\ UNCHANGED <<image, pc, created, error, walk, buffer, read, entry, given, missed>>

\* Mutant: the last entry of a directory is not queued.
QueuedButLast(path, e) ==
    IF e.type = "directory" /\ index + 1 < Len(dir)
    THEN Append(queue, [path |-> path, inode |-> e.inode]) ELSE queue

Queued(path, e) ==
    IF e.type = "directory" THEN Append(queue, [path |-> path, inode |-> e.inode]) ELSE queue

\* ErofsEntry::isValid(): the inode was read and has a type that is supported.
NextEntry ==
    /\ pc = "idle" /\ hasNext /\ Len(given) < MaxGiven
    /\ LET e    == dir[index + 1]
           path == Append(Head(queue).path, e.name)
           q    == Queued(path, e)
       IN  \E fails \in MayFail("inode") :
             IF fails \/ image.kind[e.inode] = "device"
             THEN /\ error' = TRUE /\ result' = "null"
                  /\ queue' = q /\ index' = index + 1
                  /\ UNCHANGED <<pc, dir, entry, given>>
             ELSE /\ entry' = path
                  /\ IF index + 1 < Len(dir)
                     THEN /\ queue' = q /\ index' = index + 1 /\ UNCHANGED dir
                          /\ Return(path)
                     ELSE /\ queue' = Tail(q) /\ index' = 0 /\ dir' = <<>>
                          /\ IF Tail(q) = <<>> THEN Return(path)
                             ELSE pc' = "open" /\ UNCHANGED <<result, given>>
                  /\ UNCHANGED error
    /\ UNCHANGED <<image, created, buffer, read, missed>>

Step == OpenDirectory \/ ReadBlock \/ EndDirectory

Next == CreateFails \/ CreateUnsupported \/ Create \/ Step \/ NextNull \/ NextEntry

Spec == Init /\ [][Next]_vars

\* A caller that goes on calling next() until it returns nullptr.
FairSpec == Spec /\ WF_vars(Create \/ CreateUnsupported) /\ WF_vars(Step) /\ WF_vars(NextEntry)

-----------------------------------------------------------------------------
\* The variables have their types.
TypeOK ==
    /\ image \in Images
    /\ pc \in {"new", "idle", "open", "read", "closed"}
    /\ created \in BOOLEAN /\ error \in BOOLEAN /\ missed \in BOOLEAN
    /\ queue \in Seq(Directory) /\ dir \in Seq(Dirent) /\ index \in Nat
    /\ buffer \in Block
    /\ read \in [blocks : Nat, entries : Seq(Dirent)]
    /\ entry \in Path /\ given \in Seq(Path)
    /\ result \in {"none", "entry", "null"}

\* The reader's m_currentDir[m_currentDirIndex++] stays inside the vector: whenever
\* next() would go on, there is an entry left in the current directory.
IndexInBounds == pc = "idle" /\ hasNext => index < Len(dir)

Parent(path) == SubSeq(path, 1, Len(path) - 1)

\* next() gives a directory before what is inside it, whatever fails on the way.
ParentFirst ==
    \A i \in 1 .. Len(given) :
      Parent(given[i]) # <<>> => \E j \in 1 .. i - 1 : given[j] = Parent(given[i])


\* A directory block that cannot be read, say because dm-verity rejects it, sets the
\* reader's error before anything else is returned.
ReadErrorsReported == missed /\ pc \in {"idle", "closed"} => error

\* An image that the constructor does not go on to read makes create() fail.
UnsupportedFails == created /\ ~image.fourK => error

\* The loop in the interface's description: next() after hasNext() gives an entry.
HasNextGives == [][hasNext => result' # "null"]_vars
=============================================================================
