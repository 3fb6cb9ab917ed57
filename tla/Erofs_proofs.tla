---------------------------- MODULE Erofs_proofs ------------------------------
(***************************************************************************)
(* Proofs about the EROFS reader: the walk over an image, for every image, *)
(* every combination of failing reads and every length of the walk; and    *)
(* the data of an inode, for every well-formed inode and every sequence of *)
(* calls.                                                                  *)
(***************************************************************************)
EXTENDS MCErofs, Induction, FiniteSetTheorems, SequenceTheorems, TLAPS

InCall == created /\ pc \in {"open", "read"}

\* Where the walk is: readDirectory() runs for the front of the queue, only while no
\* error is set; before the constructor returns there is no queue.
ControlInv ==
  /\ pc \in {"new", "open", "read"} => ~error
  /\ pc = "new" => ~created
  /\ ~created => pc \in {"new", "open", "read"} /\ queue = <<>> /\ index = 0 /\ given = <<>>
  /\ pc = "idle" /\ hasNext => index < Len(dir)
  /\ InCall => queue # <<>> /\ index = 0

\* Every queued directory has been given, or is the entry that next() is about to
\* return; the root has no entry.
QueueInv ==
  ~error => \A k \in 1 .. Len(queue) :
              queue[k].path = <<>> \/ IsGiven(queue[k].path) \/ (InCall /\ queue[k].path = entry)

\* The parent of the entry that next() is about to return has been given.
EntryInv == InCall => Parent(entry) = <<>> \/ IsGiven(Parent(entry))

IInv == TypeOK /\ ControlInv /\ QueueInv /\ EntryInv /\ ParentFirst

-----------------------------------------------------------------------------
\* The parent of the path next() makes is the directory it is in.
LEMMA ParentOfAppend ==
  ASSUME NEW p \in Path, NEW n \in Names
  PROVE  Append(p, n) \in Path /\ Parent(Append(p, n)) = p
<1> DEFINE s == Append(p, n)
<1>1. s \in Seq(Names) /\ Len(s) = Len(p) + 1 /\ \A i \in 1 .. Len(p) : s[i] = p[i]
  BY AppendProperties DEF Path
<1>2. Len(p) \in Nat /\ p \in [1 .. Len(p) -> Names]
  BY LenProperties DEF Path
<1>3. SubSeq(s, 1, Len(p)) = [i \in 1 .. Len(p) |-> s[i]]
  BY <1>1, <1>2
<1>4. SubSeq(s, 1, Len(p)) = p
  BY <1>1, <1>2, <1>3
<1> QED BY <1>1, <1>2, <1>4 DEF Parent, Path

\* Returning an entry whose parent was given keeps parents first, and makes the entry
\* one of those given.
LEMMA ReturnKeeps ==
  ASSUME NEW path \in Path, given \in Seq(Path), ParentFirst, given' = Append(given, path),
         Parent(path) = <<>> \/ IsGiven(Parent(path))
  PROVE  /\ given' \in Seq(Path)
         /\ ParentFirst'
         /\ IsGiven(path)'
         /\ \A p : IsGiven(p) => IsGiven(p)'
<1>1. /\ given' \in Seq(Path) /\ Len(given') = Len(given) + 1
      /\ \A i \in 1 .. Len(given) : given'[i] = given[i]
      /\ given'[Len(given) + 1] = path
      /\ Len(given) \in Nat
  BY AppendProperties, LenProperties
<1>2. IsGiven(path)'
  BY <1>1 DEF IsGiven
<1>3. \A p : IsGiven(p) => IsGiven(p)'
  BY <1>1 DEF IsGiven
<1>4. ASSUME NEW i \in 1 .. Len(given'), Parent(given'[i]) # <<>>
      PROVE  \E j \in 1 .. i - 1 : given'[j] = Parent(given'[i])
  <2>1. CASE i \in 1 .. Len(given)
    <3>1. PICK j \in 1 .. i - 1 : given[j] = Parent(given[i])
      BY <1>1, <1>4, <2>1 DEF ParentFirst
    <3>2. j \in 1 .. Len(given)
      BY <1>1, <2>1
    <3> QED BY <1>1, <2>1, <3>1, <3>2
  <2>2. CASE i = Len(given) + 1
    <3>1. PICK j \in 1 .. Len(given) : given[j] = Parent(path)
      BY <1>1, <1>4, <2>2 DEF IsGiven
    <3> QED BY <1>1, <2>2, <3>1
  <2> QED BY <1>1, <1>4, <2>1, <2>2
<1> QED BY <1>1, <1>2, <1>3, <1>4 DEF ParentFirst, Parent

\* The elements of a queue without its front.
LEMMA TailElements ==
  ASSUME NEW S, NEW q \in Seq(S), q # <<>>
  PROVE  /\ Tail(q) \in Seq(S) /\ Len(Tail(q)) = Len(q) - 1
         /\ \A k \in 1 .. Len(Tail(q)) : k + 1 \in 1 .. Len(q) /\ Tail(q)[k] = q[k + 1]
         /\ Head(q) = q[1] /\ 1 \in 1 .. Len(q) /\ q[1] \in S
BY HeadTailProperties, LenProperties, ElementOfSeq

\* What Queued() does to the queue: it stays, or gets the directory at its end.
LEMMA QueuedElements ==
  ASSUME TypeOK, NEW path \in Path, NEW e \in Dirent
  PROVE  /\ Queued(path, e) \in Seq(Directory)
         /\ Len(queue) \in Nat /\ Len(Queued(path, e)) \in {Len(queue), Len(queue) + 1}
         /\ \A k \in 1 .. Len(queue) : Queued(path, e)[k] = queue[k]
         /\ Len(Queued(path, e)) = Len(queue) + 1 => Queued(path, e)[Len(queue) + 1].path = path
<1> DEFINE d == [path |-> path, inode |-> e.inode]
<1>1. queue \in Seq(Directory) /\ Len(queue) \in Nat
  BY LenProperties DEF TypeOK
<1>2. d \in Directory
  BY DEF Directory, Dirent
<1>3. CASE e.type = "directory"
  <2>1. Queued(path, e) = Append(queue, d)
    BY <1>3 DEF Queued
  <2>2. /\ Append(queue, d) \in Seq(Directory) /\ Len(Append(queue, d)) = Len(queue) + 1
        /\ \A k \in 1 .. Len(queue) : Append(queue, d)[k] = queue[k]
        /\ Append(queue, d)[Len(queue) + 1] = d
    BY <1>1, <1>2, AppendProperties
  <2> QED BY <1>1, <2>1, <2>2
<1>4. CASE e.type # "directory"
  BY <1>1, <1>4 DEF Queued
<1> QED BY <1>3, <1>4

\* The directory being read, and the blocks of an image, have their types.
LEMMA ReadingType ==
  ASSUME IInv, pc \in {"open", "read"}
  PROVE  Reading \in Directory /\ image \in Image /\ image.blocks[Reading.inode] \in Seq(Block)
<1>1. image \in Image
  BY ErofsAssumption DEF IInv, TypeOK
<1>2. CASE created
  <2>1. queue \in Seq(Directory) /\ queue # <<>>
    BY <1>2 DEF IInv, TypeOK, ControlInv, InCall
  <2>2. Reading \in Directory
    BY <1>2, <2>1, HeadTailProperties DEF Reading
  <2> QED BY <1>1, <2>2 DEF Image, Directory
<1>3. CASE ~created
  BY <1>1, <1>3 DEF Reading, Image, Directory, Path
<1> QED BY <1>2, <1>3

\* A directory that cannot be read ends the walk.
LEMMA DirectoryFailsKeeps ==
  ASSUME IInv, pc \in {"open", "read"}, DirectoryFails,
         image' = image, entry' = entry, read' = read, buffer' \in Block, missed' \in BOOLEAN
  PROVE  IInv'
<1>1. TypeOK'
  BY DEF IInv, TypeOK, DirectoryFails, walk
<1>2. ControlInv' /\ QueueInv' /\ EntryInv'
  BY DEF IInv, TypeOK, ControlInv, QueueInv, EntryInv, DirectoryFails, InCall, hasNext
<1>3. ParentFirst'
  BY DEF IInv, ParentFirst, DirectoryFails, Parent
<1> QED BY <1>1, <1>2, <1>3 DEF IInv

\* Steps inside a call that change neither the queue nor what was given.
LEMMA QuietKeeps ==
  ASSUME IInv, TypeOK', ControlInv', UNCHANGED <<error, queue, entry, given>>, InCall => InCall', InCall' => InCall
  PROVE  IInv'
<1>1. \A p : IsGiven(p)' <=> IsGiven(p)
  BY DEF IsGiven
<1>2. QueueInv' /\ EntryInv'
  BY <1>1 DEF IInv, QueueInv, EntryInv, Parent
<1>3. ParentFirst'
  BY DEF IInv, ParentFirst, Parent
<1> QED BY <1>2, <1>3 DEF IInv

LEMMA CreateKeeps ==
  ASSUME IInv, CreateFails \/ CreateUnsupported \/ Create \/ NextNull
  PROVE  IInv'
<1>1. CASE CreateFails
  <2>1. TypeOK'
    BY <1>1 DEF IInv, TypeOK, CreateFails, walk
  <2>2. ControlInv' /\ QueueInv' /\ EntryInv'
    BY <1>1 DEF IInv, ControlInv, QueueInv, EntryInv, CreateFails, walk, InCall, hasNext
  <2>3. ParentFirst'
    BY <1>1 DEF IInv, ParentFirst, CreateFails, Parent
  <2> QED BY <2>1, <2>2, <2>3 DEF IInv
<1>2. CASE CreateUnsupported
  <2>1. TypeOK'
    BY <1>2 DEF IInv, TypeOK, CreateUnsupported, walk
  <2>2. ControlInv'
    BY <1>2 DEF IInv, ControlInv, CreateUnsupported, walk, InCall, hasNext
  <2> QED BY <1>2, <2>1, <2>2, QuietKeeps DEF IInv, ControlInv, CreateUnsupported, walk, InCall
<1>3. CASE Create
  <2>1. TypeOK'
    BY <1>3 DEF IInv, TypeOK, Create, walk
  <2>2. ControlInv'
    BY <1>3 DEF IInv, ControlInv, Create, walk, InCall, hasNext
  <2> QED BY <1>3, <2>1, <2>2, QuietKeeps DEF IInv, ControlInv, Create, walk, InCall
<1>4. CASE NextNull
  <2>1. TypeOK'
    BY <1>4 DEF IInv, TypeOK, NextNull, walk
  <2>2. ControlInv'
    BY <1>4 DEF IInv, ControlInv, NextNull, walk, InCall, hasNext
  <2> QED BY <1>4, <2>1, <2>2, QuietKeeps DEF NextNull, walk, InCall
<1> QED BY <1>1, <1>2, <1>3, <1>4

LEMMA OpenDirectoryKeeps ==
  ASSUME IInv, OpenDirectory
  PROVE  IInv'
<1>1. CASE DirectoryFails /\ UNCHANGED read
  BY <1>1, DirectoryFailsKeeps DEF OpenDirectory, IInv, TypeOK
<1>2. CASE /\ pc' = "read" /\ read' = [blocks |-> 0, entries |-> <<>>]
           /\ UNCHANGED <<created, error, walk, result, given>>
  <2>1. TypeOK'
    BY <1>2 DEF IInv, TypeOK, OpenDirectory, walk
  <2>2. ControlInv'
    BY <1>2 DEF IInv, ControlInv, OpenDirectory, walk, InCall, hasNext
  <2> QED BY <1>2, <2>1, <2>2, QuietKeeps DEF OpenDirectory, walk, InCall
<1> QED BY <1>1, <1>2 DEF OpenDirectory

LEMMA ReadBlockKeeps ==
  ASSUME IInv, ReadBlock
  PROVE  IInv'
<1> DEFINE blocks == image.blocks[Reading.inode]
<1>1. blocks \in Seq(Block) /\ Len(blocks) \in Nat /\ read.blocks \in Nat /\ pc = "read"
  BY ReadingType, LenProperties DEF ReadBlock, IInv, TypeOK
<1>2. blocks[read.blocks + 1] \in Block
  BY <1>1, ElementOfSeq DEF ReadBlock
<1>3. Unparsable \in Block
  BY DEF Unparsable, Block
<1>4. buffer' \in Block /\ missed' \in BOOLEAN
  BY <1>2, <1>3 DEF ReadBlock, FailedRead, IInv, TypeOK
<1>5. CASE DirectoryFails /\ UNCHANGED read
  BY <1>1, <1>4, <1>5, DirectoryFailsKeeps DEF ReadBlock
<1>6. CASE /\ read' = [blocks |-> read.blocks + 1, entries |-> read.entries \o buffer'.entries]
           /\ UNCHANGED <<pc, created, error, walk, result, given>>
  <2>1. read.entries \o buffer'.entries \in Seq(Dirent)
    BY <1>4, ConcatProperties DEF IInv, TypeOK, Block
  <2>2. read' \in [blocks : Nat, entries : Seq(Dirent)]
    BY <1>1, <1>6, <2>1
  <2>3. TypeOK'
    BY <1>4, <1>6, <2>2 DEF IInv, TypeOK, ReadBlock, walk
  <2>4. ControlInv'
    BY <1>6 DEF IInv, ControlInv, ReadBlock, walk, InCall, hasNext
  <2> QED BY <1>6, <2>3, <2>4, QuietKeeps DEF ReadBlock, walk, InCall
<1> QED BY <1>5, <1>6 DEF ReadBlock

\* next() returns: what was queued is given or is the entry, which is given now.
LEMMA ReturnsKeeps ==
  ASSUME IInv, NEW path \in Path, Return(path), UNCHANGED <<created, error>>, TypeOK', ControlInv',
         Parent(path) = <<>> \/ IsGiven(Parent(path)),
         \A k \in 1 .. Len(queue') :
           queue'[k].path = <<>> \/ IsGiven(queue'[k].path) \/ queue'[k].path = path
  PROVE  IInv'
<1>1. /\ ParentFirst' /\ IsGiven(path)'
      /\ \A p : IsGiven(p) => IsGiven(p)'
  BY ReturnKeeps DEF IInv, TypeOK, Return
<1>2. QueueInv'
  <2>1. ASSUME NEW k \in 1 .. Len(queue')
        PROVE  queue'[k].path = <<>> \/ \E j \in 1 .. Len(given') : given'[j] = queue'[k].path
    BY <1>1 DEF IsGiven
  <2> QED BY <2>1 DEF QueueInv, IsGiven
<1>3. EntryInv'
  BY DEF EntryInv, InCall, Return
<1> QED BY <1>1, <1>2, <1>3 DEF IInv

LEMMA EndDirectoryKeeps ==
  ASSUME IInv, EndDirectory
  PROVE  IInv'
<1>1. /\ pc = "read" /\ ~error /\ error' = error /\ entry' = entry /\ entry \in Path
      /\ image' = image /\ buffer' = buffer /\ read' = read /\ missed' = missed
      /\ read.entries \in Seq(Dirent) /\ Len(read.entries) \in Nat
  BY LenProperties DEF IInv, ControlInv, TypeOK, EndDirectory
<1>2. CASE RootRead
  <2>1. Reading \in Directory /\ Reading.path = <<>>
    BY <1>1, <1>2, ReadingType DEF RootRead, Reading
  <2>2. /\ queue' \in Seq(Directory)
        /\ \A k \in 1 .. Len(queue') : queue'[k].path = <<>>
        /\ queue' # <<>> => Len(read.entries) > 0
    BY <1>1, <1>2, <2>1, EmptySeq DEF RootRead
  <2>3. TypeOK'
    BY <1>1, <1>2, <2>2 DEF IInv, TypeOK, RootRead
  <2>4. ControlInv'
    BY <1>1, <1>2, <2>2 DEF ControlInv, RootRead, InCall, hasNext
  <2>5. QueueInv' /\ EntryInv'
    BY <1>2, <2>2 DEF QueueInv, EntryInv, RootRead, InCall
  <2>6. ParentFirst'
    BY <1>2 DEF IInv, ParentFirst, Parent, RootRead
  <2> QED BY <2>3, <2>4, <2>5, <2>6 DEF IInv
<1>3. ASSUME created
      PROVE  /\ queue \in Seq(Directory) /\ queue # <<>> /\ index = 0 /\ InCall
             /\ Parent(entry) = <<>> \/ IsGiven(Parent(entry))
             /\ \A k \in 1 .. Len(queue) :
                  queue[k].path = <<>> \/ IsGiven(queue[k].path) \/ queue[k].path = entry
  BY <1>1, <1>3 DEF IInv, TypeOK, ControlInv, QueueInv, EntryInv, InCall
<1>4. CASE SkipEmpty
  <2>1. /\ Tail(queue) \in Seq(Directory)
        /\ \A k \in 1 .. Len(Tail(queue)) : k + 1 \in 1 .. Len(queue) /\ Tail(queue)[k] = queue[k + 1]
    BY <1>3, <1>4, TailElements DEF SkipEmpty
  <2>2. \A k \in 1 .. Len(queue') :
          queue'[k].path = <<>> \/ IsGiven(queue'[k].path) \/ queue'[k].path = entry
    BY <1>3, <1>4, <2>1 DEF SkipEmpty
  <2>3. CASE queue' = <<>>
    <3>1. Return(entry)
      BY <1>4, <2>3 DEF SkipEmpty
    <3>2. given' \in Seq(Path)
      BY <1>1, <3>1, AppendProperties DEF IInv, TypeOK, Return
    <3>3. TypeOK'
      BY <1>1, <1>4, <2>1, <3>1, <3>2 DEF IInv, TypeOK, SkipEmpty, Return
    <3>4. ControlInv'
      BY <1>1, <1>4, <2>3, <3>1 DEF ControlInv, SkipEmpty, Return, InCall, hasNext
    <3> QED BY <1>1, <1>3, <1>4, <2>2, <3>1, <3>3, <3>4, ReturnsKeeps DEF SkipEmpty
  <2>4. CASE queue' # <<>>
    <3>1. pc' = "open" /\ UNCHANGED <<result, given, created, dir, index>> /\ created
      BY <1>4, <2>4 DEF SkipEmpty
    <3>2. TypeOK'
      BY <1>1, <1>4, <2>1, <3>1 DEF IInv, TypeOK, SkipEmpty
    <3>3. ControlInv'
      BY <1>1, <1>3, <2>4, <3>1 DEF ControlInv, InCall, hasNext
    <3>4. \A p : IsGiven(p)' <=> IsGiven(p)
      BY <3>1 DEF IsGiven
    <3>5. QueueInv'
      BY <1>1, <2>2, <3>1, <3>4 DEF QueueInv, InCall
    <3>6. EntryInv'
      BY <1>1, <1>3, <3>1, <3>4 DEF EntryInv, Parent
    <3>7. ParentFirst'
      BY <3>1 DEF IInv, ParentFirst, Parent
    <3> QED BY <3>2, <3>3, <3>5, <3>6, <3>7 DEF IInv
  <2> QED BY <2>3, <2>4
<1>5. CASE Enter
  <2>1. Return(entry) /\ UNCHANGED <<created, queue, index>> /\ created /\ dir' = read.entries
        /\ Len(read.entries) > 0
    BY <1>1, <1>5, EmptySeq DEF Enter
  <2>2. given' \in Seq(Path)
    BY <1>1, <2>1, AppendProperties DEF IInv, TypeOK, Return
  <2>3. TypeOK'
    BY <1>1, <2>1, <2>2 DEF IInv, TypeOK, Return
  <2>4. ControlInv'
    BY <1>1, <1>3, <2>1 DEF ControlInv, Return, InCall, hasNext
  <2> QED BY <1>1, <1>3, <2>1, <2>3, <2>4, ReturnsKeeps
<1> QED BY <1>2, <1>4, <1>5 DEF EndDirectory

LEMMA NextEntryKeeps ==
  ASSUME IInv, NextEntry
  PROVE  IInv'
<1> DEFINE e    == dir[index + 1]
           path == Append(Head(queue).path, e.name)
           q    == Queued(path, e)
<1>1. /\ pc = "idle" /\ ~error /\ created /\ queue \in Seq(Directory) /\ queue # <<>>
      /\ dir \in Seq(Dirent) /\ Len(dir) \in Nat /\ index \in Nat /\ index < Len(dir)
      /\ image' = image /\ created' = created /\ buffer' = buffer /\ read' = read /\ missed' = missed
  BY LenProperties DEF IInv, TypeOK, ControlInv, NextEntry, hasNext
<1>2. e \in Dirent /\ e.name \in Names
  <2>1. index + 1 \in 1 .. Len(dir)
    BY <1>1
  <2>2. e \in Dirent
    BY <1>1, <2>1, ElementOfSeq
  <2> QED BY <2>2 DEF Dirent
<1>3. Head(queue) = queue[1] /\ 1 \in 1 .. Len(queue) /\ Head(queue) \in Directory
  BY <1>1, TailElements
<1>4. path \in Path /\ Parent(path) = Head(queue).path
  BY <1>2, <1>3, ParentOfAppend DEF Directory
<1>5. \A k \in 1 .. Len(queue) : queue[k].path = <<>> \/ IsGiven(queue[k].path)
  BY <1>1 DEF IInv, QueueInv, InCall
<1>6. Parent(path) = <<>> \/ IsGiven(Parent(path))
  BY <1>3, <1>4, <1>5
<1>7. /\ q \in Seq(Directory) /\ Len(q) \in Nat /\ Len(q) > 0 /\ q # <<>>
      /\ \A k \in 1 .. Len(q) : q[k].path = <<>> \/ IsGiven(q[k].path) \/ q[k].path = path
  <2>1. /\ q \in Seq(Directory)
        /\ Len(queue) \in Nat /\ Len(q) \in {Len(queue), Len(queue) + 1}
        /\ \A k \in 1 .. Len(queue) : q[k] = queue[k]
        /\ Len(q) = Len(queue) + 1 => q[Len(queue) + 1].path = path
    BY <1>2, <1>4, QueuedElements DEF IInv
  <2> HIDE DEF q, path, e
  <2>2. Len(q) > 0 /\ q # <<>>
    BY <1>3, <2>1
  <2>3. ASSUME NEW k \in 1 .. Len(q)
        PROVE  q[k].path = <<>> \/ IsGiven(q[k].path) \/ q[k].path = path
    <3>1. CASE k \in 1 .. Len(queue)
      BY <1>5, <2>1, <3>1
    <3>2. CASE k = Len(queue) + 1 /\ Len(q) = Len(queue) + 1
      BY <2>1, <3>2
    <3> QED BY <2>1, <3>1, <3>2
  <2> QED BY <2>1, <2>2, <2>3
<1> HIDE DEF q, path, e
<1>8. CASE /\ error' = TRUE /\ result' = "null"
           /\ queue' = q /\ index' = index + 1
           /\ UNCHANGED <<pc, dir, entry, given>>
  <2>1. TypeOK'
    BY <1>1, <1>7, <1>8 DEF IInv, TypeOK
  <2>2. ControlInv' /\ QueueInv' /\ EntryInv'
    BY <1>1, <1>8 DEF ControlInv, QueueInv, EntryInv, InCall, hasNext
  <2>3. ParentFirst'
    BY <1>8 DEF IInv, ParentFirst, Parent
  <2> QED BY <2>1, <2>2, <2>3 DEF IInv
<1>9. CASE /\ entry' = path /\ index + 1 < Len(dir)
           /\ queue' = q /\ index' = index + 1 /\ UNCHANGED dir
           /\ Return(path) /\ UNCHANGED error
  <2>1. given' \in Seq(Path)
    BY <1>4, <1>9, AppendProperties DEF IInv, TypeOK, Return
  <2>2. TypeOK'
    BY <1>1, <1>4, <1>7, <1>9, <2>1 DEF IInv, TypeOK, Return
  <2>3. ControlInv'
    BY <1>1, <1>9 DEF ControlInv, Return, InCall, hasNext
  <2> QED BY <1>1, <1>4, <1>6, <1>7, <1>9, <2>2, <2>3, ReturnsKeeps
<1>10. /\ Tail(q) \in Seq(Directory)
       /\ \A k \in 1 .. Len(Tail(q)) :
            Tail(q)[k].path = <<>> \/ IsGiven(Tail(q)[k].path) \/ Tail(q)[k].path = path
  BY <1>7, TailElements
<1>11. CASE /\ entry' = path /\ queue' = Tail(q) /\ index' = 0 /\ dir' = <<>>
            /\ Tail(q) = <<>> /\ Return(path) /\ UNCHANGED error
  <2>1. given' \in Seq(Path)
    BY <1>4, <1>11, AppendProperties DEF IInv, TypeOK, Return
  <2>2. TypeOK'
    BY <1>1, <1>4, <1>10, <1>11, <2>1, EmptySeq DEF IInv, TypeOK, Return
  <2>3. ControlInv'
    BY <1>1, <1>11 DEF ControlInv, Return, InCall, hasNext
  <2> QED BY <1>1, <1>4, <1>6, <1>10, <1>11, <2>2, <2>3, ReturnsKeeps
<1>12. CASE /\ entry' = path /\ queue' = Tail(q) /\ index' = 0 /\ dir' = <<>>
            /\ Tail(q) # <<>> /\ pc' = "open" /\ UNCHANGED <<result, given>> /\ UNCHANGED error
  <2>1. TypeOK'
    BY <1>1, <1>4, <1>10, <1>12, EmptySeq DEF IInv, TypeOK
  <2>2. ControlInv'
    BY <1>1, <1>12 DEF ControlInv, InCall, hasNext
  <2>3. \A p : IsGiven(p)' <=> IsGiven(p)
    BY <1>12 DEF IsGiven
  <2>4. QueueInv'
    BY <1>1, <1>10, <1>12, <2>3 DEF QueueInv, InCall
  <2>5. EntryInv'
    BY <1>6, <1>12, <2>3 DEF EntryInv, Parent
  <2>6. ParentFirst'
    BY <1>12 DEF IInv, ParentFirst, Parent
  <2> QED BY <2>1, <2>2, <2>4, <2>5, <2>6 DEF IInv
<1> QED BY <1>8, <1>9, <1>11, <1>12 DEF NextEntry, q, path, e

-----------------------------------------------------------------------------
\* The inductive invariant holds in the initial states, and every step keeps it.
THEOREM ErofsInvariant == Spec => []IInv
<1>1. Init => IInv
  <2> SUFFICES ASSUME Init PROVE IInv
    OBVIOUS
  <2>1. TypeOK
    BY EmptySeq DEF Init, TypeOK, Unparsable, Block, Path
  <2>2. ControlInv /\ QueueInv /\ EntryInv
    BY DEF Init, ControlInv, QueueInv, EntryInv, InCall, hasNext
  <2>3. ParentFirst
    BY DEF Init, ParentFirst
  <2> QED BY <2>1, <2>2, <2>3 DEF IInv
<1>2. IInv /\ [Next]_vars => IInv'
  <2> SUFFICES ASSUME IInv, [Next]_vars PROVE IInv'
    OBVIOUS
  <2>1. CASE CreateFails \/ CreateUnsupported \/ Create \/ NextNull
    BY <2>1, CreateKeeps
  <2>2. CASE OpenDirectory
    BY <2>2, OpenDirectoryKeeps
  <2>3. CASE ReadBlock
    BY <2>3, ReadBlockKeeps
  <2>4. CASE EndDirectory
    BY <2>4, EndDirectoryKeeps
  <2>5. CASE NextEntry
    BY <2>5, NextEntryKeeps
  <2>6. CASE UNCHANGED vars
    <3>1. TypeOK'
      BY <2>6 DEF IInv, TypeOK, vars
    <3>2. ControlInv'
      BY <2>6 DEF IInv, ControlInv, vars, InCall, hasNext
    <3> QED BY <2>6, <3>1, <3>2, QuietKeeps DEF vars, InCall
  <2> QED BY <2>1, <2>2, <2>3, <2>4, <2>5, <2>6 DEF Next, Step
<1> QED BY <1>1, <1>2, PTL DEF Spec

\* The variables keep their types, however the image looks and whatever fails.
THEOREM ErofsTypeCorrect == Spec => []TypeOK
BY ErofsInvariant, PTL DEF IInv

\* next() reads m_currentDir only where there is an entry.
THEOREM ErofsIndexInBounds == Spec => []IndexInBounds
<1>1. IInv => IndexInBounds
  BY DEF IInv, ControlInv, IndexInBounds
<1> QED BY <1>1, ErofsInvariant, PTL

\* "The reader is guaranteed to give you the parent directory entry of a file before
\* the actual file": for every image, failing reads and stale blocks included.
THEOREM ErofsParentFirst == Spec => []ParentFirst
BY ErofsInvariant, PTL DEF IInv

-----------------------------------------------------------------------------
(* A walk that ends without an error has given every entry.                  *)

\* The directories of a name in some directories.
Below(img, dirs, name) ==
  {e.inode : e \in {e \in UNION {Listing(img, i) : i \in dirs} : e.name = name /\ e.type = "directory"}}

\* What is in a directory.
LEMMA ListingIs ==
  ASSUME NEW img \in Image, NEW i \in Inodes
  PROVE  /\ img.blocks[i] \in Seq(Block) /\ Len(img.blocks[i]) \in Nat
         /\ \A b \in 1 .. Len(img.blocks[i]) : img.blocks[i][b].entries \in Seq(Dirent)
         /\ Listing(img, i) \subseteq Dirent
         /\ \A e : e \in Listing(img, i) <=>
              \E b \in 1 .. Len(img.blocks[i]) :
                \E j \in 1 .. Len(img.blocks[i][b].entries) : img.blocks[i][b].entries[j] = e
<1> DEFINE blocks == img.blocks[i]
<1>1. blocks \in Seq(Block) /\ Len(blocks) \in Nat
  BY LenProperties DEF Image
<1> HIDE DEF blocks
<1>2. ASSUME NEW b \in 1 .. Len(blocks) PROVE blocks[b].entries \in Seq(Dirent)
  <2>1. blocks[b] \in Block
    BY <1>1, ElementOfSeq
  <2> QED BY <2>1 DEF Block
<1>3. \A e : e \in Listing(img, i) <=>
        \E b \in 1 .. Len(blocks) : \E j \in 1 .. Len(blocks[b].entries) : blocks[b].entries[j] = e
  BY DEF Listing, blocks
<1>4. ASSUME NEW e \in Listing(img, i) PROVE e \in Dirent
  <2>1. PICK b \in 1 .. Len(blocks) : \E j \in 1 .. Len(blocks[b].entries) : blocks[b].entries[j] = e
    BY <1>3
  <2>2. blocks[b].entries \in Seq(Dirent)
    BY <1>2
  <2> QED BY <2>1, <2>2, ElementOfSeq
<1> QED BY <1>1, <1>2, <1>3, <1>4 DEF blocks

\* The steps that a path leads along.
Steps(f, img, path) ==
  /\ f \in [0 .. Len(path) -> SUBSET Inodes] /\ f[0] = {img.root}
  /\ \A k \in 1 .. Len(path) : f[k] = Below(img, f[k - 1], path[k])

LEMMA LeadsSteps ==
  ASSUME NEW img \in Image, NEW path \in Path
  PROVE  \E f : Steps(f, img, path) /\ Leads(img, path) = f[Len(path)]
<1> DEFINE n == Len(path)
           T == SUBSET Inodes
           base == {img.root}
           step == [a \in T \X (1 .. n) |-> Below(img, a[1], path[a[2]])]
           Def(f) == f = [k \in 0 .. n |-> IF k = 0 THEN base ELSE Below(img, f[k - 1], path[k])]
           reached == CHOOSE f : Def(f)
<1>1. n \in Nat /\ base \in T
  BY LenProperties DEF Path, Image
<1>2. ASSUME NEW dirs \in T, NEW name PROVE Below(img, dirs, name) \in T
  <2>1. \A i \in dirs : Listing(img, i) \subseteq Dirent
    BY ListingIs
  <2>2. \A e \in Dirent : e.inode \in Inodes
    BY DEF Dirent
  <2> QED BY <2>1, <2>2 DEF Below
<1> HIDE DEF n
<1>3. step \in [T \X (1 .. n) -> T]
  BY <1>2
<1>4. \A dirs \in T, k \in 1 .. n : step[<<dirs, k>>] = Below(img, dirs, path[k])
  OBVIOUS
<1>5. PICK f : IsRecursive(f, n, T, base, step)
  <2> HIDE DEF T, base, step
  <2> QED BY <1>1, <1>3, RecursionExists
<1>6. /\ f \in [0 .. n -> T] /\ f[0] = base
      /\ \A k \in 1 .. n : f[k] = Below(img, f[k - 1], path[k])
  <2>1. f \in [0 .. n -> T] /\ f[0] = base /\ \A k \in 1 .. n : f[k] = step[<<f[k - 1], k>>]
    BY <1>5 DEF IsRecursive
  <2>2. \A k \in 1 .. n : k - 1 \in 0 .. n
    BY <1>1
  <2> HIDE DEF step, T, base
  <2> QED BY <1>4, <2>1, <2>2
<1>7. Def(f)
  <2>1. f = [k \in 0 .. n |-> f[k]]
    BY <1>6
  <2>2. \A k \in 0 .. n : f[k] = IF k = 0 THEN base ELSE Below(img, f[k - 1], path[k])
    <3>1. \A k \in 0 .. n : k = 0 \/ k \in 1 .. n
      BY <1>1
    <3> HIDE DEF base
    <3> QED BY <1>6, <3>1
  <2> HIDE DEF base
  <2> QED BY <2>1, <2>2
<1>8. Def(reached)
  BY <1>7, Zenon
<1>9. Leads(img, path) = reached[n]
  BY Zenon DEF Leads, n, Below
<1> HIDE DEF reached
<1>10. /\ reached[0] = base
       /\ \A k \in 1 .. n : reached[k] = Below(img, reached[k - 1], path[k])
  <2>1. 0 \in 0 .. n /\ \A k \in 1 .. n : k \in 0 .. n /\ k # 0
    BY <1>1
  <2> HIDE DEF base
  <2> QED BY <1>8, <2>1
<1>11. \A k \in 0 .. n : reached[k] = f[k]
  <2> DEFINE Same == {k \in 0 .. n : reached[k] = f[k]}
  <2>1. 0 \in Same
    <3>1. 0 \in 0 .. n
      BY <1>1
    <3> QED BY <1>6, <1>10, <3>1
  <2>2. ASSUME NEW k \in 1 .. n, k - 1 \in Same PROVE k \in Same
    <3>1. k \in 0 .. n
      BY <1>1
    <3> QED BY <1>6, <1>10, <2>2, <3>1
  <2> HIDE DEF Same
  <2>3. 0 .. n \subseteq Same
    BY <1>1, <2>1, <2>2, BoundedInduction
  <2> QED BY <2>3 DEF Same
<1>12. Leads(img, path) = f[n]
  <2>1. n \in 0 .. n
    BY <1>1
  <2> QED BY <1>9, <1>11, <2>1
<1> QED BY <1>6, <1>12 DEF Steps, n

LEMMA LeadsRoot ==
  ASSUME NEW img \in Image
  PROVE  Leads(img, <<>>) = {img.root}
<1>1. <<>> \in Path /\ Len(<<>>) = 0
  BY EmptySeq DEF Path
<1>2. PICK f : Steps(f, img, <<>>) /\ Leads(img, <<>>) = f[Len(<<>>)]
  BY <1>1, LeadsSteps
<1> QED BY <1>1, <1>2 DEF Steps

\* A path with one name more leads to the directories of that name.
LEMMA LeadsAppend ==
  ASSUME NEW img \in Image, NEW path \in Path, NEW name \in Names
  PROVE  Leads(img, Append(path, name)) = Below(img, Leads(img, path), name)
<1> DEFINE n == Len(path)
           longer == Append(path, name)
<1>1. /\ n \in Nat /\ longer \in Path /\ Len(longer) = n + 1 /\ longer[n + 1] = name
      /\ \A k \in 1 .. n : longer[k] = path[k]
  BY AppendProperties, LenProperties DEF Path
<1> HIDE DEF longer
<1>2. PICK f : Steps(f, img, path) /\ Leads(img, path) = f[n]
  BY LeadsSteps
<1>3. PICK g : Steps(g, img, longer) /\ Leads(img, longer) = g[n + 1]
  BY <1>1, LeadsSteps
<1> HIDE DEF n
<1>4. /\ f[0] = {img.root} /\ \A k \in 1 .. n : f[k] = Below(img, f[k - 1], path[k])
      /\ g[0] = {img.root} /\ \A k \in 1 .. n + 1 : g[k] = Below(img, g[k - 1], longer[k])
  BY <1>1, <1>2, <1>3 DEF Steps, n
<1>5. \A k \in 0 .. n : g[k] = f[k]
  <2> DEFINE Same == {k \in 0 .. n : g[k] = f[k]}
  <2>1. 0 \in Same
    <3>1. 0 \in 0 .. n
      BY <1>1
    <3> QED BY <1>4, <3>1
  <2>2. ASSUME NEW k \in 1 .. n, k - 1 \in Same PROVE k \in Same
    <3>1. k \in 0 .. n /\ k \in 1 .. n + 1
      BY <1>1
    <3> QED BY <1>1, <1>4, <2>2, <3>1
  <2> HIDE DEF Same
  <2>3. 0 .. n \subseteq Same
    BY <1>1, <2>1, <2>2, BoundedInduction
  <2> QED BY <2>3 DEF Same
<1>6. n + 1 \in 1 .. n + 1 /\ (n + 1) - 1 = n /\ n \in 0 .. n
  BY <1>1
<1>7. g[n + 1] = Below(img, g[n], longer[n + 1])
  BY <1>4, <1>6
<1> QED BY <1>1, <1>2, <1>3, <1>5, <1>6, <1>7 DEF longer

\* Every entry of the directory a path leads to is among the paths.
Complete(img, path, paths) ==
  \A i \in Leads(img, path) : \A e \in Listing(img, i) : Append(path, e.name) \in paths

\* A queue of directories still to read, the paths known so far, and those of them that
\* are in the front directory: of a directory behind the front no entry is known, and of one
\* that has left the queue every entry is.
Structure(img, q, paths, front) ==
  /\ paths \subseteq Path /\ q \in Seq(Directory)
  /\ \A k \in 1 .. Len(q) : Leads(img, q[k].path) = {q[k].inode} /\ q[k].path \in {<<>>} \cup paths
  /\ \A k, l \in 1 .. Len(q) : q[k].path = q[l].path => k = l
  /\ \A p \in paths : IsPath(img, p) /\ Parent(p) \in {<<>>} \cup paths
  /\ \A p \in paths : \A k \in 1 .. Len(q) : Parent(p) = q[k].path => k = 1 /\ p \in front
  /\ \A p \in {<<>>} \cup paths : (\E k \in 1 .. Len(q) : q[k].path = p) \/ Complete(img, p, paths)

\* The first n blocks of a directory, entry by entry, with different names.
Lists(img, entries, i, n) ==
  /\ entries \in Seq(Dirent) /\ n \in 0 .. Len(img.blocks[i])
  /\ \A j, k \in 1 .. Len(entries) : entries[j].name = entries[k].name => j = k
  /\ \A e \in Dirent : (\E j \in 1 .. Len(entries) : entries[j] = e)
       <=> \E b \in 1 .. n : \E j \in 1 .. Len(img.blocks[i][b].entries) : img.blocks[i][b].entries[j] = e

AllGiven == {given[j] : j \in 1 .. Len(given)}

\* The paths that were given, or are about to be.
Known == AllGiven \cup (IF InCall THEN {entry} ELSE {})

\* Those of the front directory.
Walked == IF pc = "idle" /\ queue # <<>>
          THEN {Append(queue[1].path, dir[j].name) : j \in 1 .. index} ELSE {}

TreeInv ==
  /\ GivenOnce
  /\ ~image.fourK => pc \notin {"open", "read"} /\ queue = <<>>
  /\ ~missed /\ ~error =>
       /\ created /\ image.fourK => Structure(image, queue, Known, Walked)
       /\ InCall => entry \notin AllGiven
       /\ pc = "read" => Lists(image, read.entries, Reading.inode, read.blocks)
       /\ pc = "idle" /\ queue # <<>> =>
            /\ Lists(image, dir, queue[1].inode, Len(image.blocks[queue[1].inode]))
            /\ Walked \subseteq AllGiven

\* A path and a name: the path is its parent, and neither it nor the name of another.
LEMMA PathAppend ==
  ASSUME NEW p \in Path, NEW n \in Names
  PROVE  /\ Append(p, n) \in Path /\ Parent(Append(p, n)) = p
         /\ Append(p, n) # <<>> /\ Append(p, n) # p
         /\ Append(p, n)[Len(Append(p, n))] = n
         /\ \A m \in Names : Append(p, m) = Append(p, n) => m = n
<1>1. Append(p, n) \in Path /\ Parent(Append(p, n)) = p
  BY ParentOfAppend
<1>2. ASSUME NEW m \in Names
      PROVE  /\ Len(Append(p, m)) = Len(p) + 1 /\ Append(p, m)[Len(p) + 1] = m
             /\ Len(p) \in Nat
  BY AppendProperties, LenProperties DEF Path
<1>3. Append(p, n)[Len(Append(p, n))] = n
  BY <1>2
<1>4. Append(p, n) # <<>> /\ Append(p, n) # p
  <2>1. Len(Append(p, n)) # 0 /\ Len(Append(p, n)) # Len(p)
    BY <1>2
  <2> QED BY <2>1, EmptySeq
<1>5. ASSUME NEW m \in Names, Append(p, m) = Append(p, n) PROVE m = n
  BY <1>2, <1>5
<1> QED BY <1>1, <1>3, <1>4, <1>5

\* Entries of the tree of different names, ...
LEMMA NameOfOne ==
  ASSUME NEW img \in Images, NEW i \in Inodes, NEW d \in Listing(img, i), NEW e \in Listing(img, i),
         d.name = e.name
  PROVE  d = e
<1> DEFINE blocks == img.blocks[i]
<1>1. img \in Image /\ NamesDiffer(img)
  BY ErofsAssumption, NamesAssumption
<1>2. \A x : x \in Listing(img, i) =>
        \E b \in 1 .. Len(blocks) : \E j \in 1 .. Len(blocks[b].entries) : blocks[b].entries[j] = x
  BY <1>1, ListingIs
<1>3. PICK b \in 1 .. Len(blocks) : \E j \in 1 .. Len(blocks[b].entries) : blocks[b].entries[j] = d
  BY <1>2
<1>4. PICK j \in 1 .. Len(blocks[b].entries) : blocks[b].entries[j] = d
  BY <1>3
<1>5. PICK c \in 1 .. Len(blocks) : \E k \in 1 .. Len(blocks[c].entries) : blocks[c].entries[k] = e
  BY <1>2
<1>6. PICK k \in 1 .. Len(blocks[c].entries) : blocks[c].entries[k] = e
  BY <1>5
<1>7. b = c /\ j = k
  <2>1. blocks[b].entries[j].name = blocks[c].entries[k].name
    BY <1>4, <1>6
  <2>2. \A x, y \in 1 .. Len(blocks) :
          \A m \in 1 .. Len(blocks[x].entries), n \in 1 .. Len(blocks[y].entries) :
            blocks[x].entries[m].name = blocks[y].entries[n].name => x = y /\ m = n
    BY <1>1 DEF NamesDiffer
  <2> HIDE DEF blocks
  <2> QED BY <2>1, <2>2
<1> QED BY <1>4, <1>6, <1>7

\* ... and where the path of one leads.
LEMMA EntryLeads ==
  ASSUME NEW img \in Images, NEW path \in Path, NEW i \in Inodes, Leads(img, path) = {i},
         NEW e \in Listing(img, i)
  PROVE  /\ e \in Dirent /\ e.name \in Names /\ IsPath(img, Append(path, e.name))
         /\ Leads(img, Append(path, e.name)) = IF e.type = "directory" THEN {e.inode} ELSE {}
<1> DEFINE longer == Append(path, e.name)
<1>1. img \in Image /\ e \in Dirent /\ e.name \in Names
  BY ErofsAssumption, ListingIs DEF Dirent
<1>2. longer # <<>> /\ Parent(longer) = path /\ longer[Len(longer)] = e.name
  BY <1>1, PathAppend
<1>3. IsPath(img, longer)
  <2> HIDE DEF longer
  <2> QED BY <1>2 DEF IsPath
<1>4. Leads(img, longer) = Below(img, {i}, e.name)
  BY <1>1, LeadsAppend
<1>5. Below(img, {i}, e.name) = IF e.type = "directory" THEN {e.inode} ELSE {}
  <2>1. \A d \in Listing(img, i) : d.name = e.name => d = e
    BY NameOfOne
  <2>2. {d \in UNION {Listing(img, x) : x \in {i}} : d.name = e.name /\ d.type = "directory"}
          = IF e.type = "directory" THEN {e} ELSE {}
    BY <2>1
  <2> QED BY <2>2 DEF Below
<1> QED BY <1>1, <1>3, <1>4, <1>5

\* A queue with a directory more, if the entry is one.
With(q, path, e) == IF e.type = "directory" THEN Append(q, [path |-> path, inode |-> e.inode]) ELSE q

LEMMA WithFront ==
  ASSUME NEW q \in Seq(Directory), q # <<>>, NEW path \in Path, NEW e \in Dirent
  PROVE  With(q, path, e) # <<>> /\ With(q, path, e)[1] = q[1]
<1> DEFINE d == [path |-> path, inode |-> e.inode]
<1>1. 1 \in 1 .. Len(q) /\ Len(q) \in Nat
  BY TailElements, LenProperties
<1>2. d \in Directory
  BY DEF Directory, Dirent
<1>3. Len(Append(q, d)) = Len(q) + 1 /\ Append(q, d)[1] = q[1]
  <2> HIDE DEF d
  <2> QED BY <1>1, <1>2, AppendProperties
<1>4. Append(q, d) # <<>>
  BY <1>1, <1>3, EmptySeq
<1> QED BY <1>3, <1>4 DEF With

\* An entry of the front directory that was not known becomes known, and is queued when it
\* is a directory.
LEMMA AddEntry ==
  ASSUME NEW img \in Images, NEW q, NEW paths, NEW front, Structure(img, q, paths, front), q # <<>>,
         NEW e \in Listing(img, q[1].inode), NEW path, path = Append(q[1].path, e.name),
         path \notin paths
  PROVE  Structure(img, With(q, path, e), paths \cup {path}, front \cup {path})
<1> DEFINE r == With(q, path, e)
           new == paths \cup {path}
           h == q[1]
           d == [path |-> path, inode |-> e.inode]
<1>1. /\ q \in Seq(Directory) /\ Len(q) \in Nat /\ 1 \in 1 .. Len(q) /\ paths \subseteq Path
      /\ h \in Directory /\ h.path \in Path /\ h.inode \in Inodes /\ Leads(img, h.path) = {h.inode}
      /\ h.path \in {<<>>} \cup paths
  <2>1. q \in Seq(Directory) /\ Len(q) \in Nat /\ 1 \in 1 .. Len(q) /\ h \in Directory
    BY LenProperties, TailElements DEF Structure
  <2> QED BY <2>1 DEF Structure, Directory
<1>2. /\ e \in Dirent /\ e.name \in Names /\ IsPath(img, path)
      /\ Leads(img, path) = IF e.type = "directory" THEN {e.inode} ELSE {}
  BY <1>1, EntryLeads
<1>3. path \in Path /\ Parent(path) = h.path /\ path # <<>> /\ path # h.path
  BY <1>1, <1>2, PathAppend
<1> HIDE DEF h
<1>4. /\ r \in Seq(Directory) /\ Len(r) \in Nat /\ Len(q) <= Len(r)
      /\ \A k \in 1 .. Len(q) : k \in 1 .. Len(r) /\ r[k] = q[k]
      /\ \A k \in 1 .. Len(r) : k \in 1 .. Len(q) \/ (r[k] = d /\ e.type = "directory" /\ k = Len(r))
      /\ e.type = "directory" => Len(r) \in 1 .. Len(r) /\ r[Len(r)] = d
  <2>1. CASE e.type = "directory"
    <3>1. r = Append(q, d)
      BY <2>1 DEF With
    <3>2. d \in Directory
      BY <1>2, <1>3 DEF Directory, Dirent
    <3>3. /\ Append(q, d) \in Seq(Directory) /\ Len(Append(q, d)) = Len(q) + 1
          /\ \A k \in 1 .. Len(q) : Append(q, d)[k] = q[k]
          /\ Append(q, d)[Len(q) + 1] = d
      BY <1>1, <3>2, AppendProperties
    <3> HIDE DEF d
    <3>4. /\ r \in Seq(Directory) /\ Len(r) = Len(q) + 1 /\ r[Len(q) + 1] = d
          /\ \A k \in 1 .. Len(q) : r[k] = q[k]
      BY <3>1, <3>3
    <3> QED BY <1>1, <2>1, <3>4
  <2>2. CASE e.type # "directory"
    <3>1. r = q
      BY <2>2 DEF With
    <3> QED BY <1>1, <2>2, <3>1
  <2> QED BY <2>1, <2>2
<1>5. d.path = path /\ d.inode = e.inode
  OBVIOUS
<1> HIDE DEF d, r
<1>6. \A k \in 1 .. Len(q) : q[k].path \in {<<>>} \cup paths /\ q[k].path # path
  BY <1>3 DEF Structure
<1>7. \A k \in 1 .. Len(r) : Leads(img, r[k].path) = {r[k].inode} /\ r[k].path \in {<<>>} \cup new
  BY <1>2, <1>4, <1>5 DEF Structure
<1>8. \A k, l \in 1 .. Len(r) : r[k].path = r[l].path => k = l
  <2> SUFFICES ASSUME NEW k \in 1 .. Len(r), NEW l \in 1 .. Len(r), r[k].path = r[l].path PROVE k = l
    OBVIOUS
  <2>1. CASE k \in 1 .. Len(q) /\ l \in 1 .. Len(q)
    <3>1. q[k].path = q[l].path
      BY <1>4, <2>1
    <3> QED BY <2>1, <3>1 DEF Structure
  <2>2. CASE k \notin 1 .. Len(q) /\ l \in 1 .. Len(q)
    <3>1. r[k].path = path /\ r[l].path # path
      BY <1>4, <1>5, <1>6, <2>2
    <3> QED BY <3>1
  <2>3. CASE k \in 1 .. Len(q) /\ l \notin 1 .. Len(q)
    <3>1. r[k].path # path /\ r[l].path = path
      BY <1>4, <1>5, <1>6, <2>3
    <3> QED BY <3>1
  <2>4. CASE k \notin 1 .. Len(q) /\ l \notin 1 .. Len(q)
    BY <1>4, <2>4
  <2> QED BY <2>1, <2>2, <2>3, <2>4
<1>9. \A p \in new : IsPath(img, p) /\ Parent(p) \in {<<>>} \cup new
  BY <1>1, <1>2, <1>3 DEF Structure
<1>10. \A p \in new : \A k \in 1 .. Len(r) : Parent(p) = r[k].path => k = 1 /\ p \in front \cup {path}
  <2> SUFFICES ASSUME NEW p \in new, NEW k \in 1 .. Len(r), Parent(p) = r[k].path
               PROVE  k = 1 /\ p \in front \cup {path}
    OBVIOUS
  <2>1. CASE p = path
    <3>1. r[1].path = h.path /\ 1 \in 1 .. Len(r)
      BY <1>1, <1>4 DEF h
    <3> QED BY <1>3, <1>8, <2>1, <3>1
  <2>2. CASE p \in paths /\ k \in 1 .. Len(q)
    BY <1>4, <2>2 DEF Structure
  <2>3. CASE p \in paths /\ k \notin 1 .. Len(q)
    <3>1. Parent(p) = path
      BY <1>4, <1>5, <2>3
    <3>2. Parent(p) \in {<<>>} \cup paths
      BY <2>3 DEF Structure
    <3> QED BY <1>3, <3>1, <3>2
  <2> QED BY <2>1, <2>2, <2>3
<1>11. \A p \in {<<>>} \cup new : (\E k \in 1 .. Len(r) : r[k].path = p) \/ Complete(img, p, new)
  <2> SUFFICES ASSUME NEW p \in {<<>>} \cup new
               PROVE  (\E k \in 1 .. Len(r) : r[k].path = p) \/ Complete(img, p, new)
    OBVIOUS
  <2>1. CASE p = path /\ e.type = "directory"
    BY <1>4, <1>5, <2>1
  <2>2. CASE p = path /\ e.type # "directory"
    BY <1>2, <2>2 DEF Complete
  <2>3. CASE p \in {<<>>} \cup paths
    <3>1. (\E k \in 1 .. Len(q) : q[k].path = p) \/ Complete(img, p, paths)
      BY <2>3 DEF Structure
    <3>2. Complete(img, p, paths) => Complete(img, p, new)
      BY DEF Complete
    <3> QED BY <1>4, <3>1, <3>2
  <2> QED BY <2>1, <2>2, <2>3
<1>12. new \subseteq Path
  BY <1>1, <1>3
<1> HIDE DEF new
<1>13. Structure(img, r, new, front \cup {path})
  BY <1>4, <1>7, <1>8, <1>9, <1>10, <1>11, <1>12 DEF Structure
<1> QED BY <1>13 DEF new, r

\* The front directory, all of whose entries are known, leaves the queue.
LEMMA DropFront ==
  ASSUME NEW img \in Images, NEW q, NEW paths, NEW front, Structure(img, q, paths, front), q # <<>>,
         Complete(img, q[1].path, paths)
  PROVE  Structure(img, Tail(q), paths, {})
<1> DEFINE r == Tail(q)
<1>1. /\ q \in Seq(Directory) /\ Len(q) \in Nat
      /\ r \in Seq(Directory) /\ Len(r) = Len(q) - 1
      /\ \A k \in 1 .. Len(r) : k + 1 \in 1 .. Len(q) /\ r[k] = q[k + 1]
  BY LenProperties, TailElements DEF Structure
<1> HIDE DEF r
<1>2. \A k \in 1 .. Len(r) : Leads(img, r[k].path) = {r[k].inode} /\ r[k].path \in {<<>>} \cup paths
  <2>1. \A k \in 1 .. Len(q) : Leads(img, q[k].path) = {q[k].inode} /\ q[k].path \in {<<>>} \cup paths
    BY DEF Structure
  <2> QED BY <1>1, <2>1
<1>3. \A k, l \in 1 .. Len(r) : r[k].path = r[l].path => k = l
  <2> SUFFICES ASSUME NEW k \in 1 .. Len(r), NEW l \in 1 .. Len(r), r[k].path = r[l].path PROVE k = l
    OBVIOUS
  <2>1. k + 1 = l + 1
    BY <1>1 DEF Structure
  <2> QED BY <1>1, <2>1
<1>4. \A p \in paths : \A k \in 1 .. Len(r) : Parent(p) # r[k].path
  <2> SUFFICES ASSUME NEW p \in paths, NEW k \in 1 .. Len(r), Parent(p) = r[k].path PROVE FALSE
    OBVIOUS
  <2>1. k + 1 = 1
    BY <1>1 DEF Structure
  <2> QED BY <1>1, <2>1
<1>5. \A p \in {<<>>} \cup paths : (\E k \in 1 .. Len(r) : r[k].path = p) \/ Complete(img, p, paths)
  <2> SUFFICES ASSUME NEW p \in {<<>>} \cup paths, ~Complete(img, p, paths)
               PROVE  \E k \in 1 .. Len(r) : r[k].path = p
    OBVIOUS
  <2>1. PICK k \in 1 .. Len(q) : q[k].path = p
    BY DEF Structure
  <2>2. k # 1
    BY <2>1
  <2>3. k - 1 \in 1 .. Len(r) /\ (k - 1) + 1 = k
    BY <1>1, <2>2
  <2> QED BY <1>1, <2>1, <2>3
<1> QED BY <1>1, <1>2, <1>3, <1>4, <1>5 DEF Structure, r

\* An empty list, a list with the next block of the directory, and a list of all blocks.
LEMMA ListsNone ==
  ASSUME NEW img \in Images, NEW i \in Inodes
  PROVE  Lists(img, <<>>, i, 0)
<1>1. img \in Image /\ Len(img.blocks[i]) \in Nat
  BY ErofsAssumption, ListingIs
<1>2. <<>> \in Seq(Dirent) /\ Len(<<>>) = 0
  BY EmptySeq
<1> QED BY <1>1, <1>2 DEF Lists

LEMMA ListsNext ==
  ASSUME NEW img \in Images, NEW i \in Inodes, NEW es, NEW n, Lists(img, es, i, n),
         n < Len(img.blocks[i])
  PROVE  Lists(img, es \o img.blocks[i][n + 1].entries, i, n + 1)
<1> DEFINE blocks == img.blocks[i]
           more == blocks[n + 1].entries
           all == es \o more
<1>1. /\ Len(blocks) \in Nat /\ n \in Nat /\ n + 1 \in 1 .. Len(blocks) /\ NamesDiffer(img)
      /\ \A b \in 1 .. Len(blocks) : blocks[b].entries \in Seq(Dirent)
  <2>1. n \in 0 .. Len(blocks)
    BY DEF Lists
  <2>2. /\ Len(blocks) \in Nat /\ NamesDiffer(img)
        /\ \A b \in 1 .. Len(blocks) : blocks[b].entries \in Seq(Dirent)
    BY ErofsAssumption, NamesAssumption, ListingIs
  <2> HIDE DEF blocks
  <2>3. n < Len(blocks)
    BY DEF blocks
  <2> QED BY <2>1, <2>2, <2>3
<1>2. /\ es \in Seq(Dirent) /\ more \in Seq(Dirent) /\ all \in Seq(Dirent)
      /\ Len(es) \in Nat /\ Len(more) \in Nat /\ Len(all) = Len(es) + Len(more)
      /\ \A j \in 1 .. Len(es) : all[j] = es[j]
      /\ \A j \in 1 .. Len(more) : all[Len(es) + j] = more[j]
  <2>1. es \in Seq(Dirent) /\ more \in Seq(Dirent)
    BY <1>1 DEF Lists
  <2> HIDE DEF more
  <2> QED BY <2>1, ConcatProperties, LenProperties
<1>3. /\ \A j, k \in 1 .. Len(es) : es[j].name = es[k].name => j = k
      /\ \A e \in Dirent : (\E j \in 1 .. Len(es) : es[j] = e)
           <=> \E b \in 1 .. n : \E j \in 1 .. Len(blocks[b].entries) : blocks[b].entries[j] = e
  BY DEF Lists
<1>4. \A x, y \in 1 .. Len(blocks) :
        \A k \in 1 .. Len(blocks[x].entries), l \in 1 .. Len(blocks[y].entries) :
            blocks[x].entries[k].name = blocks[y].entries[l].name => x = y /\ k = l
  BY <1>1 DEF NamesDiffer
<1>5. /\ \A j \in 1 .. Len(es) : es[j] \in Dirent
      /\ \A j \in 1 .. Len(more) : more[j] \in Dirent
  <2> HIDE DEF more
  <2> QED BY <1>2, ElementOfSeq
<1> HIDE DEF blocks, all
<1>6. \A j \in 1 .. Len(es), k \in 1 .. Len(more) : es[j].name # more[k].name
  <2> SUFFICES ASSUME NEW j \in 1 .. Len(es), NEW k \in 1 .. Len(more), es[j].name = more[k].name
               PROVE  FALSE
    OBVIOUS
  <2>1. PICK b \in 1 .. n : \E l \in 1 .. Len(blocks[b].entries) : blocks[b].entries[l] = es[j]
    BY <1>3, <1>5
  <2>2. PICK l \in 1 .. Len(blocks[b].entries) : blocks[b].entries[l] = es[j]
    BY <2>1
  <2>3. b \in 1 .. Len(blocks) /\ b # n + 1
    BY <1>1
  <2> QED BY <1>1, <1>4, <2>2, <2>3
<1>7. \A j, k \in 1 .. Len(more) : more[j].name = more[k].name => j = k
  BY <1>1, <1>4
<1> HIDE DEF more
<1>8. \A j \in 1 .. Len(all) : j \in 1 .. Len(es) \/ j - Len(es) \in 1 .. Len(more)
  BY <1>2
<1>9. \A j \in 1 .. Len(all) : j \notin 1 .. Len(es) =>
         j - Len(es) \in 1 .. Len(more) /\ all[j] = more[j - Len(es)]
  <2> SUFFICES ASSUME NEW j \in 1 .. Len(all), j \notin 1 .. Len(es)
               PROVE  j - Len(es) \in 1 .. Len(more) /\ all[j] = more[j - Len(es)]
    OBVIOUS
  <2>1. j - Len(es) \in 1 .. Len(more) /\ Len(es) + (j - Len(es)) = j
    BY <1>2
  <2> QED BY <1>2, <2>1
<1>10. \A j, k \in 1 .. Len(all) : all[j].name = all[k].name => j = k
  <2> SUFFICES ASSUME NEW j \in 1 .. Len(all), NEW k \in 1 .. Len(all), all[j].name = all[k].name
               PROVE  j = k
    OBVIOUS
  <2>1. CASE j \in 1 .. Len(es) /\ k \in 1 .. Len(es)
    BY <1>2, <1>3, <2>1
  <2>2. CASE j \in 1 .. Len(es) /\ k \notin 1 .. Len(es)
    <3>1. all[j] = es[j] /\ k - Len(es) \in 1 .. Len(more) /\ all[k] = more[k - Len(es)]
      BY <1>2, <1>9, <2>2
    <3>2. es[j].name # more[k - Len(es)].name
      BY <1>6, <2>2, <3>1
    <3> QED BY <3>1, <3>2
  <2>3. CASE j \notin 1 .. Len(es) /\ k \in 1 .. Len(es)
    <3>1. all[k] = es[k] /\ j - Len(es) \in 1 .. Len(more) /\ all[j] = more[j - Len(es)]
      BY <1>2, <1>9, <2>3
    <3>2. es[k].name # more[j - Len(es)].name
      BY <1>6, <2>3, <3>1
    <3> QED BY <3>1, <3>2
  <2>4. CASE j \notin 1 .. Len(es) /\ k \notin 1 .. Len(es)
    <3>1. j - Len(es) = k - Len(es)
      BY <1>7, <1>9, <2>4
    <3> QED BY <1>2, <3>1
  <2> QED BY <2>1, <2>2, <2>3, <2>4
<1>11. ASSUME NEW e \in Dirent
       PROVE  (\E j \in 1 .. Len(all) : all[j] = e)
                <=> \E b \in 1 .. n + 1 : \E j \in 1 .. Len(blocks[b].entries) : blocks[b].entries[j] = e
  <2>1. ASSUME NEW j \in 1 .. Len(all), all[j] = e
        PROVE  \E b \in 1 .. n + 1 : \E k \in 1 .. Len(blocks[b].entries) : blocks[b].entries[k] = e
    <3>1. CASE j \in 1 .. Len(es)
      <4>1. PICK b \in 1 .. n : \E k \in 1 .. Len(blocks[b].entries) : blocks[b].entries[k] = e
        BY <1>2, <1>3, <2>1, <3>1
      <4>2. b \in 1 .. n + 1
        BY <1>1
      <4> QED BY <4>1, <4>2
    <3>2. CASE j \notin 1 .. Len(es)
      <4>1. n + 1 \in 1 .. n + 1
        BY <1>1
      <4>2. \E k \in 1 .. Len(blocks[n + 1].entries) : blocks[n + 1].entries[k] = e
        BY <1>9, <2>1, <3>2 DEF more
      <4> QED BY <4>1, <4>2
    <3> QED BY <3>1, <3>2
  <2>2. ASSUME NEW b \in 1 .. n + 1, NEW k \in 1 .. Len(blocks[b].entries), blocks[b].entries[k] = e
        PROVE  \E j \in 1 .. Len(all) : all[j] = e
    <3>1. CASE b = n + 1
      <4>1. k \in 1 .. Len(more) /\ more[k] = e
        BY <2>2, <3>1 DEF more
      <4>2. Len(es) + k \in 1 .. Len(all)
        BY <1>2, <4>1
      <4> QED BY <1>2, <4>1, <4>2
    <3>2. CASE b # n + 1
      <4>1. b \in 1 .. n
        BY <1>1, <3>2
      <4>2. PICK j \in 1 .. Len(es) : es[j] = e
        BY <1>3, <2>2, <4>1
      <4>3. j \in 1 .. Len(all)
        BY <1>2
      <4> QED BY <1>2, <4>2, <4>3
    <3> QED BY <3>1, <3>2
  <2> QED BY <2>1, <2>2
<1>12. n + 1 \in 0 .. Len(blocks)
  BY <1>1
<1> QED BY <1>2, <1>10, <1>11, <1>12 DEF Lists, blocks, more, all

LEMMA ListsAll ==
  ASSUME NEW img \in Images, NEW i \in Inodes, NEW es, Lists(img, es, i, Len(img.blocks[i]))
  PROVE  Listing(img, i) = {es[j] : j \in 1 .. Len(es)} /\ Listing(img, i) \subseteq Dirent
<1>1. /\ Listing(img, i) \subseteq Dirent
      /\ \A e : e \in Listing(img, i) <=>
           \E b \in 1 .. Len(img.blocks[i]) :
             \E j \in 1 .. Len(img.blocks[i][b].entries) : img.blocks[i][b].entries[j] = e
  BY ErofsAssumption, ListingIs
<1>2. \A j \in 1 .. Len(es) : es[j] \in Dirent
  BY ElementOfSeq DEF Lists
<1>3. \A e \in Dirent : (\E j \in 1 .. Len(es) : es[j] = e) <=> e \in Listing(img, i)
  BY <1>1 DEF Lists
<1> QED BY <1>1, <1>2, <1>3

\* The root, when it has been read.
LEMMA RootStructure ==
  ASSUME NEW img \in Images, NEW es, Lists(img, es, img.root, Len(img.blocks[img.root])), NEW q,
         q = IF es = <<>> THEN <<>> ELSE << [path |-> <<>>, inode |-> img.root] >>
  PROVE  Structure(img, q, {}, {})
<1> DEFINE d == [path |-> <<>>, inode |-> img.root]
<1>1. img \in Image /\ img.root \in Inodes /\ Leads(img, <<>>) = {img.root}
  BY ErofsAssumption, LeadsRoot DEF Image
<1>2. d \in Directory /\ d.path = <<>> /\ d.inode = img.root
  BY <1>1, EmptySeq DEF Directory, Path
<1> HIDE DEF d
<1>3. CASE es = <<>>
  <2>1. Listing(img, img.root) = {}
    <3>1. Listing(img, img.root) = {es[j] : j \in 1 .. Len(es)}
      BY <1>1, ListsAll
    <3> QED BY <1>3, <3>1, EmptySeq
  <2>2. Complete(img, <<>>, {})
    BY <1>1, <2>1 DEF Complete
  <2>3. q = <<>> /\ q \in Seq(Directory) /\ Len(q) = 0
    BY <1>3, EmptySeq
  <2> QED BY <2>2, <2>3 DEF Structure
<1>4. CASE es # <<>>
  <2>1. q = <<d>>
    BY <1>4 DEF d
  <2>2. q \in Seq(Directory) /\ Len(q) = 1 /\ q[1] = d
    BY <1>2, <2>1
  <2>3. \A k \in 1 .. Len(q) : k = 1
    BY <2>2
  <2>4. 1 \in 1 .. Len(q)
    BY <2>2
  <2> QED BY <1>1, <1>2, <2>2, <2>3, <2>4 DEF Structure
<1> QED BY <1>3, <1>4

-----------------------------------------------------------------------------
\* An entry that is given was not given before, and is in the tree.
LEMMA GiveKeeps ==
  ASSUME given \in Seq(Path), NEW path, path \in Path, given' = Append(given, path), GivenOnce,
         image' = image, missed' = missed,
         ~missed => path \notin AllGiven /\ IsPath(image, path)
  PROVE  AllGiven' = AllGiven \cup {path} /\ GivenOnce'
<1>1. /\ Len(given) \in Nat /\ Len(given') = Len(given) + 1
      /\ \A i \in 1 .. Len(given) : given'[i] = given[i]
      /\ given'[Len(given) + 1] = path
  BY AppendProperties, LenProperties
<1>2. \A i \in 1 .. Len(given') : i \in 1 .. Len(given) \/ i = Len(given) + 1
  BY <1>1
<1>3. \A i \in 1 .. Len(given) : i \in 1 .. Len(given')
  BY <1>1
<1>4. Len(given) + 1 \in 1 .. Len(given')
  BY <1>1
<1>5. AllGiven' = AllGiven \cup {path}
  BY <1>1, <1>2, <1>3, <1>4 DEF AllGiven
<1>6. ASSUME ~missed
      PROVE  /\ \A i, j \in 1 .. Len(given') : given'[i] = given'[j] => i = j
             /\ \A j \in 1 .. Len(given') : IsPath(image, given'[j])
  <2>1. /\ \A i, j \in 1 .. Len(given) : given[i] = given[j] => i = j
        /\ \A j \in 1 .. Len(given) : IsPath(image, given[j])
        /\ \A j \in 1 .. Len(given) : given[j] # path
    BY <1>6 DEF GivenOnce, AllGiven
  <2> QED BY <1>1, <1>2, <1>6, <2>1
<1> QED BY <1>5, <1>6 DEF GivenOnce

\* A step after which the walk has an error, or a directory block was not read.
LEMMA StopKeeps ==
  ASSUME TreeInv, UNCHANGED <<image, given>>, missed => missed', error' \/ missed',
         ~image.fourK => pc' \notin {"open", "read"} /\ queue' = <<>>
  PROVE  TreeInv'
<1>1. GivenOnce'
  BY DEF TreeInv, GivenOnce
<1> QED BY <1>1 DEF TreeInv

\* A step that changes nothing of the walk.
LEMMA SameKeeps ==
  ASSUME TreeInv,
         UNCHANGED <<image, pc, created, error, queue, dir, index, read, entry, given, missed>>
  PROVE  TreeInv'
<1>1. GivenOnce'
  BY DEF TreeInv, GivenOnce
<1>2. /\ AllGiven' = AllGiven /\ InCall' = InCall /\ Known' = Known /\ Walked' = Walked
      /\ Reading' = Reading
  BY DEF AllGiven, InCall, Known, Walked, Reading
<1> QED BY <1>1, <1>2 DEF TreeInv

\* A step of readDirectory() that goes on.
LEMMA InsideKeeps ==
  ASSUME TreeInv, UNCHANGED <<image, error, created, queue, entry, given>>,
         pc \in {"open", "read"}, pc' = "read", missed => missed',
         ~missed' /\ ~error => Lists(image, read'.entries, Reading.inode, read'.blocks)
  PROVE  TreeInv'
<1>1. GivenOnce'
  BY DEF TreeInv, GivenOnce
<1>2. /\ AllGiven' = AllGiven /\ InCall' = InCall /\ Known' = Known
      /\ Walked = {} /\ Walked' = {} /\ Reading' = Reading
  BY DEF AllGiven, InCall, Known, Walked, Reading
<1> QED BY <1>1, <1>2 DEF TreeInv

LEMMA CreateKeepsTree ==
  ASSUME IInv, TreeInv, CreateFails \/ CreateUnsupported \/ Create \/ NextNull
  PROVE  TreeInv'
<1>1. CASE CreateFails
  BY <1>1, StopKeeps DEF CreateFails, walk, TreeInv
<1>2. CASE CreateUnsupported
  <2>1. GivenOnce'
    BY <1>2 DEF CreateUnsupported, TreeInv, GivenOnce
  <2>2. queue' = <<>> /\ pc' = "idle" /\ ~image'.fourK
    BY <1>2 DEF CreateUnsupported, walk, IInv, ControlInv
  <2> QED BY <2>1, <2>2 DEF TreeInv, InCall
<1>3. CASE Create
  <2>1. GivenOnce'
    BY <1>3 DEF Create, TreeInv, GivenOnce
  <2>2. ~created' /\ pc' = "open" /\ image'.fourK
    BY <1>3 DEF Create, IInv, ControlInv
  <2> QED BY <2>1, <2>2 DEF TreeInv, InCall
<1>4. CASE NextNull
  BY <1>4, SameKeeps DEF NextNull, walk
<1> QED BY <1>1, <1>2, <1>3, <1>4

LEMMA OpenDirectoryKeepsTree ==
  ASSUME IInv, TreeInv, OpenDirectory
  PROVE  TreeInv'
<1>1. CASE DirectoryFails
  BY <1>1, StopKeeps DEF OpenDirectory, DirectoryFails, walk, TreeInv
<1>2. CASE /\ pc' = "read" /\ read' = [blocks |-> 0, entries |-> <<>>]
           /\ UNCHANGED <<created, error, walk, result, given>>
  <2>1. image \in Images /\ Reading.inode \in Inodes
    BY ReadingType DEF IInv, TypeOK, OpenDirectory, Directory
  <2>2. Lists(image, read'.entries, Reading.inode, read'.blocks)
    BY <1>2, <2>1, ListsNone
  <2> QED BY <1>2, <2>2, InsideKeeps DEF OpenDirectory, walk
<1> QED BY <1>1, <1>2 DEF OpenDirectory

LEMMA ReadBlockKeepsTree ==
  ASSUME IInv, TreeInv, ReadBlock
  PROVE  TreeInv'
<1>1. /\ image \in Images /\ Reading.inode \in Inodes /\ missed \in BOOLEAN /\ pc = "read"
      /\ read.blocks < Len(image.blocks[Reading.inode])
  BY ReadingType DEF IInv, TypeOK, ReadBlock, Directory
<1>2. PICK fails \in MayFail("block") :
        /\ missed' = (missed \/ fails)
        /\ buffer' \in IF fails THEN FailedRead
                       ELSE {image.blocks[Reading.inode][read.blocks + 1]}
  BY DEF ReadBlock
<1>3. missed => missed'
  BY <1>2
<1>4. CASE DirectoryFails
  <2>1. UNCHANGED <<image, given, queue>> /\ error' = TRUE /\ pc' \in {"idle", "closed"}
    BY <1>4 DEF ReadBlock, DirectoryFails, walk
  <2> QED BY <1>3, <2>1, StopKeeps DEF TreeInv
<1>5. CASE /\ read' = [blocks |-> read.blocks + 1, entries |-> read.entries \o buffer'.entries]
           /\ UNCHANGED <<pc, created, error, walk, result, given>>
  <2>1. ASSUME ~missed', ~error
        PROVE  Lists(image, read'.entries, Reading.inode, read'.blocks)
    <3>1. ~missed /\ buffer' = image.blocks[Reading.inode][read.blocks + 1]
      BY <1>2, <2>1
    <3>2. Lists(image, read.entries, Reading.inode, read.blocks)
      BY <1>1, <2>1, <3>1 DEF TreeInv
    <3>3. Lists(image, read.entries \o image.blocks[Reading.inode][read.blocks + 1].entries,
                Reading.inode, read.blocks + 1)
      BY <1>1, <3>2, ListsNext
    <3>4. /\ read'.blocks = read.blocks + 1
          /\ read'.entries = read.entries \o image.blocks[Reading.inode][read.blocks + 1].entries
      BY <1>5, <3>1
    <3> QED BY <3>3, <3>4
  <2> QED BY <1>1, <1>3, <1>5, <2>1, InsideKeeps DEF ReadBlock, walk
<1> QED BY <1>4, <1>5 DEF ReadBlock

LEMMA EndDirectoryKeepsTree ==
  ASSUME IInv, TreeInv, EndDirectory
  PROVE  TreeInv'
<1> DEFINE es == read.entries
           i == Reading.inode
<1>1. /\ pc = "read" /\ ~error /\ ~error' /\ image' = image /\ missed' = missed /\ entry' = entry
      /\ image.fourK /\ image \in Images /\ i \in Inodes /\ given \in Seq(Path) /\ entry \in Path
      /\ GivenOnce /\ read.blocks = Len(image.blocks[i])
  BY ReadingType DEF IInv, TypeOK, ControlInv, TreeInv, EndDirectory, Directory
<1>2. ~missed => Lists(image, es, i, Len(image.blocks[i]))
  BY <1>1 DEF TreeInv
<1>3. created => /\ queue \in Seq(Directory) /\ queue # <<>> /\ index = 0 /\ InCall
                 /\ Reading = queue[1] /\ Known = AllGiven \cup {entry} /\ Walked = {}
                 /\ ~missed => /\ Structure(image, queue, Known, {}) /\ entry \notin AllGiven
                               /\ IsPath(image, entry)
  <2> SUFFICES ASSUME created
               PROVE  /\ queue \in Seq(Directory) /\ queue # <<>> /\ index = 0 /\ InCall
                      /\ Reading = queue[1] /\ Known = AllGiven \cup {entry} /\ Walked = {}
                      /\ ~missed => /\ Structure(image, queue, Known, {}) /\ entry \notin AllGiven
                                    /\ IsPath(image, entry)
    OBVIOUS
  <2>1. queue \in Seq(Directory) /\ queue # <<>> /\ index = 0 /\ InCall
    BY <1>1 DEF IInv, TypeOK, ControlInv, InCall
  <2>2. Reading = queue[1]
    BY <2>1, TailElements DEF Reading
  <2>3. Known = AllGiven \cup {entry} /\ Walked = {}
    BY <1>1, <2>1 DEF Known, Walked
  <2>4. ~missed => Structure(image, queue, Known, {}) /\ entry \notin AllGiven
    BY <1>1, <2>1, <2>3 DEF TreeInv
  <2>5. ~missed => IsPath(image, entry)
    BY <2>3, <2>4 DEF Structure
  <2> QED BY <2>1, <2>2, <2>3, <2>4, <2>5
<1>4. CASE RootRead
  <2>1. /\ given = <<>> /\ given' = given /\ Reading = [path |-> <<>>, inode |-> image.root]
        /\ i = image.root /\ created' /\ pc' = "idle" /\ dir' = es /\ index' = 0
        /\ queue' = IF es = <<>> THEN <<>> ELSE << [path |-> <<>>, inode |-> image.root] >>
    BY <1>4 DEF RootRead, Reading, IInv, ControlInv
  <2>2. AllGiven' = {} /\ ~InCall' /\ Known' = {}
    BY <2>1, EmptySeq DEF AllGiven, InCall, Known
  <2>3. Walked' = {}
    BY <2>1 DEF Walked
  <2>4. GivenOnce'
    BY <1>1, <2>1 DEF GivenOnce
  <2>5. ~missed => Structure(image, queue', {}, {})
    BY <1>1, <1>2, <2>1, RootStructure
  <2>6. queue' # <<>> => queue'[1].inode = i
    BY <2>1
  <2> HIDE DEF es, i
  <2> QED BY <1>1, <1>2, <2>1, <2>2, <2>3, <2>4, <2>5, <2>6 DEF TreeInv
<1>5. CASE SkipEmpty
  <2>1. created /\ created' /\ es = <<>> /\ queue' = Tail(queue)
    BY <1>5 DEF SkipEmpty
  <2>2. ~missed => Structure(image, queue', Known, {})
    <3> SUFFICES ASSUME ~missed PROVE Structure(image, queue', Known, {})
      OBVIOUS
    <3>1. Listing(image, i) = {}
      <4>1. image \in Images /\ i \in Inodes /\ Lists(image, es, i, Len(image.blocks[i]))
        BY <1>1, <1>2
      <4>2. Listing(image, i) = {es[j] : j \in 1 .. Len(es)}
        <5> HIDE DEF es, i
        <5> QED BY <4>1, ListsAll
      <4> QED BY <2>1, <4>2, EmptySeq
    <3>2. Leads(image, queue[1].path) = {i}
      <4>1. 1 \in 1 .. Len(queue) /\ i = queue[1].inode
        BY <1>3, <2>1, TailElements
      <4> HIDE DEF i
      <4> QED BY <1>3, <2>1, <4>1 DEF Structure
    <3>3. Complete(image, queue[1].path, Known)
      BY <3>1, <3>2 DEF Complete
    <3> QED BY <1>1, <1>3, <2>1, <3>3, DropFront
  <2>3. CASE queue' = <<>>
    <3>1. Return(entry)
      BY <1>5, <2>3 DEF SkipEmpty
    <3>2. AllGiven' = AllGiven \cup {entry} /\ GivenOnce'
      BY <1>1, <1>3, <2>1, <3>1, GiveKeeps DEF Return
    <3>3. pc' = "idle" /\ ~InCall' /\ Known' = Known /\ Walked' = {}
      BY <1>3, <2>1, <2>3, <3>1, <3>2 DEF Return, InCall, Known, Walked
    <3> QED BY <1>1, <2>1, <2>2, <2>3, <3>2, <3>3 DEF TreeInv
  <2>4. CASE queue' # <<>>
    <3>1. pc' = "open" /\ given' = given
      BY <1>5, <2>4 DEF SkipEmpty
    <3>2. AllGiven' = AllGiven /\ InCall' /\ Known' = Known /\ Walked' = {}
      BY <1>1, <1>3, <2>1, <3>1 DEF AllGiven, InCall, Known, Walked
    <3>3. GivenOnce'
      BY <1>1, <3>1 DEF GivenOnce
    <3> QED BY <1>1, <1>3, <2>1, <2>2, <3>1, <3>2, <3>3 DEF TreeInv
  <2> QED BY <2>3, <2>4
<1>6. CASE Enter
  <2>1. created /\ created' /\ queue' = queue /\ index' = index /\ dir' = es /\ Return(entry)
    BY <1>6 DEF Enter
  <2>2. AllGiven' = AllGiven \cup {entry} /\ GivenOnce'
    BY <1>1, <1>3, <2>1, GiveKeeps DEF Return
  <2>3. pc' = "idle" /\ ~InCall' /\ Known' = Known
    BY <1>3, <2>1, <2>2 DEF Return, InCall, Known
  <2>4. Walked' = {}
    BY <1>3, <2>1, <2>3 DEF Walked
  <2>5. queue'[1].inode = i
    BY <1>3, <2>1
  <2> HIDE DEF es, i
  <2> QED BY <1>1, <1>2, <1>3, <2>1, <2>2, <2>3, <2>4, <2>5 DEF TreeInv
<1> QED BY <1>4, <1>5, <1>6 DEF EndDirectory

LEMMA NextEntryKeepsTree ==
  ASSUME IInv, TreeInv, NextEntry
  PROVE  TreeInv'
<1> DEFINE h    == queue[1]
           e    == dir[index + 1]
           path == Append(h.path, e.name)
           q    == Queued(path, e)
           now  == AllGiven \cup {path}
<1>1. /\ pc = "idle" /\ ~error /\ created /\ queue \in Seq(Directory) /\ queue # <<>> /\ 1 \in 1 .. Len(queue)
      /\ dir \in Seq(Dirent) /\ Len(dir) \in Nat /\ index \in Nat /\ index + 1 \in 1 .. Len(dir)
      /\ image' = image /\ created' = created /\ read' = read /\ missed' = missed
      /\ image \in Images /\ image.fourK /\ given \in Seq(Path) /\ GivenOnce
      /\ Head(queue) = h /\ h \in Directory /\ h.path \in Path /\ h.inode \in Inodes
  <2>1. /\ pc = "idle" /\ ~error /\ created /\ queue \in Seq(Directory) /\ queue # <<>>
        /\ dir \in Seq(Dirent) /\ Len(dir) \in Nat /\ index \in Nat /\ index < Len(dir)
        /\ image' = image /\ created' = created /\ read' = read /\ missed' = missed
        /\ image \in Images /\ image.fourK /\ given \in Seq(Path) /\ GivenOnce
    BY LenProperties DEF IInv, TypeOK, ControlInv, TreeInv, NextEntry, hasNext
  <2>2. Head(queue) = h /\ 1 \in 1 .. Len(queue) /\ h \in Directory
    BY <2>1, TailElements
  <2> QED BY <2>1, <2>2 DEF Directory
<1>2. e \in Dirent /\ e.name \in Names
  <2>1. e \in Dirent
    BY <1>1, ElementOfSeq
  <2> QED BY <2>1 DEF Dirent
<1>3. path \in Path /\ Parent(path) = h.path
  BY <1>1, <1>2, PathAppend
<1>4. ~InCall /\ Known = AllGiven /\ Walked = {Append(h.path, dir[j].name) : j \in 1 .. index}
  BY <1>1 DEF InCall, Known, Walked
<1> HIDE DEF h
<1>5. ~missed => /\ Structure(image, queue, AllGiven, Walked) /\ Walked \subseteq AllGiven
                 /\ Lists(image, dir, h.inode, Len(image.blocks[h.inode]))
  BY <1>1, <1>4 DEF TreeInv, h
<1>6. ASSUME ~missed
      PROVE  /\ Listing(image, h.inode) = {dir[j] : j \in 1 .. Len(dir)}
             /\ Leads(image, h.path) = {h.inode}
             /\ \A j, k \in 1 .. Len(dir) : dir[j].name = dir[k].name => j = k
  <2>1. Leads(image, h.path) = {h.inode}
    BY <1>1, <1>5, <1>6 DEF Structure, h
  <2>2. Listing(image, h.inode) = {dir[j] : j \in 1 .. Len(dir)}
    BY <1>1, <1>5, <1>6, ListsAll
  <2> QED BY <1>5, <1>6, <2>1, <2>2 DEF Lists
<1>7. \A j \in 1 .. Len(dir) : dir[j].name \in Names
  <2>1. \A j \in 1 .. Len(dir) : dir[j] \in Dirent
    BY <1>1, ElementOfSeq
  <2> QED BY <2>1 DEF Dirent
\* The entry is a new one.
<1>8. ASSUME ~missed PROVE path \notin AllGiven
  <2> SUFFICES ASSUME path \in AllGiven PROVE FALSE
    OBVIOUS
  <2>1. path \in Walked
    BY <1>1, <1>3, <1>5, <1>8 DEF Structure, h
  <2>2. PICK j \in 1 .. index : Append(h.path, dir[j].name) = path
    BY <1>4, <2>1
  <2>3. j \in 1 .. Len(dir) /\ j # index + 1
    BY <1>1
  <2>4. dir[j].name = e.name
    BY <1>1, <1>2, <1>7, <2>2, <2>3, PathAppend
  <2> QED BY <1>1, <1>6, <1>8, <2>3, <2>4
<1> HIDE DEF e
<1>9. ASSUME ~missed
      PROVE  /\ Structure(image, q, now, Walked \cup {path}) /\ q # <<>> /\ q[1] = h
             /\ IsPath(image, path)
  <2>1. e \in Listing(image, h.inode)
    BY <1>1, <1>6, <1>9 DEF e
  <2>2. q = With(queue, path, e)
    BY DEF Queued, With
  <2>3. IsPath(image, path)
    BY <1>1, <1>6, <1>9, <2>1, EntryLeads
  <2>4. path = Append(queue[1].path, e.name)
    BY DEF h
  <2> HIDE DEF q, path
  <2>5. path \notin AllGiven /\ image \in Images /\ queue # <<>> /\ Structure(image, queue, AllGiven, Walked)
    BY <1>1, <1>5, <1>8, <1>9
  <2>6. e \in Listing(image, queue[1].inode)
    BY <2>1 DEF h
  <2>7. Structure(image, With(queue, path, e), AllGiven \cup {path}, Walked \cup {path})
    BY ONLY <2>4, <2>5, <2>6, AddEntry
  <2>8. q # <<>> /\ q[1] = h
    <3>1. With(queue, path, e) # <<>> /\ With(queue, path, e)[1] = queue[1]
      BY <1>1, <1>2, <1>3, WithFront
    <3> QED BY <2>2, <3>1 DEF h
  <2> QED BY <2>2, <2>3, <2>7, <2>8
\* After the last entry, every entry of the directory is known.
<1>10. ASSUME ~missed, index + 1 = Len(dir) PROVE Structure(image, Tail(q), now, {})
  <2>1. ASSUME NEW j \in 1 .. Len(dir) PROVE Append(h.path, dir[j].name) \in now
    <3>1. CASE j = index + 1
      BY <3>1 DEF e
    <3>2. CASE j # index + 1
      <4>1. j \in 1 .. index
        BY <1>1, <1>10, <3>2
      <4> QED BY <1>4, <1>5, <1>10, <4>1
    <3> QED BY <3>1, <3>2
  <2> HIDE DEF now, q, path
  <2>2. Complete(image, h.path, now)
    BY <1>6, <1>10, <2>1 DEF Complete
  <2> QED BY <1>1, <1>9, <1>10, <2>2, DropFront
<1>11. ASSUME Return(path) PROVE AllGiven' = now /\ GivenOnce'
  <2> HIDE DEF path
  <2> QED BY <1>1, <1>3, <1>8, <1>9, <1>11, GiveKeeps DEF Return, now
<1> HIDE DEF q, path
<1>12. CASE /\ error' = TRUE /\ UNCHANGED <<pc, given>>
  BY <1>1, <1>12, StopKeeps
<1>13. CASE /\ entry' = path /\ index + 1 < Len(dir)
            /\ queue' = q /\ index' = index + 1 /\ UNCHANGED dir
            /\ Return(path) /\ UNCHANGED error
  <2>1. pc' = "idle" /\ ~InCall' /\ Known' = now
    BY <1>11, <1>13 DEF Return, InCall, Known
  <2>2. ~missed => Walked' = Walked \cup {path}
    <3> SUFFICES ASSUME ~missed PROVE Walked' = Walked \cup {path}
      OBVIOUS
    <3>1. Walked' = {Append(h.path, dir[j].name) : j \in 1 .. index + 1}
      BY <1>9, <1>13, <2>1 DEF Walked
    <3>2. 1 .. index + 1 = (1 .. index) \cup {index + 1}
      BY <1>1
    <3>3. path = Append(h.path, dir[index + 1].name)
      BY DEF path, e
    <3> QED BY <1>4, <3>1, <3>2, <3>3
  <2>3. ~missed => Walked' \subseteq AllGiven'
    BY <1>5, <1>11, <1>13, <2>2
  <2>4. ~missed => Structure(image', queue', Known', Walked')
    BY <1>1, <1>9, <1>13, <2>1, <2>2
  <2>5. ~missed => Lists(image', dir', queue'[1].inode, Len(image'.blocks[queue'[1].inode]))
    BY <1>1, <1>5, <1>9, <1>13
  <2> QED BY <1>1, <1>11, <1>13, <2>1, <2>3, <2>4, <2>5 DEF TreeInv
<1>14. CASE /\ entry' = path /\ ~(index + 1 < Len(dir)) /\ queue' = Tail(q) /\ index' = 0 /\ dir' = <<>>
            /\ Tail(q) = <<>> /\ Return(path) /\ UNCHANGED error
  <2>1. pc' = "idle" /\ ~InCall' /\ Known' = now /\ Walked' = {}
    BY <1>11, <1>14 DEF Return, InCall, Known, Walked
  <2>2. ~missed => Structure(image', queue', Known', Walked')
    <3>1. index + 1 = Len(dir)
      BY <1>1, <1>14
    <3> QED BY <1>1, <1>10, <1>14, <2>1, <3>1
  <2> QED BY <1>1, <1>11, <1>14, <2>1, <2>2 DEF TreeInv
<1>15. CASE /\ entry' = path /\ ~(index + 1 < Len(dir)) /\ queue' = Tail(q) /\ index' = 0 /\ dir' = <<>>
            /\ Tail(q) # <<>> /\ pc' = "open" /\ UNCHANGED <<result, given>> /\ UNCHANGED error
  <2>1. AllGiven' = AllGiven /\ InCall' /\ Known' = now /\ Walked' = {}
    BY <1>1, <1>15 DEF AllGiven, InCall, Known, Walked
  <2>2. ~missed => Structure(image', queue', Known', Walked')
    <3>1. index + 1 = Len(dir)
      BY <1>1, <1>15
    <3> QED BY <1>1, <1>10, <1>15, <2>1, <3>1
  <2>3. GivenOnce'
    BY <1>1, <1>15 DEF GivenOnce
  <2> QED BY <1>1, <1>8, <1>15, <2>1, <2>2, <2>3 DEF TreeInv
<1> QED BY <1>1, <1>12, <1>13, <1>14, <1>15 DEF NextEntry, q, path, e

THEOREM TreeInvariant == Spec => [](IInv /\ TreeInv)
<1>1. Init => TreeInv
  <2> SUFFICES ASSUME Init PROVE TreeInv
    OBVIOUS
  <2>1. GivenOnce
    BY EmptySeq DEF Init, GivenOnce
  <2> QED BY <2>1 DEF Init, TreeInv, InCall
<1>2. IInv /\ TreeInv /\ [Next]_vars => TreeInv'
  <2> SUFFICES ASSUME IInv, TreeInv, [Next]_vars PROVE TreeInv'
    OBVIOUS
  <2>1. CASE CreateFails \/ CreateUnsupported \/ Create \/ NextNull
    BY <2>1, CreateKeepsTree
  <2>2. CASE OpenDirectory
    BY <2>2, OpenDirectoryKeepsTree
  <2>3. CASE ReadBlock
    BY <2>3, ReadBlockKeepsTree
  <2>4. CASE EndDirectory
    BY <2>4, EndDirectoryKeepsTree
  <2>5. CASE NextEntry
    BY <2>5, NextEntryKeepsTree
  <2>6. CASE UNCHANGED vars
    BY <2>6, SameKeeps DEF vars, walk
  <2> QED BY <2>1, <2>2, <2>3, <2>4, <2>5, <2>6 DEF Next, Step
<1> QED BY <1>1, <1>2, ErofsInvariant, PTL DEF Spec

\* A walk over an image that ends, no read having failed, has given every entry of the root
\* and of every directory it gave; no walk gives an entry twice, or one that is not in the tree.
THEOREM WalkIsComplete == Spec => []WalkComplete
<1>1. IInv /\ TreeInv => WalkComplete
  <2> SUFFICES ASSUME IInv, TreeInv PROVE WalkComplete
    OBVIOUS
  <2>1. GivenOnce
    BY DEF TreeInv
  <2>2. ASSUME Ended, NEW path \in {<<>>} \cup AllGiven, NEW i \in Leads(image, path),
               NEW e \in Listing(image, i)
        PROVE  Append(path, e.name) \in AllGiven
    <3>1. created /\ ~error /\ ~missed /\ queue = <<>> /\ image.fourK /\ ~InCall
      BY <2>2 DEF Ended, IInv, ControlInv, InCall
    <3>2. Known = AllGiven /\ Len(queue) = 0
      BY <3>1, EmptySeq DEF Known
    <3>3. Structure(image, queue, AllGiven, Walked)
      BY <3>1, <3>2 DEF TreeInv
    <3>4. Complete(image, path, AllGiven)
      BY <2>2, <3>2, <3>3 DEF Structure
    <3> QED BY <2>2, <3>4 DEF Complete
  <2>3. \A p : p \in AllGiven <=> IsGiven(p)
    BY DEF AllGiven, IsGiven
  <2> QED BY <2>1, <2>2, <2>3 DEF WalkComplete, AllGiven
<1> QED BY <1>1, TreeInvariant, PTL

-----------------------------------------------------------------------------
(* The map of extents is the one the image was made with.                    *)

\* An offset is in a cluster, behind its first byte.
LEMMA ClusterOf ==
  ASSUME NEW a \in Nat
  PROVE  /\ a \div BlockSize \in Nat /\ a % BlockSize \in Nat /\ a % BlockSize < BlockSize
         /\ (a \div BlockSize) * BlockSize \in Nat
         /\ a = (a \div BlockSize) * BlockSize + (a % BlockSize)
<1>1. BlockSize \in Nat \ {0}
  BY ErofsDataAssumption
<1> QED BY <1>1

LEMMA TimesMonotonic ==
  ASSUME NEW a \in Nat, NEW b \in Nat, NEW d \in Nat, a <= b
  PROVE  a * d <= b * d /\ a * d \in Nat /\ b * d \in Nat
<1>1. PICK c \in Nat : b = a + c
  <2>1. b - a \in Nat /\ b = a + (b - a)
    OBVIOUS
  <2> QED BY <2>1
<1>2. b * d = a * d + c * d /\ c * d \in Nat /\ a * d \in Nat
  BY <1>1
<1> QED BY <1>2

\* The cluster of an offset says on which side of a boundary it is.
LEMMA ClusterBefore ==
  ASSUME NEW a \in Nat, NEW n \in Nat
  PROVE  a < n * BlockSize <=> a \div BlockSize < n
<1> DEFINE c == a \div BlockSize
           r == a % BlockSize
<1>0. BlockSize \in Nat \ {0}
  BY ErofsDataAssumption
<1>00. c \in Nat /\ r \in Nat /\ r < BlockSize /\ c * BlockSize \in Nat /\ a = c * BlockSize + r
  BY ClusterOf
<1> HIDE DEF c, r
<1>1. c * BlockSize <= a /\ a < c * BlockSize + BlockSize /\ n * BlockSize \in Nat
  BY <1>0, <1>00
<1>2. ASSUME c < n PROVE a < n * BlockSize
  <2>1. (c + 1) * BlockSize <= n * BlockSize
    BY <1>0, <1>00, <1>2, TimesMonotonic
  <2>2. (c + 1) * BlockSize = c * BlockSize + BlockSize
    BY <1>0, <1>00
  <2> QED BY <1>0, <1>00, <1>1, <2>1, <2>2
<1>3. ASSUME ~(c < n) PROVE ~(a < n * BlockSize)
  <2>1. n * BlockSize <= c * BlockSize
    BY <1>0, <1>00, <1>3, TimesMonotonic
  <2> QED BY <1>0, <1>00, <1>1, <2>1
<1> QED BY <1>2, <1>3 DEF c

\* A later offset is not in an earlier cluster.
LEMMA ClusterMonotonic ==
  ASSUME NEW a \in Nat, NEW b \in Nat, a <= b
  PROVE  a \div BlockSize <= b \div BlockSize
<1> DEFINE c == a \div BlockSize
           d == b \div BlockSize
<1>1. c \in Nat /\ d \in Nat
  BY ClusterOf
<1>2. b < (d + 1) * BlockSize
  BY <1>1, ClusterBefore
<1>3. (d + 1) * BlockSize \in Nat
  BY <1>1, ErofsDataAssumption
<1>4. a < (d + 1) * BlockSize
  BY <1>2, <1>3
<1>5. c < d + 1
  BY <1>1, <1>4, ClusterBefore
<1> HIDE DEF c, d
<1>6. c <= d
  BY <1>1, <1>5
<1> QED BY <1>6 DEF c, d

\* The number of clusters of a file covers it, and no cluster begins behind its end.
LEMMA ClustersCover ==
  ASSUME NEW a \in Nat
  PROVE  /\ Data!DivRoundUp(a, BlockSize) \in Nat
         /\ a <= Data!DivRoundUp(a, BlockSize) * BlockSize
         /\ \A n \in Nat : n < Data!DivRoundUp(a, BlockSize) => n * BlockSize < a
<1> DEFINE d == Data!DivRoundUp(a, BlockSize)
<1>1. BlockSize \in Nat \ {0} /\ a + BlockSize - 1 \in Nat
  BY ErofsDataAssumption
<1>2. d = (a + BlockSize - 1) \div BlockSize
  BY DEF Data!DivRoundUp
<1>3. /\ d \in Nat /\ d * BlockSize \in Nat
      /\ d * BlockSize <= a + BlockSize - 1 /\ a + BlockSize - 1 < d * BlockSize + BlockSize
  BY <1>1, <1>2, ClusterOf
<1> HIDE DEF d
<1>4. a <= d * BlockSize
  BY <1>1, <1>3
<1>5. ASSUME NEW n \in Nat, n < d PROVE n * BlockSize < a
  <2>1. (n + 1) * BlockSize <= d * BlockSize /\ n * BlockSize \in Nat
    BY <1>1, <1>3, <1>5, TimesMonotonic
  <2>2. (n + 1) * BlockSize = n * BlockSize + BlockSize
    BY <1>1
  <2> QED BY <1>1, <1>3, <2>1, <2>2
<1> QED BY <1>3, <1>4, <1>5 DEF d

\* A set of positions with every smaller one is a beginning.
LEMMA Beginning ==
  ASSUME NEW n \in Nat, NEW P, P \subseteq 1 .. n,
         \A k \in P : \A l \in 1 .. k : l \in P
  PROVE  \E j \in 0 .. n : \A l \in 1 .. n : l \in P <=> l <= j
<1> DEFINE T == {m \in 1 .. n + 1 : m \notin P}
<1>1. n + 1 \in T /\ T \subseteq Nat
  OBVIOUS
<1>2. PICK m \in T : \A x \in T : m <= x
  <2> HIDE DEF T
  <2> QED BY <1>1, LeastNumber
<1>3. m \in 1 .. n + 1 /\ m \notin P /\ m - 1 \in 0 .. n
  OBVIOUS
<1>4. ASSUME NEW l \in 1 .. n PROVE l \in P <=> l <= m - 1
  <2>1. CASE l <= m - 1
    <3>1. l \in 1 .. n + 1 /\ ~(m <= l)
      BY <1>3, <2>1
    <3> QED BY <1>2, <2>1, <3>1
  <2>2. CASE ~(l <= m - 1)
    <3>1. m \in 1 .. l
      BY <1>3, <2>2
    <3> QED BY <1>3, <2>2, <3>1
  <2> QED BY <2>1, <2>2
<1> QED BY <1>3, <1>4

\* The cluster an extent starts in.
Cluster(i, k) == i.starts[k] \div BlockSize

Count(i) == Len(i.starts)

\* What a compressed file looks like.
Extents(i) ==
  /\ i.size \in Nat /\ Count(i) \in Nat /\ DOMAIN i.starts = 1 .. Count(i)
  /\ \A k \in 1 .. Count(i) :
        /\ i.starts[k] \in Nat /\ i.starts[k] < i.size /\ Cluster(i, k) \in Nat
        /\ i.starts[k] = Cluster(i, k) * BlockSize + (i.starts[k] % BlockSize)
  /\ \A k, l \in 1 .. Count(i) : k < l => Cluster(i, k) < Cluster(i, l) /\ i.starts[k] < i.starts[l]
  /\ i.size > 0 => Count(i) > 0 /\ i.starts[1] = 0

LEMMA ExtentsOf ==
  ASSUME NEW i, Data!WellFormed(i), i.format \in Compressed
  PROVE  Extents(i)
<1>1. /\ i.size \in Nat /\ i.starts \in Seq(Nat)
      /\ i.starts # <<>> => i.starts[1] = 0
      /\ i.size > 0 => i.starts # <<>>
      /\ \A k \in DOMAIN i.starts : 
            /\ i.starts[k] < i.size
            /\ \A l \in DOMAIN i.starts : k < l => Cluster(i, k) < Cluster(i, l)
  BY DEF Data!WellFormed, Data!Inode, Compressed, Cluster
<1>2. Count(i) \in Nat /\ DOMAIN i.starts = 1 .. Count(i)
      /\ \A k \in 1 .. Count(i) : i.starts[k] \in Nat
  BY <1>1, LenProperties, ElementOfSeq DEF Count
<1>3. ASSUME NEW k \in 1 .. Count(i)
      PROVE  /\ Cluster(i, k) \in Nat
             /\ i.starts[k] = Cluster(i, k) * BlockSize + (i.starts[k] % BlockSize)
  BY <1>2, ClusterOf DEF Cluster
<1>4. ASSUME NEW k \in 1 .. Count(i), NEW l \in 1 .. Count(i), k < l
      PROVE  Cluster(i, k) < Cluster(i, l) /\ i.starts[k] < i.starts[l]
  <2>1. Cluster(i, k) < Cluster(i, l)
    BY <1>1, <1>2, <1>4
  <2>2. i.starts[l] <= i.starts[k] => Cluster(i, l) <= Cluster(i, k)
    BY <1>2, ClusterMonotonic DEF Cluster
  <2> QED BY <1>2, <1>3, <2>1, <2>2
<1>5. i.size > 0 => Count(i) > 0
  BY <1>1, <1>2, EmptySeq DEF Count
<1> QED BY <1>1, <1>2, <1>3, <1>4, <1>5 DEF Extents

\* The extents that begin in the first n clusters.
Before(i, n) ==
  CHOOSE j \in 0 .. Count(i) : \A l \in 1 .. Count(i) : Cluster(i, l) < n <=> l <= j

LEMMA BeforeIs ==
  ASSUME NEW i, Extents(i), NEW n \in Nat
  PROVE  /\ Before(i, n) \in 0 .. Count(i)
         /\ \A l \in 1 .. Count(i) : Cluster(i, l) < n <=> l <= Before(i, n)
<1> DEFINE P == {l \in 1 .. Count(i) : Cluster(i, l) < n}
<1>1. Count(i) \in Nat /\ P \subseteq 1 .. Count(i)
  BY DEF Extents
<1>2. \A k \in P : \A l \in 1 .. k : l \in P
  <2> SUFFICES ASSUME NEW k \in P, NEW l \in 1 .. k PROVE l \in P
    OBVIOUS
  <2>1. k \in 1 .. Count(i) /\ l \in 1 .. Count(i) /\ (l = k \/ l < k)
    BY <1>1
  <2>2. Cluster(i, l) \in Nat /\ Cluster(i, k) \in Nat /\ (l < k => Cluster(i, l) < Cluster(i, k))
    BY <2>1 DEF Extents
  <2> QED BY <2>1, <2>2
<1>3. \E j \in 0 .. Count(i) : \A l \in 1 .. Count(i) : l \in P <=> l <= j
  <2> HIDE DEF P
  <2> QED BY <1>1, <1>2, Beginning
<1>4. \E j \in 0 .. Count(i) : \A l \in 1 .. Count(i) : Cluster(i, l) < n <=> l <= j
  BY <1>3
<1> QED BY <1>4 DEF Before

\* The map of the first j extents: the size of the last of them is not known yet, unless
\* it is the last one of the file.
Partial(i, j) ==
  [k \in 1 .. j |-> [plain |-> k \in i.plain, offset |-> i.starts[k],
                     size |-> IF k = j /\ j # Count(i) THEN 0 ELSE Data!EndOf(i, k) - i.starts[k],
                     block |-> k]]

Extent == [plain : BOOLEAN, offset : Int, size : Int, block : Int]

\* A function over 1 .. n is a sequence.
LEMMA FunctionIsSeq ==
  ASSUME NEW S, NEW n \in Nat, NEW f \in [1 .. n -> S]
  PROVE  f \in Seq(S) /\ Len(f) = n
<1>1. f \in Seq(S)
  BY SeqDef
<1> QED BY <1>1, LenProperties

LEMMA PartialType ==
  ASSUME NEW i, Extents(i), NEW j \in 0 .. Count(i)
  PROVE  Partial(i, j) \in Seq(Extent) /\ Len(Partial(i, j)) = j
<1>1. Count(i) \in Nat /\ j \in Nat /\ \A k \in 1 .. j : k \in 1 .. Count(i) /\ k \in Int
  BY DEF Extents
<1>2. ASSUME NEW k \in 1 .. j PROVE i.starts[k] \in Int /\ Data!EndOf(i, k) \in Int
  <2>1. /\ i.size \in Nat /\ \A m \in 1 .. Count(i) : i.starts[m] \in Nat
        /\ k \in 1 .. Count(i) /\ (k # Count(i) => k + 1 \in 1 .. Count(i))
    BY <1>1 DEF Extents
  <2> QED BY <2>1 DEF Data!EndOf, Count
<1>3. \A k \in 1 .. j : (k \in i.plain) \in BOOLEAN
  OBVIOUS
<1>4. Partial(i, j) \in [1 .. j -> Extent]
  BY <1>1, <1>2, <1>3 DEF Partial, Extent
<1> QED BY <1>1, <1>4, FunctionIsSeq

\* What add() does to it with the next extent, ...
LEMMA AddNext ==
  ASSUME NEW i, Extents(i), NEW j \in 0 .. Count(i) - 1, NEW type,
         (j + 1 \in i.plain) = (type = "Plain")
  PROVE  Data!add(Partial(i, j), Count(i), i.size, type, i.starts[j + 1], j + 1) = {Partial(i, j + 1)}
<1> DEFINE map == Partial(i, j)
           offset == i.starts[j + 1]
           closed == IF map = <<>> THEN map
                     ELSE [map EXCEPT ![Len(map)].size = offset - map[Len(map)].offset]
           new == [plain |-> type = "Plain", offset |-> offset,
                   size |-> IF Len(map) + 1 = Count(i) THEN i.size - offset ELSE 0,
                   block |-> j + 1]
           next == Partial(i, j + 1)
<1>1. /\ j \in Nat /\ Count(i) \in Nat /\ j + 1 \in 1 .. Count(i) /\ j \in 0 .. Count(i)
      /\ j + 1 \in 0 .. Count(i)
      /\ offset \in Nat /\ i.size \in Nat /\ offset < i.size
  BY DEF Extents
<1>2. map \in Seq(Extent) /\ Len(map) = j /\ next \in Seq(Extent) /\ Len(next) = j + 1
  BY <1>1, PartialType
<1>3. Data!add(map, Count(i), i.size, type, offset, j + 1) = {Append(closed, new)}
  <2> HIDE DEF map, offset
  <2>1. ~(offset > i.size) /\ offset # i.size /\ ~(Len(map) >= Count(i))
    BY <1>1, <1>2
  <2> HIDE DEF closed
  <2> QED BY <2>1 DEF Data!add, closed
<1>4. \A k \in 1 .. j : map[k] = [plain |-> k \in i.plain, offset |-> i.starts[k],
                                  size |-> IF k = j THEN 0 ELSE i.starts[k + 1] - i.starts[k],
                                  block |-> k]
  BY <1>1 DEF Partial, Data!EndOf, Count
<1>5. \A k \in 1 .. j + 1 : next[k] = [plain |-> k \in i.plain, offset |-> i.starts[k],
                                  size |-> IF k = j + 1
                                           THEN IF j + 1 = Count(i) THEN i.size - i.starts[k] ELSE 0
                                           ELSE i.starts[k + 1] - i.starts[k],
                                  block |-> k]
  BY <1>1 DEF Partial, Data!EndOf, Count
<1>6. new = next[j + 1]
  BY <1>1, <1>2, <1>5
<1>7. closed \in Seq(Extent) /\ Len(closed) = j /\ \A k \in 1 .. j : closed[k] = next[k]
  <2>1. CASE j = 0
    <3>1. map = <<>>
      BY <1>2, <2>1, EmptySeq
    <3> QED BY <1>2, <2>1, <3>1
  <2>2. CASE j # 0
    <3>1. map # <<>> /\ j \in 1 .. j /\ j \in 1 .. Len(map)
      BY <1>1, <1>2, <2>2, EmptySeq
    <3>2. /\ map[j] = [plain |-> j \in i.plain, offset |-> i.starts[j], size |-> 0, block |-> j]
          /\ next[j] = [plain |-> j \in i.plain, offset |-> i.starts[j],
                        size |-> i.starts[j + 1] - i.starts[j], block |-> j]
      <4> HIDE DEF map, next
      <4>1. j \in 1 .. j /\ j \in 1 .. j + 1 /\ j # j + 1
        BY <1>1, <3>1
      <4> QED BY <1>4, <1>5, <4>1
    <3>3. \A k \in 1 .. j : k # j => map[k] = next[k]
      <4> HIDE DEF map, next
      <4> SUFFICES ASSUME NEW k \in 1 .. j, k # j PROVE map[k] = next[k]
        OBVIOUS
      <4>1. k \in 1 .. j + 1 /\ k # j + 1
        BY <1>1
      <4> QED BY <1>4, <1>5, <4>1
    <3> HIDE DEF next, map, offset
    <3>4. closed = [map EXCEPT ![j] = [map[j] EXCEPT !.size = offset - map[j].offset]]
      BY <1>2, <3>1
    <3>5. [map[j] EXCEPT !.size = offset - map[j].offset] = next[j]
      BY <3>2 DEF offset
    <3>6. next[j] \in Extent /\ closed = [map EXCEPT ![j] = next[j]]
      <4>1. j \in 1 .. Len(next)
        BY <1>1, <1>2, <3>1
      <4> QED BY <1>2, <3>4, <3>5, <4>1, ElementOfSeq
    <3> HIDE DEF closed
    <3>7. closed \in Seq(Extent) /\ Len(closed) = Len(map)
          /\ \A k \in 1 .. Len(map) : closed[k] = IF k = j THEN next[j] ELSE map[k]
      BY <1>2, <3>1, <3>6, ExceptSeq
    <3> QED BY <1>2, <3>3, <3>7
  <2> QED BY <2>1, <2>2
<1> HIDE DEF closed, new, next, map, offset
<1>8. Append(closed, new) = next
  <2>1. new \in Extent
    BY <1>1, <1>2, <1>6, ElementOfSeq
  <2>2. /\ Append(closed, new) \in Seq(Extent) /\ Len(Append(closed, new)) = j + 1
        /\ \A k \in 1 .. j : Append(closed, new)[k] = next[k]
        /\ Append(closed, new)[j + 1] = next[j + 1]
    BY <1>6, <1>7, <2>1, AppendProperties
  <2>3. \A k \in 1 .. j + 1 : Append(closed, new)[k] = next[k]
    BY <1>1, <2>2
  <2> QED BY <1>2, <2>2, <2>3, SeqEqual
<1> QED BY <1>3, <1>8 DEF map, next, offset

\* ... and with a head at the end of the file.
LEMMA AddAtEnd ==
  ASSUME NEW map, NEW n, NEW size \in Nat, NEW type, NEW block0
  PROVE  Data!add(map, n, size, type, size, block0) = {map}
BY DEF Data!add

Clusters(i) == Data!DivRoundUp(i.size, BlockSize)

HeadOf(i, k) ==
  [type |-> IF k \in i.plain THEN "Plain" ELSE "Head1", offset |-> i.starts[k] % BlockSize, block |-> k]

\* The entry of a cluster in which no extent starts.
OtherEntry(i, n) ==
  IF n - 1 = i.size \div BlockSize THEN [type |-> "Plain", offset |-> i.size % BlockSize, block |-> 0]
  ELSE [type |-> "NonHead", offset |-> 0, block |-> 0]

\* The entries of an index, by the clusters of the extents.
LEMMA EntriesAre ==
  ASSUME NEW i, Extents(i), NEW es, es = Data!Entries(i)
  PROVE  /\ Clusters(i) \in Nat /\ Len(es) = Clusters(i) /\ DOMAIN es = 1 .. Clusters(i)
         /\ \A k \in 1 .. Count(i) : Cluster(i, k) + 1 \in 1 .. Clusters(i)
                                     /\ es[Cluster(i, k) + 1] = HeadOf(i, k)
         /\ \A n \in 1 .. Clusters(i) :
               (\A k \in 1 .. Count(i) : Cluster(i, k) # n - 1) => es[n] = OtherEntry(i, n)
<1> DEFINE N == Clusters(i)
           Starts(c) == {k \in DOMAIN i.starts : i.starts[k] \div BlockSize = c}
           made(n) == IF Starts(n - 1) # {}
                       THEN LET k == CHOOSE k \in Starts(n - 1) : TRUE IN HeadOf(i, k)
                       ELSE OtherEntry(i, n)
<1>1. i.size \in Nat /\ N \in Nat /\ i.size <= N * BlockSize /\ N * BlockSize \in Nat
  <2>1. i.size \in Nat /\ N \in Nat /\ i.size <= N * BlockSize
    BY ClustersCover DEF Extents, Clusters
  <2> HIDE DEF N
  <2> QED BY <2>1, ErofsDataAssumption
<1>2. es = [n \in 1 .. N |-> made(n)]
  BY DEF Data!Entries, Clusters, HeadOf, OtherEntry
<1>3. \A c : Starts(c) = {k \in 1 .. Count(i) : Cluster(i, k) = c}
  BY DEF Extents, Cluster
<1> HIDE DEF Starts, N
<1>4. Len(es) = N /\ DOMAIN es = 1 .. N /\ \A n \in 1 .. N : es[n] = made(n)
  <2> HIDE DEF made
  <2> DEFINE S == {es[n] : n \in 1 .. N}
  <2>1. es \in [1 .. N -> S] /\ DOMAIN es = 1 .. N /\ \A n \in 1 .. N : es[n] = made(n)
    BY <1>2
  <2> HIDE DEF S
  <2> QED BY <1>1, <2>1, FunctionIsSeq
<1>5. ASSUME NEW k \in 1 .. Count(i)
      PROVE  Cluster(i, k) + 1 \in 1 .. N /\ es[Cluster(i, k) + 1] = HeadOf(i, k)
  <2>1. Cluster(i, k) \in Nat /\ i.starts[k] \in Nat /\ i.starts[k] < i.size
    BY DEF Extents
  <2>2. i.starts[k] < N * BlockSize
    BY <1>1, <2>1
  <2>3. Cluster(i, k) < N
    BY <1>1, <2>1, <2>2, ClusterBefore DEF Cluster
  <2> DEFINE n == Cluster(i, k) + 1
  <2>4. n \in 1 .. N /\ n - 1 = Cluster(i, k)
    BY <1>1, <2>1, <2>3
  <2>5. Starts(n - 1) = {k}
    <3>1. \A l \in 1 .. Count(i) : Cluster(i, l) = Cluster(i, k) => l = k
      <4> SUFFICES ASSUME NEW l \in 1 .. Count(i), l # k PROVE Cluster(i, l) # Cluster(i, k)
        OBVIOUS
      <4>1. l < k \/ k < l
        BY DEF Extents
      <4>2. /\ l < k => Cluster(i, l) < Cluster(i, k)
            /\ k < l => Cluster(i, k) < Cluster(i, l)
            /\ Cluster(i, l) \in Nat /\ Cluster(i, k) \in Nat
        BY DEF Extents
      <4> QED BY <4>1, <4>2
    <3> HIDE DEF n
    <3> QED BY <1>3, <2>4, <3>1
  <2> HIDE DEF n
  <2>6. made(n) = HeadOf(i, k)
    BY <2>5
  <2> HIDE DEF made
  <2> QED BY <1>4, <2>4, <2>6 DEF n
<1>6. ASSUME NEW n \in 1 .. N, \A k \in 1 .. Count(i) : Cluster(i, k) # n - 1
      PROVE  es[n] = OtherEntry(i, n)
  <2>1. Starts(n - 1) = {}
    BY <1>3, <1>6
  <2> QED BY <1>4, <2>1
<1> QED BY <1>1, <1>4, <1>5, <1>6 DEF N

\* The map after the first n entries has the extents of the first n clusters.
LEMMA FillingIs ==
  ASSUME NEW i, Extents(i), NEW es, es = Data!Entries(i), NEW blockOf,
         \A k \in 1 .. Count(i) : blockOf[Cluster(i, k) + 1] = k
  PROVE  \A n \in 0 .. Clusters(i) : Data!Filling(i, es, blockOf)[n] = {Partial(i, Before(i, n))}
<1> DEFINE N == Clusters(i)
           Add(m, n) == Data!add(m, Len(i.starts), i.size, es[n].type,
                                 (n - 1) * BlockSize + es[n].offset, blockOf[n])
           filled == Data!Filling(i, es, blockOf)
           known == [n \in 0 .. N |-> {Partial(i, Before(i, n))}]
           Def(f) == f = [n \in 0 .. N |->
                            IF n = 0 THEN {<<>>}
                            ELSE IF es[n].type = "NonHead" THEN f[n - 1]
                            ELSE UNION {Add(m, n) : m \in f[n - 1]}]
<1>1. N \in Nat /\ Len(es) = N /\ i.size \in Nat /\ Count(i) \in Nat
  BY EntriesAre DEF Extents
<1>2. filled = CHOOSE f : Def(f)
  <2> HIDE DEF N
  <2> QED BY <1>1, Zenon DEF Data!Filling
<1>3. Partial(i, Before(i, 0)) = <<>>
  <2>1. Before(i, 0) = 0
    <3>1. /\ Before(i, 0) \in 0 .. Count(i)
          /\ \A l \in 1 .. Count(i) : Cluster(i, l) < 0 <=> l <= Before(i, 0)
      BY BeforeIs
    <3>2. \A l \in 1 .. Count(i) : Cluster(i, l) \in Nat
      BY DEF Extents
    <3>3. ASSUME Before(i, 0) # 0 PROVE FALSE
      <4>1. 1 \in 1 .. Count(i) /\ 1 <= Before(i, 0)
        BY <1>1, <3>1, <3>3
      <4> QED BY <3>1, <3>2, <4>1
    <3> QED BY <3>3
  <2>2. Partial(i, 0) \in Seq(Extent) /\ Len(Partial(i, 0)) = 0
    BY <1>1, PartialType
  <2> QED BY <2>1, <2>2, EmptySeq
<1>4. ASSUME NEW n \in 1 .. N
      PROVE  {Partial(i, Before(i, n))} =
                IF es[n].type = "NonHead" THEN {Partial(i, Before(i, n - 1))}
                ELSE UNION {Add(m, n) : m \in {Partial(i, Before(i, n - 1))}}
  <2> DEFINE j == Before(i, n - 1)
  <2>1. n \in Nat /\ n - 1 \in Nat /\ n \in 1 .. N /\ n - 1 < n
    BY <1>1
  <2>2. /\ j \in 0 .. Count(i) /\ Before(i, n) \in 0 .. Count(i)
        /\ \A l \in 1 .. Count(i) : Cluster(i, l) < n - 1 <=> l <= j
        /\ \A l \in 1 .. Count(i) : Cluster(i, l) < n <=> l <= Before(i, n)
    BY <2>1, BeforeIs
  <2> HIDE DEF j
  <2>3. UNION {Add(m, n) : m \in {Partial(i, j)}} = Add(Partial(i, j), n)
    <3> HIDE DEF Add
    <3> QED OBVIOUS
  <2>4. CASE \E k \in 1 .. Count(i) : Cluster(i, k) = n - 1
    <3>1. PICK k \in 1 .. Count(i) : Cluster(i, k) = n - 1
      BY <2>4
    <3>2. k = j + 1 /\ j \in 0 .. Count(i) - 1
      <4>1. k > j
        BY <1>1, <2>1, <2>2, <3>1
      <4>2. ASSUME k > j + 1 PROVE FALSE
        <5>1. j + 1 \in 1 .. Count(i) /\ j + 1 < k
          BY <1>1, <2>2, <4>2
        <5>2. Cluster(i, j + 1) < n - 1
          BY <3>1, <5>1 DEF Extents
        <5>3. j + 1 <= j
          BY <2>2, <5>1, <5>2
        <5> QED BY <2>2, <5>3
      <4> QED BY <1>1, <2>2, <4>1, <4>2
    <3>3. Before(i, n) = j + 1
      <4>1. j + 1 <= Before(i, n)
        BY <2>1, <2>2, <3>1, <3>2
      <4>2. ASSUME Before(i, n) > j + 1 PROVE FALSE
        <5>1. j + 1 \in 1 .. Count(i) /\ j + 2 \in 1 .. Count(i) /\ j + 1 < j + 2
          BY <1>1, <2>2, <4>2
        <5>2. Cluster(i, j + 2) \in Nat /\ Cluster(i, j + 1) < Cluster(i, j + 2)
          BY <5>1 DEF Extents
        <5>3. Cluster(i, j + 2) < n
          BY <2>2, <4>2, <5>1
        <5> QED BY <2>1, <3>1, <3>2, <5>2, <5>3
      <4> QED BY <1>1, <2>2, <4>1, <4>2
    <3>4. es[n] = HeadOf(i, k) /\ blockOf[n] = k
      <4>1. Cluster(i, k) + 1 = n
        BY <2>1, <3>1
      <4> QED BY <4>1, EntriesAre
    <3>5. (n - 1) * BlockSize + es[n].offset = i.starts[k]
      <4>1. es[n].offset = i.starts[k] % BlockSize
        BY <3>4 DEF HeadOf
      <4>2. i.starts[k] = Cluster(i, k) * BlockSize + (i.starts[k] % BlockSize)
        BY DEF Extents
      <4> QED BY <3>1, <4>1, <4>2
    <3>6. es[n].type # "NonHead" /\ (k \in i.plain) = (es[n].type = "Plain")
      BY <3>4 DEF HeadOf
    <3>7. Add(Partial(i, j), n) = {Partial(i, j + 1)}
      <4>1. Add(Partial(i, j), n)
              = Data!add(Partial(i, j), Count(i), i.size, es[n].type, i.starts[j + 1], j + 1)
        BY <3>2, <3>4, <3>5 DEF Count
      <4> HIDE DEF Add
      <4> QED BY <3>2, <3>6, <4>1, AddNext
    <3> HIDE DEF Add
    <3> QED BY <2>3, <3>3, <3>6, <3>7 DEF j
  <2>5. CASE ~ \E k \in 1 .. Count(i) : Cluster(i, k) = n - 1
    <3>1. es[n] = OtherEntry(i, n)
      BY <2>5, EntriesAre
    <3>2. Before(i, n) = j
      <4>1. \A l \in 1 .. Count(i) : l <= j <=> l <= Before(i, n)
        <5> SUFFICES ASSUME NEW l \in 1 .. Count(i) PROVE Cluster(i, l) < n - 1 <=> Cluster(i, l) < n
          BY <2>2
        <5>1. Cluster(i, l) \in Nat /\ Cluster(i, l) # n - 1
          BY <2>5 DEF Extents
        <5> QED BY <2>1, <5>1
      <4>2. j # 0 => j <= Before(i, n)
        BY <2>2, <4>1
      <4>3. Before(i, n) # 0 => Before(i, n) <= j
        BY <2>2, <4>1
      <4> QED BY <2>2, <4>2, <4>3
    <3>3. CASE n - 1 = i.size \div BlockSize
      <4>1. es[n] = [type |-> "Plain", offset |-> i.size % BlockSize, block |-> 0]
        BY <3>1, <3>3 DEF OtherEntry
      <4>2. i.size = (n - 1) * BlockSize + (i.size % BlockSize)
        BY <1>1, <3>3, ClusterOf
      <4>3. (n - 1) * BlockSize + es[n].offset = i.size /\ es[n].type # "NonHead"
        BY <4>1, <4>2
      <4>4. Add(Partial(i, j), n) = {Partial(i, j)}
        <5>1. Add(Partial(i, j), n)
                = Data!add(Partial(i, j), Len(i.starts), i.size, es[n].type, i.size, blockOf[n])
          BY <4>3
        <5> HIDE DEF Add
        <5> QED BY <1>1, <5>1, AddAtEnd
      <4> HIDE DEF Add
      <4> QED BY <2>3, <3>2, <4>3, <4>4 DEF j
    <3>4. CASE n - 1 # i.size \div BlockSize
      <4>1. es[n].type = "NonHead"
        BY <3>1, <3>4 DEF OtherEntry
      <4> HIDE DEF Add
      <4> QED BY <3>2, <4>1 DEF j
    <3> QED BY <3>3, <3>4
  <2> QED BY <2>4, <2>5
<1> HIDE DEF N, Add
<1>5. Def(known)
  <2>1. ASSUME NEW n \in 0 .. N
        PROVE  known[n] = IF n = 0 THEN {<<>>}
                          ELSE IF es[n].type = "NonHead" THEN known[n - 1]
                          ELSE UNION {Add(m, n) : m \in known[n - 1]}
    <3>1. CASE n = 0
      BY <1>3, <3>1
    <3>2. CASE n # 0
      <4>1. n \in 1 .. N /\ n - 1 \in 0 .. N
        BY <1>1, <3>2
      <4>2. known[n] = {Partial(i, Before(i, n))} /\ known[n - 1] = {Partial(i, Before(i, n - 1))}
        BY <4>1
      <4> HIDE DEF known
      <4> QED BY <1>4, <3>2, <4>1, <4>2
    <3> QED BY <3>1, <3>2
  <2>2. known = [n \in 0 .. N |-> known[n]]
    OBVIOUS
  <2> HIDE DEF known
  <2> QED BY <2>1, <2>2
<1>6. Def(filled)
  BY <1>2, <1>5, Zenon
<1> HIDE DEF filled, known
<1>7. \A n \in 0 .. N : filled[n] = known[n]
  <2> DEFINE Same == {n \in 0 .. N : filled[n] = known[n]}
  <2>1. 0 \in Same
    <3>1. 0 \in 0 .. N
      BY <1>1
    <3> QED BY <1>5, <1>6, <3>1
  <2>2. ASSUME NEW n \in 1 .. N, n - 1 \in Same PROVE n \in Same
    <3>1. n \in 0 .. N /\ n # 0 /\ filled[n - 1] = known[n - 1]
      BY <1>1, <2>2
    <3> QED BY <1>5, <1>6, <3>1
  <2> HIDE DEF Same
  <2>3. 0 .. N \subseteq Same
    BY <1>1, <2>1, <2>2, BoundedInduction
  <2> QED BY <2>3 DEF Same
<1> QED BY <1>7 DEF filled, known, N

-----------------------------------------------------------------------------
\* The map that is filled from an index whose blocks are those of the image.
Whole(i) == Partial(i, Count(i))

LEMMA FillIs ==
  ASSUME NEW i, Extents(i), NEW es, es = Data!Entries(i), NEW blockOf,
         \A k \in 1 .. Count(i) : blockOf[Cluster(i, k) + 1] = k
  PROVE  Data!Fill(i, es, blockOf) = {Whole(i)}
<1> DEFINE N == Clusters(i)
<1>1. N \in Nat /\ Len(es) = N /\ Count(i) \in Nat /\ N \in 0 .. N
  <2>1. N \in Nat /\ Len(es) = N /\ Count(i) \in Nat
    BY EntriesAre DEF Extents
  <2> QED BY <2>1
<1>2. Data!Filling(i, es, blockOf)[N] = {Partial(i, Before(i, N))}
  BY <1>1, FillingIs
<1>3. Before(i, N) = Count(i)
  <2>1. /\ Before(i, N) \in 0 .. Count(i)
        /\ \A l \in 1 .. Count(i) : Cluster(i, l) < N <=> l <= Before(i, N)
    BY <1>1, BeforeIs
  <2>2. CASE Count(i) = 0
    BY <2>1, <2>2
  <2>3. CASE Count(i) # 0
    <3>1. Count(i) \in 1 .. Count(i)
      BY <1>1, <2>3
    <3>2. Cluster(i, Count(i)) + 1 \in 1 .. N /\ Cluster(i, Count(i)) \in Nat
      BY <3>1, EntriesAre DEF Extents
    <3>3. Cluster(i, Count(i)) < N
      BY <1>1, <3>2
    <3>4. Count(i) <= Before(i, N)
      BY <2>1, <3>1, <3>3
    <3> QED BY <1>1, <2>1, <3>4
  <2> QED BY <2>2, <2>3
<1>4. Len(Whole(i)) = Count(i)
  BY <1>1, PartialType DEF Whole
<1> QED BY <1>1, <1>2, <1>3, <1>4 DEF Data!Fill, Whole, Count

LEMMA LegacyIs ==
  ASSUME NEW i, Extents(i)
  PROVE  Data!fromLegacyIndexes(i) = {Whole(i)}
<1> DEFINE es == Data!Entries(i)
           blockOf == [n \in DOMAIN es |-> es[n].block]
<1>1. \A k \in 1 .. Count(i) : blockOf[Cluster(i, k) + 1] = k
  <2> SUFFICES ASSUME NEW k \in 1 .. Count(i) PROVE blockOf[Cluster(i, k) + 1] = k
    OBVIOUS
  <2>1. Cluster(i, k) + 1 \in DOMAIN es /\ es[Cluster(i, k) + 1] = HeadOf(i, k)
    BY EntriesAre
  <2> HIDE DEF es
  <2> QED BY <2>1 DEF HeadOf
<1>2. Data!Fill(i, es, blockOf) = {Whole(i)}
  <2> HIDE DEF blockOf
  <2> QED BY <1>1, FillIs
<1> QED BY <1>2 DEF Data!fromLegacyIndexes

\* The entries with a head before the one of extent k are those of the extents before.
LEMMA HeadsBefore ==
  ASSUME NEW i, Extents(i), NEW es, es = Data!Entries(i), NEW k \in 1 .. Count(i),
         NEW n \in 1 .. Cluster(i, k)
  PROVE  es[n].type # "NonHead" <=> \E l \in 1 .. k - 1 : n = Cluster(i, l) + 1
<1>1. /\ Cluster(i, k) \in Nat /\ Cluster(i, k) + 1 \in 1 .. Clusters(i) /\ Clusters(i) \in Nat
      /\ k \in Nat /\ Count(i) \in Nat
  BY EntriesAre DEF Extents
<1>2. n \in 1 .. Clusters(i) /\ n \in Nat
  BY <1>1
<1>3. ASSUME NEW l \in 1 .. k - 1, n = Cluster(i, l) + 1 PROVE es[n].type # "NonHead"
  <2>1. l \in 1 .. Count(i)
    BY <1>1
  <2>2. es[n] = HeadOf(i, l)
    BY <1>3, <2>1, EntriesAre
  <2> QED BY <2>2 DEF HeadOf
<1>4. ASSUME ~ \E l \in 1 .. k - 1 : n = Cluster(i, l) + 1 PROVE es[n].type = "NonHead"
  <2>1. \A l \in 1 .. Count(i) : Cluster(i, l) # n - 1
    <3> SUFFICES ASSUME NEW l \in 1 .. Count(i), Cluster(i, l) = n - 1 PROVE FALSE
      OBVIOUS
    <3>1. n = Cluster(i, l) + 1 /\ Cluster(i, l) < Cluster(i, k)
      BY <1>1, <1>2
    <3>2. l >= k
      BY <1>1, <1>4, <3>1
    <3>3. l = k \/ Cluster(i, k) < Cluster(i, l)
      BY <1>1, <3>2 DEF Extents
    <3>4. Cluster(i, l) \in Nat
      BY DEF Extents
    <3> QED BY <1>1, <3>1, <3>3, <3>4
  <2>2. es[n] = OtherEntry(i, n)
    BY <1>2, <2>1, EntriesAre
  <2>3. n - 1 # i.size \div BlockSize
    <3>1. Cluster(i, k) <= i.size \div BlockSize
      BY ClusterMonotonic DEF Extents, Cluster
    <3>2. i.size \div BlockSize \in Nat
      BY ClusterOf DEF Extents
    <3> QED BY <1>1, <1>2, <3>1, <3>2
  <2> QED BY <2>2, <2>3 DEF OtherEntry
<1> QED BY <1>3, <1>4

\* A set that has one element for each of a .. b has as many.
LEMMA CountedUp ==
  ASSUME NEW a \in Nat, NEW b \in Nat, a <= b, NEW f \in [a + 1 .. b -> Nat],
         \A x, y \in a + 1 .. b : x < y => f[x] < f[y]
  PROVE  Cardinality({f[x] : x \in a + 1 .. b}) = b - a
<1> DEFINE T == {f[x] : x \in a + 1 .. b}
<1>1. IsFiniteSet(a + 1 .. b) /\ Cardinality(a + 1 .. b) = b - a
  <2>1. IsFiniteSet(a + 1 .. b) /\ Cardinality(a + 1 .. b) = IF a + 1 > b THEN 0 ELSE b - (a + 1) + 1
    BY FS_Interval
  <2> QED BY <2>1
<1>2. ExistsBijection(a + 1 .. b, T)
  <2>1. \A x, y \in a + 1 .. b : f[x] = f[y] => x = y
    <3> SUFFICES ASSUME NEW x \in a + 1 .. b, NEW y \in a + 1 .. b, x # y PROVE f[x] # f[y]
      OBVIOUS
    <3>1. x < y \/ y < x
      OBVIOUS
    <3>2. f[x] \in Nat /\ f[y] \in Nat
      OBVIOUS
    <3> QED BY <3>1, <3>2
  <2>2. f \in [a + 1 .. b -> T]
    OBVIOUS
  <2>3. f \in Bijection(a + 1 .. b, T)
    BY <2>1, <2>2 DEF Bijection, Injection, Surjection, IsInjective
  <2> QED BY <2>3 DEF ExistsBijection
<1> HIDE DEF T
<1>3. Cardinality(T) = Cardinality(a + 1 .. b)
  BY <1>1, <1>2, FS_Bijection
<1> QED BY <1>1, <1>3 DEF T

LEMMA MaxIs ==
  ASSUME NEW S, S \subseteq Int, NEW x \in S, \A y \in S : x >= y
  PROVE  Data!Max(S) = x
<1>1. Data!Max(S) \in S /\ \A y \in S : Data!Max(S) >= y
  BY DEF Data!Max
<1>2. x \in Int /\ Data!Max(S) \in Int /\ Data!Max(S) >= x /\ x >= Data!Max(S)
  BY <1>1
<1> QED BY <1>2

LEMMA SameCardinality == \A S : Data!Cardinality(S) = Cardinality(S)
BY Zenon DEF Data!Cardinality, Cardinality

\* The heads from one entry up to the one of extent k are those of the extents between.
LEMMA HeadsBetween ==
  ASSUME NEW i, Extents(i), NEW es, es = Data!Entries(i), NEW k \in 1 .. Count(i),
         NEW first \in 1 .. Cluster(i, k) + 1,
         NEW n, n = Cluster(i, k) + 1,
         NEW j, j = Before(i, first - 1)
  PROVE  /\ j \in 0 .. k - 1
         /\ {m \in 1 .. first - 1 : es[m].type # "NonHead"} = {Cluster(i, l) + 1 : l \in 1 .. j}
         /\ {m \in first .. n - 1 : es[m].type # "NonHead"} = {Cluster(i, l) + 1 : l \in j + 1 .. k - 1}
<1>1. /\ Cluster(i, k) \in Nat /\ first \in Nat /\ first - 1 \in Nat /\ n \in Nat
      /\ Count(i) \in Nat /\ k \in Nat
  BY DEF Extents
<1>2. /\ j \in 0 .. Count(i)
      /\ \A l \in 1 .. Count(i) : Cluster(i, l) < first - 1 <=> l <= j
  BY <1>1, BeforeIs
<1>3. j \in 0 .. k - 1
  BY <1>1, <1>2
<1>4. \A l \in 1 .. k - 1 : l \in 1 .. Count(i) /\ Cluster(i, l) \in Nat /\ Cluster(i, l) < Cluster(i, k)
  BY <1>1 DEF Extents
<1>5. \A m \in 1 .. n - 1 : es[m].type # "NonHead" <=> \E l \in 1 .. k - 1 : m = Cluster(i, l) + 1
  BY <1>1, HeadsBefore
<1>6. {m \in 1 .. first - 1 : es[m].type # "NonHead"} = {Cluster(i, l) + 1 : l \in 1 .. j}
  <2>1. ASSUME NEW m \in 1 .. first - 1, es[m].type # "NonHead"
        PROVE  m \in {Cluster(i, l) + 1 : l \in 1 .. j}
    <3>1. m \in 1 .. n - 1
      BY <1>1
    <3>2. PICK l \in 1 .. k - 1 : m = Cluster(i, l) + 1
      BY <1>5, <2>1, <3>1
    <3>3. l <= j
      BY <1>1, <1>2, <1>4, <3>2
    <3> QED BY <3>2, <3>3, <1>3
  <2>2. ASSUME NEW l \in 1 .. j
        PROVE  Cluster(i, l) + 1 \in {m \in 1 .. first - 1 : es[m].type # "NonHead"}
    <3>1. l \in 1 .. k - 1 /\ l <= j
      BY <1>1, <1>3
    <3>2. Cluster(i, l) < first - 1
      BY <1>2, <1>4, <3>1
    <3>3. Cluster(i, l) + 1 \in 1 .. n - 1 /\ Cluster(i, l) + 1 \in 1 .. first - 1
      BY <1>1, <1>4, <3>1, <3>2
    <3> QED BY <1>5, <3>1, <3>3
  <2> QED BY <2>1, <2>2
<1>7. {m \in first .. n - 1 : es[m].type # "NonHead"} = {Cluster(i, l) + 1 : l \in j + 1 .. k - 1}
  <2>1. ASSUME NEW m \in first .. n - 1, es[m].type # "NonHead"
        PROVE  m \in {Cluster(i, l) + 1 : l \in j + 1 .. k - 1}
    <3>1. m \in 1 .. n - 1
      BY <1>1
    <3>2. PICK l \in 1 .. k - 1 : m = Cluster(i, l) + 1
      BY <1>5, <2>1, <3>1
    <3>3. ~(l <= j)
      BY <1>1, <1>2, <1>4, <3>2
    <3>4. l \in j + 1 .. k - 1
      BY <1>1, <1>3, <3>3
    <3> QED BY <3>2, <3>4
  <2>2. ASSUME NEW l \in j + 1 .. k - 1
        PROVE  Cluster(i, l) + 1 \in {m \in first .. n - 1 : es[m].type # "NonHead"}
    <3>1. l \in 1 .. k - 1 /\ ~(l <= j)
      BY <1>1, <1>3
    <3>2. ~(Cluster(i, l) < first - 1)
      BY <1>2, <1>4, <3>1
    <3>3. Cluster(i, l) + 1 \in 1 .. n - 1 /\ Cluster(i, l) + 1 \in first .. n - 1
      BY <1>1, <1>4, <3>1, <3>2
    <3> QED BY <1>5, <3>1, <3>3
  <2> QED BY <2>1, <2>2
<1> QED BY <1>3, <1>6, <1>7

\* A pack starts with one of the entries up to its own.
LEMMA PackStartBefore ==
  ASSUME NEW n \in Nat \ {0}, NEW count \in Nat, NEW twoB \in BOOLEAN
  PROVE  Data!PackStart(n, count, twoB) \in 1 .. n
<1>1. InitialEntries \in Nat /\ PackEntries \in Nat \ {0}
  BY ErofsDataAssumption
<1>2. (n - 1) % 2 \in 0 .. n - 1
  OBVIOUS
<1>3. n > InitialEntries => (n - InitialEntries - 1) % PackEntries \in 0 .. n - 1
  <2> SUFFICES ASSUME n > InitialEntries
               PROVE  (n - InitialEntries - 1) % PackEntries \in 0 .. n - 1
    OBVIOUS
  <2> DEFINE a == n - InitialEntries - 1
             r == a % PackEntries
             q == a \div PackEntries
  <2>1. a \in Nat /\ a <= n - 1
    BY <1>1
  <2> HIDE DEF a
  <2>2. r \in Nat /\ q \in Nat /\ a = q * PackEntries + r /\ q * PackEntries \in Nat
    BY <1>1, <2>1
  <2> HIDE DEF r, q
  <2>3. r \in 0 .. n - 1
    BY <2>1, <2>2
  <2> QED BY <2>3 DEF r, a
<1> QED BY <1>1, <1>2, <1>3 DEF Data!PackStart

\* Each pack gives its heads the blocks that follow those of the packs before.
LEMMA CompactIs ==
  ASSUME NEW i, Extents(i), i.twoB \in BOOLEAN
  PROVE  Data!fromCompactIndexes(i) = {Whole(i)}
<1> DEFINE es == Data!Entries(i)
           blockOf == [n \in DOMAIN es |->
                         Data!processCompactIndexes(es, Data!PackStart(n, Len(es), i.twoB), n)]
<1>1. \A k \in 1 .. Count(i) : blockOf[Cluster(i, k) + 1] = k
  <2> SUFFICES ASSUME NEW k \in 1 .. Count(i) PROVE blockOf[Cluster(i, k) + 1] = k
    OBVIOUS
  <2> DEFINE n == Cluster(i, k) + 1
             first == Data!PackStart(n, Len(es), i.twoB)
             j == Before(i, first - 1)
             before == {m \in 1 .. first - 1 : es[m].type # "NonHead"}
             between == {m \in first .. n - 1 : es[m].type # "NonHead"}
  <2>1. n \in DOMAIN es /\ n \in Nat \ {0} /\ Len(es) \in Nat /\ k \in Nat /\ Count(i) \in Nat
    <3>1. /\ Cluster(i, k) \in Nat /\ Cluster(i, k) + 1 \in 1 .. Clusters(i) /\ Clusters(i) \in Nat
          /\ Len(es) = Clusters(i) /\ DOMAIN es = 1 .. Clusters(i) /\ Count(i) \in Nat
      BY EntriesAre DEF Extents
    <3> HIDE DEF es
    <3> QED BY <3>1
  <2>2. first \in 1 .. n
    <3> HIDE DEF n, es
    <3> QED BY <2>1, PackStartBefore
  <2> HIDE DEF first
  <2>3. /\ j \in 0 .. k - 1
        /\ before = {Cluster(i, l) + 1 : l \in 1 .. j}
        /\ between = {Cluster(i, l) + 1 : l \in j + 1 .. k - 1}
    BY <2>2, HeadsBetween
  <2>4. blockOf[n] = Data!PackBlock(es, first) + 1 + Cardinality(between)
    <3> HIDE DEF es, n
    <3> QED BY <2>1, SameCardinality DEF Data!processCompactIndexes, first
  <2>5. Data!PackBlock(es, first) = IF before = {} THEN 0 ELSE es[Data!Max(before)].block
    <3> HIDE DEF es
    <3> QED BY DEF Data!PackBlock
  <2>6. \A l, m \in 1 .. Count(i) : Cluster(i, l) \in Nat
                                    /\ (l < m => Cluster(i, l) < Cluster(i, m))
    BY DEF Extents
  <2> HIDE DEF blockOf, before, between, j
  <2>7. Data!PackBlock(es, first) = j
    <3>1. CASE j = 0
      BY <2>3, <2>5, <3>1
    <3>2. CASE j # 0
      <4>1. j \in 1 .. j /\ j \in 1 .. Count(i) /\ \A l \in 1 .. j : l \in 1 .. Count(i) /\ (l = j \/ l < j)
        BY <2>1, <2>3, <3>2
      <4>2. Cluster(i, j) + 1 \in before /\ before \subseteq Int
        BY <2>3, <2>6, <4>1
      <4>3. \A y \in before : Cluster(i, j) + 1 >= y
        BY <2>3, <2>6, <4>1
      <4>4. Data!Max(before) = Cluster(i, j) + 1
        BY <4>2, <4>3, MaxIs
      <4>5. es[Cluster(i, j) + 1].block = j
        <5>1. es[Cluster(i, j) + 1] = HeadOf(i, j)
          BY <4>1, EntriesAre
        <5> QED BY <5>1 DEF HeadOf
      <4>6. before # {}
        BY <4>2
      <4> HIDE DEF es
      <4> QED BY <2>5, <4>4, <4>5, <4>6
    <3> QED BY <3>1, <3>2
  <2>8. Cardinality(between) = k - 1 - j
    <3> DEFINE f == [l \in j + 1 .. k - 1 |-> Cluster(i, l) + 1]
    <3>1. j \in Nat /\ k - 1 \in Nat /\ j <= k - 1
      BY <2>1, <2>3
    <3>2. \A l \in j + 1 .. k - 1 : l \in 1 .. Count(i)
      BY <2>1, <3>1
    <3>3. f \in [j + 1 .. k - 1 -> Nat] /\ \A x, y \in j + 1 .. k - 1 : x < y => f[x] < f[y]
      BY <2>6, <3>2
    <3>4. between = {f[x] : x \in j + 1 .. k - 1}
      BY <2>3
    <3> HIDE DEF f
    <3> QED BY <3>1, <3>3, <3>4, CountedUp
  <2> HIDE DEF es, n
  <2>9. blockOf[n] = k
    BY <2>1, <2>3, <2>4, <2>7, <2>8
  <2> QED BY <2>9 DEF n
<1>2. Data!Fill(i, es, blockOf) = {Whole(i)}
  <2> HIDE DEF blockOf
  <2> QED BY <1>1, FillIs
<1> QED BY <1>2 DEF Data!fromCompactIndexes

\* The map of a compressed file is the image's, in whichever form the index is.
LEMMA MapIs ==
  ASSUME NEW i \in DataInodes, i.format \in Compressed
  PROVE  Extents(i) /\ Data!mapOf[i] = {Whole(i)}
<1>1. Data!WellFormed(i) /\ i.twoB \in BOOLEAN
  BY ErofsDataAssumption DEF Data!WellFormed, Data!Inode
<1>2. Extents(i)
  BY <1>1, ExtentsOf
<1>3. Data!fromLegacyIndexes(i) = {Whole(i)} /\ Data!fromCompactIndexes(i) = {Whole(i)}
  BY <1>1, <1>2, LegacyIs, CompactIs
<1>4. Data!mapOf[i] = CASE i.format \in {"FlatPlain", "FlatInline"} -> {<<>>}
                        [] i.format = "CompressedFull" -> Data!fromLegacyIndexes(i)
                        [] i.format = "CompressedCompact" -> Data!fromCompactIndexes(i)
                        [] OTHER -> {}
  BY DEF Data!mapOf
<1> QED BY <1>2, <1>3, <1>4 DEF Compressed
-----------------------------------------------------------------------------
(* The bytes of a read.                                                      *)

LEMMA SliceIs ==
  ASSUME NEW a \in Nat, NEW b \in Nat, a <= b
  PROVE  /\ Data!Slice(a, b) \in Seq(Int) /\ Len(Data!Slice(a, b)) = b - a
         /\ \A x \in 1 .. b - a : Data!Slice(a, b)[x] = a + x - 1
<1>1. b - a \in Nat /\ Data!Slice(a, b) \in [1 .. b - a -> Int]
  BY DEF Data!Slice
<1>2. \A x \in 1 .. b - a : Data!Slice(a, b)[x] = a + x - 1
  BY DEF Data!Slice
<1> QED BY <1>1, <1>2, FunctionIsSeq

LEMMA SliceJoin ==
  ASSUME NEW a \in Nat, NEW b \in Nat, NEW c \in Nat, a <= b, b <= c
  PROVE  Data!Slice(a, b) \o Data!Slice(b, c) = Data!Slice(a, c)
<1> DEFINE s == Data!Slice(a, b)
           t == Data!Slice(b, c)
           u == Data!Slice(a, c)
<1>1. /\ s \in Seq(Int) /\ Len(s) = b - a /\ \A x \in 1 .. b - a : s[x] = a + x - 1
      /\ t \in Seq(Int) /\ Len(t) = c - b /\ \A x \in 1 .. c - b : t[x] = b + x - 1
      /\ u \in Seq(Int) /\ Len(u) = c - a /\ \A x \in 1 .. c - a : u[x] = a + x - 1
  <2>1. a <= c
    OBVIOUS
  <2>2. s \in Seq(Int) /\ Len(s) = b - a /\ \A x \in 1 .. b - a : s[x] = a + x - 1
    BY SliceIs
  <2>3. t \in Seq(Int) /\ Len(t) = c - b /\ \A x \in 1 .. c - b : t[x] = b + x - 1
    BY SliceIs
  <2>4. u \in Seq(Int) /\ Len(u) = c - a /\ \A x \in 1 .. c - a : u[x] = a + x - 1
    BY <2>1, SliceIs
  <2> QED BY <2>2, <2>3, <2>4
<1> HIDE DEF s, t, u
<1>2. /\ s \o t \in Seq(Int) /\ Len(s \o t) = Len(s) + Len(t)
      /\ \A x \in 1 .. Len(s) + Len(t) : (s \o t)[x] = IF x <= Len(s) THEN s[x] ELSE t[x - Len(s)]
  BY <1>1, ConcatProperties
<1>3. Len(s \o t) = Len(u)
  BY <1>1, <1>2
<1>4. ASSUME NEW x \in 1 .. Len(s \o t) PROVE (s \o t)[x] = u[x]
  <2>1. x \in 1 .. c - a
    BY <1>1, <1>2
  <2>2. CASE x <= b - a
    BY <1>1, <1>2, <2>1, <2>2
  <2>3. CASE ~(x <= b - a)
    <3>1. x - (b - a) \in 1 .. c - b /\ b + (x - (b - a)) - 1 = a + x - 1
      BY <2>1, <2>3
    <3>2. x \in 1 .. Len(s) + Len(t) /\ ~(x <= Len(s)) /\ Len(s) = b - a
      BY <1>1, <1>2, <2>3
    <3>3. (s \o t)[x] = t[x - (b - a)]
      BY <1>2, <3>2
    <3>4. t[x - (b - a)] = b + (x - (b - a)) - 1 /\ u[x] = a + x - 1
      BY <1>1, <2>1, <3>1
    <3> QED BY <3>1, <3>3, <3>4
  <2> QED BY <2>2, <2>3
<1>5. s \o t = u
  BY <1>1, <1>2, <1>3, <1>4, SeqEqual
<1> QED BY <1>5 DEF s, t, u

LEMMA SliceOfSlice ==
  ASSUME NEW a \in Nat, NEW b \in Nat, NEW c \in Nat, NEW d \in Nat, a <= c, c <= d, d <= b,
         NEW m \in Int, m = c - a + 1, NEW n \in Int, n = d - a
  PROVE  SubSeq(Data!Slice(a, b), m, n) = Data!Slice(c, d)
<1> DEFINE s == Data!Slice(a, b)
           t == SubSeq(s, m, n)
           u == Data!Slice(c, d)
           w == d - c
<1>1. /\ s \in Seq(Int) /\ Len(s) = b - a /\ \A k \in 1 .. b - a : s[k] = a + k - 1
  <2>1. a <= b
    OBVIOUS
  <2> QED BY <2>1, SliceIs
<1>2. u \in Seq(Int) /\ Len(u) = w /\ \A k \in 1 .. w : u[k] = c + k - 1
  BY SliceIs
<1> HIDE DEF s, u
<1>3. /\ t \in Seq(Int) /\ Len(t) = w
      /\ \A k \in 1 .. w : t[k] = s[m + k - 1]
  <2>1. \A k \in m .. n : s[k] \in Int
    BY <1>1
  <2>3. /\ t \in Seq(Int)
        /\ Len(t) = IF m <= n THEN n - m + 1 ELSE 0
        /\ \A k \in 1 .. n - m + 1 : t[k] = s[m + k - 1]
    BY <2>1, SubSeqProperties
  <2> HIDE DEF t
  <2>4. Len(t) = w /\ n - m + 1 = w
    BY <2>3
  <2> QED BY <2>3, <2>4
<1> HIDE DEF t
<1>4. \A k \in 1 .. w : t[k] = u[k]
  <2> SUFFICES ASSUME NEW k \in 1 .. w PROVE t[k] = u[k]
    OBVIOUS
  <2>1. m + k - 1 \in 1 .. b - a /\ a + (m + k - 1) - 1 = c + k - 1
    OBVIOUS
  <2> QED BY <1>1, <1>2, <1>3, <2>1
<1>5. t = u
  BY <1>2, <1>3, <1>4, SeqEqual
<1> QED BY <1>5 DEF t, u, s

LEMMA SliceBeginning ==
  ASSUME NEW a \in Nat, NEW b \in Nat, NEW d \in Nat, a <= d, d <= b, NEW n \in Int, n = d - a
  PROVE  SubSeq(Data!Slice(a, b), 1, n) = Data!Slice(a, d)
<1>1. a <= a /\ 1 = a - a + 1 /\ 1 \in Int
  OBVIOUS
<1> QED BY <1>1, SliceOfSlice

\* An extent of the map: what it holds is the file from its start to its end.
LEMMA WholeIs ==
  ASSUME NEW i, Extents(i), NEW k \in 1 .. Count(i)
  PROVE  /\ Whole(i)[k] = [plain |-> k \in i.plain, offset |-> i.starts[k],
                           size |-> Data!EndOf(i, k) - i.starts[k], block |-> k]
         /\ i.starts[k] \in Nat /\ Data!EndOf(i, k) \in Nat
         /\ i.starts[k] < Data!EndOf(i, k) /\ Data!EndOf(i, k) <= i.size
         /\ Data!Stored(i, k) = Data!Slice(i.starts[k], Data!EndOf(i, k))
         /\ k < Count(i) => i.starts[k + 1] = Data!EndOf(i, k)
         /\ k = Count(i) => Data!EndOf(i, k) = i.size
<1>1. Count(i) \in Nat /\ k \in Nat /\ (k < Count(i) => k + 1 \in 1 .. Count(i) /\ k < k + 1)
  BY DEF Extents
<1>2. /\ k < Count(i) => Data!EndOf(i, k) = i.starts[k + 1]
      /\ k = Count(i) => Data!EndOf(i, k) = i.size
  BY <1>1 DEF Data!EndOf, Count
<1>3. /\ i.starts[k] \in Nat /\ i.starts[k] < i.size /\ i.size \in Nat
      /\ k < Count(i) => i.starts[k + 1] \in Nat /\ i.starts[k] < i.starts[k + 1]
                         /\ i.starts[k + 1] < i.size
  BY <1>1 DEF Extents
<1>4. Whole(i)[k] = [plain |-> k \in i.plain, offset |-> i.starts[k],
                     size |-> Data!EndOf(i, k) - i.starts[k], block |-> k]
  BY <1>1 DEF Whole, Partial
<1>5. Data!Stored(i, k) = Data!Slice(i.starts[k], Data!EndOf(i, k))
  BY DEF Data!Stored, Data!Slice
<1> QED BY <1>1, <1>2, <1>3, <1>4, <1>5

LEMMA MinIs ==
  ASSUME NEW S, S \subseteq Int, NEW x \in S, \A y \in S : x <= y
  PROVE  Data!Min(S) = x
<1>1. Data!Min(S) \in S /\ \A y \in S : Data!Min(S) <= y
  BY DEF Data!Min
<1>2. x \in Int /\ Data!Min(S) \in Int /\ Data!Min(S) <= x /\ x <= Data!Min(S)
  BY <1>1
<1> QED BY <1>2

\* find() gives the extent an offset is in.
LEMMA FindIs ==
  ASSUME NEW i, Extents(i), NEW offset \in Nat, offset < i.size
  PROVE  LET k == Data!find(Whole(i), offset)
         IN  k \in 1 .. Count(i) /\ i.starts[k] <= offset /\ offset < Data!EndOf(i, k)
<1> DEFINE map == Whole(i)
           P == {l \in 1 .. Count(i) : i.starts[l] <= offset}
           reach == {k \in DOMAIN map : map[k].offset + map[k].size - 1 >= offset}
<1>1. Count(i) \in Nat /\ Count(i) > 0 /\ 1 \in 1 .. Count(i) /\ i.starts[1] = 0 /\ i.size \in Nat
  BY DEF Extents
<1>2. DOMAIN map = 1 .. Count(i)
  BY DEF Whole, Partial
<1>3. \A k \in P : \A l \in 1 .. k : l \in P
  <2> SUFFICES ASSUME NEW k \in P, NEW l \in 1 .. k PROVE l \in P
    OBVIOUS
  <2>1. k \in 1 .. Count(i) /\ l \in 1 .. Count(i) /\ (l = k \/ l < k) /\ i.starts[k] <= offset
    BY <1>1
  <2>2. i.starts[l] \in Nat /\ i.starts[k] \in Nat /\ (l < k => i.starts[l] < i.starts[k])
    BY <2>1 DEF Extents
  <2> QED BY <2>1, <2>2
<1>4. PICK k \in 0 .. Count(i) : \A l \in 1 .. Count(i) : l \in P <=> l <= k
  <2>1. P \subseteq 1 .. Count(i)
    OBVIOUS
  <2> HIDE DEF P
  <2> QED BY <1>1, <1>3, <2>1, Beginning
<1>5. k \in 1 .. Count(i)
  <2>1. 1 \in P
    BY <1>1
  <2> QED BY <1>1, <1>4, <2>1
<1>6. i.starts[k] <= offset /\ offset < Data!EndOf(i, k)
  <2>1. k \in P
    BY <1>4, <1>5
  <2>2. CASE k = Count(i)
    BY <2>1, <2>2, <1>5, WholeIs
  <2>3. CASE k # Count(i)
    <3>1. k + 1 \in 1 .. Count(i) /\ ~(k + 1 <= k) /\ k < Count(i)
      BY <1>1, <1>5, <2>3
    <3>2. k + 1 \notin P
      BY <1>4, <3>1
    <3>3. i.starts[k + 1] = Data!EndOf(i, k) /\ i.starts[k + 1] \in Nat
      BY <1>5, <3>1, WholeIs DEF Extents
    <3> QED BY <2>1, <3>1, <3>2, <3>3
  <2> QED BY <2>2, <2>3
<1>7. \A l \in 1 .. Count(i) : l \in reach <=> Data!EndOf(i, l) - 1 >= offset
  <2> SUFFICES ASSUME NEW l \in 1 .. Count(i)
               PROVE  l \in reach <=> Data!EndOf(i, l) - 1 >= offset
    OBVIOUS
  <2>1. /\ map[l] = [plain |-> l \in i.plain, offset |-> i.starts[l],
                     size |-> Data!EndOf(i, l) - i.starts[l], block |-> l]
        /\ i.starts[l] \in Nat /\ Data!EndOf(i, l) \in Nat
    BY WholeIs
  <2> HIDE DEF map
  <2>2. map[l].offset = i.starts[l] /\ map[l].size = Data!EndOf(i, l) - i.starts[l]
    BY <2>1
  <2> QED BY <1>2, <2>1, <2>2
<1>8. k \in reach /\ reach \subseteq 1 .. Count(i)
  <2>1. Data!EndOf(i, k) \in Nat
    BY <1>5, WholeIs
  <2> HIDE DEF map
  <2> QED BY <1>2, <1>5, <1>6, <1>7, <2>1
<1>9. \A l \in reach : k <= l
  <2> SUFFICES ASSUME NEW l \in reach, l < k PROVE FALSE
    <3> HIDE DEF reach
    <3> QED BY <1>1, <1>5, <1>8
  <2>1. l \in 1 .. Count(i) /\ l < Count(i) /\ l + 1 \in 1 .. Count(i) /\ (l + 1 = k \/ l + 1 < k)
    <3> HIDE DEF reach
    <3> QED BY <1>1, <1>5, <1>8
  <2>2. Data!EndOf(i, l) = i.starts[l + 1] /\ Data!EndOf(i, l) - 1 >= offset
    BY <1>7, <2>1, WholeIs
  <2>3. i.starts[l + 1] <= i.starts[k] /\ i.starts[l + 1] \in Nat /\ i.starts[k] \in Nat
    <3>1. i.starts[l + 1] \in Nat /\ i.starts[k] \in Nat
      BY <1>5, <2>1 DEF Extents
    <3>2. l + 1 < k => i.starts[l + 1] < i.starts[k]
      BY <1>5, <2>1 DEF Extents
    <3>3. l + 1 = k \/ l + 1 < k
      BY <2>1
    <3>4. CASE l + 1 = k
      BY ONLY <3>1, <3>4
    <3>5. CASE l + 1 < k
      BY ONLY <3>1, <3>2, <3>5
    <3> QED BY <3>3, <3>4, <3>5
  <2>4. i.starts[k] <= offset
    BY <1>6
  <2> QED BY ONLY <2>2, <2>3, <2>4, offset \in Nat
<1>10. Data!Min(reach) = k
  <2>1. reach \subseteq Int
    <3> HIDE DEF reach
    <3> QED BY <1>1, <1>8
  <2> HIDE DEF reach
  <2> QED BY <1>8, <1>9, <2>1, MinIs
<1>11. Data!find(map, offset) = k
  <2>1. map[k].offset = i.starts[k] /\ i.starts[k] \in Nat
    <3>1. /\ map[k] = [plain |-> k \in i.plain, offset |-> i.starts[k],
                       size |-> Data!EndOf(i, k) - i.starts[k], block |-> k]
          /\ i.starts[k] \in Nat
      BY <1>5, WholeIs
    <3> HIDE DEF map
    <3> QED BY <3>1
  <2>2. Data!find(map, offset) = IF reach = {} THEN 0
                                 ELSE IF map[Data!Min(reach)].offset > offset
                                      THEN Data!Min(reach) - 1 ELSE Data!Min(reach)
    <3> HIDE DEF map
    <3> QED BY DEF Data!find
  <2> HIDE DEF reach, map
  <2> QED BY <1>6, <1>8, <1>10, <2>1, <2>2
<1> QED BY <1>5, <1>6, <1>11
-----------------------------------------------------------------------------
(* The invariant of the entry and its reader.                                *)

Size == Data!fields.size

\* How far the call has come.
Position == req.offset + Len(got)

\* The extent the call is at has the next byte; only the first one is entered behind its
\* start.
ExtentInv ==
  /\ at \in 1 .. Count(inode) /\ got \in Seq(Int) /\ Len(got) < req.size
  /\ got = Data!Slice(req.offset, Position)
  /\ inode.starts[at] <= Position /\ Position < Data!EndOf(inode, at)
  /\ got # <<>> => Position = inode.starts[at]

Answer ==
  \/ returned = {-1}
  \/ /\ returned = {req.size} /\ got = Data!Slice(req.offset, req.offset + req.size)
     /\ req.size > 0 => req.offset + req.size <= Size

\* Where a call is: a read that goes on is inside the file and has the bytes up to its
\* position.
CallInv ==
  /\ returned = {-1} => trouble
  /\ call \in {"reader", "flat", "find", "extent"} =>
        returned = {} /\ req.size > 0 /\ req.offset + req.size <= Size
  /\ call \in {"reader", "flat", "find"} => got = <<>>
  /\ call = "flat" => Data!fields.dataFormat \in {"FlatPlain", "FlatInline"}
  /\ call \in {"find", "extent"} => inode.format \in Compressed /\ extents = {Whole(inode)}
  /\ call = "extent" => ExtentInv
  /\ call = "returned" => Answer

MapInv == extents \in {{}, Data!mapOf[inode]}

\* The kept buffer holds the extent whose block the reader says it does.
CacheInv ==
  last # 0 => /\ inode.format \in Compressed /\ last \in 1 .. Count(inode)
              /\ block = Data!Stored(inode, last)

\* The client's bytes are a beginning of the file, and its next read continues them.
ClientInv ==
  /\ maxSize \in Nat
  /\ streamed \in Seq(Int) /\ streamed = Data!Slice(0, Len(streamed))
  /\ target \in Seq(Int) /\ target = Data!Slice(0, Len(target)) /\ Len(target) <= maxSize
  /\ call # "idle" /\ client = "stream" => req.offset = Len(streamed)
  /\ call # "idle" /\ client = "write" =>
        /\ req.offset = Len(target) /\ outcome = "" /\ Data!fields.kind \in {"regular", "symlink"}
        /\ Data!fields.kind = "symlink" => req.size = Data!Min2(Size, PathMax - 1)
  /\ Data!fields.kind = "regular" => Len(target) <= Size
  /\ Data!fields.kind # "regular" /\ outcome = "" => target = <<>>
  /\ Data!fields.kind \notin {"regular", "symlink"} => target = <<>>
  /\ outcome = "ok" =>
        /\ Data!fields.kind # "unknown"
        /\ Len(target) = CASE Data!fields.kind = "regular" -> Size
                           [] Data!fields.kind = "symlink" -> Data!Min2(Size, PathMax - 1)
                           [] OTHER -> 0

DataInv == Data!TypeOK /\ MapInv /\ CallInv /\ CacheInv /\ ClientInv

\* The inode as the reader sees it: one with attributes has no data.
LEMMA FieldsAre ==
  ASSUME Data!TypeOK
  PROVE  /\ Size \in Nat
         /\ Size > 0 => Size = inode.size /\ Data!fields.dataFormat = inode.format
         /\ Data!fields.kind \in {"regular", "symlink", "directory", "unknown"}
         /\ Data!fields.kind # "unknown" => Data!fields.kind = inode.kind /\ Size = inode.size
<1>1. /\ inode.size \in Nat /\ inode.kind \in {"regular", "symlink", "directory"}
      /\ inode.xattr \in BOOLEAN
  BY DEF Data!TypeOK, Data!Inode
<1>2. CASE inode.xattr
  <2>1. Data!fields = [dataFormat |-> "Invalid", size |-> 0, kind |-> "unknown"]
    BY <1>2 DEF Data!fields, Data!processInode
  <2> QED BY <2>1 DEF Size
<1>3. CASE ~inode.xattr
  <2>1. Data!fields = [dataFormat |-> inode.format, size |-> inode.size, kind |-> inode.kind]
    BY <1>3 DEF Data!fields, Data!processInode
  <2> QED BY <1>1, <2>1 DEF Size
<1> QED BY <1>1, <1>2, <1>3

\* A step of the reader leaves the entry and the client alone.
LEMMA ReaderKeepsClient ==
  ASSUME DataInv, UNCHANGED <<inode, client, maxSize, streamed, target, outcome, req>>,
         call # "idle", call' # "idle"
  PROVE  ClientInv'
<1>1. Data!fields' = Data!fields /\ Size' = Size
  BY DEF Data!fields, Size
<1> QED BY <1>1 DEF DataInv, ClientInv

LEMMA FailsKeeps ==
  ASSUME DataInv, Data!Fails, trouble' = TRUE, call # "idle",
         UNCHANGED <<inode, client, maxSize, streamed, target, outcome>>,
         MapInv', CacheInv', last' \in Nat
  PROVE  DataInv'
<1>1. returned' = {-1} /\ call' = "returned" /\ req' = req /\ at' = at
  BY DEF Data!Fails
<1>2. Data!TypeOK'
  BY <1>1 DEF DataInv, Data!TypeOK
<1>3. CallInv'
  BY <1>1 DEF CallInv, Answer
<1>4. ClientInv'
  BY <1>1, ReaderKeepsClient
<1> QED BY <1>2, <1>3, <1>4 DEF DataInv

LEMMA InitKeeps == Data!Init => DataInv
<1> SUFFICES ASSUME Data!Init PROVE DataInv
  OBVIOUS
<1>1. inode \in DataInodes /\ Data!Inode(inode) /\ maxSize \in Nat
  BY ErofsDataAssumption DEF Data!Init, Data!WellFormed
<1>2. Data!TypeOK
  BY <1>1 DEF Data!Init, Data!TypeOK
<1>3. MapInv /\ CallInv /\ CacheInv
  BY DEF Data!Init, MapInv, CallInv, CacheInv
<1>4. ClientInv
  <2>1. <<>> \in Seq(Int) /\ Len(<<>>) = 0 /\ Data!Slice(0, 0) = <<>>
    <3>1. Data!Slice(0, 0) \in Seq(Int) /\ Len(Data!Slice(0, 0)) = 0
      BY SliceIs
    <3> QED BY <3>1, EmptySeq
  <2>2. outcome = "" /\ call = "idle" /\ target = <<>>
        /\ streamed \in Seq(Int) /\ Len(streamed) = 0 /\ streamed = Data!Slice(0, 0)
        /\ target \in Seq(Int) /\ Len(target) = 0 /\ target = Data!Slice(0, 0)
    BY <2>1 DEF Data!Init
  <2>3. Size \in Nat
    BY <1>2, FieldsAre
  <2>4. /\ streamed = Data!Slice(0, Len(streamed)) /\ target = Data!Slice(0, Len(target))
        /\ Len(target) <= maxSize /\ Len(target) <= Size
    <3>1. streamed = Data!Slice(0, Len(streamed)) /\ target = Data!Slice(0, Len(target))
      BY <2>2, Zenon
    <3>2. Len(target) = 0
      BY <2>2, Zenon
    <3>3. Len(target) <= maxSize /\ Len(target) <= Size
      BY <1>1, <2>3, <3>2
    <3> QED BY <3>1, <3>3, Zenon
  <2>5. outcome # "ok" /\ ~(call # "idle")
    BY <2>2
  <2> QED BY ONLY <1>1, <2>2, <2>4, <2>5, Zenon DEF ClientInv
<1> QED BY <1>2, <1>3, <1>4 DEF DataInv

\* A call begins at the client's offset, or anywhere, and is cut to what is left.
LEMMA BeginReadIs ==
  ASSUME DataInv, NEW offset \in Nat, NEW size \in Nat, Data!BeginRead(offset, size)
  PROVE  /\ req' \in [offset : Nat, size : Nat] /\ req'.offset = offset
         /\ req'.size = IF offset >= Size THEN 0 ELSE Data!Min2(size, Size - offset)
         /\ got' = <<>> /\ at' = 0 /\ trouble' = FALSE
         /\ \/ call' = "returned" /\ req'.size = 0 /\ returned' = {0}
            \/ call' = "reader" /\ req'.size > 0 /\ returned' = {} /\ req'.offset + req'.size <= Size
<1> DEFINE n == IF offset >= Size THEN 0 ELSE Data!Min2(size, Size - offset)
<1>1. Size \in Nat
  BY FieldsAre DEF DataInv
<1>2. n \in Nat /\ (n > 0 => offset + n <= Size)
  BY <1>1 DEF Data!Min2
<1>3. /\ req' = [offset |-> offset, size |-> n]
      /\ got' = <<>> /\ at' = 0 /\ trouble' = FALSE
      /\ IF n = 0 THEN call' = "returned" /\ returned' = {0}
                  ELSE call' = "reader" /\ returned' = {}
  BY DEF Data!BeginRead, Size
<1> HIDE DEF n
<1>4. /\ req' \in [offset : Nat, size : Nat] /\ req'.offset = offset /\ req'.size = n
      /\ got' = <<>> /\ at' = 0 /\ trouble' = FALSE
      /\ \/ call' = "returned" /\ req'.size = 0 /\ returned' = {0}
         \/ call' = "reader" /\ req'.size > 0 /\ returned' = {} /\ req'.offset + req'.size <= Size
  BY <1>2, <1>3
<1> QED BY <1>4 DEF n

LEMMA BeginKeeps ==
  ASSUME DataInv, NEW offset \in Nat, NEW size \in Nat, Data!BeginRead(offset, size),
         UNCHANGED <<inode, client, maxSize, extents, last, block, streamed, target, outcome>>
  PROVE  Data!TypeOK' /\ MapInv' /\ CallInv' /\ CacheInv'
<1>1. Data!fields' = Data!fields /\ Size' = Size
  BY DEF Data!fields, Size
<1>2. /\ req' \in [offset : Nat, size : Nat] /\ req'.offset = offset
      /\ got' = <<>> /\ at' = 0 /\ trouble' = FALSE
      /\ \/ call' = "returned" /\ req'.size = 0 /\ returned' = {0}
         \/ call' = "reader" /\ req'.size > 0 /\ returned' = {} /\ req'.offset + req'.size <= Size
  BY BeginReadIs
<1>3. Data!TypeOK'
  BY <1>2 DEF DataInv, Data!TypeOK
<1>4. returned' # {-1}
  <2>1. {0} # {-1} /\ {} # {-1}
    OBVIOUS
  <2> QED BY <1>2, <2>1
<1>5. MapInv' /\ CacheInv'
  BY DEF DataInv, MapInv, CacheInv
<1>6. call' = "returned" => Answer'
  <2> SUFFICES ASSUME call' = "returned" PROVE Answer'
    OBVIOUS
  <2>1. req'.size = 0 /\ returned' = {0} /\ req'.offset + req'.size = offset
    BY <1>2
  <2>2. Data!Slice(offset, offset) \in Seq(Int) /\ Len(Data!Slice(offset, offset)) = 0
    BY SliceIs
  <2>3. Data!Slice(offset, offset) = <<>>
    BY <2>2, EmptySeq
  <2>4. req'.offset = offset /\ got' = <<>>
    BY <1>2
  <2> QED BY <2>1, <2>3, <2>4 DEF Answer
<1>7. CallInv'
  BY <1>1, <1>2, <1>4, <1>6 DEF CallInv
<1> QED BY <1>3, <1>5, <1>7

LEMMA CallReadKeeps ==
  ASSUME DataInv, Data!CallRead
  PROVE  DataInv'
<1>1. Data!fields' = Data!fields /\ Size' = Size /\ Size \in Nat
      /\ UNCHANGED <<inode, client, maxSize, extents, last, block, streamed, target, outcome>>
  BY FieldsAre DEF Data!CallRead, Data!entryVars, Data!readerVars, Data!clientVars, Data!fields, Size, DataInv
<1>2. PICK size \in ReadSizes, offset \in 0 .. Size :
         /\ client = "stream" => offset = Data!NextOffset
         /\ Data!BeginRead(offset, size)
  BY DEF Data!CallRead, Size
<1>3. size \in Nat /\ offset \in Nat
  BY <1>1, ErofsDataAssumption
<1>4. Data!TypeOK' /\ MapInv' /\ CallInv' /\ CacheInv'
  BY <1>1, <1>2, <1>3, BeginKeeps
<1>5. req'.offset = offset
  BY <1>2, <1>3, BeginReadIs
<1>6. client # "write" /\ (client = "stream" => offset = Len(streamed))
  BY <1>2 DEF Data!CallRead, Data!NextOffset
<1>7. ClientInv'
  BY <1>1, <1>5, <1>6 DEF DataInv, ClientInv
<1> QED BY <1>4, <1>7 DEF DataInv

LEMMA CallWriteToKeeps ==
  ASSUME DataInv, Data!CallWriteTo
  PROVE  DataInv'
<1> DEFINE offset == Len(target)
           size == IF Data!fields.kind = "regular" THEN BufferSize ELSE PathMax - 1
<1>1. Data!fields' = Data!fields /\ Size' = Size /\ Size \in Nat
      /\ UNCHANGED <<inode, client, maxSize, extents, last, block, streamed, target, outcome>>
  BY FieldsAre DEF Data!CallWriteTo, Data!entryVars, Data!readerVars, Data!clientVars, Data!fields, Size, DataInv
<1>2. /\ client = "write" /\ outcome = "" /\ Data!fields.kind \in {"regular", "symlink"}
      /\ Data!BeginRead(offset, size)
  BY DEF Data!CallWriteTo, Data!NextOffset
<1>3. size \in Nat /\ offset \in Nat
  <2>1. BufferSize \in Nat /\ PathMax \in Nat \ {0}
    BY ErofsDataAssumption
  <2>2. target \in Seq(Int)
    BY DEF DataInv, ClientInv
  <2>3. Len(target) \in Nat
    BY <2>2, LenProperties
  <2> QED BY <2>1, <2>3
<1>4. Data!TypeOK' /\ MapInv' /\ CallInv' /\ CacheInv'
  <2> HIDE DEF size, offset
  <2> QED BY <1>1, <1>2, <1>3, BeginKeeps
<1>5. req'.offset = offset /\ req'.size = IF offset >= Size THEN 0 ELSE Data!Min2(size, Size - offset)
  <2> HIDE DEF size, offset
  <2> QED BY <1>2, <1>3, BeginReadIs
<1>6. Data!fields.kind = "symlink" => req'.size = Data!Min2(Size, PathMax - 1)
  <2> SUFFICES ASSUME Data!fields.kind = "symlink" PROVE req'.size = Data!Min2(Size, PathMax - 1)
    OBVIOUS
  <2>1. target = <<>>
    BY <1>2 DEF DataInv, ClientInv
  <2>2. offset = 0 /\ size = PathMax - 1
    BY <2>1, EmptySeq
  <2> HIDE DEF offset, size
  <2> QED BY <1>1, <1>3, <1>5, <2>2 DEF Data!Min2
<1>7. ClientInv'
  BY <1>1, <1>2, <1>5, <1>6 DEF DataInv, ClientInv
<1> QED BY <1>4, <1>7 DEF DataInv

LEMMA CreateReaderKeeps ==
  ASSUME DataInv, Data!CreateReader
  PROVE  DataInv'
<1> DEFINE flat == Data!fields.dataFormat \in {"FlatPlain", "FlatInline"}
           built == Data!mapOf[inode]
<1>1. /\ call = "reader" /\ last' = last
      /\ UNCHANGED <<inode, client, maxSize, streamed, target, outcome>> /\ block' = block
  BY DEF Data!CreateReader, Data!entryVars, Data!clientVars
<1>2. inode \in DataInodes /\ Size > 0 /\ Data!fields.dataFormat = inode.format /\ last \in Nat
  <2>1. req.offset \in Nat /\ req.size \in Nat /\ req.size > 0 /\ req.offset + req.size <= Size
    BY <1>1 DEF DataInv, CallInv, Data!TypeOK
  <2>2. Size \in Nat
    BY FieldsAre DEF DataInv
  <2>3. Size > 0
    BY <2>1, <2>2
  <2> QED BY <2>3, FieldsAre DEF DataInv, Data!TypeOK
<1>3. CacheInv'
  BY <1>1 DEF DataInv, CacheInv
<1>4. CASE /\ extents # {} \/ built # {}
           /\ extents' = (IF extents = {} THEN built ELSE extents)
           /\ call' = (IF flat THEN "flat" ELSE "find")
           /\ UNCHANGED <<req, got, at, trouble, returned>>
  <2>1. MapInv' /\ built' = built
    BY <1>1, <1>4 DEF DataInv, MapInv
  <2>2. extents' = built
    BY <1>4 DEF DataInv, MapInv
  <2>3. CASE ~flat
    <3>1. inode.format \in Compressed
      <4>1. inode.format \notin {"FlatPlain", "FlatInline"}
        BY <1>2, <2>3
      <4>2. built # {}
        BY <1>4 DEF DataInv, MapInv
      <4>3. built = CASE inode.format \in {"FlatPlain", "FlatInline"} -> {<<>>}
                      [] inode.format = "CompressedFull" -> Data!fromLegacyIndexes(inode)
                      [] inode.format = "CompressedCompact" -> Data!fromCompactIndexes(inode)
                      [] OTHER -> {}
        BY <1>2 DEF Data!mapOf
      <4> HIDE DEF built
      <4> QED BY <4>1, <4>2, <4>3 DEF Compressed
    <3>2. extents' = {Whole(inode)} /\ call' = "find"
      BY <1>2, <1>4, <2>2, <2>3, <3>1, MapIs
    <3>3. Data!TypeOK'
      BY <1>1, <1>4, <3>2 DEF DataInv, Data!TypeOK
    <3>4. CallInv'
      <4>1. inode.format' \in Compressed /\ Whole(inode)' = Whole(inode) /\ Size' = Size
        BY <1>1, <3>1 DEF Size, Data!fields
      <4> QED BY <1>1, <1>4, <3>2, <4>1 DEF DataInv, CallInv
    <3>5. ClientInv'
      BY <1>1, <1>4, <3>2, ReaderKeepsClient
    <3> QED BY <1>3, <2>1, <3>3, <3>4, <3>5 DEF DataInv
  <2>4. CASE flat
    <3>1. call' = "flat"
      BY <1>4, <2>4
    <3>2. Data!TypeOK'
      BY <1>1, <1>4, <3>1 DEF DataInv, Data!TypeOK
    <3>3. CallInv'
      <4>1. Data!fields' = Data!fields /\ Size' = Size
        BY <1>1 DEF Size, Data!fields
      <4> QED BY <1>1, <1>4, <2>4, <3>1, <4>1 DEF DataInv, CallInv
    <3>4. ClientInv'
      BY <1>1, <1>4, <3>1, ReaderKeepsClient
    <3> QED BY <1>3, <2>1, <3>2, <3>3, <3>4 DEF DataInv
  <2> QED BY <2>3, <2>4
<1>5. CASE extents' = extents /\ trouble' = TRUE /\ Data!Fails
  <2>1. MapInv'
    BY <1>1, <1>5 DEF DataInv, MapInv
  <2> QED BY <1>1, <1>2, <1>3, <1>5, <2>1, FailsKeeps
<1>6. \/ /\ extents # {} \/ built # {}
         /\ extents' = (IF extents = {} THEN built ELSE extents)
         /\ call' = (IF flat THEN "flat" ELSE "find")
         /\ UNCHANGED <<req, got, at, trouble, returned>>
      \/ extents' = extents /\ trouble' = TRUE /\ Data!Fails
  <2> HIDE DEF flat, built
  <2> QED BY Zenon DEF Data!CreateReader, Data!callVars, flat, built
<1> QED BY <1>4, <1>5, <1>6

\* The end of a call that has all its bytes.
LEMMA SucceedsKeeps ==
  ASSUME DataInv, call \in {"reader", "flat", "find", "extent"},
         got' = Data!Slice(req.offset, req.offset + req.size),
         returned' = {req.size}, call' = "returned",
         UNCHANGED <<req, trouble, inode, client, maxSize, streamed, target, outcome>>,
         at' \in Nat, MapInv', CacheInv', last' \in Nat
  PROVE  DataInv'
<1>1. Data!fields' = Data!fields /\ Size' = Size
  BY DEF Data!fields, Size
<1>2. Data!TypeOK'
  BY DEF DataInv, Data!TypeOK
<1>3. req.offset + req.size <= Size /\ returned' # {-1}
  <2>1. req.size \in Nat /\ req.offset + req.size <= Size
    BY DEF DataInv, CallInv, Data!TypeOK
  <2>2. \A n \in Nat : {n} # {-1}
    OBVIOUS
  <2> QED BY <2>1, <2>2
<1>4. Answer'
  BY <1>1, <1>3 DEF Answer
<1>5. CallInv'
  BY <1>1, <1>3, <1>4 DEF CallInv
<1>6. ClientInv'
  BY ReaderKeepsClient
<1> QED BY <1>2, <1>5, <1>6 DEF DataInv

\* Bytes are those of the file where they are taken from the part of the image that has
\* them.
LEMMA FlatBytesAre ==
  ASSUME NEW from \in Nat, NEW to \in Nat, NEW inTail,
         \/ from >= to
         \/ Data!fields.dataFormat # "FlatInline"
         \/ inTail = FALSE /\ to <= Data!contig
         \/ inTail = TRUE /\ Data!contig <= from,
         Data!contig \in Nat
  PROVE  Data!FlatBytes(from, to, inTail) = Data!Slice(from, to)
<1> DEFINE c == Data!contig
           byte(x) == IF Data!fields.dataFormat = "FlatInline" /\ inTail # (from + x - 1 >= c)
                      THEN -1 ELSE from + x - 1
<1>1. Data!FlatBytes(from, to, inTail) = [x \in 1 .. to - from |-> byte(x)]
  BY DEF Data!FlatBytes, Data!contig
<1> HIDE DEF c
<1>2. ASSUME NEW x \in 1 .. to - from PROVE byte(x) = from + x - 1
  <2>1. from + x - 1 >= from /\ from + x - 1 < to /\ from + x - 1 \in Nat /\ from < to
    OBVIOUS
  <2>2. CASE Data!fields.dataFormat # "FlatInline"
    BY <2>2
  <2>3. CASE inTail = FALSE /\ to <= c
    <3>1. ~(from + x - 1 >= c)
      BY <2>1, <2>3 DEF c
    <3>2. (from + x - 1 >= c) = FALSE
      BY <3>1
    <3> HIDE DEF c
    <3> QED BY <2>3, <3>2
  <2>4. CASE inTail = TRUE /\ c <= from
    <3>1. from + x - 1 >= c
      BY <2>1, <2>4 DEF c
    <3>2. (from + x - 1 >= c) = TRUE
      BY <3>1
    <3> HIDE DEF c
    <3> QED BY <2>4, <3>2
  <2>5. ~(from >= to)
    BY <2>1
  <2> HIDE DEF byte
  <2> QED BY <2>2, <2>3, <2>4, <2>5 DEF c
<1> HIDE DEF byte
<1>3. [x \in 1 .. to - from |-> byte(x)] = [x \in 1 .. to - from |-> from + x - 1]
  BY <1>2
<1> QED BY <1>1, <1>3 DEF Data!Slice

LEMMA ReadFlatKeeps ==
  ASSUME DataInv, Data!ReadFlat
  PROVE  DataInv'
<1> DEFINE end == req.offset + req.size
           c == IF Data!fields.dataFormat = "FlatPlain" THEN Size ELSE Data!contig
           m == IF c > req.offset THEN c ELSE req.offset
           bytes == IF end >= c
                    THEN Data!FlatBytes(req.offset, m, FALSE) \o Data!FlatBytes(m, end, TRUE)
                    ELSE Data!FlatBytes(req.offset, end, FALSE)
<1>1. /\ call = "flat" /\ UNCHANGED <<inode, client, maxSize, extents, last, block>>
      /\ UNCHANGED <<streamed, target, outcome>>
  BY DEF Data!ReadFlat, Data!entryVars, Data!readerVars, Data!clientVars
<1>2. \/ Data!Succeeds(bytes)
      \/ trouble' = TRUE /\ Data!Fails
  BY DEF Data!ReadFlat, Size
<1>3. /\ req.offset \in Nat /\ req.size \in Nat /\ end \in Nat /\ req.offset <= end /\ end <= Size
      /\ Size \in Nat /\ last \in Nat /\ at \in Nat
      /\ Data!fields.dataFormat \in {"FlatPlain", "FlatInline"}
  <2>1. /\ req.offset \in Nat /\ req.size \in Nat /\ end <= Size /\ last \in Nat /\ at \in Nat
        /\ Data!fields.dataFormat \in {"FlatPlain", "FlatInline"}
    BY <1>1 DEF DataInv, CallInv, Data!TypeOK
  <2>2. Size \in Nat
    BY FieldsAre DEF DataInv
  <2> QED BY <2>1, <2>2
<1>4. MapInv' /\ CacheInv'
  BY <1>1 DEF DataInv, MapInv, CacheInv
<1>5. bytes = Data!Slice(req.offset, end)
  <2>1. Data!contig \in Nat
    <3>1. Size \div BlockSize \in Nat /\ BlockSize \in Nat
      BY <1>3, ClusterOf, ErofsDataAssumption
    <3>2. (Size \div BlockSize) * BlockSize \in Nat
      BY <1>3, ClusterOf
    <3> QED BY <3>2 DEF Data!contig, Size
  <2>2. c \in Nat /\ m \in Nat /\ req.offset <= m /\ (end >= c => m <= end)
    BY <1>3, <2>1
  <2>3. Data!fields.dataFormat = "FlatInline" => c = Data!contig
    OBVIOUS
  <2> HIDE DEF end
  <2>4. CASE end >= c
    <3>1. Data!FlatBytes(req.offset, m, FALSE) = Data!Slice(req.offset, m)
      <4>1. \/ req.offset >= m
            \/ Data!fields.dataFormat # "FlatInline"
            \/ m <= Data!contig
        BY <1>3, <2>1, <2>2, <2>3
      <4> HIDE DEF m, c
      <4> QED BY <1>3, <2>1, <2>2, <4>1, FlatBytesAre
    <3>2. Data!FlatBytes(m, end, TRUE) = Data!Slice(m, end)
      <4>1. m >= end \/ Data!fields.dataFormat # "FlatInline" \/ Data!contig <= m
        BY <1>3, <2>1, <2>2, <2>3
      <4> HIDE DEF m, c
      <4> QED BY <1>3, <2>1, <2>2, <4>1, FlatBytesAre
    <3> HIDE DEF m, c
    <3>3. Data!Slice(req.offset, m) \o Data!Slice(m, end) = Data!Slice(req.offset, end)
      BY <1>3, <2>2, <2>4, SliceJoin
    <3> QED BY <2>4, <3>1, <3>2, <3>3
  <2>5. CASE ~(end >= c)
    <3>1. Data!fields.dataFormat # "FlatInline" \/ end <= Data!contig
      BY <1>3, <2>1, <2>2, <2>3, <2>5
    <3> HIDE DEF m, c
    <3>2. Data!FlatBytes(req.offset, end, FALSE) = Data!Slice(req.offset, end)
      BY <1>3, <2>1, <3>1, FlatBytesAre
    <3> QED BY <2>5, <3>2
  <2> QED BY <2>4, <2>5
<1> HIDE DEF bytes
<1>6. CASE Data!Succeeds(bytes)
  <2>1. /\ got' = Data!Slice(req.offset, req.offset + req.size) /\ returned' = {req.size}
        /\ call' = "returned" /\ UNCHANGED <<req, at, trouble>>
    BY <1>5, <1>6 DEF Data!Succeeds
  <2> QED BY <1>1, <1>3, <1>4, <2>1, SucceedsKeeps
<1>7. CASE trouble' = TRUE /\ Data!Fails
  BY <1>1, <1>3, <1>4, <1>7, FailsKeeps
<1> QED BY <1>2, <1>6, <1>7

LEMMA FindExtentKeeps ==
  ASSUME DataInv, Data!FindExtent
  PROVE  DataInv'
<1> DEFINE k == Data!find(Whole(inode), req.offset)
<1>1. /\ call = "find" /\ UNCHANGED <<inode, client, maxSize, extents, last, block>>
      /\ UNCHANGED <<streamed, target, outcome>>
  BY DEF Data!FindExtent, Data!entryVars, Data!readerVars, Data!clientVars
<1>2. /\ req.offset \in Nat /\ req.size \in Nat /\ req.size > 0 /\ req.offset + req.size <= Size
      /\ got = <<>> /\ returned = {} /\ last \in Nat /\ Size \in Nat
      /\ inode.format \in Compressed /\ extents = {Whole(inode)} /\ inode \in DataInodes
  BY <1>1, FieldsAre DEF DataInv, CallInv, Data!TypeOK
<1>3. Extents(inode) /\ Size = inode.size
  <2>1. Size > 0
    BY <1>2
  <2> QED BY <1>2, <2>1, FieldsAre, MapIs DEF DataInv
<1>4. k \in 1 .. Count(inode) /\ inode.starts[k] <= req.offset /\ req.offset < Data!EndOf(inode, k)
  <2>1. req.offset < inode.size
    BY <1>2, <1>3
  <2> QED BY <1>2, <1>3, <2>1, FindIs
<1>5. at' = k /\ call' = "extent" /\ UNCHANGED <<req, got, trouble, returned>>
  <2>1. PICK map \in extents :
           LET n == Data!find(map, req.offset)
           IN  IF n = 0 THEN Data!Fails /\ UNCHANGED <<got, trouble>>
               ELSE at' = n /\ call' = "extent" /\ UNCHANGED <<req, got, trouble, returned>>
    BY DEF Data!FindExtent
  <2>2. map = Whole(inode)
    BY <1>2
  <2>3. k # 0
    BY <1>4
  <2> HIDE DEF k
  <2> QED BY <2>1, <2>2, <2>3 DEF k
<1> HIDE DEF k
<1>6. Data!TypeOK'
  <2>1. k \in Nat
    BY <1>3, <1>4 DEF Extents
  <2> QED BY <1>1, <1>5, <2>1 DEF DataInv, Data!TypeOK
<1>7. MapInv' /\ CacheInv'
  BY <1>1 DEF DataInv, MapInv, CacheInv
<1>8. CallInv'
  <2>1. ExtentInv'
    <3>1. Len(got) = 0 /\ got \in Seq(Int) /\ Position = req.offset
      BY <1>2, EmptySeq DEF Position
    <3>2. got = Data!Slice(req.offset, Position)
      <4>1. Data!Slice(req.offset, req.offset) \in Seq(Int)
            /\ Len(Data!Slice(req.offset, req.offset)) = 0
        <5>1. req.offset \in Nat /\ req.offset <= req.offset /\ req.offset - req.offset = 0
          BY <1>2
        <5> HIDE DEF Position
        <5> QED BY <5>1, SliceIs
      <4> QED BY <1>2, <3>1, <4>1, EmptySeq
    <3>3. Position' = Position /\ got' = got /\ req' = req /\ inode' = inode /\ at' = k
      BY <1>1, <1>5 DEF Position
    <3>4. /\ k \in 1 .. Count(inode) /\ got \in Seq(Int) /\ Len(got) < req.size
          /\ inode.starts[k] <= Position /\ Position < Data!EndOf(inode, k)
      BY <1>2, <1>4, <3>1
    <3> QED BY <1>2, <3>2, <3>3, <3>4 DEF ExtentInv
  <2>2. Whole(inode)' = Whole(inode) /\ Size' = Size /\ inode' = inode
    BY <1>1 DEF Size, Data!fields
  <2> QED BY <1>1, <1>2, <1>5, <2>1, <2>2 DEF DataInv, CallInv
<1>9. ClientInv'
  BY <1>1, <1>5, ReaderKeepsClient
<1> QED BY <1>6, <1>7, <1>8, <1>9 DEF DataInv
\* What a call copies from the extent it is at: from its position to the end of the
\* extent, or of what was asked for.
LEMMA CopiesFromExtent ==
  ASSUME DataInv, call = "extent", NEW e, e = Whole(inode)[at], NEW w, w = Data!Wanted(e)
  PROVE  /\ extents = {Whole(inode)} /\ Extents(inode) /\ inode.format \in Compressed
         /\ e.block = at /\ at \in 1 .. Count(inode)
         /\ Len(Data!Stored(inode, at)) = e.size
         /\ w \in Nat \ {0} /\ Position \in Nat
         /\ w = Data!Min2(Data!EndOf(inode, at) - Position, req.size - Len(got))
         /\ SubSeq(Data!Stored(inode, at), Data!InExtent(e) + 1, Data!InExtent(e) + w)
              = Data!Slice(Position, Position + w)
<1> DEFINE start == inode.starts[at]
           stop == Data!EndOf(inode, at)
           skip == Data!InExtent(e)
<1>1. /\ extents = {Whole(inode)} /\ inode.format \in Compressed /\ inode \in DataInodes
      /\ ExtentInv /\ req.offset \in Nat /\ req.size \in Nat
  BY DEF DataInv, CallInv, Data!TypeOK
<1>2. Extents(inode)
  BY <1>1, MapIs
<1>3. /\ at \in 1 .. Count(inode) /\ got \in Seq(Int) /\ Len(got) < req.size
      /\ start <= Position /\ Position < stop
      /\ got # <<>> => Position = start
  BY <1>1 DEF ExtentInv
<1>4. /\ e = [plain |-> at \in inode.plain, offset |-> start, size |-> stop - start, block |-> at]
      /\ start \in Nat /\ stop \in Nat /\ start < stop
      /\ Data!Stored(inode, at) = Data!Slice(start, stop)
  BY <1>2, <1>3, WholeIs
<1>5. Len(got) \in Nat /\ Position = req.offset + Len(got) /\ (got = <<>> => Len(got) = 0)
  BY <1>3, LenProperties, EmptySeq DEF Position
<1> HIDE DEF start, stop
<1>6. e.offset = start /\ e.size = stop - start /\ e.block = at
  BY <1>4
<1>7. skip = Position - start /\ skip \in Nat
  <2>1. CASE got = <<>>
    BY <1>1, <1>3, <1>4, <1>5, <1>6, <2>1 DEF Data!InExtent
  <2>2. CASE got # <<>>
    BY <1>3, <1>4, <2>2 DEF Data!InExtent
  <2> QED BY <2>1, <2>2
<1> HIDE DEF skip
<1>8. w = Data!Min2(stop - Position, req.size - Len(got)) /\ w \in Nat \ {0} /\ skip + w <= stop - start
      /\ Position \in Nat
  <2>1. w = Data!Min2(e.size - skip, req.size - Len(got))
    BY DEF Data!Wanted, skip
  <2>2. Position \in Nat
    BY <1>1, <1>5
  <2>3. /\ stop - Position \in Nat \ {0} /\ req.size - Len(got) \in Nat \ {0} /\ Position \in Nat
        /\ e.size - skip = stop - Position
    <3> DEFINE n == Len(got)
               z == req.size
               p == Position
               s == e.size
    <3>1. start <= p /\ p < stop /\ n < z /\ n \in Nat /\ z \in Nat
      BY <1>1, <1>3, <1>5
    <3>2. start \in Nat /\ stop \in Nat /\ p \in Nat /\ s = stop - start /\ skip = p - start
      BY <1>4, <1>6, <1>7, <2>2
    <3> HIDE DEF n, z, p, s
    <3>3. stop - p \in Nat \ {0} /\ z - n \in Nat \ {0} /\ p \in Nat /\ s - skip = stop - p
      BY ONLY <3>1, <3>2
    <3> QED BY <3>3 DEF n, z, p, s
  <2>4. w = Data!Min2(stop - Position, req.size - Len(got)) /\ w \in Nat \ {0} /\ w <= stop - Position
    BY <2>1, <2>3 DEF Data!Min2
  <2> HIDE DEF Position
  <2> QED BY <1>4, <1>7, <2>3, <2>4
<1>9. SubSeq(Data!Slice(start, stop), skip + 1, skip + w) = Data!Slice(Position, Position + w)
  <2> DEFINE first == skip + 1
             final == skip + w
             next == Position + w
             here == Position
  <2>1. /\ start \in Nat /\ stop \in Nat /\ here \in Nat /\ next \in Nat
        /\ start <= here /\ here <= next /\ next <= stop
        /\ first \in Int /\ first = here - start + 1 /\ final \in Int /\ final = next - start
    <3> HIDE DEF Position
    <3> QED BY <1>3, <1>4, <1>7, <1>8
  <2> HIDE DEF first, final, next, here
  <2>2. SubSeq(Data!Slice(start, stop), first, final) = Data!Slice(here, next)
    BY ONLY <2>1, SliceOfSlice
  <2> QED BY <2>2, Zenon DEF first, final, next, here
<1>11. Len(Data!Slice(start, stop)) = stop - start
  <2>1. start \in Nat /\ stop \in Nat /\ start <= stop
    BY <1>4
  <2> QED BY <2>1, SliceIs
<1> QED BY <1>1, <1>2, <1>3, <1>4, <1>6, <1>8, <1>9, <1>11 DEF skip, stop

LEMMA CopiedKeeps ==
  ASSUME DataInv, call = "extent", NEW e, e = Whole(inode)[at], NEW w, w = Data!Wanted(e),
         Data!Copied(Data!Slice(Position, Position + w)),
         UNCHANGED <<inode, client, maxSize, extents, streamed, target, outcome>>,
         CacheInv', last' \in Nat
  PROVE  DataInv'
<1> DEFINE bytes == Data!Slice(Position, Position + w)
           stop == Data!EndOf(inode, at)
           new == Data!Slice(req.offset, Position + w)
<1>1. /\ extents = {Whole(inode)} /\ Extents(inode) /\ inode.format \in Compressed
      /\ at \in 1 .. Count(inode) /\ w \in Nat \ {0} /\ Position \in Nat
      /\ w = Data!Min2(stop - Position, req.size - Len(got))
  BY CopiesFromExtent
<1>2. /\ req.offset \in Nat /\ req.size \in Nat /\ req.offset + req.size <= Size
      /\ at \in Nat /\ returned = {} /\ Size \in Nat
  BY FieldsAre DEF DataInv, CallInv, Data!TypeOK
<1>3. /\ got \in Seq(Int) /\ Len(got) < req.size /\ got = Data!Slice(req.offset, Position)
      /\ Position < stop
  BY DEF DataInv, CallInv, ExtentInv
<1>4. Len(got) \in Nat /\ Position = req.offset + Len(got) /\ req.offset <= Position
  <2>1. Len(got) \in Nat /\ Position = req.offset + Len(got)
    BY <1>3, LenProperties DEF Position
  <2> HIDE DEF Position
  <2> QED BY <1>2, <2>1
<1>5. stop \in Nat /\ stop <= inode.size /\ Size = inode.size
      /\ (at < Count(inode) => inode.starts[at + 1] = stop)
      /\ (at = Count(inode) => stop = inode.size)
  <2>1. Size > 0
    BY <1>2, <1>3, <1>4
  <2>2. Size = inode.size
    BY <2>1, FieldsAre DEF DataInv
  <2> QED BY <1>1, <2>2, WholeIs
<1> HIDE DEF stop
<1> DEFINE n == Len(got)
           p == Position
           o == req.offset
           z == req.size
<1>A. /\ n \in Nat /\ p \in Nat /\ o \in Nat /\ z \in Nat /\ stop \in Nat /\ w \in Nat \ {0}
      /\ p = o + n /\ n < z /\ p < stop /\ o + z <= inode.size /\ inode.size \in Nat
      /\ stop <= inode.size /\ w = Data!Min2(stop - p, z - n)
  BY <1>1, <1>2, <1>3, <1>4, <1>5
<1> HIDE DEF n, p, o, z
<1>6. w <= stop - p /\ w <= z - n /\ (w = stop - p \/ w = z - n)
  BY <1>A DEF Data!Min2
<1>7. got \o bytes = new
  <2>1. Position + w \in Nat /\ Position <= Position + w
    BY <1>1
  <2> HIDE DEF Position
  <2> QED BY <1>1, <1>2, <1>3, <1>4, <2>1, SliceJoin
<1>8. new \in Seq(Int) /\ Len(new) = Len(got) + w
  <2>1. p + w \in Nat /\ o <= p + w /\ (p + w) - o = n + w
    BY <1>A
  <2>2. Data!Slice(o, p + w) \in Seq(Int) /\ Len(Data!Slice(o, p + w)) = n + w
    BY <1>A, <2>1, SliceIs
  <2> QED BY <2>2 DEF n, o, p
<1> HIDE DEF bytes
<1>9. /\ got' = new /\ UNCHANGED <<req, trouble>>
      /\ IF Len(new) = req.size
         THEN returned' = {req.size} /\ call' = "returned" /\ at' = at
         ELSE at' = at + 1 /\ call' = "extent" /\ returned' = returned
  BY <1>7 DEF Data!Copied, bytes
<1> HIDE DEF new
<1>10. MapInv'
  BY DEF DataInv, MapInv
<1>11. CASE Len(new) = req.size
  <2>1. Position + w = req.offset + req.size
    <3>1. n + w = z
      BY <1>8, <1>11 DEF n, z
    <3>2. p + w = o + z
      BY <1>A, <3>1
    <3> QED BY <3>2 DEF p, o, z
  <2>2. got' = Data!Slice(req.offset, req.offset + req.size)
    BY <1>9, <2>1 DEF new
  <2> QED BY <1>2, <1>9, <1>10, <1>11, <2>2, SucceedsKeeps
<1>12. CASE Len(new) # req.size
  <2>1. got' = new /\ at' = at + 1 /\ call' = "extent" /\ returned' = {} /\ req' = req
        /\ trouble' = trouble
    BY <1>2, <1>9, <1>12
  <2>2. w = stop - p /\ n + w < z
    <3>1. n + w # z
      BY <1>8, <1>12 DEF n, z
    <3> QED BY <1>A, <1>6, <3>1
  <2>3. Position' = stop
    <3>1. Position' = o + (n + w)
      BY <1>8, <2>1 DEF Position, o, n
    <3> QED BY <1>A, <2>2, <3>1
  <2>4. at < Count(inode) /\ at + 1 \in 1 .. Count(inode)
    <3>1. stop < inode.size
      BY <1>A, <2>2
    <3>2. at # Count(inode) /\ Count(inode) \in Nat
      BY <1>1, <1>5, <3>1 DEF Extents
    <3> QED BY <1>1, <3>2
  <2>5. inode.starts[at + 1] = stop /\ stop < Data!EndOf(inode, at + 1)
    <3>1. inode.starts[at + 1] < Data!EndOf(inode, at + 1)
      BY <1>1, <2>4, WholeIs
    <3> QED BY <1>5, <2>4, <3>1
  <2>6. ExtentInv'
    <3>1. got' \in Seq(Int) /\ Len(got') < req'.size
      BY <1>8, <2>1, <2>2 DEF n, z
    <3>2. got' = Data!Slice(req'.offset, Position')
      <4>1. Position + w = stop
        <5>1. p + w = stop
          BY <1>A, <2>2
        <5> QED BY <5>1 DEF p
      <4> QED BY <2>1, <2>3, <4>1 DEF new
    <3>3. /\ at' \in 1 .. Count(inode) /\ inode' = inode
          /\ inode.starts[at'] <= Position' /\ Position' < Data!EndOf(inode, at')
          /\ Position' = inode.starts[at']
      BY <1>5, <2>1, <2>3, <2>4, <2>5
    <3> HIDE DEF Position
    <3> QED BY <3>1, <3>2, <3>3 DEF ExtentInv, Count
  <2>7. Data!TypeOK'
    <3>1. at' \in Nat /\ call' = "extent" /\ req' = req /\ trouble' = trouble
      BY <1>2, <2>1
    <3> QED BY <3>1 DEF DataInv, Data!TypeOK
  <2>8. CallInv'
    <3>1. Whole(inode)' = Whole(inode) /\ Size' = Size
      BY DEF Size, Data!fields
    <3>2. req.size > 0
      <4>1. z > 0
        BY <1>A
      <4> QED BY <4>1 DEF z
    <3> QED BY <1>1, <1>2, <2>1, <2>6, <3>1, <3>2 DEF DataInv, CallInv
  <2>9. ClientInv'
    BY <2>1, ReaderKeepsClient
  <2> QED BY <1>10, <2>7, <2>8, <2>9 DEF DataInv
<1> QED BY <1>11, <1>12

LEMMA ReadUncompressedKeeps ==
  ASSUME DataInv, Data!ReadUncompressed
  PROVE  DataInv'
<1> DEFINE e == Whole(inode)[at]
           w == Data!Wanted(e)
           bytes == SubSeq(Data!BlockBytes(e.block), Data!InExtent(e) + 1, Data!InExtent(e) + w)
<1>1. /\ call = "extent" /\ UNCHANGED <<inode, client, maxSize, extents, last, block>>
      /\ UNCHANGED <<streamed, target, outcome>>
  BY DEF Data!ReadUncompressed, Data!entryVars, Data!readerVars, Data!clientVars
<1>2. extents = {Whole(inode)} /\ e.block = at /\ last \in Nat
      /\ SubSeq(Data!Stored(inode, at), Data!InExtent(e) + 1, Data!InExtent(e) + w)
           = Data!Slice(Position, Position + w)
  BY <1>1, CopiesFromExtent DEF DataInv, Data!TypeOK
<1>3. Data!Copied(bytes) \/ (trouble' = TRUE /\ Data!Fails)
  <2>1. PICK map \in extents :
           \/ Data!Copied(SubSeq(Data!BlockBytes(map[at].block), Data!InExtent(map[at]) + 1,
                                 Data!InExtent(map[at]) + Data!Wanted(map[at])))
           \/ trouble' = TRUE /\ Data!Fails
    BY DEF Data!ReadUncompressed
  <2>2. map = Whole(inode)
    BY <1>2
  <2> QED BY <2>1, <2>2, Zenon
<1>4. bytes = Data!Slice(Position, Position + w)
  BY <1>2, Zenon DEF Data!BlockBytes
<1>5. MapInv' /\ CacheInv' /\ last' \in Nat
  BY <1>1, <1>2 DEF DataInv, MapInv, CacheInv
<1> HIDE DEF bytes, w, e
<1>6. CASE Data!Copied(bytes)
  <2>1. Data!Copied(Data!Slice(Position, Position + w))
    BY <1>4, <1>6, Zenon
  <2> QED BY <1>1, <1>5, <2>1, CopiedKeeps DEF w, e
<1>7. CASE trouble' = TRUE /\ Data!Fails
  BY <1>1, <1>5, <1>7, FailsKeeps
<1> QED BY <1>3, <1>6, <1>7

LEMMA ReadCachedKeeps ==
  ASSUME DataInv, Data!ReadCached
  PROVE  DataInv'
<1> DEFINE e == Whole(inode)[at]
           w == Data!Wanted(e)
           bytes == SubSeq(block, Data!InExtent(e) + 1, Data!InExtent(e) + w)
<1>1. /\ call = "extent" /\ UNCHANGED <<inode, client, maxSize, extents, last, block>>
      /\ UNCHANGED <<streamed, target, outcome>>
  BY DEF Data!ReadCached, Data!entryVars, Data!readerVars, Data!clientVars
<1>2. extents = {Whole(inode)} /\ e.block = at /\ last \in Nat /\ at \in 1 .. Count(inode)
      /\ Extents(inode)
      /\ SubSeq(Data!Stored(inode, at), Data!InExtent(e) + 1, Data!InExtent(e) + w)
           = Data!Slice(Position, Position + w)
  BY <1>1, CopiesFromExtent DEF DataInv, Data!TypeOK
<1>3. Data!Copied(bytes) /\ last = at
  <2>1. PICK map \in extents :
           /\ last = map[at].block
           /\ Data!Copied(SubSeq(block, Data!InExtent(map[at]) + 1,
                                 Data!InExtent(map[at]) + Data!Wanted(map[at])))
    BY DEF Data!ReadCached
  <2>2. map = Whole(inode)
    BY <1>2
  <2> QED BY <1>2, <2>1, <2>2, Zenon
<1>4. bytes = Data!Slice(Position, Position + w)
  <2>1. last # 0
    BY <1>2, <1>3 DEF Extents
  <2>2. block = Data!Stored(inode, at)
    BY <1>3, <2>1 DEF DataInv, CacheInv
  <2> QED BY <1>2, <2>2, Zenon
<1>5. CacheInv' /\ last' \in Nat
  BY <1>1, <1>2 DEF DataInv, CacheInv
<1> HIDE DEF bytes, w, e
<1>6. Data!Copied(Data!Slice(Position, Position + w))
  BY <1>3, <1>4, Zenon
<1> QED BY <1>1, <1>5, <1>6, CopiedKeeps DEF w, e

LEMMA ReadLz4Keeps ==
  ASSUME DataInv, Data!ReadLz4
  PROVE  DataInv'
<1> DEFINE e == Whole(inode)[at]
           w == Data!Wanted(e)
           bytes == SubSeq(Data!Stored(inode, at), Data!InExtent(e) + 1, Data!InExtent(e) + w)
<1>1. /\ call = "extent" /\ UNCHANGED <<inode, client, maxSize, extents>>
      /\ UNCHANGED <<streamed, target, outcome>>
  BY DEF Data!ReadLz4, Data!entryVars, Data!clientVars
<1>2. /\ extents = {Whole(inode)} /\ e.block = at /\ last \in Nat /\ at \in 1 .. Count(inode)
      /\ at \in Nat /\ inode.format \in Compressed
      /\ Len(Data!Stored(inode, at)) = e.size
      /\ bytes = Data!Slice(Position, Position + w)
  BY <1>1, CopiesFromExtent DEF DataInv, Data!TypeOK
<1>3. \/ Data!Copied(bytes) /\ UNCHANGED <<last, block>>
      \/ Data!Copied(bytes) /\ last' = at /\ block' = Data!Stored(inode, at)
      \/ trouble' = TRUE /\ Data!Fails /\ UNCHANGED <<last, block>>
      \/ trouble' = TRUE /\ Data!Fails /\ last' = 0
  <2>1. PICK map \in extents :
           \/ \E b \in Data!Decompress(map[at]) :
                /\ UNCHANGED <<last, block>> \/ (last' = map[at].block /\ block' = b)
                /\ Data!Copied(SubSeq(b, Data!InExtent(map[at]) + 1,
                                      Data!InExtent(map[at]) + Data!Wanted(map[at])))
           \/ trouble' = TRUE /\ Data!Fails /\ UNCHANGED <<last, block>>
           \/ trouble' = TRUE /\ Data!Fails /\ last' = 0
    BY DEF Data!ReadLz4, Data!Invalidate
  <2>2. map = Whole(inode) /\ map[at] = e
    BY <1>2
  <2>3. Data!Decompress(e) = {Data!Stored(inode, at)}
    BY <1>2 DEF Data!Decompress, Data!BlockBytes
  <2> HIDE DEF e
  <2>4. \A b \in Data!Decompress(e) : b = Data!Stored(inode, at)
    BY <2>3, Zenon
  <2>5. CASE \E b \in Data!Decompress(e) :
                /\ UNCHANGED <<last, block>> \/ (last' = e.block /\ block' = b)
                /\ Data!Copied(SubSeq(b, Data!InExtent(e) + 1, Data!InExtent(e) + w))
    <3>1. PICK b \in Data!Decompress(e) :
                /\ UNCHANGED <<last, block>> \/ (last' = e.block /\ block' = b)
                /\ Data!Copied(SubSeq(b, Data!InExtent(e) + 1, Data!InExtent(e) + w))
      BY <2>5, Zenon
    <3>2. b = Data!Stored(inode, at) /\ e.block = at
      BY <1>2, <2>4, <3>1, Zenon
    <3> QED BY <3>1, <3>2, Zenon
  <2> QED BY <2>1, <2>2, <2>5, Zenon
<1>4. MapInv'
  BY <1>1 DEF DataInv, MapInv
<1> HIDE DEF bytes, w, e
<1>5. \/ UNCHANGED <<last, block>> \/ (last' = at /\ block' = Data!Stored(inode, at)) \/ last' = 0
  BY <1>3, Zenon
<1>6. CacheInv' /\ last' \in Nat
  <2>1. inode' = inode
    BY <1>1
  <2>2. CASE UNCHANGED <<last, block>>
    BY <1>2, <2>1, <2>2 DEF DataInv, CacheInv
  <2>3. CASE last' = at /\ block' = Data!Stored(inode, at)
    BY <1>2, <2>1, <2>3, Zenon DEF CacheInv, Count
  <2>4. CASE last' = 0
    BY <2>4 DEF CacheInv
  <2> QED BY <1>5, <2>2, <2>3, <2>4, Zenon
<1>7. CASE Data!Copied(bytes)
  <2>1. Data!Copied(Data!Slice(Position, Position + w))
    BY <1>2, <1>7, Zenon
  <2> QED BY <1>1, <1>6, <2>1, CopiedKeeps DEF w, e
<1>8. CASE trouble' = TRUE /\ Data!Fails
  BY <1>1, <1>4, <1>6, <1>8, FailsKeeps
<1> QED BY <1>3, <1>7, <1>8
\* What a call has read continues what the client had.
LEMMA Continues ==
  ASSUME NEW s \in Seq(Int), s = Data!Slice(0, Len(s)), NEW z \in Nat
  PROVE  LET next == Len(s) + z
             new == s \o Data!Slice(Len(s), next)
         IN  new \in Seq(Int) /\ Len(new) = next /\ new = Data!Slice(0, next)
<1> DEFINE n == Len(s)
           next == n + z
<1>1. 0 \in Nat /\ n \in Nat /\ next \in Nat /\ 0 <= n /\ n <= next /\ 0 <= next
      /\ next - 0 = next
  <2>1. n \in Nat
    BY LenProperties
  <2> HIDE DEF n
  <2> QED BY <2>1
<1>2. s = Data!Slice(0, n)
  OBVIOUS
<1> HIDE DEF n, next
<1>3. s \o Data!Slice(n, next) = Data!Slice(0, next)
  <2>1. Data!Slice(0, n) \o Data!Slice(n, next) = Data!Slice(0, next)
    BY ONLY <1>1, SliceJoin
  <2> QED BY <1>2, <2>1, Zenon
<1>4. Data!Slice(0, next) \in Seq(Int) /\ Len(Data!Slice(0, next)) = next
  BY ONLY <1>1, SliceIs
<1> QED BY <1>3, <1>4, Zenon DEF n, next

LEMMA ReturnReadKeeps ==
  ASSUME DataInv, Data!ReturnRead
  PROVE  DataInv'
<1>1. /\ call = "returned" /\ client # "write" /\ call' = "idle"
      /\ UNCHANGED <<inode, client, maxSize, extents, last, block>>
      /\ UNCHANGED <<req, got, at, trouble, returned, target, outcome>>
      /\ streamed' = IF client = "stream" /\ returned # {-1} THEN streamed \o got ELSE streamed
  BY DEF Data!ReturnRead, Data!entryVars, Data!readerVars, Data!callVars
<1>2. Data!TypeOK' /\ MapInv' /\ CacheInv' /\ CallInv'
  <2>1. Data!TypeOK'
    BY <1>1 DEF DataInv, Data!TypeOK
  <2>2. MapInv' /\ CacheInv'
    BY <1>1 DEF DataInv, MapInv, CacheInv
  <2>3. CallInv'
    BY <1>1 DEF DataInv, CallInv
  <2> QED BY <2>1, <2>2, <2>3
<1>3. Data!fields' = Data!fields /\ Size' = Size
  BY <1>1 DEF Data!fields, Size
<1>4. streamed' \in Seq(Int) /\ streamed' = Data!Slice(0, Len(streamed'))
  <2>1. streamed \in Seq(Int) /\ streamed = Data!Slice(0, Len(streamed))
        /\ (client = "stream" => req.offset = Len(streamed))
    BY <1>1 DEF DataInv, ClientInv
  <2>2. CASE client = "stream" /\ returned # {-1}
    <3>1. got = Data!Slice(Len(streamed), Len(streamed) + req.size) /\ req.size \in Nat
      BY <1>1, <2>1, <2>2 DEF DataInv, CallInv, Answer, Data!TypeOK
    <3>2. streamed' = streamed \o Data!Slice(Len(streamed), Len(streamed) + req.size)
      BY <1>1, <2>2, <3>1, Zenon
    <3> QED BY <2>1, <3>1, <3>2, Continues
  <2>3. CASE ~(client = "stream" /\ returned # {-1})
    BY <1>1, <2>1, <2>3
  <2> QED BY <2>2, <2>3
<1>5. ClientInv'
  BY <1>1, <1>3, <1>4 DEF DataInv, ClientInv
<1> QED BY <1>2, <1>5 DEF DataInv

LEMMA WriteChunkKeeps ==
  ASSUME DataInv, Data!WriteChunk
  PROVE  DataInv'
<1>1. /\ call = "returned" /\ client = "write" /\ call' = "idle"
      /\ UNCHANGED <<inode, client, maxSize, extents, last, block>>
      /\ UNCHANGED <<req, got, at, trouble, returned, streamed>>
  BY DEF Data!WriteChunk, Data!entryVars, Data!readerVars, Data!callVars
<1>2. Data!fields' = Data!fields /\ Size' = Size /\ Size \in Nat
  BY <1>1, FieldsAre DEF Data!fields, Size, DataInv
<1>3. /\ target \in Seq(Int) /\ target = Data!Slice(0, Len(target)) /\ Len(target) <= maxSize
      /\ maxSize \in Nat /\ req.offset = Len(target) /\ outcome = ""
      /\ Data!fields.kind \in {"regular", "symlink"}
      /\ Data!fields.kind = "symlink" => req.size = Data!Min2(Size, PathMax - 1)
      /\ Data!fields.kind = "regular" => Len(target) <= Size
      /\ Data!fields.kind = "symlink" => target = <<>>
      /\ streamed \in Seq(Int) /\ streamed = Data!Slice(0, Len(streamed))
  BY <1>1 DEF DataInv, ClientInv
<1>4. req.size \in Nat /\ outcome' \in {"", "ok", "error"}
      /\ (returned = {-1} => trouble)
  BY <1>1, <1>3 DEF Data!WriteChunk, DataInv, Data!TypeOK, CallInv
<1>5. Data!TypeOK' /\ MapInv' /\ CacheInv' /\ CallInv'
  <2>1. Data!TypeOK'
    BY <1>1, <1>4 DEF DataInv, Data!TypeOK
  <2>2. MapInv' /\ CacheInv'
    BY <1>1 DEF DataInv, MapInv, CacheInv
  <2>3. CallInv'
    BY <1>1 DEF DataInv, CallInv
  <2> QED BY <2>1, <2>2, <2>3
<1>6. /\ target' \in Seq(Int) /\ target' = Data!Slice(0, Len(target')) /\ Len(target') <= maxSize
      /\ Data!fields.kind = "regular" => Len(target') <= Size
      /\ Data!fields.kind = "symlink" /\ outcome' = "" => target' = <<>>
      /\ outcome' = "ok" => Data!fields.kind = "symlink" /\ Len(target') = req.size
  <2>1. CASE outcome' = "error" /\ target' = target
    BY <1>3, <2>1
  <2>2. CASE /\ returned # {-1} /\ got # <<>> /\ Len(target) + Len(got) <= maxSize
             /\ ~(outcome' = "error" /\ target' = target)
    <3> DEFINE t == Len(target)
               z == req.size
    <3>1. got = Data!Slice(t, t + z) /\ (z > 0 => t + z <= Size)
      BY <1>1, <1>3, <2>2 DEF DataInv, CallInv, Answer
    <3>2. t \in Nat /\ z \in Nat /\ t + z \in Nat /\ t <= t + z /\ (t + z) - t = z
      <4>1. t \in Nat /\ z \in Nat
        BY <1>3, <1>4, LenProperties
      <4> HIDE DEF t, z
      <4> QED BY <4>1
    <3>3. target = Data!Slice(0, t)
      BY <1>3, Zenon
    <3>4. t + Len(got) <= maxSize
      BY <2>2
    <3>A. target \in Seq(Int)
      BY <1>3
    <3> HIDE DEF t, z
    <3>5. Data!Slice(t, t + z) \in Seq(Int) /\ Len(Data!Slice(t, t + z)) = z
      <4> DEFINE u == t + z
      <4>1. t \in Nat /\ u \in Nat /\ t <= u /\ u - t = z
        BY <3>2
      <4> HIDE DEF u
      <4>2. Data!Slice(t, u) \in Seq(Int) /\ Len(Data!Slice(t, u)) = z
        BY ONLY <4>1, SliceIs
      <4> QED BY <4>2, Zenon DEF u
    <3>6. got \in Seq(Int) /\ Len(got) = z
      BY <3>1, <3>5, Zenon
    <3>7. z > 0
      BY <2>2, <3>2, <3>6, EmptySeq
    <3>8. ASSUME NEW n \in 0 .. z, target' = target \o Data!Slice(t, t + n)
          PROVE  /\ target' \in Seq(Int) /\ Len(target') = t + n
                 /\ target' = Data!Slice(0, Len(target'))
                 /\ Len(target') <= maxSize /\ Len(target') <= Size
      <4>1. n \in Nat
        BY <3>2
      <4>2. target' \in Seq(Int) /\ Len(target') = t + n /\ target' = Data!Slice(0, t + n)
        BY <3>3, <3>8, <3>A, <4>1, Continues DEF t
      <4>3. t + n <= maxSize /\ t + n <= Size
        <5>1. t + z <= maxSize /\ t + z <= Size
          <6>1. Len(got) = z
            BY <3>6
          <6> QED BY ONLY <3>1, <3>4, <3>7, <6>1
        <5>2. maxSize \in Nat /\ Size \in Nat
          BY <1>2, <1>3
        <5> QED BY ONLY <3>2, <4>1, <5>1, <5>2, n \in 0 .. z
      <4> QED BY <4>2, <4>3
    <3>9. \/ target' = target \o got /\ outcome' = IF Data!fields.kind = "symlink" THEN "ok" ELSE ""
          \/ /\ outcome' = "error"
             /\ \E n \in 0 .. Len(got) - 1 :
                  target' = IF Data!fields.kind = "symlink" THEN target ELSE target \o SubSeq(got, 1, n)
      BY <2>2 DEF Data!WriteChunk
    <3>10. CASE target' = target \o got /\ outcome' = IF Data!fields.kind = "symlink" THEN "ok" ELSE ""
      <4>1. z \in 0 .. z /\ target' = target \o Data!Slice(t, t + z)
        <5>1. z \in 0 .. z
          BY <3>2
        <5>2. target' = target \o Data!Slice(t, t + z)
          BY <3>1, <3>10, Zenon
        <5> QED BY <5>1, <5>2
      <4>2. /\ target' \in Seq(Int) /\ Len(target') = t + z /\ target' = Data!Slice(0, Len(target'))
            /\ Len(target') <= maxSize /\ Len(target') <= Size
        BY <3>8, <4>1
      <4>3. Data!fields.kind = "symlink" => t + z = z
        <5>1. Data!fields.kind = "symlink" => t = 0
          BY <1>3, EmptySeq DEF t
        <5> QED BY <3>2, <5>1
      <4>4. /\ outcome' = "ok" => Data!fields.kind = "symlink"
            /\ Data!fields.kind = "symlink" => outcome' # ""
        BY <3>10
      <4> QED BY <4>2, <4>3, <4>4 DEF z
    <3>11. CASE /\ outcome' = "error"
                /\ \E n \in 0 .. Len(got) - 1 :
                     target' = IF Data!fields.kind = "symlink" THEN target ELSE target \o SubSeq(got, 1, n)
      <4>1. PICK n \in 0 .. z - 1 : target' = target \o SubSeq(got, 1, n)
        BY <2>2, <3>6, <3>11
      <4>2. n \in 0 .. z
        BY <3>2
      <4>3. SubSeq(got, 1, n) = Data!Slice(t, t + n)
        <5> DEFINE u == t + z
                   v == t + n
        <5>1. t \in Nat /\ u \in Nat /\ v \in Nat /\ t <= v /\ v <= u /\ n \in Int /\ n = v - t
          BY <3>2
        <5> HIDE DEF u, v
        <5>2. SubSeq(Data!Slice(t, u), 1, n) = Data!Slice(t, v)
          BY ONLY <5>1, SliceBeginning
        <5>3. got = Data!Slice(t, u)
          BY <3>1 DEF u
        <5>4. SubSeq(got, 1, n) = Data!Slice(t, v)
          BY ONLY <5>2, <5>3, Zenon
        <5> QED BY <5>4 DEF v
      <4>4. /\ target' \in Seq(Int) /\ target' = Data!Slice(0, Len(target'))
            /\ Len(target') <= maxSize /\ Len(target') <= Size
        <5>1. target' = target \o Data!Slice(t, t + n)
          BY <4>1, <4>3, Zenon
        <5> QED BY <3>8, <4>2, <5>1
      <4> QED BY <3>11, <4>4
    <3> QED BY <3>9, <3>10, <3>11
  <2> QED BY <2>1, <2>2 DEF Data!WriteChunk
<1>7. ClientInv'
  <2>1. outcome' = "ok" => Len(target') = Data!Min2(Size, PathMax - 1)
    BY <1>3, <1>6
  <2>2. Data!fields'.kind = Data!fields.kind /\ maxSize' = maxSize /\ streamed' = streamed
    BY <1>1, <1>2
  <2> QED BY <1>1, <1>2, <1>3, <1>6, <2>1, <2>2 DEF ClientInv
<1> QED BY <1>5, <1>7 DEF DataInv

LEMMA FinishWriteToKeeps ==
  ASSUME DataInv, Data!FinishWriteTo
  PROVE  DataInv'
<1>1. /\ call = "idle" /\ call' = "idle" /\ client = "write" /\ outcome = ""
      /\ UNCHANGED <<inode, client, maxSize, extents, last, block>>
      /\ UNCHANGED <<req, got, at, trouble, returned, streamed, target>>
  BY DEF Data!FinishWriteTo, Data!entryVars, Data!readerVars, Data!callVars
<1>2. Data!fields' = Data!fields /\ Size' = Size /\ Size \in Nat
  BY <1>1, FieldsAre DEF Data!fields, Size, DataInv
<1>3. /\ outcome' \in {"ok", "error"}
      /\ outcome' = "ok" => \/ Data!fields.kind = "regular" /\ Len(target) >= Size
                            \/ Data!fields.kind = "directory"
  BY <1>1 DEF Data!FinishWriteTo, Data!NextOffset, Size
<1>4. Data!TypeOK' /\ MapInv' /\ CacheInv' /\ CallInv'
  <2>1. Data!TypeOK'
    BY <1>1, <1>3 DEF DataInv, Data!TypeOK
  <2>2. MapInv' /\ CacheInv'
    BY <1>1 DEF DataInv, MapInv, CacheInv
  <2>3. CallInv'
    BY <1>1 DEF DataInv, CallInv
  <2> QED BY <2>1, <2>2, <2>3
<1>5. outcome' = "ok" =>
        Len(target) = CASE Data!fields.kind = "regular" -> Size
                        [] Data!fields.kind = "symlink" -> Data!Min2(Size, PathMax - 1)
                        [] OTHER -> 0
  <2> SUFFICES ASSUME outcome' = "ok"
               PROVE  Len(target) = CASE Data!fields.kind = "regular" -> Size
                                      [] Data!fields.kind = "symlink" -> Data!Min2(Size, PathMax - 1)
                                      [] OTHER -> 0
    OBVIOUS
  <2>1. /\ Data!fields.kind = "regular" => Len(target) <= Size
        /\ Data!fields.kind # "regular" => target = <<>>
        /\ Len(target) \in Nat
    BY <1>1, LenProperties DEF DataInv, ClientInv
  <2>2. CASE Data!fields.kind = "regular"
    <3>1. Len(target) = Size
      BY <1>2, <1>3, <2>1, <2>2
    <3> QED BY <2>2, <3>1
  <2>3. CASE Data!fields.kind # "regular"
    <3>1. Data!fields.kind = "directory" /\ Len(target) = 0
      BY <1>3, <2>1, <2>3, EmptySeq
    <3> QED BY <3>1
  <2> QED BY <2>2, <2>3
<1>6. ClientInv'
  BY <1>1, <1>2, <1>3, <1>5 DEF DataInv, ClientInv
<1> QED BY <1>4, <1>6 DEF DataInv
\* The invariant of the reader holds in the initial states, and every step keeps it.
THEOREM DataInvariant == Data!Spec => []DataInv
<1>1. Data!Init => DataInv
  BY InitKeeps
<1>2. DataInv /\ [Data!Next]_(Data!vars) => DataInv'
  <2> SUFFICES ASSUME DataInv, [Data!Next]_(Data!vars) PROVE DataInv'
    OBVIOUS
  <2>1. CASE Data!CallRead
    BY <2>1, CallReadKeeps
  <2>2. CASE Data!CallWriteTo
    BY <2>2, CallWriteToKeeps
  <2>3. CASE Data!CreateReader
    BY <2>3, CreateReaderKeeps
  <2>4. CASE Data!ReadFlat
    BY <2>4, ReadFlatKeeps
  <2>5. CASE Data!FindExtent
    BY <2>5, FindExtentKeeps
  <2>6. CASE Data!ReadUncompressed
    BY <2>6, ReadUncompressedKeeps
  <2>7. CASE Data!ReadCached
    BY <2>7, ReadCachedKeeps
  <2>8. CASE Data!ReadLz4
    BY <2>8, ReadLz4Keeps
  <2>9. CASE Data!ReturnRead
    BY <2>9, ReturnReadKeeps
  <2>10. CASE Data!WriteChunk
    BY <2>10, WriteChunkKeeps
  <2>11. CASE Data!FinishWriteTo
    BY <2>11, FinishWriteToKeeps
  <2>12. CASE UNCHANGED Data!vars
    <3>1. /\ UNCHANGED <<inode, client, maxSize, extents, last, block, call, req, got, at, trouble>>
          /\ UNCHANGED <<returned, streamed, target, outcome>>
      BY <2>12 DEF Data!vars, Data!entryVars, Data!readerVars, Data!callVars, Data!clientVars
    <3>2. Data!fields' = Data!fields /\ Size' = Size
      BY <3>1 DEF Data!fields, Size
    <3>3. Data!TypeOK' /\ MapInv' /\ CacheInv'
      BY <3>1 DEF DataInv, Data!TypeOK, MapInv, CacheInv
    <3>4. CallInv'
      BY <3>1, <3>2 DEF DataInv, CallInv, Answer, ExtentInv, Position
    <3>5. ClientInv'
      BY <3>1, <3>2 DEF DataInv, ClientInv
    <3> QED BY <3>3, <3>4, <3>5 DEF DataInv
  <2> QED
    BY <2>1, <2>2, <2>3, <2>4, <2>5, <2>6, <2>7, <2>8, <2>9, <2>10, <2>11, <2>12
    DEF Data!Next, Data!Step
<1> QED BY <1>1, <1>2, PTL DEF Data!Spec

\* "A read that succeeds gives the bytes of the file": from the blocks, behind the inode,
\* from the kept block or from a new one, for every inode of an image, every offset and
\* every size, whatever failed before; and a read fails only when the image could not be
\* read, or has no data that the reader knows (ErofsInode::read() and its readers).
THEOREM ReadsAreFile == Data!Spec => []ReadsGiveFile
<1>1. DataInv => ReadsGiveFile
  BY DEF DataInv, CallInv, Answer, ReadsGiveFile, Data!ReadsGiveFile
<1> QED BY <1>1, DataInvariant, PTL

\* The extents that are read from either form of index, packs of every kind among them,
\* are the ones of the file (ErofsExtentMap::fromLegacyIndexes, fromCompactIndexes, add).
THEOREM ExtentsAreFile == Data!Spec => []ExtentsCoverFile
<1>1. DataInv => ExtentsCoverFile
  <2> SUFFICES ASSUME DataInv, NEW map \in extents, inode.format \in Compressed
               PROVE  map = Whole(inode) /\ Extents(inode)
    <3>1. Extents(inode) => Whole(inode) =
            [k \in DOMAIN inode.starts |->
                [plain |-> k \in inode.plain, offset |-> inode.starts[k],
                 size |-> Data!EndOf(inode, k) - inode.starts[k], block |-> k]]
      <4> SUFFICES ASSUME Extents(inode)
                   PROVE  Whole(inode) =
            [k \in DOMAIN inode.starts |->
                [plain |-> k \in inode.plain, offset |-> inode.starts[k],
                 size |-> Data!EndOf(inode, k) - inode.starts[k], block |-> k]]
        OBVIOUS
      <4> DEFINE Of(k) == [plain |-> k \in inode.plain, offset |-> inode.starts[k],
                           size |-> Data!EndOf(inode, k) - inode.starts[k], block |-> k]
      <4>1. DOMAIN inode.starts = 1 .. Count(inode)
        BY DEF Extents
      <4>2. Whole(inode) = [k \in 1 .. Count(inode) |-> Whole(inode)[k]]
        BY DEF Whole, Partial
      <4>3. \A k \in 1 .. Count(inode) : Whole(inode)[k] = Of(k)
        BY WholeIs
      <4> HIDE DEF Of
      <4>4. Whole(inode) = [k \in DOMAIN inode.starts |-> Of(k)]
        BY <4>1, <4>2, <4>3
      <4> QED BY <4>4 DEF Of
    <3> QED BY <3>1 DEF ExtentsCoverFile, Data!ExtentsCoverFile, Compressed
  <2>1. inode \in DataInodes
    BY DEF DataInv, Data!TypeOK
  <2> QED BY <2>1, MapIs DEF DataInv, MapInv
<1> QED BY <1>1, DataInvariant, PTL

\* What a client has read in order, and what writeTo() has written, is a beginning of the
\* file, all of it when it comes to its end, within the limit given
\* (OCIErofsImageEntry::read, writeTo).
THEOREM EntriesAreComplete == Data!Spec => []EntryComplete
<1>1. DataInv => EntryComplete
  <2> SUFFICES ASSUME DataInv PROVE EntryComplete
    OBVIOUS
  <2>1. /\ streamed = Data!Slice(0, Len(streamed))
        /\ target = Data!Slice(0, Len(target)) /\ Len(target) <= maxSize
        /\ client = "stream" /\ call = "returned" => req.offset = Len(streamed)
    BY DEF DataInv, ClientInv
  <2>2. ASSUME outcome = "ok"
        PROVE  Len(target) = CASE inode.kind = "regular" -> inode.size
                               [] inode.kind = "symlink" -> Data!Min2(inode.size, PathMax - 1)
                               [] inode.kind = "directory" -> 0
    <3>1. Data!fields.kind = inode.kind /\ Size = inode.size
          /\ inode.kind \in {"regular", "symlink", "directory"}
      BY <2>2, FieldsAre DEF DataInv, ClientInv, Data!TypeOK, Data!Inode
    <3>2. Len(target) = CASE inode.kind = "regular" -> inode.size
                          [] inode.kind = "symlink" -> Data!Min2(inode.size, PathMax - 1)
                          [] OTHER -> 0
      BY <2>2, <3>1 DEF DataInv, ClientInv
    <3> QED BY <3>1, <3>2
  <2> QED BY <2>1, <2>2 DEF EntryComplete, Data!EntryComplete
<1> QED BY <1>1, DataInvariant, PTL

===============================================================================
