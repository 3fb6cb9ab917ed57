------------------------------- MODULE MCErofs -------------------------------
(***************************************************************************)
(* The walk over an image, and the data of one inode. The two share only   *)
(* the image, which does not change, so that each is run with the other at *)
(* rest.                                                                   *)
(*                                                                         *)
(* Images: nested and empty directories, directories of two blocks, blocks *)
(* that are rejected, dirents that disagree with their inode, and devices. *)
(* Inode 1 is the root.                                                    *)
(***************************************************************************)
EXTENDS ErofsReader, FiniteSets

MCInodes == 1 .. 4

E(n, t, i) == [name |-> n, type |-> t, inode |-> i]

D(n, i) == E(n, "directory", i)

F(n, i) == E(n, "regular", i)

B(entries) == [ok |-> TRUE, entries |-> entries]

Img(k, b) == [fourK |-> TRUE, root |-> 1, kind |-> k, blocks |-> b]

AllDirs == [i \in MCInodes |-> "directory"]

OneFile == [AllDirs EXCEPT ![4] = "regular"]

\* Every tree of up to three levels from a few listings of each directory, over one
\* block or two, empty ones among them.
Generated ==
    { Img(OneFile, <<r, d, e, <<>> >>) :
        r \in { <<B(<<D("d", 2)>>)>>, <<B(<<D("d", 2), F("f", 4)>>)>>, <<B(<<F("f", 4), D("d", 2), D("e", 3)>>)>>,
                <<B(<<D("e", 3)>>), B(<<D("d", 2)>>)>>, <<B(<<>>), B(<<F("f", 4)>>)>> },
        d \in { <<>>, <<B(<<>>)>>, <<B(<<D("e", 3)>>)>>, <<B(<<F("d", 4)>>), B(<<D("e", 3), D("f", 3)>>)>>,
                <<B(<<F("f", 4)>>), Unparsable>> },
        e \in { <<>>, <<B(<<F("f", 4)>>)>>, <<B(<<>>), B(<<F("d", 4), F("e", 4)>>)>> } }

MCTrees ==
    Generated \cup
    { \* d/e/f, nothing else
      Img(OneFile, << <<B(<<D("d", 2)>>)>>, <<B(<<D("e", 3)>>)>>, <<B(<<F("f", 4)>>)>>, <<>> >>),
      \* d and e in the root, d is empty, e has two blocks, e/d is empty
      Img(OneFile, << <<B(<<D("d", 2), D("e", 3)>>)>>, <<>>,
                      <<B(<<F("f", 4)>>), B(<<D("d", 2)>>)>>, <<>> >>),
      \* empty directories one after the other at the end
      Img(AllDirs, << <<B(<<F("f", 4)>>), B(<<D("d", 2), D("e", 3)>>)>>, <<B(<<>>)>>, <<>>, <<>> >>),
      \* the root is empty
      Img(AllDirs, << <<>>, <<>>, <<>>, <<>> >>),
      \* a dirent says directory and the inode regular, and the other way round
      Img(OneFile, << <<B(<<F("e", 2), D("d", 4)>>)>>, <<B(<<F("f", 4)>>)>>, <<>>, <<>> >>),
      \* the second block of d is rejected
      Img(OneFile, << <<B(<<D("d", 2)>>)>>, <<B(<<F("f", 4)>>), Unparsable>>, <<>>, <<>> >>),
      \* a device between files
      Img([OneFile EXCEPT ![3] = "device"],
          << <<B(<<F("d", 4), E("e", "device", 3), F("f", 4)>>)>>, <<>>, <<>>, <<>> >>),
      [Img(AllDirs, << <<B(<<D("d", 2)>>)>>, <<>>, <<>>, <<>> >>) EXCEPT !.fourK = FALSE] }

\* Directories that contain each other.
MCCyclic ==
    MCTrees \cup
    { Img(OneFile, << <<B(<<D("d", 2), F("f", 4)>>)>>, <<B(<<D("e", 1)>>)>>, <<>>, <<>> >>) }

\* Reference: what a directory contains, ...
Listing(img, i) ==
    UNION { {img.blocks[i][b].entries[j] : j \in 1 .. Len(img.blocks[i][b].entries)}
            : b \in 1 .. Len(img.blocks[i]) }

\* ... the directories that a path leads to, name by name (there is at most one), ...
Leads(img, path) ==
    LET reached[k \in 0 .. Len(path)] ==
            IF k = 0 THEN {img.root}
            ELSE {e.inode : e \in {e \in UNION {Listing(img, i) : i \in reached[k - 1]} :
                                    e.name = path[k] /\ e.type = "directory"}}
    IN  reached[Len(path)]

\* ... and the paths of the tree.
IsPath(img, path) ==
    /\ path # <<>>
    /\ \E i \in Leads(img, Parent(path)) : \E e \in Listing(img, i) : e.name = path[Len(path)]

\* The names of a directory differ, also over its blocks.
NamesDiffer(img) ==
    \A i \in Inodes : \A b, c \in 1 .. Len(img.blocks[i]) :
        \A j \in 1 .. Len(img.blocks[i][b].entries), k \in 1 .. Len(img.blocks[i][c].entries) :
            img.blocks[i][b].entries[j].name = img.blocks[i][c].entries[k].name => b = c /\ j = k

ASSUME NamesAssumption == \A img \in Images : NamesDiffer(img)

IsGiven(path) == \E j \in 1 .. Len(given) : given[j] = path

\* While every directory block was read, a path is given once, and only paths of the
\* tree are: no entry of one directory is taken for another's.
GivenOnce ==
    ~missed =>
        /\ \A i, j \in 1 .. Len(given) : given[i] = given[j] => i = j
        /\ \A j \in 1 .. Len(given) : IsPath(image, given[j])

\* A walk that comes to its end without an error.
Ended == pc = "idle" /\ queue = <<>> /\ ~error /\ ~missed /\ image.fourK

\* A walk never gives a path twice, and one that ends without an error has given every
\* entry of the root, and of every directory that it has given.
WalkComplete ==
    /\ GivenOnce
    /\ Ended =>
         \A path \in {<<>>} \cup {given[j] : j \in 1 .. Len(given)} :
             \A i \in Leads(image, path) : \A e \in Listing(image, i) : IsGiven(Append(path, e.name))

-------------------------------------------------------------------------------
(***************************************************************************)
(* Inodes with data, in blocks of two bytes: flat files of every size up   *)
(* to two blocks and a half; compressed files with extents that start in   *)
(* the middle of a cluster, cover several clusters or end with a block; a  *)
(* file of nine clusters, whose compact index has all four kinds of packs; *)
(* symlinks, and inodes the reader does not support.                       *)
(***************************************************************************)
Flat(f, n) ==
    [format |-> f, size |-> n, xattr |-> FALSE, kind |-> "regular", starts |-> <<>>, plain |-> {}, twoB |-> FALSE]

Z(f, n, starts, plain) ==
    [format |-> f, size |-> n, xattr |-> FALSE, kind |-> "regular", starts |-> starts, plain |-> plain, twoB |-> TRUE]

Compressed == {"CompressedFull", "CompressedCompact"}

MCDataInodes ==
    {Flat(f, n) : f \in {"FlatPlain", "FlatInline"}, n \in 0 .. 5}
    \cup UNION {{Z(f, 5, <<0>>, {}), Z(f, 5, <<0, 3>>, {}), Z(f, 6, <<0, 2, 5>>, {2}), Z(f, 7, <<0, 5>>, {2}),
                 Z(f, 4, <<0, 3>>, {1})} : f \in Compressed}
    \cup {Z("CompressedCompact", 17, <<0, 3, 6, 9, 11, 15>>, {3}),
          [Z("CompressedCompact", 6, <<0, 3, 5>>, {}) EXCEPT !.twoB = FALSE]}
    \cup {[Flat("FlatInline", n) EXCEPT !.kind = "symlink"] : n \in {0, 3, 5}}
    \cup {[Flat("FlatPlain", 4) EXCEPT !.kind = "directory"]}
    \cup {Flat("ChunkBased", 3), Flat("Invalid", 3), [Flat("FlatPlain", 3) EXCEPT !.xattr = TRUE]}

CONSTANTS DataInodes, BlockSize, InitialEntries, PackEntries, BufferSize, PathMax, MaxSizes,
          ReadSizes, MaxCalls

VARIABLES
    part, \* "walk" or "data": what is run
    inode, client, maxSize, extents, last, block, call, req, got, at, trouble, returned,
    streamed, target, outcome, calls

Data == INSTANCE ErofsData WITH Inodes <- DataInodes, pc <- call, result <- returned

\* The 4B entries of a compact index come in pairs.
ASSUME ErofsDataAssumption ==
    /\ {BlockSize, PackEntries, BufferSize, PathMax} \subseteq Nat \ {0}
    /\ InitialEntries \in Nat /\ InitialEntries % 2 = 0 /\ PackEntries % 2 = 0
    /\ MaxSizes \subseteq Nat /\ ReadSizes \subseteq Nat
    /\ \A i \in DataInodes : Data!WellFormed(i)

dataVars == <<inode, client, maxSize, extents, last, block, call, req, got, at, trouble,
              returned, streamed, target, outcome, calls>>

MCInit ==
    /\ Init /\ Data!Init
    /\ \/ part = "walk" /\ client = "read" /\ inode = CHOOSE i \in DataInodes : TRUE
       \/ part = "data" /\ image = CHOOSE i \in Images : TRUE

MCNext ==
    \/ part = "walk" /\ Next /\ UNCHANGED <<part, dataVars>>
    \/ part = "data" /\ Data!Next /\ UNCHANGED <<part, vars>>

\* The callers go on: one calls next() until it returns nullptr, the other does
\* not stop in the middle of writeTo() or of a read.
Fairness ==
    /\ WF_vars(part = "walk" /\ (Create \/ CreateUnsupported))
    /\ WF_vars(part = "walk" /\ Step)
    /\ WF_vars(part = "walk" /\ NextEntry)
    /\ WF_dataVars(part = "data" /\ Data!WriteStep)

MCSpec == MCInit /\ [][MCNext]_<<vars, dataVars, part>> /\ Fairness

\* A walk over a tree whose directory blocks can be read ends: with an error, or at the
\* end of the tree.
WalkEnds ==
    part = "walk" /\ image \in MCTrees => <>(missed \/ pc = "closed" \/ (pc = "idle" /\ ~hasNext))

\* Of ErofsData: a read gives the bytes of the file that were asked for, whatever the
\* cache of the decompressed block held and whatever failed before.
ReadsGiveFile == Data!ReadsGiveFile

\* Of ErofsData: the extent map is the one that the image was made with.
ExtentsCoverFile == Data!ExtentsCoverFile

\* Of ErofsData: a client, and writeTo(), have a beginning of the file, all of it in the
\* end.
EntryComplete == Data!EntryComplete

\* Of ErofsData: writeTo() ends.
WriteToEnds == Data!WriteToEnds
===============================================================================
