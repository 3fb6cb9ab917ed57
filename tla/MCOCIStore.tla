------------------------------ MODULE MCOCIStore ------------------------------
(* The backing store on every archive of two headers of a few shapes, in    *)
(* each format, and on tars of three or four with directories and extension *)
(* headers among the files; and a layer of four blocks with two values that *)
(* is read through a store. The two share nothing, so that each is run with *)
(* the other at rest.                                                       *)
EXTENDS OCIImageLayerReader, TLC

MCImage == <<"a", "b", "b", "a">>

ASSUME LayerAssumption == LayerConstants

-------------------------------------------------------------------------------

CONSTANTS
    p1, p2, r1, r2,
    Paths, Archives, Block, Threshold, CacheSpace, Readers, MaxFds

F(p, n) == [kind |-> "file", path |-> p, size |-> n, packed |-> FALSE]

X(n) == [kind |-> "ext", path |-> p1, size |-> n, packed |-> FALSE]

D == [kind |-> "dir", path |-> p2, size |-> 0, packed |-> FALSE]

Zipped(p) == [F(p, 2) EXCEPT !.packed = TRUE]

Files == {F(p1, 1), F(p1, 3), F(p2, 2)}

MCTars ==
    {[format |-> "tar", headers |-> h] :
        h \in UNION {[1..n -> Files \union {X(1), D}] : n \in 1..2}
              \union {<<f, h, g>> : f \in Files, g \in Files, h \in {X(1), D}}
              \union {<<X(3), X(1), f, g>> : f \in Files, g \in Files}
              \union {<<f, X(1), X(2), g>> : f \in Files, g \in Files}}

MCZips ==
    {[format |-> "zip", headers |-> h] :
        h \in [1..2 -> Files \union {D, Zipped(p1), Zipped(p2)}]}

MCCompressed ==
    {[format |-> "tgz", headers |-> h] : h \in [1..2 -> Files]}

MCArchives == MCTars \union MCZips \union MCCompressed

MCReaders == {r1, r2}

MCSymmetry == Permutations(MCReaders)

-------------------------------------------------------------------------------

VARIABLES
    part, \* "store" or "layer": what is run
    archive, phase, space, cache, clones, readers, reply, failed, fds

Store == INSTANCE OCIArchiveBackingStore WITH answer <- reply

ASSUME StoreAssumption == Store!StoreConstants

storeVars == <<archive, phase, space, cache, clones, readers, reply, failed, fds>>

MCInit ==
    /\ Init /\ Store!Init
    /\ \/ part = "store" /\ file = Image
       \/ part = "layer" /\ archive = CHOOSE a \in Archives : TRUE

MCNext ==
    \/ part = "layer" /\ Next /\ UNCHANGED <<part, storeVars>>
    \/ part = "store" /\ Store!Next /\ UNCHANGED <<part, vars>>

MCSpec == MCInit /\ [][MCNext]_<<vars, storeVars, part>>

(* MappedIsEntry of OCIArchiveBackingStore: a range that is handed out for  *)
(* mapping is the data of the entry asked for.                              *)
MappedIsEntry == Store!MappedIsEntry

(* What comes out of a store: each reader gives its own file in order,      *)
(* whatever other readers and the cache do, and all the ways to a file give *)
(* the same.                                                                *)
ReadersGiveFile == Store!ReadersInOrder /\ Store!SameFileEveryWay

===============================================================================
