------------------------- MODULE OCIImageLayerReader -------------------------
(***************************************************************************)
(* Reading a tar or zip image layer of an OCI package                      *)
(* (lib/oci/OCIArchiveImageLayerReader.cpp): libarchive pulls the bytes of *)
(* the layer through two callbacks that feed them to one digest, which is  *)
(* compared with the descriptor at the end.                                *)
(*                                                                         *)
(* The layer is a sequence of blocks. libarchive is external: whenever it  *)
(* runs it reads or skips as much as it likes. The file may change while   *)
(* it is read.                                                             *)
(***************************************************************************)
EXTENDS Naturals, Sequences

CONSTANTS
    Values,     \* values of a block
    Image,      \* the layer the descriptor's digest was made from
    MaxChanges  \* how often the file changes

\* What the constants are.
LayerConstants == Image \in Seq(Values) /\ MaxChanges \in Nat

VARIABLES
    file,      \* the blocks in the file now
    changes,   \* how often it has changed
    offset,    \* m_imageOffset
    digested,  \* the blocks m_digestBuilder was given, in order
    finalised, \* whether m_digestBuilder.finalise() was called
    handed,    \* what libarchive has got: a block, or "skipped" for one it has not
    running,   \* who has called libarchive: "no", "next" (next()) or "data" (an entry's read())
    error,     \* m_error is set
    answer     \* what the last next() returned: "none", "entry", "null"

vars == <<file, changes, offset, digested, finalised, handed, running, error, answer>>

Size == Len(Image)

Expected == Image

(***************************************************************************)
(* The callbacks, which run inside libarchive                              *)
(***************************************************************************)

Blocks(from, n) == SubSeq(file, from + 1, from + n)

\* Blocks are read from the layer and given to the digest.
Digest(n) ==
    /\ offset' = offset + n
    /\ digested' = digested \o Blocks(offset, n)

\* readCallback(): at most up to the end of the layer; a failed read is an error.
ReadCallback ==
    /\ running # "no" /\ offset < Size
    /\ \/ \E n \in 1..(Size - offset) :
             /\ Digest(n)
             /\ handed' = handed \o Blocks(offset, n)
             /\ UNCHANGED error
       \/ /\ error' = TRUE
          /\ UNCHANGED <<offset, digested, handed>>
    /\ UNCHANGED <<file, changes, finalised, running, answer>>

\* skipCallback(): the same, but libarchive does not see the blocks. It fails
\* after any number of them.
SkipCallback ==
    /\ running # "no" /\ offset < Size
    /\ \E n \in 0..(Size - offset), failed \in BOOLEAN :
          /\ n > 0 \/ failed
          /\ Digest(n)
          /\ handed' = handed \o [i \in 1..n |-> "skipped"]
          /\ error' = (error \/ failed)
    /\ UNCHANGED <<file, changes, finalised, running, answer>>

(***************************************************************************)
(* The reader                                                              *)
(***************************************************************************)

\* next() calls the archive reader, unless there was an error.
Next_Begin ==
    /\ running = "no"
    /\ IF error
       THEN answer' = "null" /\ UNCHANGED running
       ELSE running' = "next" /\ UNCHANGED answer
    /\ UNCHANGED <<file, changes, offset, digested, finalised, handed, error>>

\* The client reads from the entry it has: libarchive may call back, and what
\* it answers is the entry's business (ArchiveReader).
ReadEntry ==
    /\ running = "no" /\ answer = "entry"
    /\ running' = "data"
    /\ UNCHANGED <<file, changes, offset, digested, finalised, handed, error, answer>>

ReadEntryReturns ==
    /\ running = "data"
    /\ running' = "no"
    /\ UNCHANGED <<file, changes, offset, digested, finalised, handed, error, answer>>

\* The archive reader has an entry, or an error. Once it is at the end
\* (endOfArchive) it has neither.
Next_Entry ==
    /\ running = "next" /\ ~finalised
    /\ running' = "no"
    /\ \/ /\ answer' = "entry"
          /\ UNCHANGED error
       \/ /\ answer' = "null"
          /\ error' = TRUE
    /\ UNCHANGED <<file, changes, offset, digested, finalised, handed>>

\* What finalise() gives: the digest the first time; a second call fails and
\* gives nothing (CryptoDigestBuilderImpl::finalise).
Finalise(blocks) == IF finalised THEN <<"nothing">> ELSE blocks

\* Mutant: the digest is compared without the rest of the layer
EndWithoutRest ==
    /\ running = "next"
    /\ running' = "no" /\ answer' = "null"
    /\ finalised' = TRUE
    /\ error' = (error \/ Finalise(digested) # SubSeq(Expected, 1, offset))
    /\ UNCHANGED <<file, changes, offset, digested, handed>>

\* libarchive is at the end of the archive: the rest of the layer is read (a
\* failure there shows in the digest), and the digest is compared.
Next_End ==
    /\ running = "next"
    /\ running' = "no" /\ answer' = "null"
    /\ finalised' = TRUE
    /\ \E n \in 0..(Size - offset), failed \in BOOLEAN :
          /\ failed \/ n = Size - offset
          /\ Digest(n)
          /\ error' = (error \/ failed \/ Finalise(digested') # Expected)
    /\ UNCHANGED <<file, changes, handed>>

\* The file changes.
ChangeFile ==
    /\ changes < MaxChanges
    /\ \E i \in DOMAIN file, v \in Values :
          /\ file[i] # v
          /\ file' = [file EXCEPT ![i] = v]
    /\ changes' = changes + 1
    /\ UNCHANGED <<offset, digested, finalised, handed, running, error, answer>>

(***************************************************************************)
(* The specification                                                       *)
(***************************************************************************)

Init ==
    /\ file \in [1..Size -> Values]
    /\ changes = 0
    /\ offset = 0
    /\ digested = <<>>
    /\ finalised = FALSE
    /\ handed = <<>>
    /\ running = "no"
    /\ error = FALSE
    /\ answer = "none"

Next ==
    \/ ReadCallback \/ SkipCallback
    \/ Next_Begin \/ Next_Entry \/ Next_End
    \/ ReadEntry \/ ReadEntryReturns
    \/ ChangeFile

Spec == Init /\ [][Next]_vars

(***************************************************************************)
(* Properties                                                              *)
(***************************************************************************)

TypeOK ==
    /\ file \in [1..Size -> Values]
    /\ changes \in 0..MaxChanges
    /\ offset \in 0..Size
    /\ digested \in Seq(Values) /\ Len(digested) <= Size
    /\ finalised \in BOOLEAN /\ error \in BOOLEAN
    /\ handed \in Seq(Values \union {"skipped"})
    /\ running \in {"no", "next", "data"}
    /\ answer \in {"none", "entry", "null"}

(* When next() has returned null and there is no error, every block that    *)
(* libarchive was handed, by next() or by reading an entry, is the block of *)
(* the signed layer at its place, and the whole layer has been read,        *)
(* although the file was changed and blocks were skipped meanwhile.         *)
EndMeansVerified ==
    answer = "null" /\ ~error /\ running = "no" =>
        /\ offset = Size
        /\ \A i \in DOMAIN handed : handed[i] \in {Image[i], "skipped"}

(* The digest covers the blocks in the order of the layer, each once: what  *)
(* libarchive saw is what was digested.                                     *)
DigestCoversHanded ==
    /\ Len(digested) = offset
    /\ \A i \in DOMAIN handed : handed[i] \in {digested[i], "skipped"}

(* "Returns true if an error has occurred while reading the archive or if   *)
(* reached the end of the archive but the digest didn't match" (hasError):  *)
(* a reader that has reached the end of a layer that matches stays without  *)
(* error, also when next() is called again.                                 *)
EndStaysEnd ==
    [][(answer = "null" /\ ~error) => ~error']_vars

=============================================================================
