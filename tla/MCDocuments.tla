----------------------------- MODULE MCDocuments -----------------------------
(* The documents that describe a package: JSON texts and what their values  *)
(* become, config.xml and config JSON and the meta data they give. The      *)
(* parser and the readers of its values share nothing, so that each is run  *)
(* with the other at rest.                                                  *)
EXTENDS MCMetaData, MCJson

VARIABLE
    part    \* "text" or "document": what is run

\* A text that is still to be read, a document that is still to be opened.
TextAtRest == Init /\ source.frags = MCNumbers.frags
DocumentAtRest ==
    /\ kind = "json" /\ doc = Required /\ before = <<>> /\ anyOrder = {} /\ after = <<>>
    /\ meta = NoMetaData /\ status = "new"

MCInit ==
    \/ part = "text" /\ Init /\ DocumentAtRest
    \/ part = "document" /\ BuildInit /\ TextAtRest

MCNext ==
    \/ part = "text" /\ Next /\ UNCHANGED <<part, buildVars>>
    \/ part = "document" /\ BuildNext /\ UNCHANGED <<part, vars>>

MCSpec == MCInit /\ [][MCNext]_<<buildVars, vars, part>>
=============================================================================
