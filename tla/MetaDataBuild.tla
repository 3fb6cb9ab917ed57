--------------------------- MODULE MetaDataBuild ---------------------------
(***************************************************************************)
(* Reading the configuration of a package, element by element              *)
(* (W3CPackageMetaDataImpl::fromConfigXml and                              *)
(* OCIPackageMetaDataImpl::fromConfigJson), and what the tool writes of    *)
(* the meta data that came out of it.                                      *)
(*                                                                         *)
(* The schema fixes the order of the elements of config.xml, but not the   *)
(* order of its capabilities: those are read in every order.  The fields   *)
(* of a config JSON are read in the order the code asks for them.          *)
(***************************************************************************)
EXTENDS MetaData

CONSTANTS
    Markup,         \* words that hold a character XML reserves
    XmlDocuments,   \* config.xml files; the capabilities of each have distinct names
    JsonDocuments   \* config JSON objects

X == INSTANCE W3CPackageMetaData
J == INSTANCE OCIPackageMetaData
W == INSTANCE ConfigWriters

\* A configuration as the JSON library gives it: finitely many keys, truth values, sequences
\* and whole numbers.
ConfigurationObject(c) ==
    /\ c = [k \in DOMAIN c |-> c[k]] /\ IsFiniteSet(DOMAIN c)
    /\ "low-power:terminate" \in DOMAIN c /\ isBool(c["low-power:terminate"]) =>
            c["low-power:terminate"] \in {Bool(TRUE), Bool(FALSE)}
    /\ "network" \in DOMAIN c /\ isArray(c["network"]) =>
            LET entries == c["network"][2]
            IN  /\ Len(entries) \in Nat /\ DOMAIN entries = 1 .. Len(entries)
                /\ \A i \in DOMAIN entries :
                        /\ isObject(entries[i]) /\ "port" \in DOMAIN entries[i][2]
                        /\ isInteger(entries[i][2]["port"])
                        => entries[i][2]["port"][2] \in Int

\* What a string of a dependency stands for is the text of a constraint.
ASSUME DocumentsAssumption ==
    \A json \in JsonDocuments :
        /\ "dependencies" \in DOMAIN json /\ isObject(json["dependencies"]) =>
                \A id \in DOMAIN json["dependencies"][2] :
                    LET j == json["dependencies"][2][id] IN isString(j) => ConstraintText(j[2])
        /\ "configuration" \in DOMAIN json /\ isObject(json["configuration"]) =>
                ConfigurationObject(json["configuration"][2])

\* Elements, then capabilities, then elements again, as the schema wants them.  That no
\* capability is named twice is not checked by the code: of two values the last would win.
ASSUME XmlAssumption ==
    \A xml \in XmlDocuments : xml.valid =>
        /\ xml.head \in Seq(Range(xml.head)) /\ xml.tail \in Seq(Range(xml.tail))
        /\ IsFiniteSet(xml.capabilities)
        /\ \A c \in xml.capabilities : c[1] = "capability"
        /\ \A c, e \in xml.capabilities : c[2] = e[2] => c = e

VARIABLES
    kind,       \* "xml" or "json"
    doc,        \* the document
    before,     \* elements still to read before the capabilities; fields of a JSON
    anyOrder,   \* capabilities still to read
    after,      \* elements still to read after them
    meta,       \* the meta data object
    status      \* "new", "reading", "built" or "refused"

buildVars == <<kind, doc, before, anyOrder, after, meta, status>>

BuildInit ==
    /\ \/ kind = "xml" /\ doc \in XmlDocuments
       \/ kind = "json" /\ doc \in JsonDocuments
    /\ before = <<>> /\ anyOrder = {} /\ after = <<>>
    /\ meta = NoMetaData
    /\ status = "new"

\* The meta data after a step, or the error the step returns.
Becomes(results) ==
    \/ results # {} /\ meta' \in results /\ status' = status
    \/ results = {} /\ meta' = meta /\ status' = "refused"

\* The document is parsed and checked against the schema of its version.
OpenXml ==
    /\ status = "new" /\ kind = "xml"
    /\ IF doc.valid
       THEN /\ status' = "reading"
            /\ before' = doc.head /\ anyOrder' = doc.capabilities /\ after' = doc.tail
       ELSE status' = "refused" /\ UNCHANGED <<before, anyOrder, after>>
    /\ UNCHANGED <<kind, doc, meta>>

ReadElement ==
    /\ status = "reading" /\ kind = "xml" /\ before # <<>>
    /\ Becomes(X!processElement(meta, Head(before), doc.format))
    /\ before' = Tail(before)
    /\ UNCHANGED <<kind, doc, anyOrder, after>>

ReadCapability ==
    /\ status = "reading" /\ before = <<>>
    /\ \E e \in anyOrder :
            /\ Becomes(X!processElement(meta, e, doc.format))
            /\ anyOrder' = anyOrder \ {e}
    /\ UNCHANGED <<kind, doc, before, after>>

ReadLastElement ==
    /\ status = "reading" /\ before = <<>> /\ anyOrder = {} /\ after # <<>>
    /\ Becomes(X!processElement(meta, Head(after), doc.format))
    /\ after' = Tail(after)
    /\ UNCHANGED <<kind, doc, before, anyOrder>>

\* A step that ends the reading: the object is handed out, or the error.
Ends(results) ==
    \/ results # {} /\ meta' \in results /\ status' = "built"
    \/ results = {} /\ meta' = meta /\ status' = "refused"

FinishXml ==
    /\ status = "reading" /\ kind = "xml"
    /\ before = <<>> /\ anyOrder = {} /\ after = <<>>
    /\ Ends(X!finishConfigXml(meta))
    /\ UNCHANGED <<kind, doc, before, anyOrder, after>>

OpenJson ==
    /\ status = "new" /\ kind = "json"
    /\ status' = "reading"
    /\ before' = J!RequiredFields \o J!OptionalFields
    /\ UNCHANGED <<kind, doc, anyOrder, after, meta>>

ReadField ==
    /\ status = "reading" /\ kind = "json" /\ before # <<>>
    /\ Becomes(J!readField(meta, Head(before), doc))
    /\ before' = Tail(before)
    /\ UNCHANGED <<kind, doc, anyOrder, after>>

FinishJson ==
    /\ status = "reading" /\ kind = "json" /\ before = <<>>
    /\ Ends({J!finishConfigJson(meta)})
    /\ UNCHANGED <<kind, doc, before, anyOrder, after>>

BuildNext ==
    \/ OpenXml \/ ReadElement \/ ReadCapability \/ ReadLastElement \/ FinishXml
    \/ OpenJson \/ ReadField \/ FinishJson

BuildSpec == BuildInit /\ [][BuildNext]_buildVars

-----------------------------------------------------------------------------
(* Properties *)

\* What a client may rely on when it looks at the members one by one: the
\* states and levels are known ones, and a widget has only the permissions and
\* the configurations that are documented.
BuildTypeOK ==
    /\ status \in {"new", "reading", "built", "refused"}
    /\ meta.lifecycle \subseteq {"Paused", "LowPower", "Suspended", "Hibernated"}
    /\ meta.logging \subseteq LogLevels
    /\ meta.display.size \in DisplaySizes \cup {0}
    /\ kind = "xml" => /\ meta.permissions \subseteq RdkPermissions \cup EntosPermissions
                       /\ DOMAIN meta.vendorConfig
                            \subseteq EntosConfigurations \cup EntosLegacyConfigurations

\* In whatever order a document lists its capabilities, the same meta data
\* comes out, or the same refusal: a handler that uses what an earlier one
\* left (storage after private-storage, suspend-mode after no-low-power-mode,
\* the two halves of the input handling) does not depend on which came first.
OrderIrrelevant ==
    /\ kind = "xml" /\ status = "built" => X!fromConfigXml(doc) = {meta}
    /\ kind = "xml" /\ status = "refused" => X!fromConfigXml(doc) = {}

\* What a quota becomes in config.xml, which counts whole megabytes.
InMegabytes(quota) == {W!Megabytes(q) * Kilo * Kilo : q \in quota}

\* A list the writer has sorted and rid of duplicates.
AsSet(array) == LET items == InOrder(Range(W!Unquoted(array))) IN Arr([i \in DOMAIN items |-> Str(items[i])])

\* The configurations that come back from config.xml.  The size of the DRM store and what to
\* forward of multicasts do not, nor does an object that is empty without them.
ConfigsLeft(m) ==
    LET v == m.vendorConfig
        Only(key, names) == Restrict(v[key][2], names \cap DOMAIN v[key][2])
        Left(key) ==
            CASE key = "platform:filters" -> [k \in DOMAIN v[key][2] |-> AsSet(v[key][2][k][2])]
              [] key = "legacy:drm" -> Only(key, {"types"})
              [] key = "multicast" -> Only(key, {"serverSockets", "clientSockets"})
              [] OTHER -> v[key][2]
        Written(key) == IF m.type = "Runtime" THEN key \in {"platform:filters", "parental-control"}
                        ELSE isObject(v[key]) => DOMAIN Left(key) # {}
    IN  [key \in {key \in DOMAIN v : Written(key)} |->
            IF isObject(v[key]) THEN Obj(Left(key)) ELSE v[key]]

\* The members that capabilities are read into.
CapabilityMembers == ServiceMembers \cup ApplicationMembers

\* The meta data that comes back when config.xml is written and read again: the watchdog and
\* every icon but the first are lost, memory is counted in megabytes, an input handling without
\* keys is none, and no capability of a runtime is written.  What is written of a widget with
\* several contents, the first a runtime and the last not, is an application.
Rewritten(m) ==
    LET n == IF m.type # "Runtime" THEN m
             ELSE [k \in DOMAIN m |-> IF k \in CapabilityMembers THEN NoMetaData[k] ELSE m[k]]
    IN  [n EXCEPT !.type = IF @ = "Runtime" /\ m.mimeType[1] # "runtime" THEN "Application" ELSE @,
                  !.icons = SubSeq(@, 1, Min({1, Len(@)})),
                  !.watchdogInterval = {},
                  !.memoryQuota = InMegabytes(@), !.gpuMemoryQuota = InMegabytes(@),
                  !.inputHandling = @ \ {NoInput},
                  !.vendorConfig = ConfigsLeft(m)]

\* Written as config.xml and read again, the meta data of a widget is what the gaps of
\* the writer make of it (Rewritten): nothing else that a client can see is lost or changed, and
\* every other name and unit the writer uses is the reader's.  A document with markup in a text
\* that is not escaped cannot be read.
XmlRoundTrip ==
    kind = "xml" /\ status = "built" =>
        LET xml == W!metaDataToConfigXml(meta)
        IN  {PublicView(X!accessors(n)) : n \in X!fromConfigXml(xml)} =
                IF xml.valid THEN {PublicView(X!accessors(Rewritten(meta)))} ELSE {}

\* "This is the inverse of the `W3CPackageMetaDataBuilder` code that generates the meta-data
\* object from the config.xml format" (genConfigXmlCapabilities): what is written of the
\* capabilities of a widget is read back as the same meta data.
XmlInverse ==
    kind = "xml" /\ status = "built" =>
        {PublicView(X!accessors(n)) : n \in X!fromConfigXml(W!metaDataToConfigXml(meta))}
            = {PublicView(X!accessors(meta))}

\* Every configuration of an OCI package is honoured, whatever the others
\* say: low power is left out exactly when it is to terminate, whatever the
\* list of states holds; pausing is always there; every configuration can be
\* read back as it was written; no service has a port of 0.
ConfigHonoured ==
    kind = "json" /\ status = "built" =>
        LET c == IF "configuration" \in DOMAIN doc THEN doc["configuration"][2] ELSE EmptyObject
            terminate == "low-power:terminate" \in DOMAIN c /\ c["low-power:terminate"] = Bool(TRUE)
        IN  /\ "LowPower" \in meta.lifecycle <=> ~terminate
            /\ "Paused" \in meta.lifecycle
            /\ meta.vendorConfig = c
            /\ \A k \in ServiceKinds : \A i \in DOMAIN meta.services[k] :
                    meta.services[k][i].port \in 1 .. J!PortMod - 1

\* The versions a constraint is tried on: all of them.
AllVersions == UNION {[1 .. n -> 0 .. FieldMax] : n \in 1 .. kMaxFields}

\* A dependency is satisfied by exactly the versions its text allows: through
\* the parts the parser makes of a tilde, a caret, a range or a bare version,
\* with versions of different lengths and fields at their limit.  A bare version
\* stands for all that start with it, as the tests want and not the header.
DependencyMeaning ==
    kind = "json" /\ status = "built" =>
        \A id \in DOMAIN meta.dependencies :
            LET text == doc["dependencies"][2][id][2]
            IN  PlainConstraint(text) =>
                    \A v \in AllVersions :
                        isSatisfiedBy(meta.dependencies[id], v) <=> Allows(text, v)

\* "Must match version exactly" (VersionConstraint.h of a bare version): the versions that satisfy
\* a dependency are those the header lets through.
DependencyAsDocumented ==
    kind = "json" /\ status = "built" =>
        \A id \in DOMAIN meta.dependencies :
            LET text == doc["dependencies"][2][id][2]
            IN  PlainConstraint(text) =>
                    \A v \in AllVersions :
                        isSatisfiedBy(meta.dependencies[id], v) <=> AllowsByHeader(text, v)

\* What configspec.cpp says of itself: the config JSON the tool writes is read
\* back as the meta data it was written from.
JsonRoundTrip ==
    kind = "json" /\ status = "built" =>
        {PublicView(J!accessors(n)) : n \in J!fromConfigJson(W!metaDataToConfigSpec(meta))}
            = {PublicView(J!accessors(meta))}
=============================================================================
