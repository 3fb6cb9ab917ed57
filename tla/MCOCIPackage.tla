---------------------------- MODULE MCOCIPackage ----------------------------
(* Packages with a signed manifest, a data manifest nobody has signed, a    *)
(* signed one whose image is smaller than a block and whose other layer has *)
(* not the size it says, and their signature manifests. Sizes and offsets   *)
(* are in units of half a block, and a hash block holds two digests: the    *)
(* image has three data blocks, a superblock and the three hash blocks of a *)
(* tree of two levels; the file may be changed to one without the last of   *)
(* them.                                                                    *)
EXTENDS OCIPackage

Desc(type, digest, size, offset) ==
    [type |-> type, digest |-> digest, size |-> size, offset |-> offset]

Config == Desc("config", "config", 1, 0)
Image == Desc("erofs", "image", 14, 6)
TinyImage == Desc("erofs", "tiny", 1, 4)
TarImage == Desc("tar", "image", 14, 0)
Aux == Desc("aux", "aux", 1, 0)
WrongSize == Desc("aux", "aux", 2, 0)
OtherConfig == Desc("config", "otherConfig", 1, 0)
OtherAux == Desc("aux", "otherAux", 1, 0)

Data(config, layers) == [kind |-> "manifest", config |-> config, layers |-> layers]

Payload(manifest) == [kind |-> "payload", manifest |-> manifest]

SignatureOf(payload) ==
    Data(Desc("other", "config", 1, 0), <<Desc("signature", payload, 1, 0)>>)

MCMeaning ==
    [manifest |-> Data(Config, <<Image, Aux>>),
     tinyManifest |-> Data(Config, <<TinyImage, WrongSize>>),
     other |-> Data(OtherConfig, <<TarImage, OtherAux>>),
     signature |-> SignatureOf("payload"),
     tinySignature |-> SignatureOf("tinyPayload"),
     otherSignature |-> SignatureOf("otherPayload"),
     payload |-> Payload("manifest"),
     tinyPayload |-> Payload("tinyManifest"),
     otherPayload |-> Payload("other"),
     config |-> [kind |-> "config"],
     otherConfig |-> [kind |-> "config"],
     image |-> [kind |-> "image"],
     tiny |-> [kind |-> "image"],
     cut |-> [kind |-> "image"],
     aux |-> [kind |-> "aux"],
     otherAux |-> [kind |-> "aux"]]

MCBlobs == DOMAIN MCMeaning
MCSizes == [b \in MCBlobs |-> IF b = "image" THEN 14 ELSE IF b = "cut" THEN 12 ELSE 1]
MCOffsets == [b \in MCBlobs |-> IF b = "image" THEN 2 ELSE 1]
MCEntries == [b \in MCBlobs |-> IF b = "image" THEN 2 ELSE 0]
MCSmall == {"manifest", "signature", "config"}
MCSigned == {"payload", "tinyPayload"}

\* Any number of data blocks that fits a word, and one that is not supported.
MCSuperBlocks ==
    {[supported |-> TRUE, dataBlocks |-> n] : n \in 0..(Word - 1)}
    \union {[supported |-> FALSE, dataBlocks |-> 3]}

MCLayouts ==
    {<<"object", [imageLayoutVersion |-> <<"string", v>>]>> : v \in {"1.0.0", "2.0.0"}}

String(s) == <<"string", s>>

ManifestJson(d) ==
    <<"object", [mediaType |-> String("manifest"), digest |-> String(d), size |-> <<"integer", 1>>,
                 annotations |-> <<"object", [name |-> String("test")]>>]>>

IndexOf(manifests) ==
    <<"object", [schemaVersion |-> <<"integer", 2>>, manifests |-> <<"array", manifests>>]>>

Listed(names) == IndexOf([i \in DOMAIN names |-> ManifestJson(names[i])])

With(k, v) == IndexOf(<<<<"object", [ManifestJson("manifest")[2] EXCEPT ![k] = v]>>>>)

\* One data manifest, signed or not.
MCOneManifest ==
    {Listed(<<"manifest", "signature">>), Listed(<<"signature", "manifest">>),
     Listed(<<"tinyManifest", "tinySignature">>),
     Listed(<<"other", "signature">>), Listed(<<"other", "otherSignature">>)}

\* What is not an index, and a size that is negative as a signed number.
MCBadIndexes ==
    {<<"array", <<>>>>, <<"object", [schemaVersion |-> <<"integer", 2>>]>>,
     IndexOf(<<<<"null">>>>), With("digest", String("md5")), With("size", String("1")),
     With("size", <<"integer", Word - 2>>),
     With("annotations", <<"object", [name |-> <<"integer", 1>>]>>),
     <<"object", [schemaVersion |-> <<"integer", 3>>, manifests |-> <<"array", <<>>>>]>>}

\* Two data manifests with one or two signatures, in any order.
MCIndexes ==
    MCOneManifest \union MCBadIndexes \union
    {Listed(<<"manifest", "other", "signature">>),
     Listed(<<"other", "signature", "manifest">>),
     Listed(<<"other", "manifest", "otherSignature">>),
     Listed(<<"manifest", "other", "signature", "otherSignature">>)}

=============================================================================
