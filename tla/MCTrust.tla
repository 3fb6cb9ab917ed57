------------------------------- MODULE MCTrust -------------------------------
(***************************************************************************)
(* The tool on packages with all sorts of signatures, and the object of a  *)
(* widget in a process with two threads. The two share nothing, so that    *)
(* each is run with the other at rest.                                     *)
(*                                                                         *)
(* Certificates: two roots, an issuing and a signing certificate, one that *)
(* the signing certificate has issued although it may not, and another     *)
(* issuer of the same name. Packages with any three of them in any order,  *)
(* and the tool with up to four options in any order.                      *)
(***************************************************************************)
EXTENDS Unwgt

MCCert(subject, issuer, key, by, ca) ==
    [subject |-> subject, issuer |-> issuer, key |-> key, by |-> by, ca |-> ca,
     expired |-> FALSE]

RootA == MCCert("A", "A", "ka", "ka", TRUE)

RootB == MCCert("B", "B", "kb", "kb", TRUE)

Issuer == MCCert("I", "A", "ki", "ka", TRUE)

OtherIssuer == MCCert("I", "A", "kb", "kb", TRUE)

Signer == [MCCert("S", "I", "ks", "ki", FALSE) EXCEPT !.expired = TRUE]

Below == MCCert("T", "S", "kt", "ks", FALSE)

MCCerts == {RootA, RootB, Issuer, OtherIssuer, Signer, Below}

MCCertFiles ==
    "a.pem" :> <<{RootA}>> @@ "b.pem" :> <<{RootB}>> @@ "i.pem" :> <<{Issuer}>>
    @@ "bad.pem" :> <<{}, {RootA}>>

MCCertDirs == "/certs" :> {"a.pem", "bad.pem"} @@ "/empty" :> {}

Orders == {s \in UNION {[1..n -> MCCerts] : n \in 1..3} : \A i, j \in DOMAIN s : s[i] = s[j] => i = j}

Named(name) == [name |-> name, regular |-> TRUE]

Package(entries, sig) ==
    [entries |-> entries, sig |-> sig, members |-> {"code"}, auxTypes |-> {"secrets"},
     meta |-> "genuine", body |-> "genuine", aux |-> "genuine"]

Sig(certs, value) ==
    [present |-> TRUE, wellFormed |-> TRUE, valid |-> TRUE, refs |-> <<"listed">>, value |-> value, certs |-> certs]

Formats == {<<Named("oci-layout")>>, <<Named("signature1.xml")>>}

\* Packages with certificates in any order, signed by any key of these.
Signatures ==
    {Package(e, Sig([i \in DOMAIN s |-> {s[i]}], {k})) :
        e \in Formats, s \in Orders, k \in {"ka", "kb", "ki", "ks"}}

Trusting == {<< <<"c", "a.pem">> >>, << <<"c", "b.pem">> >>, << <<"c", "a.pem">>, <<"c", "b.pem">> >>,
             << <<"c", "i.pem">> >>, << <<"c", "a.pem">>, <<"c", "i.pem">> >>, << <<"d", "/empty">> >>}

TrustLines ==
    {<< <<"y", "">>, <<"f", "pkg">> >> \o certs \o e : certs \in Trusting, e \in {<<>>, << <<"e", "">> >>}}

Good == Package(<<Named("signature1.xml")>>, Sig(<<{Issuer}, {Signer}>>, {"ks"}))

Directory == [name |-> "oci-layout", regular |-> FALSE]

\* Packages for the tool.
ToolPackages ==
    { Good,
      [Good EXCEPT !.body = "altered", !.meta = "altered", !.aux = "altered"],
      [Good EXCEPT !.entries = <<Named("oci-layout"), Named("signature1.xml")>>,
                   !.sig.certs = <<{Signer}, {Issuer}, {}>>],
      [Good EXCEPT !.entries = <<Directory, Named("signature1.xml")>>, !.sig.refs = <<"listed", "outside">>],
      [Good EXCEPT !.entries = <<Directory>>],
      [Good EXCEPT !.sig.certs = <<{Signer}, {}>>],
      [Good EXCEPT !.sig.present = FALSE],
      [Good EXCEPT !.sig.wellFormed = FALSE],
      [Good EXCEPT !.sig.valid = FALSE],
      [Good EXCEPT !.sig.refs = <<"unreadable", "listed">>] }
    \union
    { Package(<<Named("oci-layout")>>, s) :
        s \in { Sig(<<{Signer}, {}, {Issuer}>>, {"ks"}), Sig(<<{Signer}, {Issuer}>>, {}),
                [Sig(<<{Signer}, {Issuer}>>, {"ks"}) EXCEPT !.present = FALSE] } }
    \union
    { [Package(<<Named("oci-layout")>>, Sig(<<{Signer}, {Issuer}>>, {"ks"}))
          EXCEPT !.body = b, !.aux = b, !.meta = b] : b \in {"genuine", "altered"} }

ToolOptions ==
    { <<"h", "">>, <<"?", "">>, <<"x", "">>, <<"t", "">>, <<"y", "">>, <<"S", "">>,
      <<"M", "">>, <<"M", "json">>, <<"M", "html">>, <<"X", "">>, <<"X", "secrets">>,
      <<"m", "/mnt">>, <<"C", "/none">>, <<"z", "">>, <<"n", "">>, <<"e", "">>,
      <<"c", "a.pem">>, <<"c", "bad.pem">>, <<"d", "/empty">>, <<"member", "code">>,
      <<"member", "other">> }

ToolLines ==
    {<<o>> : o \in ToolOptions}
    \union {<<o1, <<"f", "pkg">>, o2, o3>> : o1 \in {<<"x", "">>, <<"M", "">>, <<"t", "">>, <<"y", "">>},
                                           o2 \in ToolOptions, o3 \in ToolOptions}

MCScenarios == (TrustLines \X Signatures) \union (ToolLines \X ToolPackages)

-------------------------------------------------------------------------------
(***************************************************************************)
(* Widgets around two signed and one unsigned signature file, with a       *)
(* config, appsecrets, another file, a directory and a repeated entry.     *)
(***************************************************************************)
CONSTANTS
    t1, t2,
    Paths, Contents, SizeOf, References, Signed, Parsable, Packages, Threads, MaxBytes,
    MaxEntries, MaxChanges

MCThreads == {t1, t2}

MCSymmetry == Permutations(MCThreads)

MCPaths == {"signature1", "config", "appsecrets", "code"}

MCContents == {"good", "less", "bad", "conf1", "conf2", "sec"}

MCSizes == [c \in MCContents |-> IF c = "conf2" THEN 2 ELSE 1]

MCReferences ==
    [c \in MCContents |-> IF c = "good" THEN "config" :> "conf1" @@ "appsecrets" :> "sec"
                          ELSE IF c = "less" THEN "config" :> "conf1"
                          ELSE IF c = "bad" THEN "config" :> "conf2" ELSE <<>>]

MCSigned == {"good", "less"}

File(p, c) == [path |-> p, kind |-> "file", content |-> c, plain |-> TRUE]

GoodSig == File("signature1", "good")

Conf == File("config", "conf1")

Secrets == File("appsecrets", "sec")

Dir == [path |-> "code", kind |-> "dir", content |-> "sec", plain |-> TRUE]

Link == [path |-> "appsecrets", kind |-> "link", content |-> "sec", plain |-> TRUE]

Dotted == [Conf EXCEPT !.plain = FALSE]

MCPackages ==
    { <<Conf, Secrets, GoodSig>>,
      <<GoodSig, Conf, Dir, Link>>,
      <<GoodSig, Dotted, Conf, Conf>>,
      <<File("signature1", "bad"), File("config", "conf2"), GoodSig>>,
      <<File("signature1", "less"), Conf, Secrets>> }

VARIABLES
    part, \* "tool" or "widget": what is run
    file, changes, withBundle, phase, digests, cached, lock, call

Widget == INSTANCE W3CPackage WITH metaData <- cached, bundle <- withBundle

ASSUME WidgetAssumption ==
    /\ Packages \subseteq Seq(Widget!Entry)
    /\ SizeOf \in [Contents -> Nat]
    /\ \A s \in Contents : IsFiniteSet(DOMAIN References[s])
    /\ Signed \subseteq Contents /\ Parsable \subseteq Contents
    /\ MaxBytes \in Nat /\ MaxEntries \in Nat /\ MaxChanges \in Nat
    /\ {Widget!None, Widget!Short} \cap Contents = {} /\ Widget!None \notin Threads

widgetVars == <<file, changes, withBundle, phase, digests, cached, lock, call>>

MCInit ==
    /\ Init /\ Widget!Init
    /\ \/ part = "tool" /\ withBundle /\ file = CHOOSE f \in Packages : TRUE
       \/ part = "widget" /\ pkg = Good /\ args = << <<"h", "">> >>

MCNext ==
    \/ part = "tool" /\ Next /\ UNCHANGED <<part, widgetVars>>
    \/ part = "widget" /\ Widget!Next /\ UNCHANGED <<part, vars>>

MCSpec == MCInit /\ [][MCNext]_<<vars, widgetVars, part>>

(* Of W3CPackage: a success of verify() means that what it read is what a   *)
(* sound signature lists, within the limits, and, when no path occurs twice *)
(* in it, that nothing is missing.                                          *)
WidgetVerified == Widget!VerifySound /\ Widget!VerifyComplete

(* Of W3CPackage: the meta data of a package that was opened with a bundle  *)
(* is signed.                                                               *)
MetaDataSigned == Widget!MetaDataSigned

(* Of W3CPackage: all threads get the same meta data.                       *)
MetaDataStable == Widget!MetaDataStable

===============================================================================
