-------------------------------- MODULE Unwgt --------------------------------
(***************************************************************************)
(* The command line tool unwgt (tools/unwgt/unwgt.cpp) and the public      *)
(* class it uses (lib/core/Package.cpp): the options, the certificates,    *)
(* opening the package with or without verification, one operation on it   *)
(* and the exit code.                                                      *)
(*                                                                         *)
(* What the package classes do when they read is in modules of their own;  *)
(* here a part of a package is what the signer made ("genuine") or not.    *)
(***************************************************************************)
EXTENDS Trust, TLC

CONSTANTS
    Scenarios, \* pairs of a command line and the package at Path
    Path,      \* where the package is
    Dirs,      \* paths that are directories
    CertFiles, \* [paths -> texts]: the files with certificates
    CertDirs,  \* [directories -> sets of paths]
    DefaultCertDir

Certificate == [subject : STRING, issuer : STRING, key : STRING, by : STRING,
                ca : BOOLEAN, expired : BOOLEAN]

ASSUME ScenarioAssumption == \A s \in Scenarios : s[2].sig.certs \in Seq(SUBSET Certificate)

VARIABLES
    args,      \* the options that are still to be parsed: pairs of letter and argument
    opts,      \* the global variables that the options set
    pkg,       \* the package file
    creds,     \* {} or {the certificates of the bundle}
    package,   \* {} or {the open Package}
    refusal,   \* the error with which opening failed, or "none"
    fault,     \* whether OpenSSL ran out of resources
    out,       \* what came out of the package
    pc,        \* "args", "certs", "open", "run", "exit"
    status     \* the exit code

vars == <<args, opts, pkg, creds, package, refusal, fault, out, pc, status>>

DefaultOptions ==
    [operation |-> "none", file |-> "", outputDir |-> ".", certDir |-> DefaultCertDir,
     certs |-> {}, verify |-> TRUE, expiry |-> FALSE, format |-> "raw", force |-> FALSE,
     aux |-> "", filter |-> {}]

Exit(code) == pc' = "exit" /\ status' = code

(***************************************************************************)
(* parseArgs()                                                             *)
(***************************************************************************)

\* The options that choose what to do: the last one wins.
OperationOf ==
    [t |-> "list", x |-> "extract", y |-> "verify", M |-> "metadata", X |-> "aux",
     S |-> "siginfo", m |-> "mount"]

\* A bad option, or one whose argument is not what it should be.
BadOption(a) ==
    \/ a[1] = "?"
    \/ a[1] \in {"C", "m"} /\ a[2] \notin Dirs
    \/ a[1] = "M" /\ a[2] \notin {"", "raw", "json", "xml"}

\* An optional argument leaves the setting alone when it is not given.
Given(arg, setting) == IF arg = "" THEN setting ELSE arg

SetOption(o, a) ==
    LET v == a[2]
        p == IF a[1] \in DOMAIN OperationOf THEN [o EXCEPT !.operation = OperationOf[a[1]]] ELSE o
    IN  CASE a[1] = "f" -> [p EXCEPT !.file = v]
          [] a[1] = "C" -> [p EXCEPT !.outputDir = v]
          [] a[1] = "M" -> [p EXCEPT !.format = Given(v, @)]
          [] a[1] = "X" -> [p EXCEPT !.aux = Given(v, @)]
          [] a[1] = "z" -> [p EXCEPT !.force = TRUE]
          [] a[1] = "n" -> [p EXCEPT !.verify = FALSE]
          [] a[1] = "e" -> [p EXCEPT !.expiry = TRUE]
          [] a[1] = "d" -> [p EXCEPT !.certDir = v]
          [] a[1] = "c" -> [p EXCEPT !.certs = @ \union {v}]
          [] a[1] = "member" -> [p EXCEPT !.filter = @ \union {v}]
          [] OTHER -> p

ParseArg ==
    /\ pc = "args" /\ args # <<>>
    /\ LET a == Head(args)
       IN  \/ a[1] \in {"h", "V"} /\ Exit(0) /\ UNCHANGED opts
           \/ BadOption(a) /\ Exit(1) /\ UNCHANGED opts
           \/ /\ a[1] \notin {"h", "V"} /\ ~BadOption(a)
              /\ opts' = SetOption(opts, a)
              /\ UNCHANGED <<pc, status>>
    /\ args' = Tail(args)
    /\ UNCHANGED <<pkg, creds, package, refusal, fault, out>>

(***************************************************************************)
(* main()                                                                  *)
(***************************************************************************)

CheckOperation ==
    /\ pc = "args" /\ args = <<>>
    /\ IF opts.operation = "none" THEN Exit(1) ELSE pc' = "certs" /\ UNCHANGED status
    /\ UNCHANGED <<args, opts, pkg, creds, package, refusal, fault, out>>

\* The files named with -c; without any, those of the directory.
CertificatePaths ==
    IF opts.certs # {} THEN opts.certs
    ELSE IF opts.certDir \in DOMAIN CertDirs THEN CertDirs[opts.certDir] ELSE {}

\* Certificate::loadFromFile()
loadFromFile(p) == IF p \in DOMAIN CertFiles THEN parseCert(CertFiles[p]) ELSE {}

\* A certificate that cannot be loaded is only warned about.
LoadedCertificates == UNION {loadFromFile(p) : p \in CertificatePaths}

\* Mutant: no verification without certificates
CredsIfAny(certs) == IF certs = {} THEN {} ELSE {certs}

\* Verification stays on when no certificate was loaded.
Creds(certs) == {certs}

LoadCertificates ==
    /\ pc = "certs"
    /\ creds' = IF opts.verify THEN Creds(LoadedCertificates) ELSE {}
    /\ IF opts.file = Path THEN pc' = "open" /\ UNCHANGED status ELSE Exit(1)
    /\ UNCHANGED <<args, opts, pkg, package, refusal, fault, out>>

\* Package::detectPackageFormat(): the first regular file with a telling name.
detectPackageFormat(entries) ==
    LET telling == {i \in DOMAIN entries : entries[i].regular
                                           /\ entries[i].name \in {"oci-layout", "signature1.xml"}}
    IN  IF telling = {} THEN "Unknown"
        ELSE IF entries[Min(telling)].name = "oci-layout" THEN "Ralf" ELSE "Widget"

\* openPackageImpl(): OCIPackage::open() and W3CPackage::open(). A package that
\* has the other parts it needs opens when its signature verifies.
openPackageImpl(format, bundle, expiry, f) ==
    IF format = "Unknown" THEN {"InvalidPackage"}
    ELSE IF bundle = {} THEN {"ok"}
    ELSE IF format = "Ralf" THEN verifyOCI(pkg.sig, Cert(bundle), expiry, f)
    ELSE verifyWidget(pkg.sig, Cert(bundle), expiry, f)

\* Package::open() or Package::openWithoutVerification()
OpenPackage ==
    /\ pc = "open"
    /\ \E f \in BOOLEAN :
          /\ fault' = f
          /\ LET format == detectPackageFormat(pkg.entries)
             IN  \E r \in openPackageImpl(format, creds, opts.expiry, f) :
                    IF r = "ok"
                    THEN /\ package' = {[format |-> format, verified |-> creds # {}]}
                         /\ pc' = "run" /\ UNCHANGED <<refusal, status>>
                    ELSE refusal' = r /\ Exit(1) /\ UNCHANGED package
    /\ UNCHANGED <<args, opts, pkg, creds, out>>

(***************************************************************************)
(* The operations. Each may also fail on its own account. What is written  *)
(* before a failure is found stays written.                                *)
(***************************************************************************)

Open == Cert(package)

Prints(what) == out' = what /\ Exit(0)

Fails == out' = {} /\ Exit(1)

\* Reading a part to its end succeeds: an OCI package checks digests in any
\* case, a widget only when it was opened with a bundle.
ReadSucceeds(part) == pkg[part] = "genuine" \/ (Open.format = "Widget" /\ ~Open.verified)

\* Package::extractTo(): files are written while they are read, and the last
\* read of each says whether it is sound. What was written before stays.
extractTo ==
    \/ ReadSucceeds("body") /\ Prints({<<"body", pkg.body>>})
    \/ out' \in {{}, {<<"body", pkg.body>>}} /\ Exit(1)

\* extractSingleFileTo(): likewise, to the standard output.
extractSingleFileTo(part) ==
    \/ ReadSucceeds(part) /\ Prints({<<part, pkg[part]>>})
    \/ out' \in {{}, {<<part, pkg[part]>>}} /\ Exit(1)

\* extractAuxMetaDataTo(): the file is read before anything of it is written.
extractAuxMetaDataTo(part) ==
    \/ ReadSucceeds(part) /\ Prints({<<part, pkg[part]>>})
    \/ Fails

\* Package::metaData(), and the text made of it.
metaData ==
    \/ ReadSucceeds("meta") /\ Prints({<<"meta", pkg.meta>>})
    \/ Fails

Operation(name) ==
    /\ pc = "run" /\ opts.operation = name
    /\ UNCHANGED <<args, opts, pkg, creds, package, refusal, fault>>

\* Package::verify(), which fails without a bundle.
verify == Open.verified /\ \A p \in {"meta", "body", "aux"} : pkg[p] = "genuine"

VerifyPackage ==
    /\ Operation("verify")
    /\ \/ verify /\ Prints({})
       \/ Fails

\* listPackage(): the names that the filter lets through. Nothing is said
\* about a name that is not there.
ListPackage ==
    /\ Operation("list")
    /\ \/ Prints({<<"name", n>> : n \in {m \in pkg.members : opts.filter = {} \/ m \in opts.filter}})
       \/ Fails

\* extractPackage(): everything, whatever the filter says.
ExtractPackage == Operation("extract") /\ extractTo

\* mountPackage(): widgets cannot be mounted. The kernel checks what is read
\* from the mount, which stays when the tool ends.
MountPackage ==
    /\ Operation("mount")
    /\ \/ Open.format = "Ralf" /\ Prints({<<"mount", "genuine">>})
       \/ Fails

\* dumpMetadata(): a format that the package has anyway is dumped as it is,
\* unless generation is forced.
DumpRaw ==
    \/ opts.format = "raw"
    \/ /\ ~opts.force
       /\ <<Open.format, opts.format>> \in {<<"Widget", "xml">>, <<"Ralf", "json">>}

DumpMetadata ==
    /\ Operation("metadata")
    /\ \/ DumpRaw /\ Open.format = "Widget" /\ extractSingleFileTo("meta")
       \/ DumpRaw /\ Open.format = "Ralf" /\ extractAuxMetaDataTo("meta")
       \/ ~DumpRaw /\ metaData

\* dumpAuxMetadata(): the types, or the file of one of the types.
DumpAuxMetadata ==
    /\ Operation("aux")
    /\ \/ opts.aux = "" /\ Prints({<<"type", k>> : k \in pkg.auxTypes})
       \/ opts.aux \in pkg.auxTypes /\ extractAuxMetaDataTo("aux")
       \/ Fails

\* dumpSignatureInfo(): m_signingCerts, which only verification fills.
DumpSignatureInfo ==
    /\ Operation("siginfo")
    /\ Prints(IF Open.verified THEN {<<"cert", c.subject>> : c \in UNION Range(pkg.sig.certs)} ELSE {})

(***************************************************************************)
(* The specification                                                       *)
(***************************************************************************)

Init ==
    /\ \E s \in Scenarios : args = s[1] /\ pkg = s[2]
    /\ opts = DefaultOptions
    /\ creds = {} /\ package = {}
    /\ refusal = "none" /\ fault = FALSE
    /\ out = {}
    /\ pc = "args" /\ status = 0

Next ==
    \/ ParseArg \/ CheckOperation \/ LoadCertificates \/ OpenPackage
    \/ VerifyPackage \/ ListPackage \/ ExtractPackage \/ MountPackage
    \/ DumpMetadata \/ DumpAuxMetadata \/ DumpSignatureInfo

Spec == Init /\ [][Next]_vars

(***************************************************************************)
(* Properties                                                              *)
(***************************************************************************)

\* The certificates that a bundle vouches for, among those of a package: the
\* least set with the self-issued ones of the bundle and, with a certificate
\* that may issue others, those that it has issued.
VouchedFor(bundle, certs, expiry) ==
    LET all == {c \in bundle \union certs : expiry => ~c.expired}
        vouched[n \in 0..MaxChain] ==
            IF n = 0 THEN {c \in bundle \intersect all : SelfIssued(c)}
            ELSE vouched[n - 1] \union
                 {c \in all : \E i \in vouched[n - 1] :
                     i.ca /\ c.issuer = i.subject /\ c.by = i.key}
    IN  vouched[MaxChain]

\* A certificate of the package is vouched for, and its key made the signature.
SignatureVouchedFor(bundle) ==
    LET certs == UNION Range(pkg.sig.certs)
    IN  \E c \in certs \intersect VouchedFor(bundle, certs, opts.expiry) : pkg.sig.value = {c.key}

(* A package opens with a bundle only when its signature was made with the  *)
(* key of a certificate that goes back, issuer by issuer, to a self-issued  *)
(* certificate of the bundle: whatever certificates the package carries, in *)
(* whatever order, with whatever names (readAndVerifySignature of both      *)
(* package classes, sortCertificates, verifyCertificate).                   *)
TrustSound ==
    (package # {} /\ creds # {}) => SignatureVouchedFor(Cert(creds))

\* The order of a chain: each certificate was issued by the next one.
IsChain(certs) ==
    /\ \A i \in 1..(Len(certs) - 1) :
          certs[i].issuer = certs[i + 1].subject /\ certs[i].by = certs[i + 1].key
          /\ certs[i + 1].ca
    /\ \A i, j \in DOMAIN certs : certs[i].subject = certs[j].subject => i = j

\* What a signer makes: the value by the key of the first certificate of a
\* chain whose last one is in the bundle, or was issued by one that is. A
\* widget may list the certificates in any order, an OCI package has to name
\* the first one.
ProperlySigned(format, bundle) ==
    /\ format # "Unknown" /\ pkg.sig.present /\ pkg.sig.wellFormed /\ pkg.sig.valid
    /\ pkg.sig.refs = <<"listed">>
    /\ {} \notin Range(pkg.sig.certs) /\ pkg.sig.certs # <<>>
    /\ LET certs == [i \in DOMAIN pkg.sig.certs |-> Cert(pkg.sig.certs[i])]
       IN  \E order \in Bijection(DOMAIN certs, DOMAIN certs), root \in bundle :
              LET chain == [i \in DOMAIN certs |-> certs[order[i]]]
                  whole == IF Last(chain) = root THEN chain ELSE Append(chain, root)
              IN  /\ format = "Ralf" => order[1] = 1
                  /\ SelfIssued(root) /\ IsChain(whole)
                  /\ \A b \in bundle : \A i \in DOMAIN whole :
                        b.subject = whole[i].subject => b = whole[i]
                  /\ pkg.sig.value = {chain[1].key}
                  /\ opts.expiry => \A i \in DOMAIN whole : ~whole[i].expired

(* A package that is properly signed is not refused, in whatever order a    *)
(* widget lists its certificates ("the X509 objects can be in any order",   *)
(* sortCertificates), with or without the root among them, and also after   *)
(* the certificates have expired when nobody asked for the dates to be      *)
(* checked ("an expiry time-bomb", createCaStore).                          *)
TrustComplete ==
    (refusal # "none" /\ ~fault /\ creds # {}) =>
        ~ProperlySigned(detectPackageFormat(pkg.entries), Cert(creds))

(* Unless -n is given, no operation succeeds and nothing comes out of a     *)
(* package that the certificates of the user do not vouch for (so nothing   *)
(* at all when none of them could be loaded, which is only warned about),   *)
(* and a successful exit means that what came out is what was signed:       *)
(* whatever order the options are in.                                       *)
OnlyVerified ==
    (pc = "exit" /\ opts.verify) =>
        /\ out # {} \/ (package # {} /\ status = 0) => SignatureVouchedFor(LoadedCertificates)
        /\ status = 0 => \A part \in {"meta", "body", "aux"} : <<part, "altered">> \notin out

===============================================================================
