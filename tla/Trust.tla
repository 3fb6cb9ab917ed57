-------------------------------- MODULE Trust --------------------------------
(***************************************************************************)
(* What makes a package signature good: certificates (CertificateImpl.cpp),*)
(* the verification bundle (VerificationBundleImpl.cpp), XML digital       *)
(* signatures (XmlDigitalSignatureImpl.cpp) and the signature of an OCI    *)
(* package (OCIPackage.cpp).                                               *)
(*                                                                         *)
(* A certificate is a record: the names of its subject and of its issuer,  *)
(* its key, the key it is signed by, whether it may issue certificates and *)
(* whether it is out of date. A text (a PEM string, the <X509Certificate>  *)
(* elements of a document) is a sequence of options: {c} where it holds    *)
(* the certificate c and {} where it cannot be parsed. A signature value   *)
(* is the option of the key that made it over what was signed. The result  *)
(* of a verification is "ok" or an error code; where OpenSSL is free to    *)
(* choose, an operator gives the set of the results.                       *)
(***************************************************************************)
EXTENDS Naturals, Sequences, FiniteSetsExt, SequencesExt

CONSTANT MaxChain \* how many issuers OpenSSL follows

ASSUME ChainAssumption == MaxChain \in Nat

SelfIssued(c) == c.subject = c.issuer

Cert(option) == CHOOSE c \in option : TRUE

(***************************************************************************)
(* Certificates                                                            *)
(***************************************************************************)

\* parseCert(): the first certificate of a text.
parseCert(text) == IF text = <<>> THEN {} ELSE Head(text)

\* parseMultipleCert(): up to the first one that cannot be parsed.
parseMultipleCert(text) ==
    LET bad == {i \in DOMAIN text : text[i] = {}}
        n == IF bad = {} THEN Len(text) ELSE Min(bad) - 1
    IN  [i \in 1..n |-> Cert(text[i])]

\* Certificate::loadFromString()
loadFromString(text) == parseCert(text)

\* Certificate::loadFromStringMultiCerts(): no certificate at all is an error.
loadFromStringMultiCerts(text) ==
    LET certs == parseMultipleCert(text) IN IF certs = <<>> THEN {} ELSE {certs}

\* subject() and issuer(): certificates are told apart by the names.
isIssuer(c, other) == c.subject = other.issuer

(***************************************************************************)
(* The verification bundle, a set of certificates                          *)
(***************************************************************************)

\* createCaStore(): dates are checked only on request.
createCaStore(bundle, expiry) == [certs |-> bundle, checkTime |-> expiry]

\* Whom OpenSSL takes for the issuer: by name, trusted certificates first.
X509_issuers(c, store, untrusted) ==
    LET Named(certs) == {i \in certs : i.subject = c.issuer}
    IN  IF Named(store.certs) # {} THEN Named(store.certs) ELSE Named(untrusted)

X509_chains(target, store, untrusted) ==
    LET Longer(chain) ==
            LET issuers == X509_issuers(Last(chain), store, untrusted)
            IN  IF SelfIssued(Last(chain)) \/ issuers = {} THEN {chain}
                ELSE {Append(chain, i) : i \in issuers}
        chains[n \in 0..MaxChain] ==
            IF n = 0 THEN {<<target>>} ELSE UNION {Longer(chain) : chain \in chains[n - 1]}
    IN  chains[MaxChain]

\* The errors of a chain. The last certificate is trusted for being in the
\* store; the signature on it is not looked at.
X509_errors(chain, store) ==
    LET Links == 1..(Len(chain) - 1)
    IN  {e \in {"CertificateError"} :
            \/ ~SelfIssued(Last(chain)) \/ Last(chain) \notin store.certs
            \/ \E i \in Links : chain[i].by # chain[i + 1].key \/ ~chain[i + 1].ca}
        \union
        {e \in {"CertificateExpired"} : store.checkTime /\ \E c \in Range(chain) : c.expired}

\* X509_verify_cert(): the results are those of any chain it may build.
X509_verify_cert(target, store, untrusted) ==
    UNION {IF X509_errors(chain, store) = {} THEN {"ok"} ELSE X509_errors(chain, store) :
              chain \in X509_chains(target, store, untrusted)}

\* verifyCertificate(). fault: one of the allocations and settings fails.
verifyCertificate(bundle, certificate, untrusted, expiry, fault) ==
    IF fault THEN {"GenericCryptoError"}
    ELSE X509_verify_cert(certificate, createCaStore(bundle, expiry), untrusted)

\* DigitalSignatureImpl::verify(), with the public key of the certificate.
signatureMatches(certificate, value) == value = {certificate.key}

(***************************************************************************)
(* XML digital signatures. A document: whether it is there, well formed    *)
(* and valid by the schema, the signature value, the certificates in the   *)
(* order of the document and the references: "listed", "outside" for a     *)
(* path that leaves the package, "unreadable".                             *)
(***************************************************************************)

\* XmlDigitalSignature::parse() and createImpl(): {} or the error.
parse(doc) ==
    IF ~doc.wellFormed THEN {"XmlParseError"} ELSE IF ~doc.valid THEN {"XmlSchemaError"} ELSE {}

\* Mutant: the certificates stay in document order
sortCertificatesNot(certs) == certs

\* sortCertificates(): the first certificate that has issued no other, then
\* always the first one left that is named as issuer; none may be left over.
sortCertificates(certs) ==
    LET leaves == {i \in DOMAIN certs : ~\E j \in DOMAIN certs : isIssuer(certs[i], certs[j])}
        Following(order) ==
            {i \in DOMAIN certs \ Range(order) : isIssuer(certs[i], certs[Last(order)])}
        sorted[n \in 1..Len(certs)] ==
            IF n = 1 THEN <<Min(leaves)>>
            ELSE LET order == sorted[n - 1]
                 IN  IF Following(order) = {} THEN order ELSE Append(order, Min(Following(order)))
    IN  IF Len(certs) < 2 THEN certs
        ELSE IF leaves = {} \/ Len(sorted[Len(certs)]) # Len(certs) THEN <<>>
        ELSE [n \in DOMAIN certs |-> certs[sorted[Len(certs)][n]]]

\* signingCertificates(): none when one of them cannot be parsed.
signingCertificates(doc) ==
    IF \E i \in DOMAIN doc.certs : doc.certs[i] = {} THEN <<>>
    ELSE sortCertificates([i \in DOMAIN doc.certs |-> Cert(doc.certs[i])])

\* Mutant: the signature may be that of any certificate in the document
signedByAny(certs, value) == \E i \in DOMAIN certs : signatureMatches(certs[i], value)

\* The signature has to be that of the certificate that was verified.
signedByFirst(certs, value) == signatureMatches(Head(certs), value)

\* XmlDigitalSignatureImpl::verify()
verifyXml(doc, bundle, expiry, fault) ==
    LET certs == signingCertificates(doc)
    IN  IF doc.value = {} \/ certs = <<>> THEN {"XmlParseError"}
        ELSE {IF r = "ok" /\ ~signedByFirst(certs, doc.value) THEN "GenericCryptoError" ELSE r :
                 r \in verifyCertificate(bundle, Head(certs), Range(Tail(certs)), expiry, fault)}

\* references(): all of them, or none when one cannot be read.
references(doc) == IF "unreadable" \in Range(doc.refs) THEN <<>> ELSE doc.refs

\* W3CPackage::readAndVerifySignature()
verifyWidget(doc, bundle, expiry, fault) ==
    LET listed == references(doc) # <<>> /\ "outside" \notin Range(references(doc))
    IN  IF ~doc.present THEN {"PackageSignatureMissing"}
        ELSE IF parse(doc) # {} THEN parse(doc)
        ELSE {IF r = "ok" /\ ~listed THEN "PackageSignatureInvalid" ELSE r :
                 r \in verifyXml(doc, bundle, expiry, fault)}

(***************************************************************************)
(* The signature of an OCI package, in the annotations of its descriptor:  *)
(* the value, one certificate, and the chain in one text. Every failure    *)
(* past the first is the same error.                                       *)
(***************************************************************************)

\* verifySignaturePayload(): the signed blob names the manifest.
verifySignaturePayload(doc) == doc.refs = <<"listed">>

\* readAndVerifySignature()
verifyOCI(doc, bundle, expiry, fault) ==
    LET certificate == loadFromString(doc.certs)
        chain == IF Len(doc.certs) < 2 THEN {<<>>} ELSE loadFromStringMultiCerts(Tail(doc.certs))
    IN  IF ~doc.present THEN {"PackageSignatureMissing"}
        ELSE IF ~doc.wellFormed \/ doc.value = {} \/ certificate = {} \/ chain = {}
        THEN {"PackageSignatureInvalid"}
        ELSE {IF /\ r = "ok" /\ signatureMatches(Cert(certificate), doc.value)
                 /\ verifySignaturePayload(doc)
              THEN "ok" ELSE "PackageSignatureInvalid" :
                 r \in verifyCertificate(bundle, Cert(certificate), Range(Cert(chain)), expiry, fault)}

===============================================================================
