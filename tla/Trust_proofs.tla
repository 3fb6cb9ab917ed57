------------------------------ MODULE Trust_proofs ------------------------------
(***************************************************************************)
(* A package opens with a verification bundle only when its signature goes *)
(* back to the bundle, and what the tool prints without -n comes from such *)
(* a package: for every package, with any number of certificates in any    *)
(* order and with any names, every bundle and every command line.          *)
(***************************************************************************)
EXTENDS MCTrust, Induction, SequenceTheorems, FiniteSetTheorems, TLAPS

-------------------------------------------------------------------------------
(* Chains of certificates                                                      *)

\* From the target, each certificate is followed by one with the name of its issuer.
IsPath(chain, target, U, n) ==
  /\ chain \in Seq(U) /\ Len(chain) \in 1..(n + 1) /\ chain[1] = target
  /\ \A i \in 1..(Len(chain) - 1) : chain[i + 1].subject = chain[i].issuer

LEMMA PathGrows ==
    ASSUME NEW target, NEW U, NEW n \in Nat, NEW chain, IsPath(chain, target, U, n),
           NEW issuer \in U, issuer.subject = Last(chain).issuer
    PROVE  IsPath(Append(chain, issuer), target, U, n + 1)
    <1> DEFINE m == Len(chain)
               longer == Append(chain, issuer)
    <1>1. chain \in Seq(U) /\ m \in 1..(n + 1) /\ m \in Nat
      BY DEF IsPath
    <1>2. /\ longer \in Seq(U) /\ Len(longer) = m + 1 /\ longer[m + 1] = issuer
          /\ \A i \in 1..m : longer[i] = chain[i]
      BY <1>1, AppendProperties
    <1>3. \A i \in 1..(m - 1) : chain[i + 1].subject = chain[i].issuer
      BY DEF IsPath
    <1>4. issuer.subject = chain[m].issuer /\ chain[1] = target
      BY DEF Last, IsPath
    <1> HIDE DEF m, longer
    <1>5. ASSUME NEW i \in 1..m PROVE longer[i + 1].subject = longer[i].issuer
      <2>1. CASE i = m
        BY <1>2, <1>4, <2>1
      <2>2. CASE i # m
        <3>1. i \in 1..(m - 1) /\ i + 1 \in 1..m
          BY <1>1, <2>2
        <3> QED
          BY <1>2, <1>3, <3>1
      <2> QED
        BY <2>1, <2>2
    <1>6. Len(longer) \in 1..((n + 1) + 1) /\ Len(longer) - 1 = m
      BY <1>1, <1>2
    <1>7. longer[1] = target
      BY <1>1, <1>2, <1>4
    <1> QED
      BY <1>2, <1>5, <1>6, <1>7 DEF IsPath, longer

\* One more issuer, where there is one.
Extended(chain, store, untrusted) ==
  IF SelfIssued(Last(chain)) \/ X509_issuers(Last(chain), store, untrusted) = {} THEN {chain}
  ELSE {Append(chain, i) : i \in X509_issuers(Last(chain), store, untrusted)}

\* The recursive definition of the chains: chains[n] after n steps.
ChainsRule(chains, target, store, untrusted) ==
  /\ X509_chains(target, store, untrusted) = chains[MaxChain]
  /\ chains[0] = {<<target>>}
  /\ \A i \in 1..MaxChain :
       chains[i] = UNION {Extended(chain, store, untrusted) : chain \in chains[i - 1]}

LEMMA ChainsExist ==
    ASSUME NEW target, NEW store, NEW untrusted
    PROVE  \E chains : ChainsRule(chains, target, store, untrusted)
    <1> DEFINE n == MaxChain
               U == store.certs \union untrusted \union {target}
               T == SUBSET Seq(U)
               base == {<<target>>}
               rule(prev) == UNION {Extended(chain, store, untrusted) : chain \in prev}
               step == [pair \in T \X (1..n) |-> rule(pair[1])]
               Def(f) == f = [i \in 0..n |-> IF i = 0 THEN base ELSE rule(f[i - 1])]
               chains == CHOOSE f : Def(f)
    <1>0. n \in Nat /\ base \in T
      BY ChainAssumption
    <1>1. ASSUME NEW prev \in T PROVE rule(prev) \in T
      <2> SUFFICES ASSUME NEW chain \in Seq(U), NEW c \in Extended(chain, store, untrusted)
                   PROVE  c \in Seq(U)
        OBVIOUS
      <2>1. X509_issuers(Last(chain), store, untrusted) \subseteq U
        BY DEF X509_issuers
      <2> HIDE DEF U
      <2>2. c = chain \/ \E i \in U : c = Append(chain, i)
        BY <2>1 DEF Extended
      <2> QED
        BY <2>2, AppendProperties
    <1>2. X509_chains(target, store, untrusted) = chains[n]
      BY Zenon DEF X509_chains, Extended
    <1> HIDE DEF n, T, U, base, rule, chains
    <1>3. \E f : Def(f)
      <2>1. step \in [T \X (1..n) -> T]
        BY <1>1
      <2>2. ASSUME NEW prev \in T, NEW i \in 1..n PROVE step[<<prev, i>>] = rule(prev)
        OBVIOUS
      <2> HIDE DEF step
      <2>3. PICK f : IsRecursive(f, n, T, base, step)
        BY <1>0, <2>1, RecursionExists
      <2>4. ASSUME NEW i \in 1..n PROVE f[i] = rule(f[i - 1])
        <3>1. i - 1 \in 0..n
          BY <1>0
        <3> QED
          BY <2>2, <2>3, <3>1 DEF IsRecursive
      <2>5. ASSUME NEW i \in 0..n PROVE f[i] = IF i = 0 THEN base ELSE rule(f[i - 1])
        <3>1. i # 0 => i \in 1..n
          BY <1>0
        <3> QED
          BY <2>3, <2>4, <3>1 DEF IsRecursive
      <2>6. f = [i \in 0..n |-> IF i = 0 THEN base ELSE rule(f[i - 1])]
        BY <2>3, <2>5 DEF IsRecursive
      <2> QED
        BY <2>6
    <1>4. Def(chains)
      BY <1>3, Zenon DEF chains
    <1>5. chains[0] = base
      BY <1>0, <1>4
    <1>6. ASSUME NEW i \in 1..n PROVE chains[i] = rule(chains[i - 1])
      <2>1. i \in 0..n /\ i # 0
        BY <1>0
      <2> QED
        BY <1>4, <2>1
    <1> QED
      BY <1>2, <1>5, <1>6 DEF ChainsRule, n, base, rule

\* What X509_verify_cert() builds is a path among the certificates it was given.
LEMMA ChainsArePaths ==
    ASSUME NEW target, NEW store, NEW untrusted, NEW U, target \in U,
           store.certs \subseteq U, untrusted \subseteq U,
           NEW chain \in X509_chains(target, store, untrusted)
    PROVE  IsPath(chain, target, U, MaxChain)
    <1>0. MaxChain \in Nat
      BY ChainAssumption
    <1>1. PICK chains : ChainsRule(chains, target, store, untrusted)
      BY ChainsExist
    <1> DEFINE S == {i \in 0..MaxChain : \A c \in chains[i] : IsPath(c, target, U, i)}
    <1>2. 0 \in S
      <2>1. chains[0] = {<<target>>}
        BY <1>1 DEF ChainsRule
      <2>2. <<target>> \in Seq(U) /\ Len(<<target>>) = 1 /\ <<target>>[1] = target
        OBVIOUS
      <2>3. IsPath(<<target>>, target, U, 0)
        BY <2>2 DEF IsPath
      <2> QED
        BY <1>0, <2>1, <2>3
    <1>3. ASSUME NEW i \in 1..MaxChain, i - 1 \in S PROVE i \in S
      <2>1. i - 1 \in Nat /\ (i - 1) + 1 = i /\ i \in 0..MaxChain
        BY <1>0
      <2>2. ASSUME NEW c \in chains[i] PROVE IsPath(c, target, U, i)
        <3>1. PICK short \in chains[i - 1] : c \in Extended(short, store, untrusted)
          BY <1>1, <2>2 DEF ChainsRule
        <3>2. IsPath(short, target, U, i - 1)
          BY <1>3, <3>1
        <3>3. CASE c = short
          <4>1. 1..((i - 1) + 1) \subseteq 1..(i + 1)
            BY <2>1
          <4> QED
            BY <3>2, <3>3, <4>1 DEF IsPath
        <3>4. CASE c # short
          <4>1. PICK issuer \in X509_issuers(Last(short), store, untrusted) : c = Append(short, issuer)
            BY <3>1, <3>4 DEF Extended
          <4>2. issuer \in U /\ issuer.subject = Last(short).issuer
            BY <4>1 DEF X509_issuers
          <4>3. IsPath(Append(short, issuer), target, U, (i - 1) + 1)
            BY <2>1, <3>2, <4>2, PathGrows
          <4> QED
            BY <2>1, <4>1, <4>3
        <3> QED
          BY <3>3, <3>4
      <2> QED
        BY <2>1, <2>2
    <1> HIDE DEF S
    <1>4. 0..MaxChain \subseteq S
      BY <1>0, <1>2, <1>3, BoundedInduction
    <1>5. MaxChain \in S
      BY <1>0, <1>4
    <1> QED
      BY <1>1, <1>5 DEF S, ChainsRule

\* The recursive definition of the certificates that are vouched for.
Acceptable(bundle, certs, expiry) == {c \in bundle \union certs : expiry => ~c.expired}
Anchors(bundle, certs, expiry) ==
  {c \in bundle \intersect Acceptable(bundle, certs, expiry) : SelfIssued(c)}
IssuedBy(issuers, bundle, certs, expiry) ==
  {c \in Acceptable(bundle, certs, expiry) :
     \E i \in issuers : i.ca /\ c.issuer = i.subject /\ c.by = i.key}

VouchedRule(vouched, bundle, certs, expiry) ==
  /\ VouchedFor(bundle, certs, expiry) = vouched[MaxChain]
  /\ vouched[0] = Anchors(bundle, certs, expiry)
  /\ \A i \in 1..MaxChain :
       vouched[i] = vouched[i - 1] \union IssuedBy(vouched[i - 1], bundle, certs, expiry)

LEMMA VouchedExist ==
    ASSUME NEW bundle, NEW certs, NEW expiry
    PROVE  \E vouched : VouchedRule(vouched, bundle, certs, expiry)
    <1> DEFINE n == MaxChain
               T == SUBSET Acceptable(bundle, certs, expiry)
               base == Anchors(bundle, certs, expiry)
               rule(prev) == prev \union IssuedBy(prev, bundle, certs, expiry)
               step == [pair \in T \X (1..n) |-> rule(pair[1])]
               Def(f) == f = [i \in 0..n |-> IF i = 0 THEN base ELSE rule(f[i - 1])]
               vouched == CHOOSE f : Def(f)
    <1>0. n \in Nat /\ base \in T
      BY ChainAssumption DEF Anchors
    <1>1. ASSUME NEW prev \in T PROVE rule(prev) \in T
      BY DEF IssuedBy
    <1>2. VouchedFor(bundle, certs, expiry) = vouched[n]
      BY Zenon DEF VouchedFor, Anchors, IssuedBy, Acceptable
    <1> HIDE DEF n, T, base, rule, vouched
    <1>3. \E f : Def(f)
      <2>1. step \in [T \X (1..n) -> T]
        BY <1>1
      <2>2. ASSUME NEW prev \in T, NEW i \in 1..n PROVE step[<<prev, i>>] = rule(prev)
        OBVIOUS
      <2> HIDE DEF step
      <2>3. PICK f : IsRecursive(f, n, T, base, step)
        BY <1>0, <2>1, RecursionExists
      <2>4. ASSUME NEW i \in 1..n PROVE f[i] = rule(f[i - 1])
        <3>1. i - 1 \in 0..n
          BY <1>0
        <3> QED
          BY <2>2, <2>3, <3>1 DEF IsRecursive
      <2>5. ASSUME NEW i \in 0..n PROVE f[i] = IF i = 0 THEN base ELSE rule(f[i - 1])
        <3>1. i # 0 => i \in 1..n
          BY <1>0
        <3> QED
          BY <2>3, <2>4, <3>1 DEF IsRecursive
      <2>6. f = [i \in 0..n |-> IF i = 0 THEN base ELSE rule(f[i - 1])]
        BY <2>3, <2>5 DEF IsRecursive
      <2> QED
        BY <2>6
    <1>4. Def(vouched)
      BY <1>3, Zenon DEF vouched
    <1>5. vouched[0] = base
      BY <1>0, <1>4
    <1>6. ASSUME NEW i \in 1..n PROVE vouched[i] = rule(vouched[i - 1])
      <2>1. i \in 0..n /\ i # 0
        BY <1>0
      <2> QED
        BY <1>4, <2>1
    <1> QED
      BY <1>2, <1>5, <1>6 DEF VouchedRule, n, base, rule

\* A path of good links to a self-issued certificate of the bundle.
LEMMA PathIsVouched ==
    ASSUME NEW bundle, NEW certs, NEW expiry, NEW target, NEW chain,
           IsPath(chain, target, Acceptable(bundle, certs, expiry), MaxChain),
           Last(chain) \in bundle, SelfIssued(Last(chain)),
           \A i \in 1..(Len(chain) - 1) : chain[i].by = chain[i + 1].key /\ chain[i + 1].ca
    PROVE  target \in VouchedFor(bundle, certs, expiry)
    <1> DEFINE U == Acceptable(bundle, certs, expiry)
               m == Len(chain)
    <1>0. MaxChain \in Nat /\ m \in 1..(MaxChain + 1) /\ chain \in Seq(U) /\ chain[1] = target
      BY ChainAssumption DEF IsPath
    <1>1. PICK vouched : VouchedRule(vouched, bundle, certs, expiry)
      BY VouchedExist
    <1>2. ASSUME NEW i \in 1..(m - 1), NEW issuers, chain[i + 1] \in issuers
          PROVE  chain[i] \in IssuedBy(issuers, bundle, certs, expiry)
      <2>1. i \in 1..m
        BY <1>0
      <2>2. chain[i] \in U
        BY <1>0, <2>1, ElementOfSeq
      <2> QED
        BY <1>2, <2>2 DEF IssuedBy, IsPath
    <1>3. chain[m] \in vouched[0]
      <2>1. m \in 1..m
        BY <1>0
      <2>2. chain[m] \in U
        BY <1>0, <2>1, ElementOfSeq
      <2> QED
        BY <1>1, <2>2 DEF VouchedRule, Anchors, Last
    <1> HIDE DEF m, U
    \* After k steps the certificate k places before the end is vouched for.
    <1> DEFINE Reached(k) == IF k < m THEN m - k ELSE 1
               S == {k \in 0..MaxChain : chain[Reached(k)] \in vouched[k]}
    <1>4. 0 \in S
      <2>1. Reached(0) = m /\ 0 \in 0..MaxChain
        BY <1>0
      <2> QED
        BY <1>3, <2>1
    <1>5. ASSUME NEW k \in 1..MaxChain, k - 1 \in S PROVE k \in S
      <2>1. /\ vouched[k] = vouched[k - 1] \union IssuedBy(vouched[k - 1], bundle, certs, expiry)
            /\ chain[Reached(k - 1)] \in vouched[k - 1] /\ k \in 0..MaxChain
        BY <1>0, <1>1, <1>5 DEF VouchedRule
      <2>2. CASE k < m
        <3>1. Reached(k) \in 1..(m - 1) /\ Reached(k) + 1 = Reached(k - 1)
          BY <1>0, <2>2
        <3> HIDE DEF Reached
        <3>2. chain[Reached(k)] \in IssuedBy(vouched[k - 1], bundle, certs, expiry)
          BY <1>2, <2>1, <3>1
        <3> QED
          BY <2>1, <3>2
      <2>3. CASE ~(k < m)
        <3>1. Reached(k) = Reached(k - 1)
          BY <1>0, <2>3
        <3> QED
          BY <2>1, <3>1
      <2> QED
        BY <2>2, <2>3
    <1>6. Reached(MaxChain) = 1
      BY <1>0
    <1> HIDE DEF S, Reached
    <1>7. 0..MaxChain \subseteq S
      BY <1>0, <1>4, <1>5, BoundedInduction
    <1>8. chain[1] \in vouched[MaxChain]
      BY <1>0, <1>6, <1>7 DEF S
    <1> QED
      BY <1>0, <1>1, <1>8 DEF VouchedRule

\* verifyCertificate() accepts only a certificate that the bundle vouches for.
LEMMA VerifiedIsVouched ==
    ASSUME NEW bundle, NEW certs, NEW untrusted, NEW expiry, NEW f, NEW target,
           target \in certs, untrusted \subseteq certs,
           "ok" \in verifyCertificate(bundle, target, untrusted, expiry, f)
    PROVE  target \in VouchedFor(bundle, certs, expiry)
    <1> DEFINE store == createCaStore(bundle, expiry)
               U == bundle \union certs
    <1>1. store.certs = bundle /\ store.checkTime = expiry
      BY DEF createCaStore
    <1>2. "ok" \in X509_verify_cert(target, store, untrusted)
      BY DEF verifyCertificate
    <1> HIDE DEF store
    <1>3. PICK chain \in X509_chains(target, store, untrusted) : X509_errors(chain, store) = {}
      <2>1. PICK chain \in X509_chains(target, store, untrusted) :
              "ok" \in IF X509_errors(chain, store) = {} THEN {"ok"} ELSE X509_errors(chain, store)
        BY <1>2 DEF X509_verify_cert
      <2>2. "ok" \notin X509_errors(chain, store)
        BY DEF X509_errors
      <2> QED
        BY <2>1, <2>2
    <1>4. IsPath(chain, target, U, MaxChain)
      BY <1>1, ChainsArePaths
    <1>5. /\ SelfIssued(Last(chain)) /\ Last(chain) \in bundle
          /\ \A i \in 1..(Len(chain) - 1) : chain[i].by = chain[i + 1].key /\ chain[i + 1].ca
          /\ expiry => \A c \in Range(chain) : ~c.expired
      BY <1>1, <1>3 DEF X509_errors
    <1>6. IsPath(chain, target, Acceptable(bundle, certs, expiry), MaxChain)
      <2> DEFINE A == Acceptable(bundle, certs, expiry)
      <2>1. chain \in Seq(U) /\ DOMAIN chain = 1..Len(chain)
        BY <1>4, LenProperties DEF IsPath
      <2>2. \A i \in 1..Len(chain) : chain[i] \in A
        BY <1>5, <2>1, ElementOfSeq DEF Range, Acceptable
      <2> HIDE DEF A, U
      <2>3. chain \in Seq(A)
        BY <2>1, <2>2, SeqDef, LenProperties
      <2> QED
        BY <1>4, <2>3 DEF IsPath, A
    <1> QED
      BY <1>5, <1>6, PathIsVouched

-------------------------------------------------------------------------------
(* Sorting the certificates of a widget                                        *)

Leaves(certs) == {i \in DOMAIN certs : ~\E j \in DOMAIN certs : isIssuer(certs[i], certs[j])}
Followers(certs, order) ==
  {i \in DOMAIN certs \ Range(order) : isIssuer(certs[i], certs[Last(order)])}
Followed(certs, order) ==
  IF Followers(certs, order) = {} THEN order ELSE Append(order, Min(Followers(certs, order)))

\* The recursive definition of the order: sorted[n] after n certificates.
SortedRule(sorted, certs) ==
  /\ sorted[1] = <<Min(Leaves(certs))>>
  /\ \A i \in 2..Len(certs) : sorted[i] = Followed(certs, sorted[i - 1])
  /\ \A i \in 1..Len(certs) : sorted[i] \in Seq(DOMAIN certs)
  /\ sortCertificates(certs) = IF Len(sorted[Len(certs)]) # Len(certs) THEN <<>>
                               ELSE [n \in DOMAIN certs |-> certs[sorted[Len(certs)][n]]]

LEMMA SortedExist ==
    ASSUME NEW C, NEW certs \in Seq(C), Len(certs) >= 2, Leaves(certs) # {}
    PROVE  \E sorted : SortedRule(sorted, certs)
    <1> DEFINE m == Len(certs)
               n == m - 1
               D == DOMAIN certs
               T == Seq(D)
               base == <<Min(Leaves(certs))>>
               rule(prev) == Followed(certs, prev)
               step == [pair \in T \X (1..n) |-> rule(pair[1])]
               Def(f) == f = [i \in 1..m |-> IF i = 1 THEN base ELSE rule(f[i - 1])]
               sorted == CHOOSE f : Def(f)
    <1>0. m \in Nat /\ n \in Nat /\ m >= 2 /\ D = 1..m
      <2>1. m \in Nat /\ D = 1..m
        BY LenProperties
      <2> QED
        BY <2>1
    <1>1. base \in T
      <2>1. Leaves(certs) \subseteq D /\ D \subseteq Nat
        BY <1>0 DEF Leaves
      <2>2. Min(Leaves(certs)) \in D
        BY <2>1, MinIsLeast
      <2> HIDE DEF D
      <2> QED
        BY <2>2
    <1>2. ASSUME NEW prev \in T PROVE rule(prev) \in T
      <2>1. Followers(certs, prev) \subseteq D /\ D \subseteq Nat
        BY <1>0 DEF Followers
      <2>2. Followers(certs, prev) # {} => Min(Followers(certs, prev)) \in D
        BY <2>1, MinIsLeast
      <2> HIDE DEF D
      <2> QED
        BY <2>2, AppendProperties DEF Followed
    <1>3. sortCertificates(certs) = IF Len(sorted[m]) # m THEN <<>>
                                    ELSE [i \in D |-> certs[sorted[m][i]]]
      <2>1. ~(Len(certs) < 2)
        BY <1>0
      <2>2. sortCertificates(certs) =
              IF Len(certs) < 2 THEN certs
              ELSE IF Leaves(certs) = {} \/ Len(sorted[m]) # m THEN <<>>
              ELSE [i \in D |-> certs[sorted[m][i]]]
        BY Zenon DEF sortCertificates, Leaves, Followers, Followed
      <2> HIDE DEF sorted
      <2> QED
        BY <2>1, <2>2
    <1> HIDE DEF m, n, T, D, base, rule, sorted
    <1>4. \E f : Def(f)
      <2>1. step \in [T \X (1..n) -> T]
        BY <1>2
      <2>2. ASSUME NEW prev \in T, NEW i \in 1..n PROVE step[<<prev, i>>] = rule(prev)
        OBVIOUS
      <2> HIDE DEF step
      <2>3. PICK g : IsRecursive(g, n, T, base, step)
        BY <1>0, <1>1, <2>1, RecursionExists
      <2> DEFINE f == [i \in 1..m |-> g[i - 1]]
      <2>4. ASSUME NEW i \in 1..m PROVE f[i] = IF i = 1 THEN base ELSE rule(f[i - 1])
        <3>1. CASE i = 1
          BY <1>0, <2>3, <3>1 DEF IsRecursive
        <3>2. CASE i # 1
          <4>1. i - 1 \in 1..n /\ i - 1 \in 1..m /\ (i - 1) - 1 \in 0..n
            BY <1>0, <3>2 DEF n
          <4>2. g[i - 1] = rule(g[(i - 1) - 1])
            BY <2>2, <2>3, <4>1 DEF IsRecursive
          <4> QED
            BY <3>2, <4>1, <4>2
        <3> QED
          BY <3>1, <3>2
      <2>5. f = [i \in 1..m |-> f[i]]
        OBVIOUS
      <2> HIDE DEF f
      <2>6. f = [i \in 1..m |-> IF i = 1 THEN base ELSE rule(f[i - 1])]
        BY <2>4, <2>5
      <2> QED
        BY <2>6
    <1>5. Def(sorted)
      BY <1>4, Zenon DEF sorted
    <1>6. sorted[1] = base
      BY <1>0, <1>5
    <1>7. ASSUME NEW i \in 2..m PROVE sorted[i] = rule(sorted[i - 1])
      <2>1. i \in 1..m /\ i # 1
        BY <1>0
      <2> QED
        BY <1>5, <2>1
    <1>8. ASSUME NEW i \in 1..m PROVE sorted[i] \in T
      <2> DEFINE f == [k \in 0..n |-> sorted[k + 1]]
      <2>1. f[0] \in T
        BY <1>0, <1>1, <1>6
      <2>2. ASSUME NEW k \in 1..n, f[k - 1] \in T PROVE f[k] \in T
        <3>1. k - 1 \in 0..n /\ k \in 0..n /\ k + 1 \in 2..m /\ (k + 1) - 1 = k /\ (k - 1) + 1 = k
          BY <1>0 DEF n
        <3> QED
          BY <1>2, <1>7, <2>2, <3>1
      <2> HIDE DEF f
      <2>3. \A k \in 0..n : f[k] \in T
        BY <1>0, <2>1, <2>2, RecursionType
      <2>4. i - 1 \in 0..n /\ (i - 1) + 1 = i
        BY <1>0 DEF n
      <2> QED
        BY <2>3, <2>4 DEF f
    <1> QED
      BY <1>3, <1>6, <1>7, <1>8 DEF SortedRule, m, D, T, base, rule

\* Sorting adds no certificate.
LEMMA SortKeeps ==
    ASSUME NEW C, NEW certs \in Seq(C)
    PROVE  sortCertificates(certs) \in Seq(C)
    <1> DEFINE m == Len(certs)
    <1>0. m \in Nat /\ DOMAIN certs = 1..m
      BY LenProperties
    <1>1. CASE m < 2
      BY <1>1 DEF sortCertificates
    <1>2. CASE ~(m < 2) /\ Leaves(certs) = {}
      <2>1. sortCertificates(certs) = <<>>
        BY <1>2 DEF sortCertificates, Leaves
      <2> QED
        BY <2>1
    <1>3. CASE ~(m < 2) /\ Leaves(certs) # {}
      <2>1. PICK sorted : SortedRule(sorted, certs)
        <3>1. m >= 2
          BY <1>0, <1>3
        <3> QED
          BY <1>3, <3>1, SortedExist
      <2> DEFINE order == sorted[m]
      <2>2. order \in Seq(DOMAIN certs) /\ m \in 1..m
        BY <1>0, <1>3, <2>1 DEF SortedRule
      <2>3. sortCertificates(certs) = IF Len(order) # m THEN <<>>
                                      ELSE [i \in DOMAIN certs |-> certs[order[i]]]
        BY <2>1 DEF SortedRule
      <2> HIDE DEF order, m
      <2>4. CASE Len(order) # m
        BY <2>3, <2>4
      <2>5. CASE Len(order) = m
        <3>1. \A i \in 1..m : certs[order[i]] \in C
          BY <1>0, <2>2, <2>5, ElementOfSeq
        <3>2. [i \in 1..m |-> certs[order[i]]] \in Seq(C)
          BY <1>0, <3>1, IsASeq
        <3> QED
          BY <1>0, <2>3, <2>5, <3>2
      <2> QED
        BY <2>4, <2>5
    <1> QED
      BY <1>1, <1>2, <1>3

-------------------------------------------------------------------------------
(* The signatures of packages                                                  *)

LEMMA CertIsMember == ASSUME NEW option, option # {} PROVE Cert(option) \in option
    BY DEF Cert

\* The certificates of a signature, readable or not.
AllOf(texts) == UNION Range(texts)

LEMMA CertOf ==
    ASSUME NEW C, NEW texts \in Seq(SUBSET C), NEW i \in DOMAIN texts, texts[i] # {}
    PROVE  Cert(texts[i]) \in AllOf(texts)
    BY CertIsMember DEF AllOf, Range

\* parseMultipleCert() gives certificates of the text.
LEMMA ParsedCerts ==
    ASSUME NEW C, NEW text \in Seq(SUBSET C)
    PROVE  parseMultipleCert(text) \in Seq(AllOf(text))
    <1> DEFINE bad == {i \in DOMAIN text : text[i] = {}}
               m == Len(text)
               n == IF bad = {} THEN m ELSE Min(bad) - 1
               A == AllOf(text)
    <1>1. m \in Nat /\ DOMAIN text = 1..m
      BY LenProperties
    <1>2. bad # {} => Min(bad) \in bad /\ \A i \in bad : Min(bad) <= i
      <2>1. bad \subseteq Nat
        BY <1>1
      <2> HIDE DEF bad
      <2> QED
        BY <2>1, MinIsLeast
    <1>3. bad \subseteq 1..m
      BY <1>1
    <1>4. n \in Nat /\ \A i \in 1..n : i \in 1..m /\ i \notin bad
      <2> DEFINE least == Min(bad)
      <2> HIDE DEF bad, m, least
      <2>1. CASE bad = {}
        BY <1>1, <2>1
      <2>2. CASE bad # {}
        <3>1. least \in 1..m /\ \A i \in bad : least <= i
          BY <1>2, <1>3, <2>2 DEF least
        <3>2. n = least - 1
          BY <2>2 DEF least
        <3> HIDE DEF n
        <3> QED
          BY <1>1, <1>3, <3>1, <3>2
      <2> QED
        BY <2>1, <2>2
    <1>5. \A i \in 1..n : Cert(text[i]) \in A
      BY <1>1, <1>4, CertOf
    <1>6. parseMultipleCert(text) = [i \in 1..n |-> Cert(text[i])]
      BY DEF parseMultipleCert
    <1> HIDE DEF n, A
    <1>7. [i \in 1..n |-> Cert(text[i])] \in Seq(A)
      BY <1>4, <1>5, IsASeq
    <1> QED
      BY <1>6, <1>7 DEF A

\* A signature that the bundle vouches for.
Vouches(bundle, doc, expiry) ==
  \E c \in AllOf(doc.certs) \intersect VouchedFor(bundle, AllOf(doc.certs), expiry) :
    doc.value = {c.key}

LEMMA XmlVouched ==
    ASSUME NEW C, NEW doc, doc.certs \in Seq(SUBSET C), NEW bundle, NEW expiry, NEW f,
           "ok" \in verifyXml(doc, bundle, expiry, f)
    PROVE  Vouches(bundle, doc, expiry)
    <1> DEFINE certs == signingCertificates(doc)
               A == AllOf(doc.certs)
    <1>1. certs \in Seq(A)
      <2>1. CASE \E i \in DOMAIN doc.certs : doc.certs[i] = {}
        <3>1. certs = <<>>
          BY <2>1 DEF signingCertificates
        <3> HIDE DEF certs, A
        <3> QED
          BY <3>1
      <2>2. CASE ~\E i \in DOMAIN doc.certs : doc.certs[i] = {}
        <3> DEFINE parsed == [i \in DOMAIN doc.certs |-> Cert(doc.certs[i])]
        <3>1. \A i \in DOMAIN doc.certs : Cert(doc.certs[i]) \in A
          BY <2>2, CertOf
        <3>2. DOMAIN doc.certs = 1..Len(doc.certs) /\ Len(doc.certs) \in Nat
          BY LenProperties
        <3>3. certs = sortCertificates(parsed)
          BY <2>2 DEF signingCertificates
        <3> HIDE DEF A
        <3>4. parsed \in Seq(A)
          BY <3>1, <3>2, IsASeq
        <3> HIDE DEF parsed, certs
        <3> QED
          BY <3>3, <3>4, SortKeeps
      <2> QED
        BY <2>1, <2>2
    <1>2. PICK r \in verifyCertificate(bundle, Head(certs), Range(Tail(certs)), expiry, f) :
            /\ certs # <<>>
            /\ "ok" = IF r = "ok" /\ ~signedByFirst(certs, doc.value) THEN "GenericCryptoError" ELSE r
      BY DEF verifyXml
    <1>3. r = "ok" /\ signedByFirst(certs, doc.value)
      BY <1>2
    <1> HIDE DEF certs, A
    <1>4. Head(certs) \in A /\ Tail(certs) \in Seq(A)
      BY <1>1, <1>2, HeadTailProperties
    <1>5. Range(Tail(certs)) \subseteq A
      BY <1>4, ElementOfSeq, LenProperties DEF Range
    <1>6. Head(certs) \in VouchedFor(bundle, A, expiry)
      BY <1>2, <1>3, <1>4, <1>5, VerifiedIsVouched
    <1> QED
      BY <1>3, <1>4, <1>6 DEF Vouches, A, signedByFirst, signatureMatches

LEMMA WidgetVouched ==
    ASSUME NEW C, NEW doc, doc.certs \in Seq(SUBSET C), NEW bundle, NEW expiry, NEW f,
           "ok" \in verifyWidget(doc, bundle, expiry, f)
    PROVE  Vouches(bundle, doc, expiry)
    <1>1. "ok" \in verifyXml(doc, bundle, expiry, f)
      BY DEF verifyWidget, parse
    <1> QED
      BY <1>1, XmlVouched

LEMMA OCIVouched ==
    ASSUME NEW C, NEW doc, doc.certs \in Seq(SUBSET C), NEW bundle, NEW expiry, NEW f,
           "ok" \in verifyOCI(doc, bundle, expiry, f)
    PROVE  Vouches(bundle, doc, expiry)
    <1> DEFINE certificate == loadFromString(doc.certs)
               chain == IF Len(doc.certs) < 2 THEN {<<>>} ELSE loadFromStringMultiCerts(Tail(doc.certs))
               A == AllOf(doc.certs)
    <1>1. /\ certificate # {} /\ chain # {} /\ signatureMatches(Cert(certificate), doc.value)
          /\ "ok" \in verifyCertificate(bundle, Cert(certificate), Range(Cert(chain)), expiry, f)
      <2>1. PICK r \in verifyCertificate(bundle, Cert(certificate), Range(Cert(chain)), expiry, f) :
              /\ certificate # {} /\ chain # {}
              /\ "ok" = IF /\ r = "ok" /\ signatureMatches(Cert(certificate), doc.value)
                           /\ verifySignaturePayload(doc)
                        THEN "ok" ELSE "PackageSignatureInvalid"
        BY DEF verifyOCI
      <2> HIDE DEF certificate, chain
      <2> QED
        BY <2>1
    <1>2. Cert(certificate) \in A
      <2>1. doc.certs # <<>> /\ certificate = Head(doc.certs)
        BY <1>1 DEF loadFromString, parseCert
      <2>2. certificate = doc.certs[1] /\ 1 \in DOMAIN doc.certs
        BY <2>1, HeadTailProperties, EmptySeq, LenProperties
      <2> HIDE DEF certificate
      <2> QED
        BY <1>1, <2>2, CertOf
    <1>3. Cert(chain) \in Seq(A)
      <2>1. CASE Len(doc.certs) < 2
        <3>1. Cert({<<>>}) \in {<<>>}
          BY CertIsMember
        <3> QED
          BY <2>1, <3>1
      <2>2. CASE ~(Len(doc.certs) < 2)
        <3> DEFINE texts == doc.certs
                   rest == Tail(texts)
        <3>1. /\ rest \in Seq(SUBSET C) /\ texts # <<>>
              /\ \A i \in DOMAIN rest : i + 1 \in DOMAIN texts /\ rest[i] = texts[i + 1]
          <4> HIDE DEF texts
          <4>1. texts \in Seq(SUBSET C) /\ texts # <<>>
            BY <2>2 DEF texts
          <4>2. /\ rest \in Seq(SUBSET C) /\ Len(rest) = Len(texts) - 1
                /\ \A i \in 1..Len(rest) : rest[i] = texts[i + 1]
            BY <4>1, HeadTailProperties
          <4>3. DOMAIN rest = 1..Len(rest) /\ DOMAIN texts = 1..Len(texts) /\ Len(texts) \in Nat
            BY <4>1, <4>2, LenProperties
          <4> QED
            BY <4>1, <4>2, <4>3
        <3>2. AllOf(rest) \subseteq A
          BY <3>1 DEF AllOf, Range
        <3>3. chain \subseteq {parseMultipleCert(rest)}
          BY <2>2 DEF loadFromStringMultiCerts
        <3> HIDE DEF chain, rest, A
        <3>4. Cert(chain) = parseMultipleCert(rest)
          BY <1>1, <3>3, CertIsMember
        <3>5. parseMultipleCert(rest) \in Seq(AllOf(rest))
          BY <3>1, ParsedCerts
        <3>6. Seq(AllOf(rest)) \subseteq Seq(A)
          BY <3>2, SeqDef
        <3> QED
          BY <3>4, <3>5, <3>6
      <2> QED
        BY <2>1, <2>2
    <1> HIDE DEF certificate, chain, A
    <1>4. Range(Cert(chain)) \subseteq A
      BY <1>3, ElementOfSeq, LenProperties DEF Range
    <1>5. Cert(certificate) \in VouchedFor(bundle, A, expiry)
      BY <1>1, <1>2, <1>4, VerifiedIsVouched
    <1> QED
      BY <1>1, <1>2, <1>5 DEF Vouches, A, signatureMatches

-------------------------------------------------------------------------------
(* The tool                                                                    *)

\* Before the package is open nothing has come out of it; once it is open its signature was
\* found good, unless verification was off, by the certificates that the options name.
Credentials == IF opts.verify THEN {LoadedCertificates} ELSE {}

NothingOut ==
  /\ pc \in {"args", "certs", "open"} => package = {}
  /\ pc = "run" => package # {}
  /\ pc # "exit" => out = {}
  /\ package = {} => out = {}

OpenInv ==
  /\ pc = "open" \/ package # {} => creds = Credentials
  /\ package # {} =>
       /\ package = {[format |-> Open.format, verified |-> creds # {}]}
       /\ creds # {} => Vouches(Cert(creds), pkg.sig, opts.expiry)

GenuineInv ==
  pc = "exit" /\ opts.verify /\ status = 0 =>
    \A p \in {"meta", "body", "aux"} : <<p, "altered">> \notin out

ToolInv ==
  /\ pkg.sig.certs \in Seq(SUBSET Certificate)
  /\ pc \in {"args", "certs", "open", "run", "exit"}
  /\ NothingOut /\ OpenInv /\ GenuineInv

LEMMA ToolInit == Init => ToolInv
    BY ScenarioAssumption DEF Init, ToolInv, NothingOut, OpenInv, GenuineInv

\* Until the package is open.
LEMMA BeforeOpen ==
    ASSUME ToolInv, pc \in {"args", "certs"}, UNCHANGED <<pkg, package, out>>,
           pc' \in {"args", "certs", "exit"}
    PROVE  ToolInv'
    <1>1. package = {} /\ out = {} /\ package' = {} /\ out' = {}
      BY DEF ToolInv, NothingOut
    <1> QED
      BY <1>1 DEF ToolInv, NothingOut, OpenInv, GenuineInv

LEMMA OpenKeeps == ASSUME ToolInv, OpenPackage PROVE ToolInv'
    <1>1. /\ pc = "open" /\ package = {} /\ out = {} /\ creds = Credentials
          /\ UNCHANGED <<opts, pkg, creds, out>>
      BY DEF OpenPackage, ToolInv, NothingOut, OpenInv
    <1> DEFINE format == detectPackageFormat(pkg.entries)
    <1>a. PICK f \in BOOLEAN :
            \E r \in openPackageImpl(format, creds, opts.expiry, f) :
                IF r = "ok"
                THEN package' = {[format |-> format, verified |-> creds # {}]} /\ pc' = "run"
                ELSE pc' = "exit" /\ UNCHANGED package
      BY DEF OpenPackage, Exit
    <1>2. PICK r \in openPackageImpl(format, creds, opts.expiry, f) :
            IF r = "ok"
            THEN package' = {[format |-> format, verified |-> creds # {}]} /\ pc' = "run"
            ELSE pc' = "exit" /\ UNCHANGED package
      BY <1>a
    <1>3. CASE r # "ok"
      BY <1>1, <1>2, <1>3 DEF ToolInv, NothingOut, OpenInv, GenuineInv
    <1>4. CASE r = "ok"
      <2>1. creds # {} => Vouches(Cert(creds), pkg.sig, opts.expiry)
        <3>1. creds # {} => \/ "ok" \in verifyOCI(pkg.sig, Cert(creds), opts.expiry, f)
                            \/ "ok" \in verifyWidget(pkg.sig, Cert(creds), opts.expiry, f)
          BY <1>2, <1>4 DEF openPackageImpl
        <3> QED
          BY <3>1, OCIVouched, WidgetVouched DEF ToolInv
      <2> DEFINE opened == [format |-> format, verified |-> creds # {}]
      <2>2. package' = {opened} /\ pc' = "run"
        BY <1>2, <1>4
      <2>3. Open' = opened
        BY <2>2, CertIsMember DEF Open, Cert
      <2>4. opened.format = format
        OBVIOUS
      <2>5. Credentials' = Credentials
        BY <1>1 DEF Credentials, LoadedCertificates, CertificatePaths, loadFromFile
      <2>6. package' = {[format |-> Open'.format, verified |-> creds' # {}]}
        BY <1>1, <2>2, <2>3, <2>4
      <2>7. OpenInv'
        BY <1>1, <2>1, <2>5, <2>6 DEF OpenInv
      <2>8. NothingOut' /\ GenuineInv'
        BY <1>1, <2>2 DEF NothingOut, GenuineInv
      <2> QED
        BY <1>1, <2>2, <2>7, <2>8 DEF ToolInv
    <1> QED
      BY <1>3, <1>4

\* What an operation prints when it succeeds is genuine, or was not read from the package.
LEMMA RunKeeps ==
    ASSUME ToolInv, pc = "run", UNCHANGED <<opts, pkg, creds, package>>, pc' = "exit",
           opts.verify /\ status' = 0 =>
             \A p \in {"meta", "body", "aux"} : <<p, "altered">> \notin out'
    PROVE  ToolInv'
    <1>1. package # {} /\ package' # {}
      BY DEF ToolInv, NothingOut
    <1>2. NothingOut' /\ GenuineInv'
      BY <1>1 DEF NothingOut, GenuineInv
    <1>3. Credentials' = Credentials /\ Open' = Open
      BY DEF Credentials, LoadedCertificates, CertificatePaths, loadFromFile, Open
    <1>4. OpenInv'
      BY <1>1, <1>3 DEF ToolInv, OpenInv
    <1> QED
      BY <1>2, <1>4 DEF ToolInv

\* With verification, reading succeeds only for what the signer made.
LEMMA ReadsGenuine ==
    ASSUME ToolInv, pc = "run", opts.verify, NEW piece, ReadSucceeds(piece)
    PROVE  pkg[piece] = "genuine"
    <1>1. package # {} /\ creds # {} /\ package = {[format |-> Open.format, verified |-> creds # {}]}
      BY DEF ToolInv, NothingOut, OpenInv, Credentials
    <1>2. Open \in package
      BY <1>1, CertIsMember DEF Open
    <1>3. Open.verified = (creds # {})
      BY <1>1, <1>2
    <1> QED
      BY <1>1, <1>3 DEF ReadSucceeds

LEMMA ToolStep == ToolInv /\ [Next]_vars => ToolInv'
    <1> SUFFICES ASSUME ToolInv, [Next]_vars PROVE ToolInv'
      OBVIOUS
    <1>1. CASE ParseArg
      <2>1. pc' \in {"args", "exit"}
        BY <1>1 DEF ParseArg, Exit
      <2> QED
        BY <1>1, <2>1, BeforeOpen DEF ParseArg
    <1>2. CASE CheckOperation
      BY <1>2, BeforeOpen DEF CheckOperation, Exit
    <1>3. CASE LoadCertificates
      <2>1. CASE pc' = "exit"
        BY <1>3, <2>1, BeforeOpen DEF LoadCertificates
      <2>2. CASE pc' # "exit"
        <3>1. /\ pc' = "open" /\ creds' = Credentials /\ UNCHANGED <<opts, pkg, package, out>>
              /\ package = {} /\ out = {}
          BY <1>3, <2>2 DEF LoadCertificates, Exit, Creds, Credentials, ToolInv, NothingOut
        <3>2. Credentials' = Credentials
          BY <3>1 DEF Credentials, LoadedCertificates, CertificatePaths, loadFromFile
        <3> QED
          BY <3>1, <3>2 DEF ToolInv, NothingOut, OpenInv, GenuineInv
      <2> QED
        BY <2>1, <2>2
    <1>4. CASE OpenPackage
      BY <1>4, OpenKeeps
    <1>5. CASE VerifyPackage
      BY <1>5, RunKeeps DEF VerifyPackage, Operation, Prints, Fails, Exit
    <1>6. CASE ListPackage
      <2>1. \A o \in out' : o[1] = "name"
        BY <1>6 DEF ListPackage, Prints, Fails
      <2> QED
        BY <1>6, <2>1, RunKeeps DEF ListPackage, Operation, Prints, Fails, Exit
    <1>7. CASE ExtractPackage
      <2>1. pc = "run" /\ pc' = "exit" /\ UNCHANGED <<opts, pkg, creds, package>>
        BY <1>7 DEF ExtractPackage, Operation, extractTo, Prints, Exit
      <2>2. status' = 0 => ReadSucceeds("body") /\ out' = {<<"body", pkg.body>>}
        BY <1>7 DEF ExtractPackage, extractTo, Prints, Exit
      <2>3. opts.verify /\ status' = 0 => pkg.body = "genuine"
        BY <2>1, <2>2, ReadsGenuine
      <2> QED
        BY <2>1, <2>2, <2>3, RunKeeps
    <1>8. CASE MountPackage
      BY <1>8, RunKeeps DEF MountPackage, Operation, Prints, Fails, Exit
    <1>9. CASE DumpMetadata
      <2>1. pc = "run" /\ pc' = "exit" /\ UNCHANGED <<opts, pkg, creds, package>>
        BY <1>9 DEF DumpMetadata, Operation, extractSingleFileTo, extractAuxMetaDataTo, metaData,
                    Prints, Fails, Exit
      <2>2. status' = 0 => ReadSucceeds("meta") /\ out' = {<<"meta", pkg.meta>>}
        BY <1>9 DEF DumpMetadata, extractSingleFileTo, extractAuxMetaDataTo, metaData, Prints, Fails, Exit
      <2>3. opts.verify /\ status' = 0 => pkg.meta = "genuine"
        BY <2>1, <2>2, ReadsGenuine
      <2> QED
        BY <2>1, <2>2, <2>3, RunKeeps
    <1>10. CASE DumpAuxMetadata
      <2>1. pc = "run" /\ pc' = "exit" /\ UNCHANGED <<opts, pkg, creds, package>>
        BY <1>10 DEF DumpAuxMetadata, Operation, extractAuxMetaDataTo, Prints, Fails, Exit
      <2>2. status' = 0 => \/ ReadSucceeds("aux") /\ out' = {<<"aux", pkg.aux>>}
                           \/ \A o \in out' : o[1] = "type"
        <3>1. CASE out' = {<<"type", k>> : k \in pkg.auxTypes}
          BY <3>1
        <3>2. CASE extractAuxMetaDataTo("aux")
          BY <3>2 DEF extractAuxMetaDataTo, Prints, Fails, Exit
        <3>3. CASE Fails
          BY <3>3 DEF Fails, Exit
        <3> QED
          BY <1>10, <3>1, <3>2, <3>3 DEF DumpAuxMetadata, Prints
      <2>3. opts.verify /\ status' = 0 /\ ReadSucceeds("aux") => pkg.aux = "genuine"
        BY <2>1, ReadsGenuine
      <2> QED
        BY <2>1, <2>2, <2>3, RunKeeps
    <1>11. CASE DumpSignatureInfo
      <2>1. \A o \in out' : o[1] = "cert"
        BY <1>11 DEF DumpSignatureInfo, Prints
      <2> QED
        BY <1>11, <2>1, RunKeeps DEF DumpSignatureInfo, Operation, Prints, Exit
    <1>12. CASE UNCHANGED vars
      BY <1>12 DEF vars, ToolInv, NothingOut, OpenInv, GenuineInv, Credentials, Open, LoadedCertificates,
                   CertificatePaths, loadFromFile
    <1> QED
      BY <1>1, <1>2, <1>3, <1>4, <1>5, <1>6, <1>7, <1>8, <1>9, <1>10, <1>11, <1>12 DEF Next

\* The invariant of main(), from parsing the options to the exit code.
THEOREM ToolInvariant == Spec => []ToolInv
    BY ToolInit, ToolStep, PTL DEF Spec

\* Package::open() with a bundle accepts a package, of either format, only when its signature
\* value was made with the key of a certificate of the package that goes back, issuer by
\* issuer, to a self-issued certificate of the bundle.
THEOREM TrustIsSound == Spec => []TrustSound
    <1>1. ToolInv => TrustSound
      BY DEF ToolInv, OpenInv, TrustSound, SignatureVouchedFor, Vouches, AllOf
    <1> QED
      BY <1>1, ToolInvariant, PTL

\* Unless unwgt is told not to verify, nothing comes out of a package that the certificates of
\* the user do not vouch for, and an exit code of 0 means that what came out is the signer's.
THEOREM ToolOnlyVerified == Spec => []OnlyVerified
    <1>1. ASSUME ToolInv, pc = "exit", opts.verify, out # {} \/ package # {}
          PROVE  SignatureVouchedFor(LoadedCertificates)
      <2>1. package # {} /\ creds = {LoadedCertificates}
        BY <1>1 DEF ToolInv, NothingOut, OpenInv, Credentials
      <2>2. Cert(creds) = LoadedCertificates
        BY <2>1, CertIsMember
      <2> QED
        BY <1>1, <2>1, <2>2 DEF ToolInv, OpenInv, SignatureVouchedFor, Vouches, AllOf
    <1>2. ToolInv => OnlyVerified
      BY <1>1 DEF ToolInv, GenuineInv, OnlyVerified
    <1> QED
      BY <1>2, ToolInvariant, PTL

-------------------------------------------------------------------------------
(* The object of a widget package                                              *)

\* The totals of the first entries.
Totals(f, entries) ==
    /\ f[0] = 0
    /\ \A i \in 1..Len(entries) : f[i] = f[i - 1] + Widget!EntrySize(entries[i])
    /\ f[Len(entries)] = Widget!TotalSize(entries)

LEMMA SizesAreNumbers ==
    ASSUME NEW e \in Widget!Entry
    PROVE  Widget!EntrySize(e) \in Nat
    BY WidgetAssumption DEF Widget!Entry, Widget!EntrySize

LEMMA TotalsExist ==
    ASSUME NEW entries \in Seq(Widget!Entry)
    PROVE  \E f : Totals(f, entries) /\ \A i \in 0..Len(entries) : f[i] \in Nat
    <1> DEFINE n == Len(entries)
               rule(prev, i) == prev + Widget!EntrySize(entries[i])
               step == [pair \in Nat \X (1..n) |-> rule(pair[1], pair[2])]
               Def(f) == f = [i \in 0..n |-> IF i = 0 THEN 0 ELSE rule(f[i - 1], i)]
               total == CHOOSE f : Def(f)
    <1>0. n \in Nat /\ 0 \in Nat
      OBVIOUS
    <1>1. ASSUME NEW prev \in Nat, NEW i \in 1..n PROVE rule(prev, i) \in Nat
      <2>1. entries[i] \in Widget!Entry
        BY ElementOfSeq
      <2> QED
        BY <2>1, SizesAreNumbers
    <1>2. Widget!TotalSize(entries) = total[n]
      BY Zenon DEF Widget!TotalSize
    <1> HIDE DEF n, rule, total
    <1>3. \E f : Def(f)
      <2>1. step \in [Nat \X (1..n) -> Nat]
        BY <1>1
      <2>2. ASSUME NEW prev \in Nat, NEW i \in 1..n PROVE step[<<prev, i>>] = rule(prev, i)
        OBVIOUS
      <2> HIDE DEF step
      <2>3. PICK f : IsRecursive(f, n, Nat, 0, step)
        BY <1>0, <2>1, RecursionExists
      <2>4. ASSUME NEW i \in 1..n PROVE f[i] = rule(f[i - 1], i)
        <3>1. i - 1 \in 0..n
          BY <1>0
        <3> QED
          BY <2>2, <2>3, <3>1 DEF IsRecursive
      <2>5. ASSUME NEW i \in 0..n PROVE f[i] = IF i = 0 THEN 0 ELSE rule(f[i - 1], i)
        <3>1. i # 0 => i \in 1..n
          BY <1>0
        <3> QED
          BY <2>3, <2>4, <3>1 DEF IsRecursive
      <2>6. f = [i \in 0..n |-> IF i = 0 THEN 0 ELSE rule(f[i - 1], i)]
        BY <2>3, <2>5 DEF IsRecursive
      <2> QED
        BY <2>6
    <1>4. Def(total)
      BY <1>3, Zenon DEF total
    <1>5. total[0] = 0
      BY <1>0, <1>4
    <1>6. ASSUME NEW i \in 1..n PROVE total[i] = rule(total[i - 1], i)
      <2>1. i \in 0..n /\ i # 0
        BY <1>0
      <2> QED
        BY <1>4, <2>1
    <1>7. \A i \in 0..n : total[i] \in Nat
      <2> DEFINE T == Nat
      <2>1. total[0] \in T /\ \A i \in 1..n : total[i - 1] \in T => total[i] \in T
        BY <1>0, <1>1, <1>5, <1>6
      <2> HIDE DEF T
      <2>2. \A i \in 0..n : total[i] \in T
        BY <1>0, <2>1, RecursionType
      <2> QED
        BY <2>2 DEF T
    <1> QED
      BY <1>2, <1>5, <1>6, <1>7 DEF Totals, n, rule

\* An entry more adds its size.
LEMMA TotalGrows ==
    ASSUME NEW entries \in Seq(Widget!Entry), NEW e \in Widget!Entry
    PROVE  Widget!TotalSize(Append(entries, e)) = Widget!TotalSize(entries) + Widget!EntrySize(e)
    <1> DEFINE n == Len(entries)
               longer == Append(entries, e)
    <1>1. /\ longer \in Seq(Widget!Entry) /\ Len(longer) = n + 1 /\ longer[n + 1] = e
          /\ \A i \in 1..n : longer[i] = entries[i]
      BY AppendProperties
    <1>2. n \in Nat
      OBVIOUS
    <1>3. PICK f : Totals(f, entries)
      BY TotalsExist
    <1>4. PICK g : Totals(g, longer)
      BY <1>1, TotalsExist
    <1> HIDE DEF n, longer
    <1> DEFINE S == {i \in 0..n : f[i] = g[i]}
    <1>5. 0 \in S
      BY <1>2, <1>3, <1>4 DEF Totals
    <1>6. ASSUME NEW i \in 1..n, i - 1 \in S PROVE i \in S
      <2>1. i \in 1..(n + 1) /\ i \in 0..n
        BY <1>2
      <2>2. f[i] = f[i - 1] + Widget!EntrySize(entries[i])
        BY <1>3 DEF Totals, n
      <2>3. g[i] = g[i - 1] + Widget!EntrySize(longer[i])
        BY <1>1, <1>4, <2>1 DEF Totals
      <2> QED
        BY <1>1, <1>6, <2>1, <2>2, <2>3
    <1> HIDE DEF S
    <1>7. 0..n \subseteq S
      BY <1>2, <1>5, <1>6, BoundedInduction
    <1>8. f[n] = g[n]
      BY <1>2, <1>7 DEF S
    <1>9. g[n + 1] = g[n] + Widget!EntrySize(e)
      <2>1. n + 1 \in 1..(n + 1) /\ (n + 1) - 1 = n
        BY <1>2
      <2> QED
        BY <1>1, <1>4, <2>1 DEF Totals
    <1> QED
      BY <1>1, <1>3, <1>4, <1>8, <1>9 DEF Totals, n, longer

LEMMA TotalOfNone == Widget!TotalSize(<<>>) = 0
    <1>1. <<>> \in Seq(Widget!Entry) /\ Len(<<>>) = 0
      OBVIOUS
    <1>2. PICK f : Totals(f, <<>>)
      BY <1>1, TotalsExist
    <1> QED
      BY <1>1, <1>2 DEF Totals

LEMMA SameCardinality == ASSUME NEW S PROVE Widget!Cardinality(S) = Cardinality(S)
    BY Zenon DEF Widget!Cardinality, Cardinality

MetaDataType ==
    LET data == Contents \union {Widget!None, Widget!Short}
    IN  [config : data, appsecrets : data]

CallType ==
    [op : {"idle", "verify", "meta"}, result : {"none", "error", "verified", "meta"},
     pos : Nat, total : Nat, seen : Seq(Widget!Entry), builder : MetaDataType, got : MetaDataType]

\* What there is of meta data is what the digest map lists.
IsListed(data) ==
    \A p \in DOMAIN data : data[p] # Widget!None => p \in DOMAIN digests /\ data[p] = digests[p]

\* What is true of a call while it runs and after it has returned.
CallOK(c) ==
    /\ c.op # "idle" => c.result = "none"
    /\ (c.op = "verify" \/ c.result = "verified") =>
          /\ withBundle
          /\ \A i \in DOMAIN c.seen : Widget!MatchesDigest(c.seen[i])
          /\ c.total = Widget!TotalSize(c.seen) /\ c.total <= MaxBytes
    /\ c.result = "verified" => Len(c.seen) = Cardinality(DOMAIN digests)
    /\ (c.op = "meta" /\ withBundle) => IsListed(c.builder)

IsOpen == phase \in {"open", "crashed"}

\* The digest map is that of a sound signature from opening on, although the file changes.
WidgetInv ==
    /\ file \in Seq(Widget!Entry)
    /\ call \in [Threads -> CallType]
    /\ cached \in MetaDataType
    /\ ~IsOpen => cached = Widget!NoMetaData /\ \A t \in Threads : call[t] = Widget!Idle
    /\ (IsOpen /\ withBundle) => \E s \in Signed : digests = Widget!DigestMap(s)
    /\ withBundle => IsListed(cached)
    /\ \A t \in Threads : CallOK(call[t])

LEMMA IdleIsOK ==
    /\ Widget!Idle \in CallType /\ CallOK(Widget!Idle) /\ IsListed(Widget!NoMetaData)
    /\ Widget!NoMetaData \in MetaDataType
    <1>1. IsListed(Widget!NoMetaData) /\ Widget!NoMetaData \in MetaDataType
      BY DEF IsListed, Widget!NoMetaData, MetaDataType
    <1>2. <<>> \in Seq(Widget!Entry)
      OBVIOUS
    <1>3. Widget!Idle \in CallType
      BY <1>1, <1>2 DEF Widget!Idle, CallType
    <1> QED
      BY <1>1, <1>3 DEF Widget!Idle, CallOK

\* A step of a thread on a package that is open.
LEMMA CallKeeps ==
    ASSUME WidgetInv, phase = "open", IsOpen', NEW t \in Threads, NEW new \in CallType,
           call' = [call EXCEPT ![t] = new], CallOK(new), NEW data \in MetaDataType, cached' = data,
           withBundle => IsListed(data), UNCHANGED <<file, withBundle, digests>>
    PROVE  WidgetInv'
    <1>1. call' \in [Threads -> CallType] /\ \A u \in Threads : CallOK(call'[u])
      BY DEF WidgetInv
    <1>2. \A u \in Threads : CallOK(call[u])'
      BY <1>1 DEF CallOK, IsListed, Widget!MatchesDigest
    <1>3. file' \in Seq(Widget!Entry) /\ IsOpen
      BY DEF WidgetInv, IsOpen
    <1>4. withBundle' => \E s \in Signed : digests' = Widget!DigestMap(s)'
      BY <1>3 DEF WidgetInv, Widget!DigestMap
    <1>5. withBundle' => IsListed(cached)'
      BY DEF IsListed
    <1> QED
      BY <1>1, <1>2, <1>3, <1>4, <1>5 DEF WidgetInv

LEMMA WidgetInit == Widget!Init => WidgetInv
    <1> SUFFICES ASSUME Widget!Init PROVE WidgetInv
      OBVIOUS
    <1>1. \A t \in Threads : call[t] = Widget!Idle
      BY DEF Widget!Init
    <1>2. call \in [Threads -> CallType]
      BY IdleIsOK DEF Widget!Init
    <1>3. \A t \in Threads : CallOK(call[t])
      BY <1>1, IdleIsOK
    <1> QED
      BY <1>1, <1>2, <1>3, IdleIsOK, WidgetAssumption DEF Widget!Init, WidgetInv, IsOpen

\* Open() finds every thread idle, so that it may fill in the digest map.
LEMMA OpenWidgetKeeps == ASSUME WidgetInv, Widget!Open PROVE WidgetInv'
    <1>1. /\ phase = "closed" /\ UNCHANGED <<file, withBundle, cached, call>>
          /\ (IsOpen' /\ withBundle) => \E s \in Signed : digests' = Widget!DigestMap(s)
      BY DEF Widget!Open, IsOpen
    <1>2. cached' = Widget!NoMetaData /\ \A t \in Threads : call'[t] = Widget!Idle
      BY <1>1 DEF WidgetInv, IsOpen
    <1>3. CallOK(Widget!Idle)' /\ IsListed(Widget!NoMetaData)'
      BY DEF CallOK, IsListed, Widget!Idle, Widget!NoMetaData
    <1>4. \A t \in Threads : CallOK(call[t])'
      <2> SUFFICES ASSUME NEW t \in Threads PROVE CallOK(call[t])'
        OBVIOUS
      <2>1. call'[t] = Widget!Idle
        BY <1>2
      <2>2. /\ call'[t].op = "idle" /\ call'[t].result = "none"
        BY <2>1 DEF Widget!Idle
      <2> QED
        BY <2>2 DEF CallOK
    <1>5. IsListed(cached)'
      BY <1>2, <1>3 DEF IsListed
    <1>6. (IsOpen' /\ withBundle') => \E s \in Signed : digests' = Widget!DigestMap(s)'
      BY <1>1 DEF Widget!DigestMap
    <1>7. (~IsOpen => cached = Widget!NoMetaData /\ \A t \in Threads : call[t] = Widget!Idle)'
      BY <1>2 DEF Widget!NoMetaData, Widget!Idle
    <1>8. /\ file' \in Seq(Widget!Entry) /\ call' \in [Threads -> CallType]
          /\ cached' \in MetaDataType
      BY <1>1 DEF WidgetInv
    <1> QED
      BY <1>4, <1>5, <1>6, <1>7, <1>8 DEF WidgetInv

\* A call that returns without a success says nothing.
LEMMA ErrorIsOK ==
    ASSUME NEW c \in CallType, NEW r \in {"error", "meta"}
    PROVE  LET new == [c EXCEPT !.op = "idle", !.result = r] IN new \in CallType /\ CallOK(new)
    BY DEF CallType, CallOK

\* The last steps of a call that returns.
LEMMA ReturnKeeps ==
    ASSUME WidgetInv, phase = "open", IsOpen', NEW t \in Threads, NEW r \in {"error", "meta"},
           Widget!Returns(t, r), UNCHANGED <<file, withBundle, digests, cached>>
    PROVE  WidgetInv'
    <1> DEFINE new == [call[t] EXCEPT !.op = "idle", !.result = r]
    <1>1. call[t] \in CallType
      BY DEF WidgetInv
    <1>2. new \in CallType /\ CallOK(new)
      BY <1>1, ErrorIsOK
    <1>3. call' = [call EXCEPT ![t] = new]
      BY <1>1 DEF Widget!Returns, WidgetInv
    <1>4. (withBundle => IsListed(cached)) /\ cached \in MetaDataType
      BY DEF WidgetInv
    <1> HIDE DEF new
    <1> QED
      BY <1>2, <1>3, <1>4, CallKeeps

LEMMA BeginVerifyKeeps ==
    ASSUME WidgetInv, NEW t \in Threads, Widget!BeginVerify(t) PROVE WidgetInv'
    <1>1. phase = "open" /\ IsOpen' /\ UNCHANGED <<file, withBundle, digests, cached>>
      BY DEF Widget!BeginVerify, IsOpen
    <1>2. (withBundle => IsListed(cached)) /\ cached \in MetaDataType
      BY DEF WidgetInv
    <1>3. \E new \in CallType : CallOK(new) /\ call' = [call EXCEPT ![t] = new]
      <2>1. CASE withBundle /\ call' = [call EXCEPT ![t] = [Widget!Idle EXCEPT !.op = "verify", !.pos = 1]]
        <3> DEFINE new == [Widget!Idle EXCEPT !.op = "verify", !.pos = 1]
        <3>1. new \in CallType
          BY IdleIsOK DEF CallType
        <3>2. new.op = "verify" /\ new.result = "none" /\ new.seen = <<>> /\ new.total = 0
          BY DEF Widget!Idle
        <3> HIDE DEF new
        <3>3. 0 <= MaxBytes
          BY WidgetAssumption
        <3>4. CallOK(new)
          BY <2>1, <3>2, <3>3, TotalOfNone DEF CallOK
        <3> QED
          BY <2>1, <3>1, <3>4 DEF new
      <2>2. CASE call' = [call EXCEPT ![t] = [Widget!Idle EXCEPT !.result = "error"]]
        <3> DEFINE new == [Widget!Idle EXCEPT !.result = "error"]
        <3>1. new \in CallType /\ new.op = "idle" /\ new.result = "error"
          BY IdleIsOK DEF CallType, Widget!Idle
        <3>2. CallOK(new)
          BY <3>1 DEF CallOK
        <3> QED
          BY <2>2, <3>1, <3>2
      <2> QED
        BY <2>1, <2>2 DEF Widget!BeginVerify
    <1> QED
      BY <1>1, <1>2, <1>3, CallKeeps

LEMMA EndVerifyKeeps ==
    ASSUME WidgetInv, NEW t \in Threads, Widget!EndVerify(t) PROVE WidgetInv'
    <1>1. /\ phase = "open" /\ IsOpen' /\ UNCHANGED <<file, withBundle, digests, cached>>
          /\ call[t].op = "verify" /\ call[t] \in CallType /\ CallOK(call[t])
      BY DEF Widget!EndVerify, IsOpen, WidgetInv
    <1>2. CASE ~Widget!CountMatches(Len(call[t].seen))
      BY <1>1, <1>2, ReturnKeeps DEF Widget!EndVerify
    <1>3. CASE Widget!CountMatches(Len(call[t].seen))
      <2> DEFINE new == [call[t] EXCEPT !.op = "idle", !.result = "verified"]
      <2>1. new \in CallType
        BY <1>1 DEF CallType
      <2>2. /\ new.op = "idle" /\ new.result = "verified" /\ new.seen = call[t].seen
            /\ new.total = call[t].total
        BY <1>1 DEF CallType
      <2>3. call' = [call EXCEPT ![t] = new]
        BY <1>1, <1>3 DEF Widget!EndVerify, Widget!Returns, WidgetInv
      <2> HIDE DEF new
      <2>4. CallOK(new)
        <3>1. /\ withBundle /\ \A i \in DOMAIN new.seen : Widget!MatchesDigest(new.seen[i])
              /\ new.total = Widget!TotalSize(new.seen) /\ new.total <= MaxBytes
          BY <1>1, <2>2 DEF CallOK
        <3>2. Len(new.seen) = Cardinality(DOMAIN digests)
          <4>1. Len(call[t].seen) = Cardinality(DOMAIN digests)
            BY <1>3, SameCardinality DEF Widget!CountMatches
          <4> QED
            BY <2>2, <4>1
        <3> QED
          BY <2>2, <3>1, <3>2 DEF CallOK
      <2>5. (withBundle => IsListed(cached)) /\ cached \in MetaDataType
        BY DEF WidgetInv
      <2> QED
        BY <1>1, <2>1, <2>3, <2>4, <2>5, CallKeeps
    <1> QED
      BY <1>2, <1>3

LEMMA VerifyEntryKeeps ==
    ASSUME WidgetInv, NEW t \in Threads, Widget!VerifyEntry(t) PROVE WidgetInv'
    <1> DEFINE c == call[t]
               e == file[c.pos]
               sum == c.total + Widget!EntrySize(e)
    <1>1. /\ phase = "open" /\ IsOpen' /\ UNCHANGED <<file, withBundle, digests, cached>>
          /\ c.op = "verify" /\ c \in CallType /\ CallOK(c) /\ c.pos \in DOMAIN file
          /\ (withBundle => IsListed(cached)) /\ cached \in MetaDataType
      BY DEF Widget!VerifyEntry, IsOpen, WidgetInv
    <1>2. e \in Widget!Entry /\ c.pos + 1 \in Nat /\ sum \in Nat
      <2>1. e \in Widget!Entry
        BY <1>1, ElementOfSeq DEF WidgetInv
      <2> QED
        BY <1>1, <2>1, SizesAreNumbers DEF CallType
    <1>3. CASE call' = [call EXCEPT ![t].pos = @ + 1]
      <2> DEFINE new == [c EXCEPT !.pos = @ + 1]
      <2>1. new \in CallType /\ call' = [call EXCEPT ![t] = new]
        BY <1>1, <1>2, <1>3 DEF CallType, WidgetInv
      <2>2. /\ new.op = c.op /\ new.result = c.result /\ new.seen = c.seen
            /\ new.total = c.total /\ new.builder = c.builder
        BY <1>1 DEF CallType
      <2> HIDE DEF new
      <2>3. CallOK(new)
        BY <1>1, <2>2 DEF CallOK
      <2> QED
        BY <1>1, <2>1, <2>3, CallKeeps
    <1>4. CASE /\ Widget!MatchesDigest(e) /\ Widget!SizeAllowed(sum)
               /\ call' = [call EXCEPT ![t].pos = @ + 1, ![t].total = sum, ![t].seen = Append(@, e)]
      <2> DEFINE seen == Append(c.seen, e)
                 new == [c EXCEPT !.pos = @ + 1, !.total = sum, !.seen = seen]
      <2>1. c.seen \in Seq(Widget!Entry) /\ c.result = "none"
        BY <1>1 DEF CallType, CallOK
      <2>2. /\ seen \in Seq(Widget!Entry) /\ Len(seen) = Len(c.seen) + 1 /\ seen[Len(c.seen) + 1] = e
            /\ \A i \in 1..Len(c.seen) : seen[i] = c.seen[i]
        BY <1>2, <2>1, AppendProperties
      <2>3. call' = [call EXCEPT ![t] = new]
        BY <1>1, <1>4 DEF WidgetInv, CallType
      <2>4. Widget!TotalSize(seen) = Widget!TotalSize(c.seen) + Widget!EntrySize(e)
        BY <1>2, <2>1, TotalGrows
      <2>5. c.total = Widget!TotalSize(c.seen) /\ withBundle
            /\ \A i \in DOMAIN c.seen : Widget!MatchesDigest(c.seen[i])
        BY <1>1 DEF CallOK
      <2>6. \A i \in DOMAIN seen : Widget!MatchesDigest(seen[i])
        <3> SUFFICES ASSUME NEW i \in DOMAIN seen PROVE Widget!MatchesDigest(seen[i])
          OBVIOUS
        <3>1. DOMAIN seen = 1..Len(seen) /\ DOMAIN c.seen = 1..Len(c.seen) /\ Len(c.seen) \in Nat
          BY <2>1, <2>2, LenProperties
        <3>2. CASE i = Len(c.seen) + 1
          BY <1>4, <2>2, <3>2
        <3>3. CASE i # Len(c.seen) + 1
          <4> DEFINE n == Len(c.seen)
                     m == Len(seen)
          <4>1. n \in Nat /\ m = n + 1 /\ i \in 1..m /\ i # n + 1
            BY <2>2, <3>1, <3>3
          <4> HIDE DEF n, m
          <4>2. i \in 1..n
            BY <4>1
          <4>3. seen[i] = c.seen[i] /\ i \in DOMAIN c.seen
            BY <2>2, <3>1, <4>2 DEF n
          <4>4. Widget!MatchesDigest(c.seen[i])
            BY <2>5, <4>3
          <4> QED
            BY <4>3, <4>4
        <3> QED
          BY <3>2, <3>3
      <2> HIDE DEF seen
      <2>7. new \in CallType
        BY <1>1, <1>2, <2>2 DEF CallType
      <2>8. /\ new.op = "verify" /\ new.result = "none" /\ new.seen = seen /\ new.total = sum
        BY <1>1, <2>1 DEF CallType
      <2>9. sum <= MaxBytes /\ sum = Widget!TotalSize(seen)
        BY <1>4, <2>4, <2>5 DEF Widget!SizeAllowed
      <2> HIDE DEF new, sum
      <2>10. CallOK(new)
        BY <2>5, <2>6, <2>8, <2>9 DEF CallOK
      <2> QED
        BY <1>1, <2>3, <2>7, <2>10, CallKeeps
    <1>5. CASE Widget!Returns(t, "error")
      BY <1>1, <1>5, ReturnKeeps
    <1> QED
      BY <1>3, <1>4, <1>5 DEF Widget!VerifyEntry

LEMMA GetMetaDataKeeps ==
    ASSUME WidgetInv, NEW t \in Threads, Widget!GetMetaData(t) PROVE WidgetInv'
    <1>1. /\ phase = "open" /\ IsOpen' /\ UNCHANGED <<file, withBundle, digests, cached>>
          /\ (withBundle => IsListed(cached)) /\ cached \in MetaDataType
      BY DEF Widget!GetMetaData, IsOpen, WidgetInv
    <1>2. CASE call' = [call EXCEPT ![t] = [Widget!Idle EXCEPT !.result = "meta", !.got = cached]]
      <2> DEFINE new == [Widget!Idle EXCEPT !.result = "meta", !.got = cached]
      <2>1. new \in CallType
        BY <1>1, IdleIsOK DEF CallType
      <2>2. new.op = "idle" /\ new.result = "meta"
        BY DEF Widget!Idle
      <2> HIDE DEF new
      <2>3. CallOK(new)
        BY <2>2 DEF CallOK
      <2> QED
        BY <1>1, <1>2, <2>1, <2>3, CallKeeps DEF new
    <1>3. CASE call' = [call EXCEPT ![t] = [Widget!Idle EXCEPT !.op = "meta", !.pos = 1]]
      <2> DEFINE new == [Widget!Idle EXCEPT !.op = "meta", !.pos = 1]
      <2>1. new \in CallType
        BY IdleIsOK DEF CallType
      <2>2. new.op = "meta" /\ new.result = "none" /\ new.builder = Widget!NoMetaData
        BY DEF Widget!Idle
      <2> HIDE DEF new
      <2>3. CallOK(new)
        BY <2>2, IdleIsOK DEF CallOK
      <2> QED
        BY <1>1, <1>3, <2>1, <2>3, CallKeeps DEF new
    <1> QED
      BY <1>2, <1>3 DEF Widget!GetMetaData

\* addMetaDataFile() with contents that verifyFileContents() has accepted.
LEMMA AddedIsListed ==
    ASSUME NEW data \in MetaDataType, NEW e \in Widget!Entry, Widget!IsMetaDataFile(e),
           NEW c \in {e.content, Widget!Short}, Widget!VerifyFileContents(e.path, c)
    PROVE  LET more == Widget!AddMetaDataFile(data, e, c)
           IN  more \in MetaDataType /\ (withBundle /\ IsListed(data) => IsListed(more))
    <1> DEFINE more == Widget!AddMetaDataFile(data, e, c)
               all == Contents \union {Widget!None, Widget!Short}
    <1>1. e.path \in {"config", "appsecrets"} /\ c \in all
      BY DEF Widget!IsMetaDataFile, Widget!Entry
    <1>2. withBundle => e.path \in DOMAIN digests /\ c = digests[e.path]
      BY DEF Widget!VerifyFileContents
    <1>3. more \in MetaDataType
      <2>1. CASE e.path = "config"
        BY <1>1, <2>1 DEF Widget!AddMetaDataFile, MetaDataType
      <2>2. CASE e.path = "appsecrets"
        BY <1>1, <2>2 DEF Widget!AddMetaDataFile, MetaDataType
      <2> QED
        BY <1>1, <2>1, <2>2
    <1>4. withBundle /\ IsListed(data) => IsListed(more)
      BY <1>2 DEF Widget!AddMetaDataFile, IsListed
    <1> QED
      BY <1>3, <1>4

LEMMA ReadMetaDataKeeps ==
    ASSUME WidgetInv, NEW t \in Threads, Widget!ReadMetaDataEntry(t) PROVE WidgetInv'
    <1> DEFINE c == call[t]
               e == file[c.pos]
    <1>1. /\ phase = "open" /\ IsOpen' /\ UNCHANGED <<file, withBundle, digests, cached>>
          /\ c.op = "meta" /\ c \in CallType /\ CallOK(c) /\ c.pos \in DOMAIN file
          /\ (withBundle => IsListed(cached)) /\ cached \in MetaDataType
      BY DEF Widget!ReadMetaDataEntry, IsOpen, WidgetInv
    <1>2. c.pos + 1 \in Nat /\ e \in Widget!Entry /\ c.builder \in MetaDataType /\ c.result = "none"
      <2>1. e \in Widget!Entry
        BY <1>1, ElementOfSeq DEF WidgetInv
      <2> QED
        BY <1>1, <2>1 DEF CallType, CallOK
    <1>3. CASE call' = [call EXCEPT ![t].pos = @ + 1]
      <2> DEFINE new == [c EXCEPT !.pos = @ + 1]
      <2>1. new \in CallType /\ call' = [call EXCEPT ![t] = new]
        BY <1>1, <1>2, <1>3 DEF CallType, WidgetInv
      <2>2. /\ new.op = c.op /\ new.result = c.result /\ new.seen = c.seen
            /\ new.total = c.total /\ new.builder = c.builder
        BY <1>1 DEF CallType
      <2> HIDE DEF new
      <2>3. CallOK(new)
        BY <1>1, <2>2 DEF CallOK
      <2> QED
        BY <1>1, <2>1, <2>3, CallKeeps
    <1>4. ASSUME NEW d \in {e.content, Widget!Short}, Widget!IsMetaDataFile(e),
                 Widget!VerifyFileContents(e.path, d),
                 call' = [call EXCEPT ![t].pos = @ + 1,
                                      ![t].builder = Widget!AddMetaDataFile(@, e, d)]
          PROVE  WidgetInv'
      <2> DEFINE more == Widget!AddMetaDataFile(c.builder, e, d)
                 new == [c EXCEPT !.pos = @ + 1, !.builder = more]
      <2>1. more \in MetaDataType /\ (withBundle /\ IsListed(c.builder) => IsListed(more))
        BY <1>2, <1>4, AddedIsListed
      <2>2. call' = [call EXCEPT ![t] = new]
        BY <1>1, <1>4 DEF WidgetInv, CallType
      <2> HIDE DEF more
      <2>3. new \in CallType
        BY <1>1, <1>2, <2>1 DEF CallType
      <2>4. new.op = "meta" /\ new.result = "none" /\ new.builder = more
        BY <1>1, <1>2 DEF CallType
      <2> HIDE DEF new
      <2>5. CallOK(new)
        BY <1>1, <2>1, <2>4 DEF CallOK
      <2> QED
        BY <1>1, <2>2, <2>3, <2>5, CallKeeps
    <1>5. CASE Widget!Returns(t, "error")
      BY <1>1, <1>5, ReturnKeeps
    <1> QED
      BY <1>3, <1>4, <1>5 DEF Widget!ReadMetaDataEntry

LEMMA GenerateKeeps ==
    ASSUME WidgetInv, NEW t \in Threads, Widget!Generate(t) PROVE WidgetInv'
    <1> DEFINE c == call[t]
               b == c.builder
    <1>1. /\ phase = "open" /\ IsOpen' /\ UNCHANGED <<file, withBundle, digests>>
          /\ c.op = "meta" /\ c \in CallType /\ CallOK(c)
      BY DEF Widget!Generate, IsOpen, WidgetInv
    <1>2. b \in MetaDataType /\ (withBundle => IsListed(b))
      BY <1>1 DEF CallType, CallOK
    <1>3. CASE Widget!Returns(t, "error") /\ UNCHANGED cached
      BY <1>1, <1>3, ReturnKeeps
    <1>4. CASE /\ cached' = b
               /\ call' = [call EXCEPT ![t].op = "idle", ![t].result = "meta", ![t].got = b]
      <2> DEFINE new == [c EXCEPT !.op = "idle", !.result = "meta", !.got = b]
      <2>1. call' = [call EXCEPT ![t] = new]
        BY <1>1, <1>4 DEF WidgetInv, CallType
      <2>2. new \in CallType
        BY <1>1, <1>2 DEF CallType
      <2>3. new.op = "idle" /\ new.result = "meta"
        BY <1>1 DEF CallType
      <2> HIDE DEF new
      <2>4. CallOK(new)
        BY <2>3 DEF CallOK
      <2> QED
        BY <1>1, <1>2, <1>4, <2>1, <2>2, <2>4, CallKeeps
    <1> QED
      BY <1>3, <1>4 DEF Widget!Generate

\* A step that leaves everything but the file alone.
LEMMA RestKeeps ==
    ASSUME WidgetInv, UNCHANGED <<withBundle, phase, digests, cached, call>>, file' \in Seq(Widget!Entry)
    PROVE  WidgetInv'
    <1>1. \A t \in Threads : CallOK(call[t])'
      BY DEF WidgetInv, CallOK, IsListed, Widget!MatchesDigest
    <1>2. (~IsOpen => cached = Widget!NoMetaData /\ \A t \in Threads : call[t] = Widget!Idle)'
      BY DEF WidgetInv, IsOpen, Widget!NoMetaData, Widget!Idle
    <1>3. (IsOpen /\ withBundle)' => \E s \in Signed : digests' = Widget!DigestMap(s)'
      BY DEF WidgetInv, IsOpen, Widget!DigestMap
    <1>4. withBundle' => IsListed(cached)'
      BY DEF WidgetInv, IsListed
    <1>5. call' \in [Threads -> CallType] /\ cached' \in MetaDataType
      BY DEF WidgetInv
    <1> QED
      BY <1>1, <1>2, <1>3, <1>4, <1>5 DEF WidgetInv

\* The package file changes: only the file does.
LEMMA ChangeFileKeeps == ASSUME WidgetInv, Widget!ChangeFile PROVE WidgetInv'
    <1>1. UNCHANGED <<withBundle, phase, digests, cached, call>>
      BY DEF Widget!ChangeFile
    <1>2. PICK i \in DOMAIN file, d \in Contents : file' = [file EXCEPT ![i].content = d]
      BY DEF Widget!ChangeFile
    <1>3. file' \in Seq(Widget!Entry)
      <2> DEFINE e == [file[i] EXCEPT !.content = d]
      <2>1. file \in Seq(Widget!Entry) /\ file[i] \in Widget!Entry
        BY ElementOfSeq DEF WidgetInv
      <2>2. e \in Widget!Entry
        BY <2>1 DEF Widget!Entry
      <2>3. file' = [file EXCEPT ![i] = e]
        BY <1>2, <2>1
      <2> HIDE DEF e
      <2> QED
        BY <2>1, <2>2, <2>3, ExceptSeq
    <1> QED
      BY <1>1, <1>3, RestKeeps

LEMMA WidgetStep == WidgetInv /\ [Widget!Next]_(Widget!vars) => WidgetInv'
    <1> SUFFICES ASSUME WidgetInv, [Widget!Next]_(Widget!vars) PROVE WidgetInv'
      OBVIOUS
    <1>1. CASE UNCHANGED Widget!vars
      BY <1>1, RestKeeps DEF Widget!vars, WidgetInv
    <1>2. CASE Widget!Next
      BY <1>2, OpenWidgetKeeps, BeginVerifyKeeps, VerifyEntryKeeps, EndVerifyKeeps, GetMetaDataKeeps,
         ReadMetaDataKeeps, GenerateKeeps, ChangeFileKeeps DEF Widget!Next
    <1> QED
      BY <1>1, <1>2

\* The invariant of the object of a widget package, with any number of threads.
THEOREM WidgetInvariant == Widget!Spec => []WidgetInv
    BY WidgetInit, WidgetStep, PTL DEF Widget!Spec

\* After a success of verify(), every entry that it read was listed by a sound signature with
\* the content it had then, within the limit on bytes, and when no path came twice nothing that
\* is listed was missing: for any number of threads and any number of changes to the file.
THEOREM WidgetIsVerified == Widget!Spec => []WidgetVerified
    <1>1. ASSUME WidgetInv, NEW t \in Threads, call[t].result = "verified"
          PROVE  /\ IsOpen /\ withBundle /\ CallOK(call[t]) /\ call[t].seen \in Seq(Widget!Entry)
                 /\ \E s \in Signed : digests = Widget!DigestMap(s)
      <2>1. CallOK(call[t]) /\ call[t] \in CallType
        BY <1>1 DEF WidgetInv
      <2>2. IsOpen
        BY <1>1 DEF WidgetInv, Widget!Idle
      <2> QED
        BY <1>1, <2>1, <2>2 DEF WidgetInv, CallOK, CallType
    <1>2. WidgetInv => Widget!VerifySound
      <2> SUFFICES ASSUME WidgetInv, NEW t \in Threads, call[t].result = "verified"
                   PROVE  /\ withBundle
                          /\ \E s \in Signed : \A i \in DOMAIN call[t].seen :
                                LET e == call[t].seen[i] IN Widget!Lists(s, e.path, e.content)
                          /\ Widget!TotalSize(call[t].seen) <= MaxBytes
        BY DEF Widget!VerifySound
      <2>1. PICK s \in Signed : digests = Widget!DigestMap(s)
        BY <1>1
      <2>2. /\ withBundle /\ \A i \in DOMAIN call[t].seen : Widget!MatchesDigest(call[t].seen[i])
            /\ Widget!TotalSize(call[t].seen) <= MaxBytes
        BY <1>1 DEF CallOK
      <2>3. \A i \in DOMAIN call[t].seen :
                Widget!Lists(s, call[t].seen[i].path, call[t].seen[i].content)
        BY <2>1, <2>2 DEF Widget!Lists, Widget!MatchesDigest
      <2> QED
        BY <2>2, <2>3
    <1>3. WidgetInv => Widget!VerifyComplete
      <2> SUFFICES ASSUME WidgetInv, NEW t \in Threads, call[t].result = "verified",
                          Widget!Cardinality(Widget!SeenPaths(t)) = Len(call[t].seen)
                   PROVE  Widget!SeenPaths(t) = DOMAIN digests
        BY DEF Widget!VerifyComplete
      <2>1. PICK s \in Signed : digests = Widget!DigestMap(s)
        BY <1>1
      <2>2. IsFiniteSet(DOMAIN digests)
        <3>1. IsFiniteSet(DOMAIN References[s])
          BY WidgetAssumption
        <3>2. IsFiniteSet(DOMAIN References[s] \union {"signature1"})
          BY <3>1, FS_AddElement
        <3> QED
          BY <2>1, <3>2 DEF Widget!DigestMap
      <2>3. Widget!SeenPaths(t) \in SUBSET DOMAIN digests
        BY <1>1 DEF CallOK, Widget!SeenPaths, Widget!MatchesDigest
      <2>4. Cardinality(Widget!SeenPaths(t)) = Cardinality(DOMAIN digests)
        <3>1. Len(call[t].seen) = Cardinality(DOMAIN digests)
          BY <1>1 DEF CallOK
        <3> QED
          BY <3>1, SameCardinality
      <2> HIDE DEF Widget!SeenPaths
      <2> QED
        BY <2>2, <2>3, <2>4, FS_Subset
    <1> QED
      BY <1>2, <1>3, WidgetInvariant, PTL DEF WidgetVerified

\* The meta data of a package that was opened with a bundle is what one sound signature lists,
\* for any number of threads and any number of changes to the file.
THEOREM MetaDataIsSigned == Widget!Spec => []MetaDataSigned
    <1>1. WidgetInv => Widget!MetaDataSigned
      <2> SUFFICES ASSUME WidgetInv, withBundle, cached # Widget!NoMetaData
                   PROVE  \E s \in Signed : \A p \in DOMAIN cached :
                              cached[p] # Widget!None => Widget!Lists(s, p, cached[p])
        BY DEF Widget!MetaDataSigned
      <2>1. PICK s \in Signed : digests = Widget!DigestMap(s)
        BY DEF WidgetInv
      <2> QED
        BY <2>1 DEF WidgetInv, IsListed, Widget!Lists
    <1> QED
      BY <1>1, WidgetInvariant, PTL DEF MetaDataSigned

-------------------------------------------------------------------------------
(* A package that is properly signed is not refused                            *)

First(s, k) == [i \in 1..k |-> s[i]]

LEMMA FirstOnes ==
    ASSUME NEW U, NEW s \in Seq(U), NEW k \in 1..Len(s)
    PROVE  /\ First(s, k) \in Seq(U) /\ Len(First(s, k)) = k /\ Last(First(s, k)) = s[k]
           /\ \A i \in 1..k : First(s, k)[i] = s[i]
    <1> DEFINE n == Len(s)
               t == First(s, k)
    <1>0. n \in Nat /\ k \in 1..n /\ k \in Nat
      OBVIOUS
    <1>1. \A i \in 1..k : s[i] \in U
      <2> SUFFICES ASSUME NEW i \in 1..k PROVE s[i] \in U
        OBVIOUS
      <2> HIDE DEF n
      <2>1. i \in 1..n
        BY <1>0
      <2> QED
        BY <2>1, ElementOfSeq DEF n
    <1>2. t \in Seq(U)
      BY <1>0, <1>1, IsASeq DEF First
    <1>3. DOMAIN t = 1..k /\ \A i \in 1..k : t[i] = s[i]
      BY DEF First
    <1> HIDE DEF t
    <1>4. Len(t) = k
      BY <1>0, <1>2, <1>3, LenProperties
    <1> QED
      BY <1>0, <1>2, <1>3, <1>4 DEF Last, t

\* The first one, one more, and all of them.
LEMMA FirstGrows ==
    ASSUME NEW U, NEW s \in Seq(U), s # <<>>
    PROVE  /\ First(s, 1) = <<s[1]>>
           /\ \A k \in 1..(Len(s) - 1) : Append(First(s, k), s[k + 1]) = First(s, k + 1)
           /\ First(s, Len(s)) = s
    <1> DEFINE n == Len(s)
    <1>0. n \in Nat /\ n >= 1 /\ 1 \in 1..n /\ n \in 1..n
      BY EmptySeq, LenProperties
    <1>1. First(s, 1) = <<s[1]>>
      <2>1. s[1] \in U
        BY <1>0, ElementOfSeq
      <2>2. <<s[1]>> \in Seq(U) /\ Len(<<s[1]>>) = 1 /\ <<s[1]>>[1] = s[1]
        BY <2>1
      <2>3. First(s, 1) \in Seq(U) /\ Len(First(s, 1)) = 1 /\ \A i \in 1..1 : First(s, 1)[i] = s[i]
        BY <1>0, FirstOnes
      <2>4. \A i \in 1..1 : First(s, 1)[i] = <<s[1]>>[i]
        BY <2>2, <2>3
      <2> QED
        BY <2>2, <2>3, <2>4, SeqEqual
    <1>2. ASSUME NEW k \in 1..(n - 1) PROVE Append(First(s, k), s[k + 1]) = First(s, k + 1)
      <2> DEFINE a == Append(First(s, k), s[k + 1])
                 b == First(s, k + 1)
      <2> HIDE DEF n
      <2>1. k \in 1..n /\ k + 1 \in 1..n /\ k \in Nat
        BY <1>0
      <2>2. /\ First(s, k) \in Seq(U) /\ Len(First(s, k)) = k
            /\ \A i \in 1..k : First(s, k)[i] = s[i]
        BY <2>1, FirstOnes DEF n
      <2>3. s[k + 1] \in U
        BY <2>1, ElementOfSeq DEF n
      <2>4. /\ a \in Seq(U) /\ Len(a) = k + 1 /\ a[k + 1] = s[k + 1]
            /\ \A i \in 1..k : a[i] = s[i]
        BY <2>2, <2>3, AppendProperties
      <2>5. b \in Seq(U) /\ Len(b) = k + 1 /\ \A i \in 1..(k + 1) : b[i] = s[i]
        BY <2>1, FirstOnes DEF n
      <2> HIDE DEF a, b
      <2>6. ASSUME NEW i \in 1..(k + 1) PROVE a[i] = b[i]
        <3>1. i = k + 1 \/ i \in 1..k
          BY <2>1
        <3> QED
          BY <2>4, <2>5, <3>1
      <2>7. a = b
        BY <2>4, <2>5, <2>6, SeqEqual
      <2> QED
        BY <2>7 DEF a, b
    <1>3. First(s, n) = s
      <2>1. First(s, n) \in Seq(U) /\ Len(First(s, n)) = n /\ \A i \in 1..n : First(s, n)[i] = s[i]
        BY <1>0, FirstOnes
      <2> QED
        BY <2>1, SeqEqual
    <1> QED
      BY <1>1, <1>2, <1>3

\* The chain of a signer, with the root of the bundle at its end.
ProperChain(whole, bundle, expiry) ==
    /\ Last(whole) \in bundle /\ SelfIssued(Last(whole)) /\ IsChain(whole)
    /\ \A b \in bundle : \A i \in DOMAIN whole : b.subject = whole[i].subject => b = whole[i]
    /\ expiry => \A i \in DOMAIN whole : ~whole[i].expired

\* Of a proper chain OpenSSL finds one issuer at a time, the right one.
LEMMA OneIssuer ==
    ASSUME NEW U, NEW whole \in Seq(U), whole # <<>>, NEW bundle, NEW expiry,
           ProperChain(whole, bundle, expiry), NEW untrusted,
           \A u \in untrusted : \E k \in DOMAIN whole : u = whole[k],
           \A k \in 2..Len(whole) : whole[k] \in bundle \union untrusted,
           NEW k \in 1..Len(whole)
    PROVE  Extended(First(whole, k), createCaStore(bundle, expiry), untrusted)
              = {IF k = Len(whole) THEN whole ELSE First(whole, k + 1)}
    <1> DEFINE n == Len(whole)
               store == createCaStore(bundle, expiry)
               c == whole[k]
               issuers == X509_issuers(c, store, untrusted)
    <1>0. n \in Nat /\ DOMAIN whole = 1..n /\ n >= 1 /\ k \in 1..n
      BY EmptySeq, LenProperties
    <1>1. Last(First(whole, k)) = c
      BY FirstOnes
    <1>2. CASE k = n
      <2>1. SelfIssued(c)
        BY <1>2 DEF ProperChain, Last
      <2>2. First(whole, k) = whole
        BY <1>2, FirstGrows
      <2> QED
        BY <1>1, <1>2, <2>1, <2>2 DEF Extended
    <1>3. CASE k # n
      <2> HIDE DEF n
      <2>1. k \in 1..(n - 1) /\ k + 1 \in 1..n /\ k + 1 \in 2..n /\ k # k + 1
        BY <1>0, <1>3
      <2> DEFINE next == whole[k + 1]
      <2>2. /\ c.issuer = next.subject
            /\ \A i \in 1..n : whole[i].subject = next.subject => i = k + 1
            /\ \A b \in bundle : b.subject = next.subject => b = next
        BY ZenonT(40), <1>0, <2>1 DEF ProperChain, IsChain, n
      <2>3. ~SelfIssued(c)
        BY <2>1, <2>2 DEF SelfIssued, n
      <2>4. \A u \in untrusted : u.subject = next.subject => u = next
        BY <1>0, <2>2
      <2>5. next \in bundle \union untrusted
        BY <2>1 DEF n
      <2>6. issuers = {next}
        <3>1. store.certs = bundle
          BY DEF createCaStore
        <3> HIDE DEF store, next, c
        <3>2. {i \in bundle : i.subject = c.issuer} # {} => {i \in bundle : i.subject = c.issuer} = {next}
          BY <2>2
        <3>3. {i \in bundle : i.subject = c.issuer} = {} =>
                 {i \in untrusted : i.subject = c.issuer} = {next}
          BY <2>2, <2>4, <2>5
        <3> QED
          BY <3>1, <3>2, <3>3 DEF X509_issuers
      <2>7. Extended(First(whole, k), store, untrusted) = {Append(First(whole, k), next)}
        <3> HIDE DEF issuers, store, next, c
        <3>1. Extended(First(whole, k), store, untrusted) = {Append(First(whole, k), i) : i \in issuers}
          BY <1>1, <2>3, <2>6 DEF Extended, issuers
        <3> QED
          BY <2>6, <3>1
      <2>8. Append(First(whole, k), next) = First(whole, k + 1)
        BY <2>1, FirstGrows DEF n
      <2> QED
        BY <1>3, <2>7, <2>8 DEF n
    <1> QED
      BY <1>2, <1>3

\* Verification by OpenSSL of the first certificate of a proper chain.
LEMMA ProperIsVerified ==
    ASSUME NEW U, NEW whole \in Seq(U), whole # <<>>, NEW bundle, NEW expiry,
           ProperChain(whole, bundle, expiry), NEW untrusted,
           \A u \in untrusted : \E k \in DOMAIN whole : u = whole[k],
           \A k \in 2..Len(whole) : whole[k] \in bundle \union untrusted,
           Len(whole) <= MaxChain + 1
    PROVE  verifyCertificate(bundle, whole[1], untrusted, expiry, FALSE) = {"ok"}
    <1> DEFINE n == Len(whole)
               store == createCaStore(bundle, expiry)
               Reach(i) == IF i < n THEN First(whole, i + 1) ELSE whole
               More(chain) == Extended(chain, store, untrusted)
    <1>0. MaxChain \in Nat /\ n \in Nat /\ n >= 1 /\ n <= MaxChain + 1 /\ DOMAIN whole = 1..n
      BY ChainAssumption, EmptySeq, LenProperties
    <1>1. /\ First(whole, 1) = <<whole[1]>> /\ First(whole, n) = whole
          /\ \A k \in 1..n : More(First(whole, k)) = {IF k = n THEN whole ELSE First(whole, k + 1)}
      BY FirstGrows, OneIssuer
    <1>2. PICK chains : ChainsRule(chains, whole[1], store, untrusted)
      BY ChainsExist
    <1> DEFINE S == {i \in 0..MaxChain : chains[i] = {Reach(i)}}
    <1>3. chains[0] = {<<whole[1]>>} /\ \A i \in 1..MaxChain : chains[i] = UNION {More(chain) : chain \in chains[i - 1]}
      BY <1>2 DEF ChainsRule
    <1>4. /\ X509_chains(whole[1], store, untrusted) = chains[MaxChain]
      BY <1>2 DEF ChainsRule
    <1> HIDE DEF n, store, More
    <1>5. 0 \in S
      <2>1. Reach(0) = <<whole[1]>>
        <3>1. CASE n = 1
          BY <1>1, <3>1
        <3>2. CASE n # 1
          BY <1>0, <1>1, <3>2
        <3> QED
          BY <3>1, <3>2
      <2> HIDE DEF Reach
      <2> QED
        BY <1>0, <1>3, <2>1
    <1>6. ASSUME NEW i \in 1..MaxChain, i - 1 \in S PROVE i \in S
      <2>1. chains[i - 1] = {Reach(i - 1)}
        BY <1>6
      <2>2. chains[i] = More(Reach(i - 1))
        <3> HIDE DEF Reach
        <3>1. chains[i] = UNION {More(chain) : chain \in chains[i - 1]}
          BY <1>3
        <3> QED
          BY <2>1, <3>1
      <2>3. More(Reach(i - 1)) = {Reach(i)}
        <3>1. CASE i - 1 < n
          <4>1. Reach(i - 1) = First(whole, i)
            BY <3>1
          <4>2. i \in 1..n
            BY <1>0, <3>1
          <4>3. More(First(whole, i)) = {IF i = n THEN whole ELSE First(whole, i + 1)}
            BY <1>1, <4>2
          <4>4. Reach(i) = IF i = n THEN whole ELSE First(whole, i + 1)
            BY <1>0, <4>2
          <4> QED
            BY <4>1, <4>3, <4>4
        <3>2. CASE ~(i - 1 < n)
          <4>1. Reach(i - 1) = whole /\ Reach(i) = whole /\ n \in 1..n
            BY <1>0, <3>2
          <4>2. More(First(whole, n)) = {whole}
            BY <1>1, <4>1
          <4> QED
            BY <1>1, <4>1, <4>2
        <3> QED
          BY <3>1, <3>2
      <2> HIDE DEF Reach
      <2> QED
        BY <2>2, <2>3
    <1>7. Reach(MaxChain) = whole
      <2>1. CASE MaxChain < n
        <3>1. MaxChain + 1 = n
          BY <1>0, <2>1
        <3> QED
          BY <1>1, <2>1, <3>1
      <2>2. CASE ~(MaxChain < n)
        BY <2>2
      <2> QED
        BY <2>1, <2>2
    <1> HIDE DEF S, Reach
    <1>8. 0..MaxChain \subseteq S
      BY <1>0, <1>5, <1>6, BoundedInduction
    <1>9. X509_chains(whole[1], store, untrusted) = {whole}
      <2>1. MaxChain \in S
        BY <1>0, <1>8
      <2> QED
        BY <1>4, <1>7, <2>1 DEF S
    <1>10. X509_errors(whole, store) = {}
      <2>1. store.certs = bundle /\ store.checkTime = expiry
        BY DEF createCaStore, store
      <2>2. /\ SelfIssued(Last(whole)) /\ Last(whole) \in store.certs
        BY <2>1 DEF ProperChain
      <2>3. \A i \in 1..(n - 1) : whole[i].by = whole[i + 1].key /\ whole[i + 1].ca
        BY DEF ProperChain, IsChain, n
      <2>4. store.checkTime => \A c \in Range(whole) : ~c.expired
        BY <2>1 DEF ProperChain, Range
      <2> QED
        BY <2>2, <2>3, <2>4 DEF X509_errors, n
    <1>11. X509_verify_cert(whole[1], store, untrusted) = {"ok"}
      BY <1>9, <1>10 DEF X509_verify_cert
    <1> QED
      BY <1>11 DEF verifyCertificate, store

\* The order of a chain: each certificate names the next one, no two have the same name and
\* the last one, when there are several, does not name the first.
NamesChain(chain) ==
    /\ \A i \in 1..(Len(chain) - 1) : chain[i].issuer = chain[i + 1].subject
    /\ \A i, j \in 1..Len(chain) : chain[i].subject = chain[j].subject => i = j
    /\ Len(chain) >= 2 => \A i \in 1..Len(chain) : chain[i].issuer # chain[1].subject

\* sortCertificates() finds the order of a chain.
LEMMA SortGivesChain ==
    ASSUME NEW C, NEW certs \in Seq(C), certs # <<>>,
           NEW order \in [DOMAIN certs -> DOMAIN certs],
           \A d \in DOMAIN certs : \E k \in DOMAIN certs : order[k] = d,
           NEW chain \in Seq(C), chain = [i \in DOMAIN certs |-> certs[order[i]]], NamesChain(chain)
    PROVE  sortCertificates(certs) = chain
    <1> DEFINE n == Len(certs)
               D == DOMAIN certs
    <1>0. n \in Nat /\ n >= 1 /\ D = 1..n /\ Len(chain) = n
      BY EmptySeq, LenProperties
    <1>1. CASE n = 1
      <2>1. D = {1} /\ order[1] = 1
        BY <1>0, <1>1
      <2>2. Len(chain) = Len(certs) /\ \A i \in 1..Len(chain) : chain[i] = certs[i]
        BY <1>0, <1>1, <2>1
      <2>3. chain = certs
        BY <2>2, SeqEqual
      <2> QED
        BY <1>1, <2>3 DEF sortCertificates
    <1>2. CASE n # 1
      <2>0. n >= 2 /\ 1 \in 1..n /\ 1 \in D /\ n \in 1..n
        BY <1>0, <1>2
      <2>1. \A k \in D : chain[k] = certs[order[k]] /\ order[k] \in D
        OBVIOUS
      <2>2. /\ \A i \in 1..(n - 1) : chain[i].issuer = chain[i + 1].subject
            /\ \A i, j \in 1..n : chain[i].subject = chain[j].subject => i = j
            /\ \A i \in 1..n : chain[i].issuer # chain[1].subject
        BY <1>0, <2>0 DEF NamesChain
      <2>3. order \in Seq(D) /\ Len(order) = n /\ order # <<>> /\ DOMAIN order = 1..n
        <3>1. order \in [1..n -> D]
          BY <1>0
        <3> HIDE DEF n, D
        <3>2. order \in Seq(D) /\ Len(order) = n
          BY <1>0, <3>1, SeqDef, LenProperties
        <3> QED
          BY <1>0, <3>1, <3>2, EmptySeq
      <2>4. \A d \in D : \E k \in D : order[k] = d
        OBVIOUS
      <2>5. Leaves(certs) = {order[1]}
        <3> HIDE DEF n
        <3>1. ASSUME NEW j \in D PROVE ~isIssuer(certs[order[1]], certs[j])
          <4>1. PICK k \in D : order[k] = j
            BY <2>4
          <4> QED
            BY <1>0, <2>0, <2>1, <2>2, <4>1 DEF isIssuer
        <3>2. ASSUME NEW d \in D, d # order[1] PROVE \E j \in D : isIssuer(certs[d], certs[j])
          <4>1. PICK k \in D : order[k] = d
            BY <2>4
          <4>a. k \in 1..n /\ k # 1
            BY <1>0, <3>2, <4>1
          <4>b. k - 1 \in 1..(n - 1) /\ k - 1 \in 1..n /\ (k - 1) + 1 = k
            <5>1. n \in Nat /\ k \in 1..n /\ k # 1
              BY <1>0, <4>a
            <5> QED
              BY ONLY <5>1
          <4>2. k - 1 \in D
            BY <1>0, <4>b
          <4>3. chain[k - 1].issuer = chain[k].subject
            <5>1. chain[k - 1].issuer = chain[(k - 1) + 1].subject
              BY <2>2, <4>b
            <5> QED
              BY <4>b, <5>1
          <4>4. isIssuer(certs[d], certs[order[k - 1]])
            BY <2>1, <4>1, <4>2, <4>3 DEF isIssuer
          <4> QED
            BY <2>1, <4>2, <4>4
        <3> QED
          BY ZenonT(40), <2>0, <2>1, <3>1, <3>2 DEF Leaves
      <2>6. ASSUME NEW i \in 1..(n - 1) PROVE Followers(certs, First(order, i)) = {order[i + 1]}
        <3> DEFINE f == First(order, i)
        <3>1. i \in 1..n /\ i + 1 \in 1..n /\ i \in D /\ i + 1 \in D
          BY <1>0
        <3>2. Last(f) = order[i] /\ Range(f) = {order[k] : k \in 1..i}
          <4>1. i \in 1..Len(order)
            BY <2>3, <3>1
          <4>2. Last(f) = order[i] /\ \A k \in 1..i : f[k] = order[k]
            BY <2>3, <4>1, FirstOnes
          <4>3. DOMAIN f = 1..i
            BY DEF First
          <4>4. Range(f) = {f[k] : k \in 1..i}
            BY ONLY <4>3, Zenon DEF Range
          <4>5. {f[k] : k \in 1..i} = {order[k] : k \in 1..i}
            BY ONLY <4>2
          <4> QED
            BY ONLY <4>2, <4>4, <4>5
        <3> HIDE DEF f, n
        <3>3. ASSUME NEW x \in D PROVE isIssuer(certs[x], certs[order[i]]) <=> x = order[i + 1]
          <4>1. PICK k \in D : order[k] = x
            BY <2>4
          <4>2. isIssuer(certs[x], certs[order[i]]) <=> chain[k].subject = chain[i + 1].subject
            BY <2>1, <2>2, <3>1, <4>1 DEF isIssuer
          <4>3. chain[k].subject = chain[i + 1].subject => k = i + 1
            BY <1>0, <2>2, <3>1
          <4>4. order[k] = order[i + 1] => chain[k] = chain[i + 1]
            BY <2>1, <3>1
          <4> QED
            BY <4>1, <4>2, <4>3, <4>4
        <3>4. order[i + 1] \notin Range(f)
          <4> SUFFICES ASSUME NEW k \in 1..i, order[k] = order[i + 1] PROVE FALSE
            BY <3>2
          <4>1. k \in D /\ k \in 1..n /\ k # i + 1
            BY <1>0
          <4>2. chain[k] = chain[i + 1]
            BY <2>1, <3>1, <4>1
          <4> QED
            BY <2>2, <3>1, <4>1, <4>2
        <3>5. order[i + 1] \in D
          BY <2>1, <3>1
        <3>6. Followers(certs, f) = {x \in D \ Range(f) : isIssuer(certs[x], certs[order[i]])}
          BY <3>2 DEF Followers
        <3>7. Followers(certs, f) = {order[i + 1]}
          BY <3>3, <3>4, <3>5, <3>6
        <3> QED
          BY <3>7 DEF f
      <2>7. ASSUME NEW x \in D PROVE Min({x}) = x
        <3>1. {x} \subseteq Nat /\ {x} # {}
          BY <1>0
        <3> QED
          BY <3>1, MinIsLeast
      <2>8. PICK sorted : SortedRule(sorted, certs)
        <3>1. Leaves(certs) # {}
          BY <2>5
        <3> QED
          BY <2>0, <3>1, SortedExist
      <2>9. sorted[1] = First(order, 1)
        <3>1. sorted[1] = <<order[1]>>
          BY <2>0, <2>1, <2>5, <2>7, <2>8 DEF SortedRule
        <3> QED
          BY <2>3, <3>1, FirstGrows
      <2>10. ASSUME NEW i \in 1..(n - 1), sorted[i] = First(order, i)
             PROVE  sorted[i + 1] = First(order, i + 1)
        <3>1. i + 1 \in 2..n /\ (i + 1) - 1 = i /\ i + 1 \in D
          BY <1>0
        <3>2. sorted[i + 1] = Followed(certs, First(order, i))
          BY ZenonT(40), <2>8, <2>10, <3>1 DEF SortedRule
        <3>3. Followed(certs, First(order, i)) = Append(First(order, i), order[i + 1])
          BY ZenonT(40), <2>1, <2>6, <2>7, <3>1 DEF Followed
        <3>4. Append(First(order, i), order[i + 1]) = First(order, i + 1)
          BY <2>3, FirstGrows
        <3> QED
          BY <3>2, <3>3, <3>4
      <2> DEFINE m == n - 1
                 S == {i \in 0..m : sorted[i + 1] = First(order, i + 1)}
      <2>11. m \in Nat /\ n = m + 1
        BY <1>0, <2>0
      <2>12. 0..m \subseteq S
        <3> HIDE DEF n, m
        <3>1. 0 \in S
          BY <2>9, <2>11
        <3>2. ASSUME NEW i \in 1..m, i - 1 \in S PROVE i \in S
          <4>1. (i - 1) + 1 = i /\ i \in 0..m /\ i \in 1..(n - 1)
            BY <2>11
          <4>2. sorted[i] = First(order, i)
            BY <3>2, <4>1
          <4> QED
            BY <2>10, <4>1, <4>2
        <3> HIDE DEF S
        <3> QED
          BY <2>11, <3>1, <3>2, BoundedInduction
      <2>13. sorted[n] = order
        <3> HIDE DEF n, m
        <3>1. m \in S
          BY <2>11, <2>12
        <3>2. sorted[n] = First(order, n)
          BY <2>11, <3>1
        <3> QED
          BY <2>3, <3>2, FirstGrows
      <2>14. sortCertificates(certs) = [k \in D |-> certs[order[k]]]
        BY <2>3, <2>8, <2>13 DEF SortedRule
      <2> QED
        BY <2>14
    <1> QED
      BY <1>1, <1>2

Rest(chain) == {chain[k] : k \in 2..Len(chain)}

\* A chain that ends with a root of the bundle, or just below one.
LEMMA ProperWhole ==
    ASSUME NEW A, NEW chain \in Seq(A), chain # <<>>, NEW bundle, NEW root \in bundle, NEW expiry,
           NEW whole, whole = IF Last(chain) = root THEN chain ELSE Append(chain, root),
           SelfIssued(root), IsChain(whole),
           \A b \in bundle : \A i \in DOMAIN whole : b.subject = whole[i].subject => b = whole[i],
           expiry => \A i \in DOMAIN whole : ~whole[i].expired,
           Len(chain) <= MaxChain
    PROVE  /\ NamesChain(chain)
           /\ verifyCertificate(bundle, chain[1], Rest(chain), expiry, FALSE) = {"ok"}
    <1> DEFINE n == Len(chain)
               m == Len(whole)
               U == A \union bundle
    <1>0. n \in Nat /\ n >= 1 /\ DOMAIN chain = 1..n /\ n <= MaxChain /\ MaxChain \in Nat
      BY ChainAssumption, EmptySeq, LenProperties
    <1>1. /\ whole \in Seq(U) /\ m \in n..(n + 1) /\ DOMAIN whole = 1..m
          /\ \A i \in 1..n : whole[i] = chain[i]
          /\ whole[m] = root /\ (m = n => Last(chain) = root)
      <2>0. chain \in Seq(U) /\ root \in U
        BY SeqMonotonic
      <2>1. CASE Last(chain) = root
        BY <1>0, <2>0, <2>1, LenProperties DEF Last
      <2>2. CASE Last(chain) # root
        <3> HIDE DEF U
        <3>1. /\ whole \in Seq(U) /\ m = n + 1 /\ whole[n + 1] = root
              /\ \A i \in 1..n : whole[i] = chain[i]
          BY <2>0, <2>2, AppendProperties
        <3>2. DOMAIN whole = 1..m
          BY <3>1, LenProperties
        <3> HIDE DEF n, m
        <3> QED
          BY <1>0, <3>1, <3>2
      <2> QED
        BY <2>1, <2>2
    <1>2. /\ \A i \in 1..(m - 1) : whole[i].issuer = whole[i + 1].subject
          /\ \A i, j \in 1..m : whole[i].subject = whole[j].subject => i = j
      BY <1>1 DEF IsChain
    <1>3. root.issuer = root.subject
      BY DEF SelfIssued
    <1>4. ProperChain(whole, bundle, expiry)
      <2>1. Last(whole) = root
        BY <1>1 DEF Last
      <2> QED
        BY <2>1 DEF ProperChain
    <1> HIDE DEF n, m, U
    <1>5. m \in Nat /\ m >= 1 /\ m <= MaxChain + 1 /\ n <= m /\ m <= n + 1
      BY ONLY <1>0, <1>1
    <1>6. NamesChain(chain)
      <2>1. \A i \in 1..(n - 1) : chain[i].issuer = chain[i + 1].subject
        <3> SUFFICES ASSUME NEW i \in 1..(n - 1) PROVE chain[i].issuer = chain[i + 1].subject
          OBVIOUS
        <3>1. i \in 1..n /\ i + 1 \in 1..n /\ i \in 1..(m - 1)
          BY <1>0, <1>5
        <3>2. whole[i].issuer = whole[i + 1].subject
          BY <1>2, <3>1
        <3> QED
          BY <1>1, <3>1, <3>2
      <2>2. \A i, j \in 1..n : chain[i].subject = chain[j].subject => i = j
        <3> SUFFICES ASSUME NEW i \in 1..n, NEW j \in 1..n, chain[i].subject = chain[j].subject
                     PROVE  i = j
          OBVIOUS
        <3>1. i \in 1..m /\ j \in 1..m
          BY <1>0, <1>5
        <3> QED
          BY <1>1, <1>2, <3>1
      <2>3. ASSUME n >= 2, NEW i \in 1..n PROVE chain[i].issuer # chain[1].subject
        <3>0. 1 \in 1..m /\ 1 \in 1..n /\ i \in 1..m
          BY <1>0, <1>5
        <3>1. CASE i = m
          <4>1. whole[i].issuer = whole[i].subject /\ i # 1
            BY <1>0, <1>1, <1>3, <1>5, <2>3, <3>1
          <4> QED
            BY <1>1, <1>2, <3>0, <4>1
        <3>2. CASE i # m
          <4>1. i \in 1..(m - 1) /\ i + 1 \in 1..m /\ i + 1 # 1
            BY <1>0, <1>5, <3>0, <3>2
          <4>2. whole[i].issuer = whole[i + 1].subject
            BY <1>2, <4>1
          <4>3. whole[i + 1].subject # whole[1].subject
            BY <1>2, <3>0, <4>1
          <4> QED
            BY <1>1, <3>0, <4>2, <4>3
        <3> QED
          BY <3>1, <3>2
      <2> QED
        BY <2>1, <2>2, <2>3 DEF NamesChain, n
    <1>7. \A u \in Rest(chain) : \E k \in DOMAIN whole : u = whole[k]
      <2> SUFFICES ASSUME NEW k \in 2..n PROVE k \in DOMAIN whole /\ chain[k] = whole[k]
        BY DEF Rest, n
      <2>1. k \in 1..n /\ k \in 1..m
        BY <1>0, <1>5
      <2> QED
        BY <1>1, <2>1
    <1>8. \A k \in 2..m : whole[k] \in bundle \union Rest(chain)
      <2> SUFFICES ASSUME NEW k \in 2..m PROVE whole[k] \in bundle \union Rest(chain)
        OBVIOUS
      <2>1. CASE k = m
        BY <1>1, <2>1
      <2>2. CASE k # m
        <3>1. k \in 2..n /\ k \in 1..n
          BY <1>0, <1>5, <2>2
        <3>2. whole[k] = chain[k]
          BY <1>1, <3>1
        <3> QED
          BY <3>1, <3>2 DEF Rest, n
      <2> QED
        BY <2>1, <2>2
    <1>9. whole[1] = chain[1] /\ whole # <<>>
      <2>1. 1 \in 1..n /\ m # 0
        BY <1>0, <1>5
      <2> QED
        BY <1>1, <2>1, EmptySeq DEF m
    <1>10. verifyCertificate(bundle, whole[1], Rest(chain), expiry, FALSE) = {"ok"}
      <2>1. /\ \A k \in 2..Len(whole) : whole[k] \in bundle \union Rest(chain)
            /\ Len(whole) <= MaxChain + 1
        BY <1>5, <1>8 DEF m
      <2> DEFINE R == Rest(chain)
      <2> HIDE DEF R
      <2>2. /\ \A u \in R : \E k \in DOMAIN whole : u = whole[k]
            /\ \A k \in 2..Len(whole) : whole[k] \in bundle \union R
        BY <1>7, <2>1 DEF R
      <2>3. whole \in Seq(U) /\ whole # <<>> /\ ProperChain(whole, bundle, expiry)
        BY <1>1, <1>4, <1>9
      <2>4. verifyCertificate(bundle, whole[1], R, expiry, FALSE) = {"ok"}
        BY ONLY <2>1, <2>2, <2>3, ProperIsVerified
      <2> QED
        BY <2>4 DEF R
    <1> QED
      BY <1>6, <1>9, <1>10

\* The first of a sequence and what follows it.
LEMMA HeadAndRest ==
    ASSUME NEW A, NEW chain \in Seq(A), chain # <<>>
    PROVE  Head(chain) = chain[1] /\ Range(Tail(chain)) = Rest(chain)
    <1> DEFINE n == Len(chain)
               t == Tail(chain)
    <1>1. /\ t \in Seq(A) /\ Len(t) = n - 1 /\ n \in Nat /\ n >= 1
          /\ \A i \in 1..Len(t) : t[i] = chain[i + 1]
      BY HeadTailProperties, EmptySeq, LenProperties
    <1>2. DOMAIN t = 1..(n - 1)
      BY <1>1, LenProperties
    <1> HIDE DEF n, t
    <1>3. \A k \in 2..n : k - 1 \in 1..(n - 1) /\ (k - 1) + 1 = k
      BY <1>1
    <1>4. \A i \in 1..(n - 1) : i + 1 \in 2..n
      BY <1>1
    <1>5. Range(t) = {chain[k] : k \in 2..n}
      <2>1. ASSUME NEW k \in 2..n PROVE chain[k] \in Range(t)
        <3>1. k - 1 \in DOMAIN t /\ t[k - 1] = chain[k]
          BY <1>1, <1>2, <1>3
        <3> QED
          BY <3>1 DEF Range
      <2>2. ASSUME NEW x \in Range(t) PROVE \E k \in 2..n : x = chain[k]
        <3>1. PICK i \in DOMAIN t : x = t[i]
          BY <2>2 DEF Range
        <3> QED
          BY <1>1, <1>2, <1>4, <3>1
      <2> QED
        BY <2>1, <2>2
    <1> QED
      BY <1>5 DEF Rest, n, t

\* What signingCertificates() and parseMultipleCert() give of texts that can all be parsed.
LEMMA AllParsed ==
    ASSUME NEW C, NEW texts \in Seq(SUBSET C), {} \notin Range(texts), texts # <<>>
    PROVE  /\ \A i \in DOMAIN texts : texts[i] # {} /\ Cert(texts[i]) \in C
           /\ [i \in DOMAIN texts |-> Cert(texts[i])] \in Seq(C)
           /\ loadFromStringMultiCerts(texts) = {[i \in DOMAIN texts |-> Cert(texts[i])]}
    <1> DEFINE n == Len(texts)
               certs == [i \in DOMAIN texts |-> Cert(texts[i])]
    <1>0. n \in Nat /\ n >= 1 /\ DOMAIN texts = 1..n
      BY EmptySeq, LenProperties
    <1>1. \A i \in DOMAIN texts : texts[i] # {}
      BY DEF Range
    <1>2. \A i \in DOMAIN texts : Cert(texts[i]) \in C
      <2> SUFFICES ASSUME NEW i \in DOMAIN texts PROVE Cert(texts[i]) \in C
        OBVIOUS
      <2>1. texts[i] \in SUBSET C
        BY <1>0, ElementOfSeq
      <2> QED
        BY <1>1, <2>1, CertIsMember
    <1>3. certs \in Seq(C)
      BY <1>0, <1>2, IsASeq
    <1>4. {i \in DOMAIN texts : texts[i] = {}} = {}
      BY <1>1
    <1>5. parseMultipleCert(texts) = certs
      BY <1>0, <1>4 DEF parseMultipleCert
    <1>6. certs # <<>>
      <2>1. Len(certs) = n
        BY <1>0, <1>3, LenProperties
      <2> QED
        BY <1>0, <2>1
    <1> HIDE DEF certs
    <1>7. loadFromStringMultiCerts(texts) = {certs}
      BY <1>5, <1>6 DEF loadFromStringMultiCerts
    <1> QED
      BY <1>1, <1>2, <1>3, <1>7 DEF certs

SameRest(certs, chain) == certs[1] = chain[1] /\ Rest(certs) = Rest(chain)

\* The certificate of an OCI signature is the first one, and the others may have any order.
LEMMA OtherOrder ==
    ASSUME NEW C, NEW certs \in Seq(C), NEW chain \in Seq(C), NEW order \in [DOMAIN certs -> DOMAIN certs],
           \A d \in DOMAIN certs : \E k \in DOMAIN certs : order[k] = d,
           chain = [i \in DOMAIN certs |-> certs[order[i]]], NamesChain(chain), certs # <<>>, order[1] = 1
    PROVE  SameRest(certs, chain)
    <1> DEFINE n == Len(certs)
    <1>0. n \in Nat /\ n >= 1 /\ DOMAIN certs = 1..n /\ Len(chain) = n
      BY EmptySeq, LenProperties
    <1>1. \A k \in 1..n : chain[k] = certs[order[k]] /\ order[k] \in 1..n
      BY <1>0
    <1>2. \A i, j \in 1..n : chain[i].subject = chain[j].subject => i = j
      BY <1>0 DEF NamesChain
    <1>3. \A d \in 1..n : \E k \in 1..n : order[k] = d
      BY <1>0
    <1> HIDE DEF n
    <1>4. 1 \in 1..n /\ (\A k \in 2..n : k \in 1..n /\ k # 1) /\ \A k \in 1..n : k # 1 => k \in 2..n
      <2>1. n \in Nat /\ n >= 1
        BY <1>0
      <2> QED
        BY ONLY <2>1
    <1>5. \A k \in 2..n : order[k] \in 2..n
      <2> SUFFICES ASSUME NEW k \in 2..n, order[k] = 1 PROVE FALSE
        BY <1>1, <1>4
      <2>1. chain[k] = chain[1] /\ k \in 1..n /\ k # 1
        BY <1>1, <1>4
      <2> QED
        BY <1>2, <1>4, <2>1
    <1>6. \A d \in 2..n : \E k \in 2..n : order[k] = d
      BY <1>3, <1>4
    <1>7. {certs[k] : k \in 2..n} = {chain[k] : k \in 2..n}
      <2>1. \A k \in 2..n : chain[k] = certs[order[k]]
        BY <1>1, <1>4
      <2> DEFINE P == 2..n
      <2>2. /\ \A k \in P : order[k] \in P /\ chain[k] = certs[order[k]]
            /\ \A d \in P : \E k \in P : order[k] = d
        BY <1>5, <1>6, <2>1
      <2> HIDE DEF P
      <2>3. ASSUME NEW d \in P PROVE certs[d] \in {chain[k] : k \in P}
        <3>1. PICK k \in P : order[k] = d
          BY <2>2
        <3> QED
          BY <2>2, <3>1
      <2>4. {chain[k] : k \in P} \subseteq {certs[k] : k \in P}
        BY ONLY <2>2
      <2> QED
        BY ZenonT(40), <2>3, <2>4 DEF P
    <1> QED
      BY <1>0, <1>1, <1>4, <1>7 DEF SameRest, Rest, n

\* A package that is properly signed opens, whatever OpenSSL chooses where it is free.
LEMMA ProperOpens ==
    ASSUME NEW C, pkg.sig.certs \in Seq(SUBSET C), Len(pkg.sig.certs) <= MaxChain,
           NEW format, NEW option, option # {}, ProperlySigned(format, Cert(option))
    PROVE  openPackageImpl(format, option, opts.expiry, FALSE) = {"ok"}
    <1> DEFINE doc == pkg.sig
               texts == doc.certs
               bundle == Cert(option)
               certs == [i \in DOMAIN texts |-> Cert(texts[i])]
               D == DOMAIN certs
    <1>1. /\ format # "Unknown" /\ doc.present /\ doc.wellFormed /\ doc.valid
          /\ doc.refs = <<"listed">> /\ {} \notin Range(texts) /\ texts # <<>>
      BY DEF ProperlySigned
    <1>2. /\ certs \in Seq(C) /\ D = DOMAIN texts /\ \A i \in DOMAIN texts : texts[i] # {}
      BY <1>1, AllParsed
    <1>3. Len(certs) = Len(texts) /\ certs # <<>> /\ DOMAIN texts = 1..Len(texts) /\ Len(texts) \in Nat
      <2>1. DOMAIN texts = 1..Len(texts) /\ Len(texts) \in Nat
        BY LenProperties
      <2>2. Len(certs) = Len(texts)
        BY <1>2, <2>1, LenProperties
      <2>3. Len(texts) # 0
        BY <1>1, EmptySeq
      <2> QED
        BY <2>1, <2>2, <2>3
    <1>4. PICK order \in Bijection(D, D), root \in bundle :
             LET chain == [i \in D |-> certs[order[i]]]
                 whole == IF Last(chain) = root THEN chain ELSE Append(chain, root)
             IN  /\ format = "Ralf" => order[1] = 1
                 /\ SelfIssued(root) /\ IsChain(whole)
                 /\ \A b \in bundle : \A i \in DOMAIN whole :
                       b.subject = whole[i].subject => b = whole[i]
                 /\ doc.value = {chain[1].key}
                 /\ opts.expiry => \A i \in DOMAIN whole : ~whole[i].expired
      BY DEF ProperlySigned
    <1> DEFINE chain == [i \in D |-> certs[order[i]]]
    <1>5. order \in [D -> D] /\ \A d \in D : \E k \in D : order[k] = d
      BY DEF Bijection, Injection, Surjection
    <1>6. chain \in Seq(C) /\ chain # <<>> /\ Len(chain) = Len(texts)
      <2> DEFINE n == Len(texts)
      <2>0. D = 1..n /\ n \in Nat /\ n # 0 /\ Len(certs) = n
        BY <1>1, <1>2, <1>3, EmptySeq
      <2> HIDE DEF certs, D, n
      <2>1. \A i \in 1..n : certs[order[i]] \in C
        BY <1>2, <1>5, <2>0, ElementOfSeq
      <2>2. [i \in 1..n |-> certs[order[i]]] \in Seq(C)
        BY <2>0, <2>1, IsASeq
      <2>3. chain \in Seq(C) /\ DOMAIN chain = 1..n
        BY <2>0, <2>2
      <2> HIDE DEF chain
      <2>4. Len(chain) = n
        BY <2>0, <2>3, LenProperties
      <2> QED
        BY <2>0, <2>3, <2>4 DEF n
    <1> HIDE DEF certs, chain, D
    <1>7. /\ NamesChain(chain)
          /\ verifyCertificate(bundle, chain[1], Rest(chain), opts.expiry, FALSE) = {"ok"}
      <2> DEFINE whole == IF Last(chain) = root THEN chain ELSE Append(chain, root)
      <2>1. /\ SelfIssued(root) /\ IsChain(whole)
            /\ \A b \in bundle : \A i \in DOMAIN whole : b.subject = whole[i].subject => b = whole[i]
            /\ opts.expiry => \A i \in DOMAIN whole : ~whole[i].expired
        BY <1>4 DEF chain
      <2>2. Len(chain) <= MaxChain
        BY <1>6
      <2> HIDE DEF bundle
      <2> QED
        BY <1>6, <2>1, <2>2, ProperWhole
    <1>8. doc.value = {chain[1].key} /\ doc.value # {}
      BY <1>4 DEF chain
    <1>9. CASE format = "Ralf"
      <2>1. certs[1] = chain[1] /\ Rest(certs) = Rest(chain)
        <3>1. order[1] = 1 /\ D = DOMAIN certs /\ chain = [i \in D |-> certs[order[i]]]
          BY <1>4, <1>9 DEF chain, D
        <3>2. /\ certs \in Seq(C) /\ chain \in Seq(C) /\ order \in [DOMAIN certs -> DOMAIN certs]
              /\ \A d \in DOMAIN certs : \E k \in DOMAIN certs : order[k] = d
              /\ chain = [i \in DOMAIN certs |-> certs[order[i]]] /\ NamesChain(chain) /\ certs # <<>>
          BY <1>2, <1>3, <1>5, <1>6, <1>7, <3>1
        <3>3. SameRest(certs, chain)
          BY <3>1, <3>2, OtherOrder
        <3> QED
          BY <3>3 DEF SameRest
      <2>2. loadFromString(texts) = texts[1] /\ texts[1] # {} /\ Cert(texts[1]) = certs[1]
        <3>1. 1 \in DOMAIN texts /\ Head(texts) = texts[1]
          BY <1>1, <1>3, EmptySeq
        <3> QED
          BY <1>1, <1>2, <3>1 DEF loadFromString, parseCert, certs
      <2> DEFINE others == IF Len(texts) < 2 THEN {<<>>} ELSE loadFromStringMultiCerts(Tail(texts))
      <2>3. others # {} /\ Range(Cert(others)) = Rest(certs)
        <3>1. CASE Len(texts) < 2
          <4>1. others = {<<>>} /\ Cert(others) = <<>>
            BY <3>1, CertIsMember DEF Cert
          <4>2. Range(<<>>) = {}
            BY DEF Range
          <4>3. Rest(certs) = {}
            <5>1. 2..Len(certs) = {}
              BY <1>3, <3>1
            <5> QED
              BY <5>1 DEF Rest
          <4> QED
            BY <4>1, <4>2, <4>3
        <3>2. CASE ~(Len(texts) < 2)
          <4> DEFINE t == Tail(texts)
                     rest == [i \in DOMAIN t |-> Cert(t[i])]
          <4>1. /\ t \in Seq(SUBSET C) /\ Len(t) = Len(texts) - 1
                /\ \A i \in 1..Len(t) : t[i] = texts[i + 1]
            BY <1>1, HeadTailProperties
          <4>2. t # <<>> /\ DOMAIN t = 1..(Len(texts) - 1)
            <5> DEFINE n == Len(texts)
                       m == Len(t)
            <5>a. n \in Nat /\ ~(n < 2) /\ m = n - 1
              BY <1>3, <3>2, <4>1
            <5> HIDE DEF n, m
            <5>b. m # 0
              BY ONLY <5>a
            <5>1. Len(t) # 0
              BY <5>b DEF m
            <5>2. t # <<>>
              <6> HIDE DEF t
              <6> QED
                BY <5>1
            <5> QED
              BY <4>1, <5>2, LenProperties
          <4>3. Range(t) \subseteq Range(texts)
            <5>1. Range(t) = Rest(texts)
              BY <1>1, HeadAndRest
            <5>2. 2..Len(texts) \subseteq DOMAIN texts
              BY <1>3
            <5> QED
              BY <5>1, <5>2 DEF Rest, Range
          <4>4. loadFromStringMultiCerts(t) = {rest}
            <5> HIDE DEF t
            <5> QED
              BY <1>1, <4>1, <4>2, <4>3, AllParsed
          <4>5. others = {rest} /\ Cert(others) = rest
            <5> HIDE DEF rest
            <5>1. others = {rest}
              BY <3>2, <4>4
            <5> QED
              BY <5>1 DEF Cert
          <4> DEFINE n == Len(texts)
          <4>6. Range(rest) = {certs[k] : k \in 2..n}
            <5>1. DOMAIN rest = 1..(n - 1) /\ n \in Nat
              BY <1>3, <4>2
            <5>2. \A i \in 1..(n - 1) : t[i] = texts[i + 1]
              BY <4>1
            <5> HIDE DEF n
            <5>3. \A i \in 1..(n - 1) : i + 1 \in 2..n /\ i + 1 \in 1..n
              BY <5>1
            <5>4. \A i \in 1..(n - 1) : rest[i] = certs[i + 1]
              BY <1>3, <4>2, <5>1, <5>2, <5>3 DEF certs, n
            <5>5. \A k \in 2..n : k - 1 \in 1..(n - 1) /\ (k - 1) + 1 = k
              BY <5>1
            <5> HIDE DEF rest
            <5>6. ASSUME NEW k \in 2..n PROVE certs[k] \in Range(rest)
              <6>1. rest[k - 1] = certs[k] /\ k - 1 \in DOMAIN rest
                BY <5>1, <5>4, <5>5
              <6> QED
                BY <6>1 DEF Range
            <5>7. ASSUME NEW x \in Range(rest) PROVE \E k \in 2..n : x = certs[k]
              <6>1. PICK i \in DOMAIN rest : x = rest[i]
                BY <5>7 DEF Range
              <6> QED
                BY <5>1, <5>3, <5>4, <6>1
            <5> QED
              BY <5>6, <5>7
          <4> HIDE DEF rest
          <4> QED
            BY <1>3, <4>5, <4>6 DEF Rest
        <3> QED
          BY <3>1, <3>2
      <2> HIDE DEF others
      <2>4. verifyCertificate(bundle, Cert(loadFromString(texts)), Range(Cert(others)), opts.expiry, FALSE) = {"ok"}
        BY <1>7, <2>1, <2>2, <2>3
      <2>5. signatureMatches(Cert(loadFromString(texts)), doc.value) /\ verifySignaturePayload(doc)
        BY <1>1, <1>8, <2>1, <2>2 DEF signatureMatches, verifySignaturePayload
      <2>6. verifyOCI(doc, bundle, opts.expiry, FALSE) = {"ok"}
        BY <1>1, <1>8, <2>2, <2>3, <2>4, <2>5 DEF verifyOCI, others
      <2> QED
        BY <1>1, <1>9, <2>6 DEF openPackageImpl
    <1>10. CASE format # "Ralf"
      <2>1. signingCertificates(doc) = chain
        <3>1. chain = [i \in DOMAIN certs |-> certs[order[i]]] /\ D = DOMAIN certs
          BY DEF chain, D
        <3>a. /\ certs \in Seq(C) /\ chain \in Seq(C) /\ order \in [DOMAIN certs -> DOMAIN certs]
              /\ \A d \in DOMAIN certs : \E k \in DOMAIN certs : order[k] = d
              /\ NamesChain(chain) /\ certs # <<>>
          BY <1>2, <1>3, <1>5, <1>6, <1>7, <3>1
        <3>2. sortCertificates(certs) = chain
          BY ONLY <3>1, <3>a, SortGivesChain
        <3>3. ~\E i \in DOMAIN doc.certs : doc.certs[i] = {}
          BY <1>2
        <3> QED
          BY <3>2, <3>3 DEF signingCertificates, certs
      <2>2. Head(chain) = chain[1] /\ Range(Tail(chain)) = Rest(chain)
        BY <1>6, HeadAndRest
      <2>3. signedByFirst(chain, doc.value)
        BY <1>8, <2>2 DEF signedByFirst, signatureMatches
      <2>4. verifyXml(doc, bundle, opts.expiry, FALSE) = {"ok"}
        BY <1>6, <1>7, <1>8, <2>1, <2>2, <2>3 DEF verifyXml
      <2>5. references(doc) = <<"listed">> /\ references(doc) # <<>> /\ "outside" \notin Range(references(doc))
        BY <1>1 DEF references, Range
      <2>6. parse(doc) = {}
        BY <1>1 DEF parse
      <2>7. verifyWidget(doc, bundle, opts.expiry, FALSE) = {"ok"}
        BY <1>1, <2>4, <2>5, <2>6 DEF verifyWidget
      <2> QED
        BY <1>1, <1>10, <2>7 DEF openPackageImpl
    <1> QED
      BY <1>9, <1>10

\* Why a package was refused: opening it may have that result.
RefusalInv ==
    /\ Len(pkg.sig.certs) <= MaxChain
    /\ refusal # "none" =>
          /\ pc = "exit" /\ refusal # "ok"
          /\ refusal \in openPackageImpl(detectPackageFormat(pkg.entries), creds, opts.expiry, fault)

\* No package has more certificates than OpenSSL follows (a longer chain is refused).
ShortChains == \A s \in Scenarios : Len(s[2].sig.certs) <= MaxChain

LEMMA RefusalInit == ASSUME ShortChains, Init PROVE RefusalInv
    BY DEF ShortChains, Init, RefusalInv

LEMMA RefusalStep == RefusalInv /\ [Next]_vars => RefusalInv'
    <1> SUFFICES ASSUME RefusalInv, [Next]_vars PROVE RefusalInv'
      OBVIOUS
    <1>1. CASE pc # "exit" /\ UNCHANGED <<refusal, pkg>>
      BY <1>1 DEF RefusalInv
    <1>2. CASE OpenPackage
      <2>1. refusal = "none" /\ UNCHANGED <<pkg, creds, opts>>
        BY <1>2 DEF OpenPackage, RefusalInv
      <2> DEFINE Opening(f) == openPackageImpl(detectPackageFormat(pkg.entries), creds, opts.expiry, f)
      <2>2. PICK f \in BOOLEAN :
              /\ fault' = f
              /\ \E r \in Opening(f) : \/ UNCHANGED refusal
                                       \/ r # "ok" /\ refusal' = r /\ pc' = "exit"
        BY <1>2 DEF OpenPackage, Exit
      <2>3. Opening(f) = Opening(fault)'
        BY <2>1, <2>2 DEF openPackageImpl
      <2> HIDE DEF Opening
      <2>4. refusal' # "none" => pc' = "exit" /\ refusal' # "ok" /\ refusal' \in Opening(fault)'
        BY <2>1, <2>2, <2>3
      <2> QED
        BY <2>1, <2>4 DEF RefusalInv, Opening
    <1>3. CASE UNCHANGED vars
      BY <1>3 DEF vars, RefusalInv, openPackageImpl
    <1> QED
      BY <1>1, <1>2, <1>3
      DEF Next, ParseArg, CheckOperation, LoadCertificates, VerifyPackage, ListPackage, ExtractPackage,
          MountPackage, DumpMetadata, DumpAuxMetadata, DumpSignatureInfo, Operation

\* A package that is properly signed is not refused, when nothing fails: for every number of
\* certificates that OpenSSL follows, every order of them in a widget and every bundle.
THEOREM ProperlySignedOpens == ASSUME ShortChains PROVE Spec => []TrustComplete
    <1>1. ToolInv /\ RefusalInv => TrustComplete
      <2> SUFFICES ASSUME ToolInv, RefusalInv, refusal # "none", ~fault, creds # {},
                          ProperlySigned(detectPackageFormat(pkg.entries), Cert(creds))
                   PROVE  FALSE
        BY DEF TrustComplete
      <2> DEFINE Opening(f) == openPackageImpl(detectPackageFormat(pkg.entries), creds, opts.expiry, f)
      <2>1. Opening(FALSE) = {"ok"}
        <3>1. pkg.sig.certs \in Seq(SUBSET Certificate) /\ Len(pkg.sig.certs) <= MaxChain
          BY DEF ToolInv, RefusalInv
        <3> QED
          BY <3>1, ProperOpens
      <2>2. Opening(fault) \subseteq Opening(FALSE)
        BY DEF openPackageImpl, verifyOCI, verifyWidget, verifyXml, verifyCertificate
      <2>3. refusal \in Opening(fault) /\ refusal # "ok"
        BY DEF RefusalInv
      <2> HIDE DEF Opening
      <2> QED
        BY <2>1, <2>2, <2>3
    <1>2. Init => RefusalInv
      BY RefusalInit
    <1> QED
      BY <1>1, <1>2, RefusalStep, ToolInvariant, PTL DEF Spec

-------------------------------------------------------------------------------
(* The meta data that threads share                                             *)

\* Only the thread with the lock reads meta data, and only while there is none; what a thread
\* was given is the meta data there is.
SharedInv ==
    \A t \in Threads :
        /\ call[t].op = "meta" => lock = t /\ cached = Widget!NoMetaData
        /\ call[t].result = "meta" => call[t].got = cached /\ cached # Widget!NoMetaData

\* A step of a thread that leaves the meta data alone; it takes or drops the lock only when no
\* other thread has it.
LEMMA SharedCall ==
    ASSUME WidgetInv, SharedInv, NEW t \in Threads, NEW new, call' = [call EXCEPT ![t] = new],
           cached' = cached,
           new.op = "meta" => lock' = t /\ cached = Widget!NoMetaData,
           new.result = "meta" => new.got = cached /\ cached # Widget!NoMetaData,
           lock' = lock \/ lock \in {t, Widget!None}
    PROVE  SharedInv'
    <1>1. \A u \in Threads : call'[u] = IF u = t THEN new ELSE call[u]
      BY DEF WidgetInv
    <1>2. \A u \in Threads : u # t /\ call[u].op = "meta" => lock' = u
      BY WidgetAssumption DEF SharedInv
    <1>3. ASSUME NEW u \in Threads
          PROVE  /\ call'[u].op = "meta" => lock' = u /\ cached' = Widget!NoMetaData
                 /\ call'[u].result = "meta" => call'[u].got = cached' /\ cached' # Widget!NoMetaData
      <2>1. CASE u = t
        BY <1>1, <2>1
      <2>2. CASE u # t
        BY <1>1, <1>2, <2>2 DEF SharedInv
      <2> QED
        BY <2>1, <2>2
    <1> QED
      BY <1>3 DEF SharedInv, Widget!NoMetaData

\* A call that fails has been given nothing.
LEMMA SharedReturns ==
    ASSUME WidgetInv, SharedInv, NEW t \in Threads, NEW r \in {"error", "verified"},
           Widget!Returns(t, r), cached' = cached, lock' = lock \/ lock \in {t, Widget!None}
    PROVE  SharedInv'
    <1> DEFINE new == [call[t] EXCEPT !.op = "idle", !.result = r]
    <1>1. call[t] \in CallType
      BY DEF WidgetInv
    <1>2. call' = [call EXCEPT ![t] = new]
      BY <1>1 DEF Widget!Returns, WidgetInv
    <1>3. new.op = "idle" /\ new.result = r
      BY <1>1 DEF CallType
    <1> HIDE DEF new
    <1>4. new.op # "meta" /\ new.result # "meta"
      BY <1>3
    <1> QED
      BY <1>2, <1>4, SharedCall

LEMMA SharedVerify ==
    ASSUME WidgetInv, SharedInv, NEW t \in Threads,
           Widget!BeginVerify(t) \/ Widget!VerifyEntry(t) \/ Widget!EndVerify(t)
    PROVE  SharedInv'
    <1>1. cached' = cached /\ lock' = lock /\ call[t] \in CallType
      BY DEF Widget!BeginVerify, Widget!VerifyEntry, Widget!EndVerify, WidgetInv
    <1>2. CASE Widget!BeginVerify(t)
      <2>1. PICK new \in {[Widget!Idle EXCEPT !.op = "verify", !.pos = 1], [Widget!Idle EXCEPT !.result = "error"]} :
                call' = [call EXCEPT ![t] = new]
        BY <1>2 DEF Widget!BeginVerify
      <2>2. new.op # "meta" /\ new.result # "meta"
        BY <2>1 DEF Widget!Idle
      <2> QED
        BY <1>1, <2>1, <2>2, SharedCall
    <1>3. CASE Widget!VerifyEntry(t)
      <2> DEFINE e == file[call[t].pos]
                 total == call[t].total + Widget!EntrySize(e)
                 passed == [call[t] EXCEPT !.pos = @ + 1]
                 checked == [call[t] EXCEPT !.pos = @ + 1, !.total = total, !.seen = Append(@, e)]
      <2>1. call[t].op = "verify" /\ call[t].result = "none"
        BY <1>3 DEF Widget!VerifyEntry, WidgetInv, CallOK
      <2>2. /\ passed.op # "meta" /\ passed.result # "meta"
            /\ checked.op # "meta" /\ checked.result # "meta"
        BY <1>1, <2>1 DEF CallType
      <2>3. \/ call' = [call EXCEPT ![t] = passed] \/ call' = [call EXCEPT ![t] = checked]
            \/ Widget!Returns(t, "error")
        BY <1>1, <1>3 DEF Widget!VerifyEntry, WidgetInv, CallType
      <2> HIDE DEF passed, checked
      <2> QED
        BY <1>1, <2>2, <2>3, SharedCall, SharedReturns
    <1>4. CASE Widget!EndVerify(t)
      BY <1>1, <1>4, SharedReturns DEF Widget!EndVerify
    <1> QED
      BY <1>2, <1>3, <1>4

LEMMA SharedGet ==
    ASSUME WidgetInv, SharedInv, NEW t \in Threads, Widget!GetMetaData(t)
    PROVE  SharedInv'
    <1>1. cached' = cached /\ lock = Widget!None
      BY DEF Widget!GetMetaData
    <1>2. CASE cached # Widget!NoMetaData
      <2> DEFINE new == [Widget!Idle EXCEPT !.result = "meta", !.got = cached]
      <2>1. new.op = "idle" /\ new.got = cached
        BY DEF Widget!Idle
      <2>2. call' = [call EXCEPT ![t] = new] /\ lock' = lock
        BY <1>2 DEF Widget!GetMetaData
      <2> HIDE DEF new
      <2> QED
        BY <1>1, <1>2, <2>1, <2>2, SharedCall
    <1>3. CASE cached = Widget!NoMetaData
      <2> DEFINE new == [Widget!Idle EXCEPT !.op = "meta", !.pos = 1]
      <2>1. new.op = "meta" /\ new.result = "none"
        BY DEF Widget!Idle
      <2>2. call' = [call EXCEPT ![t] = new] /\ lock' = t
        BY <1>3 DEF Widget!GetMetaData
      <2> HIDE DEF new
      <2> QED
        BY <1>1, <1>3, <2>1, <2>2, SharedCall
    <1> QED
      BY <1>2, <1>3

LEMMA SharedRead ==
    ASSUME WidgetInv, SharedInv, NEW t \in Threads, Widget!ReadMetaDataEntry(t)
    PROVE  SharedInv'
    <1> DEFINE c == call[t]
               e == file[c.pos]
               passed == [c EXCEPT !.pos = @ + 1]
               added(d) == [c EXCEPT !.pos = @ + 1, !.builder = Widget!AddMetaDataFile(@, e, d)]
    <1>1. /\ cached' = cached /\ c \in CallType /\ c.op = "meta" /\ c.result = "none"
          /\ lock = t /\ cached = Widget!NoMetaData
      BY DEF Widget!ReadMetaDataEntry, WidgetInv, CallOK, SharedInv
    <1>2. /\ passed.op = "meta" /\ passed.result = "none"
          /\ \A d : added(d).op = "meta" /\ added(d).result = "none"
      BY <1>1 DEF CallType
    <1>3. \/ call' = [call EXCEPT ![t] = passed] /\ lock' = lock
          \/ /\ \E d \in {e.content, Widget!Short} : call' = [call EXCEPT ![t] = added(d)]
             /\ lock' = lock
          \/ Widget!Returns(t, "error")
      BY <1>1 DEF Widget!ReadMetaDataEntry, WidgetInv, CallType
    <1> HIDE DEF passed, added, c
    <1>4. CASE call' = [call EXCEPT ![t] = passed] /\ lock' = lock
      BY <1>1, <1>2, <1>4, SharedCall
    <1>5. ASSUME NEW d, call' = [call EXCEPT ![t] = added(d)], lock' = lock PROVE SharedInv'
      <2> DEFINE new == added(d)
      <2>1. new.op = "meta" /\ new.result = "none" /\ call' = [call EXCEPT ![t] = new]
        BY <1>2, <1>5
      <2> HIDE DEF new
      <2> QED
        BY <1>1, <1>5, <2>1, SharedCall
    <1>6. CASE Widget!Returns(t, "error")
      BY <1>1, <1>6, SharedReturns
    <1> QED
      BY <1>3, <1>4, <1>5, <1>6

LEMMA SharedGenerate ==
    ASSUME WidgetInv, SharedInv, NEW t \in Threads, Widget!Generate(t)
    PROVE  SharedInv' /\ cached = Widget!NoMetaData
    <1> DEFINE c == call[t]
               b == c.builder
               new == [c EXCEPT !.op = "idle", !.result = "meta", !.got = b]
    <1>1. /\ c \in CallType /\ c.op = "meta" /\ b \in MetaDataType
          /\ lock = t /\ cached = Widget!NoMetaData
      BY DEF Widget!Generate, WidgetInv, SharedInv, CallType
    <1>2. \A u \in Threads : u # t => call[u].op # "meta" /\ call[u].result # "meta"
      BY <1>1 DEF SharedInv
    <1>3. CASE Widget!Returns(t, "error") /\ UNCHANGED cached
      BY <1>1, <1>3, SharedReturns
    <1>4. CASE /\ b.config \in Parsable /\ cached' = b
               /\ call' = [call EXCEPT ![t].op = "idle", ![t].result = "meta", ![t].got = b]
      <2>1. b # Widget!NoMetaData
        BY <1>4, WidgetAssumption DEF Widget!NoMetaData
      <2>2. new.op = "idle" /\ new.got = b
        BY <1>1 DEF CallType
      <2>3. \A u \in Threads : call'[u] = IF u = t THEN new ELSE call[u]
        BY <1>1, <1>4 DEF WidgetInv, CallType
      <2> HIDE DEF new, b, c
      <2>4. \A u \in Threads : /\ call'[u].op # "meta"
                               /\ call'[u].result = "meta" => call'[u].got = b
        BY <1>2, <2>2, <2>3
      <2> QED
        BY <1>1, <1>4, <2>1, <2>4 DEF SharedInv, Widget!NoMetaData
    <1> QED
      BY <1>1, <1>3, <1>4 DEF Widget!Generate

LEMMA SharedRest ==
    ASSUME SharedInv, UNCHANGED <<cached, lock, call>>
    PROVE  SharedInv'
    BY DEF SharedInv, Widget!NoMetaData

\* However many threads ask, and whatever happens to the file: there is one reading of the meta
\* data that succeeds, and every thread gets what it has read.
THEOREM MetaDataIsShared == Widget!Spec => MetaDataStable
    <1>1. Widget!Init => SharedInv
      BY DEF Widget!Init, Widget!Idle, SharedInv
    <1>2. WidgetInv /\ SharedInv /\ [Widget!Next]_(Widget!vars) =>
              SharedInv' /\ (cached # Widget!NoMetaData => cached' = cached)
      <2> SUFFICES ASSUME WidgetInv, SharedInv, [Widget!Next]_(Widget!vars)
                   PROVE  SharedInv' /\ (cached # Widget!NoMetaData => cached' = cached)
        OBVIOUS
      <2>1. CASE Widget!Open \/ Widget!ChangeFile \/ UNCHANGED Widget!vars
        BY <2>1, SharedRest DEF Widget!Open, Widget!ChangeFile, Widget!vars
      <2>2. ASSUME NEW t \in Threads,
                   Widget!BeginVerify(t) \/ Widget!VerifyEntry(t) \/ Widget!EndVerify(t)
            PROVE  SharedInv' /\ cached' = cached
        BY <2>2, SharedVerify DEF Widget!BeginVerify, Widget!VerifyEntry, Widget!EndVerify
      <2>3. ASSUME NEW t \in Threads, Widget!GetMetaData(t) PROVE SharedInv' /\ cached' = cached
        BY <2>3, SharedGet DEF Widget!GetMetaData
      <2>4. ASSUME NEW t \in Threads, Widget!ReadMetaDataEntry(t)
            PROVE  SharedInv' /\ cached' = cached
        BY <2>4, SharedRead DEF Widget!ReadMetaDataEntry
      <2>5. ASSUME NEW t \in Threads, Widget!Generate(t)
            PROVE  SharedInv' /\ cached = Widget!NoMetaData
        BY <2>5, SharedGenerate
      <2> QED
        BY <2>1, <2>2, <2>3, <2>4, <2>5 DEF Widget!Next
    <1>3. SharedInv' /\ (cached # Widget!NoMetaData => cached' = cached) =>
              /\ cached # Widget!NoMetaData => cached' = cached
              /\ \A t \in Threads : call'[t].result = "meta" => call'[t].got = cached'
      BY DEF SharedInv
    <1>4. WidgetInv /\ SharedInv /\ [Widget!Next]_(Widget!vars) =>
              SharedInv' /\ [/\ cached # Widget!NoMetaData => cached' = cached
                             /\ \A t \in Threads : call'[t].result = "meta" => call'[t].got = cached'
                            ]_(Widget!vars)
      BY <1>2, <1>3
    <1> QED
      BY <1>1, <1>4, WidgetInvariant, PTL DEF Widget!Spec, MetaDataStable, Widget!MetaDataStable

===============================================================================
