-------------------------- MODULE TokenTrust_proofs --------------------------
(***************************************************************************)
(* Theorems about tokens (TokenTrust), for every set of configurations,    *)
(* devices and evidence, any leeway and any number of tokens.              *)
(***************************************************************************)
EXTENDS TokenTrust, FiniteSetTheorems, SequenceTheorems, WellFoundedInduction, TLAPS

(* The inductive invariant: what is known of a token from how it was made. *)

\* A broker signs with a key that its configuration allows, and has its chain.
Broker(b) ==
    /\ b.type \in {"Ear", "Simple"}
    /\ b.private_key \in SigningKey
    /\ b.cert_chain \in CertChain

\* Keys of Intel Trust Authority, by their number.
JwkSet(s) == s \in Seq({<<n, ItaKey(n)>> : n \in Nat})

\* A token of the attestation service, signed by the key in its jwk.
AsToken(t) ==
    /\ t.by = "as" /\ t.kid = None /\ t.type \in {"Ear", "Simple"}
    /\ t.signed \in SigningKey /\ Kind(t.signed) \in {"RSA", "P-256"}
    /\ t.jwk \in [key : SigningKey, x5c : CertChain] /\ t.jwk.key = t.signed
    /\ t.exp \in Nat
    /\ t.of \in DeviceList
    /\ t.claims = IF t.type = "Ear" THEN EarClaims(t.of) ELSE SimpleClaims(t.of)

\* A token of Intel Trust Authority, for evidence that it takes.
FromIta(t) ==
    /\ t.by = "ita" /\ t.kid \in Nat /\ t.type = "Ita" /\ t.jwk = None
    /\ t.signed = ItaKey(t.kid)
    /\ t.exp \in Nat
    /\ t.of \in ItaEvidence /\ ItaRequest(t.of) # None
    /\ t.claims = ItaClaims(ItaRequest(t.of))

KbsFields == {"up", "backend", "certs_file", "trusted_certs", "trusted_jwk_sets", "insecure_key", "extra", "ita"}

\* The inductive invariant.
TrustInv ==
    /\ clock \in Nat /\ ita \in Nat \ {0} /\ keys \in Nat
    /\ broker # None => Broker(broker)
    /\ JwkSet(file)
    /\ kbs # None => JwkSet(kbs.trusted_jwk_sets) /\ JwkSet(kbs.ita) /\ DOMAIN kbs = KbsFields
    /\ \A t \in tokens : AsToken(t) \/ FromIta(t)

-----------------------------------------------------------------------------
(* Numbers and lists.                                                      *)

\* A set of natural numbers has a least one.
LEMMA Least ==
    ASSUME NEW S \in SUBSET Nat, S # {}
    PROVE  \E m \in S : \A k \in S : m <= k
<1>1. PICK m \in S : \A k \in S : ~(<<k, m>> \in OpToRel(<, Nat))
  BY NatLessThanWellFounded, WFMin, Zenon
<1>2. \A k \in S : ~(k < m)
  BY <1>1, Zenon DEF OpToRel
<1> QED BY <1>2

\* Min returns it.
LEMMA MinIn ==
    ASSUME NEW S \in SUBSET Nat, S # {}
    PROVE  Min(S) \in S /\ \A k \in S : Min(S) <= k
  BY Least, Zenon DEF Min

\* A set of the indices of a list has a greatest one.
LEMMA Greatest ==
    ASSUME NEW n \in Nat, NEW S \in SUBSET (1 .. n), S # {}
    PROVE  \E m \in S : \A k \in S : k <= m
<1> DEFINE T == {n - k : k \in S}
<1>0. \A k \in S : k \in Nat /\ k <= n
  OBVIOUS
<1>1. T \in SUBSET Nat
  <2>1. ASSUME NEW k \in S PROVE n - k \in Nat
    BY <1>0
  <2> QED BY <2>1, Zenon
<1>2. T # {}
  BY Zenon
<1>3. PICK x \in T : \A y \in T : x <= y
  BY <1>1, <1>2, Least, Zenon
<1>4. PICK m \in S : x = n - m
  BY <1>3, Zenon
<1>5. ASSUME NEW k \in S PROVE k <= m
  <2>1. n - m <= n - k
    BY <1>3, <1>4, Zenon
  <2> QED BY <1>0, <2>1
<1> QED BY <1>5, Zenon

-----------------------------------------------------------------------------
(* The invariant.                                                          *)

\* A configured or a new key makes a broker.
LEMMA StartsBroker ==
    ASSUME TrustInv, NEW c \in AsConfig, StartBroker(c)
    PROVE  (broker' # None => Broker(broker')) /\ keys' \in Nat
<1>0. c.broker \in {"Ear", "Simple"} /\ keys + 1 \in Nat
  BY TokenAssumption DEF TrustInv
<1>1. CASE c.signer = None
  <2>1. EphemeralKey(c.broker, keys + 1) \in SigningKey
    BY <1>0, Zenon DEF EphemeralKey, SignerKind, SigningKey
  <2> QED BY <1>0, <1>1, <2>1 DEF StartBroker, Broker, CertChain
<1>2. CASE c.signer # None
  <2>1. c.signer.key \in SigningKey /\ c.signer.cert_chain \in CertChain
    BY <1>2, Zenon DEF SigningKey, CertChain
  <2>2. broker' = FromSigner(c.broker, c.signer) /\ UNCHANGED keys
    BY <1>2, Zenon DEF StartBroker
  <2> QED BY <1>0, <2>1, <2>2, Zenon DEF FromSigner, Broker, SignerKind, TrustInv
<1> QED BY <1>1, <1>2, Zenon

\* What is published, saved and loaded are keys of the service, by their number.
LEMMA PublishedKeys == ASSUME ita \in Nat \ {0} PROVE JwkSet(Published) /\ JwkSet(<<>>) /\ JwkSet(<<<<1, ItaKey(1)>>>>)
<1> DEFINE S == {<<n, ItaKey(n)>> : n \in Nat}
<1>0. \A n \in Nat : <<n, ItaKey(n)>> \in S
  BY Zenon
<1> HIDE DEF S
<1>1. <<>> \in Seq(S) /\ \A n \in Nat : <<<<n, ItaKey(n)>>>> \in Seq(S)
  BY <1>0
<1>2. \A n, m \in Nat : <<<<n, ItaKey(n)>>, <<m, ItaKey(m)>>>> \in Seq(S)
  BY <1>0
<1>3. ita \in Nat /\ ita - 1 \in Nat /\ 1 \in Nat
  OBVIOUS
<1>4. Published \in Seq(S)
  BY <1>1, <1>2, <1>3, Zenon DEF Published
<1> QED BY <1>1, <1>3, <1>4, Zenon DEF JwkSet, S

\* What the token verifier loads.
LEMMA LoadedKeys ==
    ASSUME TrustInv, NEW c \in KbsConfig, LoadVerifier(c)
    PROVE  JwkSet(kbs'.trusted_jwk_sets) /\ JwkSet(kbs'.ita) /\ DOMAIN kbs' = KbsFields
<1> DEFINE Keys(p) == IF p \in c.trusted_jwk_sets THEN get_jwks_from_file_or_url(p) ELSE <<>>
<1>1. kbs'.trusted_jwk_sets = Keys("file") \o Keys("https") /\ kbs'.ita = <<>> /\ DOMAIN kbs' = KbsFields
  BY Zenon DEF LoadVerifier, KbsFields
<1>2. JwkSet(Keys("file")) /\ JwkSet(Keys("https")) /\ JwkSet(<<>>)
  BY PublishedKeys, Zenon DEF get_jwks_from_file_or_url, TrustInv
<1>3. ASSUME NEW a, NEW b, JwkSet(a), JwkSet(b) PROVE JwkSet(a \o b)
  BY <1>3, ConcatProperties, Zenon DEF JwkSet
<1> HIDE DEF Keys
<1> QED BY <1>1, <1>2, <1>3, Zenon

\* A token that is issued.
LEMMA IssuedForm ==
    ASSUME TrustInv, broker # None, Kind(broker.private_key) = SignerKind(broker.type), NEW cs \in DeviceList
    PROVE  AsToken(Issued(broker, cs))
<1>1. clock + Duration \in Nat
  BY TokenAssumption DEF TrustInv
<1>2. Broker(broker)
  BY Zenon DEF TrustInv
<1>3. pubkey_jwk(broker) \in [key : SigningKey, x5c : CertChain] /\ pubkey_jwk(broker).key = broker.private_key
  BY <1>2, Zenon DEF pubkey_jwk, Broker
<1>4. Kind(broker.private_key) \in {"RSA", "P-256"}
  BY Zenon DEF SignerKind
<1> QED BY <1>1, <1>2, <1>3, <1>4, Zenon DEF AsToken, Issued, Broker

\* A token of Intel Trust Authority.
LEMMA ItaTokenForm ==
    ASSUME TrustInv, NEW es \in ItaEvidence, ItaRequest(es) # None
    PROVE  FromIta(ItaToken(es, ItaRequest(es)))
<1>1. clock + Duration \in Nat
  BY TokenAssumption DEF TrustInv
<1>2. ita \in Nat
  BY Zenon DEF TrustInv
<1> QED BY <1>1, <1>2, Zenon DEF FromIta, ItaToken

\* It always holds.
LEMMA TrustInvariant == Spec => []TrustInv
<1>1. Init => TrustInv
  <2>1. Init => ita \in Nat \ {0} /\ clock \in Nat /\ keys \in Nat
    BY DEF Init
  <2> QED BY <2>1, PublishedKeys, Zenon DEF Init, TrustInv
<1>2. ASSUME TrustInv, [Next]_vars PROVE TrustInv'
  <2> USE <1>2
  <2>1. ASSUME NEW c \in AsConfig, StartBroker(c) PROVE TrustInv'
    BY <2>1, StartsBroker, Zenon DEF StartBroker, TrustInv
  <2>2. ASSUME NEW c \in KbsConfig, LoadVerifier(c) PROVE TrustInv'
    BY <2>2, LoadedKeys, Zenon DEF LoadVerifier, TrustInv
  <2>3. CASE LoadBackend
    <3> DEFINE new == IF kbs.backend = "ita" THEN get_jwks_from_file_or_url(kbs.certs_file) ELSE <<>>
    <3>1. JwkSet(new)
      BY PublishedKeys, Zenon DEF get_jwks_from_file_or_url, TrustInv
    <3> HIDE DEF new
    <3>2. kbs' = [kbs EXCEPT !.up = TRUE, !.ita = new] /\ kbs # None
      BY <2>3, Zenon DEF LoadBackend, new
    <3>3. JwkSet(kbs.trusted_jwk_sets) /\ DOMAIN kbs = KbsFields
      BY <3>2, Zenon DEF TrustInv
    <3>4. kbs'.ita = new /\ kbs'.trusted_jwk_sets = kbs.trusted_jwk_sets /\ DOMAIN kbs' = KbsFields
      BY <3>2, <3>3 DEF KbsFields
    <3> QED BY <2>3, <3>1, <3>3, <3>4, Zenon DEF LoadBackend, TrustInv
  <2>4. CASE StopKbs
    BY <2>4, Zenon DEF StopKbs, TrustInv
  <2>5. CASE SaveKeys
    BY <2>5, PublishedKeys, Zenon DEF SaveKeys, TrustInv
  <2>6. ASSUME NEW cs \in DeviceList, Attest(cs) PROVE TrustInv'
    BY <2>6, IssuedForm, Zenon DEF Attest, TrustInv
  <2>7. ASSUME NEW es \in ItaEvidence, ItaAttest(es) PROVE TrustInv'
    BY <2>7, ItaTokenForm, Zenon DEF ItaAttest, TrustInv
  <2>8. CASE Rotate \/ Tick
    <3>1. ita' \in Nat \ {0} /\ clock' \in Nat
      BY <2>8 DEF Rotate, Tick, TrustInv
    <3> QED BY <2>8, <3>1, Zenon DEF Rotate, Tick, TrustInv
  <2>9. CASE UNCHANGED vars
    BY <2>9, Zenon DEF vars, TrustInv
  <2> QED BY <2>1, <2>2, <2>3, <2>4, <2>5, <2>6, <2>7, <2>8, <2>9, ZenonT(40) DEF Next
<1> QED BY <1>1, <1>2, PTL DEF Spec

-----------------------------------------------------------------------------
(* Which tokens are accepted.                                              *)

\* More certificates to choose from do not break a chain.
LEMMA MoreCertificates ==
    ASSUME NEW c, NEW others, NEW more, others \subseteq more, NEW trusted, NEW now,
           VerifyCert(c, others, trusted, now)
    PROVE  VerifyCert(c, more, trusted, now)
<1> DEFINE Leads(n, chain) ==
             /\ chain[1] = c
             /\ \A i \in 1 .. n - 1 : chain[i].issuer = chain[i + 1].subject
             /\ \A i \in 1 .. n : now <= chain[i].until
             /\ chain[n] \in trusted /\ SelfSigned(chain[n])
<1>1. PICK n \in 1 .. MaxChain : \E chain \in [1 .. n -> {c} \cup others \cup trusted] : Leads(n, chain)
  BY Zenon DEF VerifyCert
<1>2. PICK chain \in [1 .. n -> {c} \cup others \cup trusted] : Leads(n, chain)
  BY <1>1, Zenon
<1>3. chain \in [1 .. n -> {c} \cup more \cup trusted]
  BY Zenon
<1> QED BY <1>2, <1>3, Zenon DEF VerifyCert

\* The certificates of a chain, and of what follows its first.
LEMMA ChainParts ==
    ASSUME NEW x5c \in CertChain, x5c \notin {None, <<>>}
    PROVE  /\ x5c \in Seq(Range(x5c)) /\ Len(x5c) \in Nat \ {0} /\ Head(x5c) = x5c[1]
           /\ Range(Tail(x5c)) = {x5c[i] : i \in 2 .. Len(x5c)}
           /\ Head(x5c) \in Certificates /\ Range(Tail(x5c)) \subseteq Certificates
<1>1. x5c \in Seq(Range(x5c))
  BY TokenAssumption, Zenon
<1>2. Len(x5c) \in Nat \ {0} /\ Head(x5c) = x5c[1] /\ DOMAIN x5c = 1 .. Len(x5c)
  BY <1>1
<1>3. /\ DOMAIN Tail(x5c) = 1 .. Len(x5c) - 1
      /\ \A i \in 1 .. Len(x5c) - 1 : Tail(x5c)[i] = x5c[i + 1]
  BY <1>1
<1>4. Range(Tail(x5c)) = {x5c[i] : i \in 2 .. Len(x5c)}
  <2>1. ASSUME NEW i \in 2 .. Len(x5c) PROVE i - 1 \in 1 .. Len(x5c) - 1 /\ (i - 1) + 1 = i
    BY <1>2
  <2>2. ASSUME NEW i \in 1 .. Len(x5c) - 1 PROVE i + 1 \in 2 .. Len(x5c)
    BY <1>2
  <2>3. ASSUME NEW i \in 2 .. Len(x5c) PROVE x5c[i] = Tail(x5c)[i - 1] /\ i - 1 \in DOMAIN Tail(x5c)
    BY <1>3, <2>1, Zenon
  <2>4. ASSUME NEW i \in DOMAIN Tail(x5c) PROVE Tail(x5c)[i] = x5c[i + 1] /\ i + 1 \in 2 .. Len(x5c)
    BY <1>3, <2>2, Zenon
  <2>5. Range(Tail(x5c)) = {Tail(x5c)[i] : i \in DOMAIN Tail(x5c)}
    BY Zenon DEF Range
  <2>6. Range(Tail(x5c)) \subseteq {x5c[i] : i \in 2 .. Len(x5c)}
    BY <2>4, <2>5, Zenon
  <2>7. {x5c[i] : i \in 2 .. Len(x5c)} \subseteq Range(Tail(x5c))
    BY <2>3, <2>5, Zenon
  <2> QED BY <2>6, <2>7, Zenon
<1>5. Range(x5c) \subseteq Certificates
  BY Zenon DEF Certificates, CertChain
<1>6. Head(x5c) \in Range(x5c) /\ Range(Tail(x5c)) \subseteq Range(x5c)
  <2>1. 1 \in 1 .. Len(x5c) /\ \A i \in 2 .. Len(x5c) : i \in 1 .. Len(x5c)
    BY <1>2
  <2> QED BY <1>2, <1>4, <2>1, Zenon DEF Range
<1> QED BY <1>1, <1>2, <1>4, <1>5, <1>6, Zenon

\* The key that is looked up by its number.
LEMMA KeyById ==
    ASSUME NEW v, JwkSet(v.trusted_jwk_sets), NEW t, FromIta(t), NEW now
    PROVE  LET found == {i \in DOMAIN v.trusted_jwk_sets : v.trusted_jwk_sets[i][1] = t.kid}
           IN  /\ found = {} => get_verification_jwk(v, t, now) = None
               /\ found # {} => /\ Min(found) \in found
                               /\ get_verification_jwk(v, t, now) = v.trusted_jwk_sets[Min(found)][2]
                               /\ get_verification_jwk(v, t, now) = t.signed
<1> DEFINE found == {i \in DOMAIN v.trusted_jwk_sets : v.trusted_jwk_sets[i][1] = t.kid}
<1>1. t.jwk = None /\ t.kid # None /\ t.signed = ItaKey(t.kid)
  BY TokenAssumption, Zenon DEF FromIta
<1>2. get_verification_jwk(v, t, now) = IF found = {} THEN None ELSE v.trusted_jwk_sets[Min(found)][2]
  BY <1>1, Zenon DEF get_verification_jwk
<1>0. \A i \in DOMAIN v.trusted_jwk_sets :
        i \in Nat /\ v.trusted_jwk_sets[i] \in {<<n, ItaKey(n)>> : n \in Nat}
  BY DEF JwkSet
<1>3. ASSUME found # {} PROVE Min(found) \in found
  <2>1. found \in SUBSET Nat
    BY <1>0, Zenon
  <2> QED BY <1>3, <2>1, MinIn, Zenon
<1>4. ASSUME found # {} PROVE v.trusted_jwk_sets[Min(found)][2] = t.signed
  <2>1. v.trusted_jwk_sets[Min(found)][1] = t.kid /\ Min(found) \in DOMAIN v.trusted_jwk_sets
    BY <1>3, <1>4, Zenon
  <2>2. PICK n \in Nat : v.trusted_jwk_sets[Min(found)] = <<n, ItaKey(n)>>
    BY <1>0, <2>1, Zenon
  <2>3. n = t.kid
    BY <2>1, <2>2
  <2> QED BY <1>1, <2>2, <2>3
<1> QED BY <1>2, <1>3, <1>4, Zenon

\* The key in the header of a token of the attestation service.
LEMMA KeyInHeader ==
    ASSUME NEW v, NEW t, AsToken(t), NEW now
    PROVE  /\ t.jwk # None
           /\ get_verification_jwk(v, t, now) =
                IF v.insecure_key \/ (v.trusted_certs # {} /\ verify_jwk_endorsement(v, t.jwk, now))
                  THEN t.signed ELSE None
           /\ t.signed # None
  BY TokenAssumption, Zenon DEF AsToken, get_verification_jwk

\* Every token that the KBS accepts has not expired, and is signed with a key that
\* a trusted certificate or a published key vouches for, whatever the attestation
\* service puts next to its key (JwkAttestationTokenVerifier::verify).
THEOREM AcceptedEndorsed == Spec => []AcceptedIsEndorsed
<1>1. ASSUME TrustInv, NEW t \in tokens, Accepts(t) PROVE clock <= t.exp + Leeway
  <2>1. t.exp \in Nat /\ clock \in Nat /\ Leeway \in Nat
    BY <1>1, TokenAssumption, Zenon DEF TrustInv, AsToken, FromIta
  <2>2. t.exp >= clock - Leeway
    BY <1>1, Zenon DEF Accepts, verify
  <2> QED BY <2>1, <2>2
<1>2. ASSUME TrustInv, NEW t \in tokens, Accepts(t), ~kbs.insecure_key
      PROVE  \/ \E c \in Certificates : c.key = t.signed /\ VerifyCert(c, Certificates, kbs.trusted_certs, clock)
             \/ \E i \in DOMAIN kbs.trusted_jwk_sets : kbs.trusted_jwk_sets[i][2] = t.signed
  <2>1. kbs # None /\ get_verification_jwk(kbs, t, clock) # None /\ t.signed = get_verification_jwk(kbs, t, clock)
    BY <1>2, Zenon DEF Accepts, verify
  <2>2. CASE AsToken(t)
    <3>1. verify_jwk_endorsement(kbs, t.jwk, clock)
      BY <1>2, <2>1, <2>2, KeyInHeader, Zenon
    <3>2. /\ t.jwk.x5c \in CertChain /\ t.jwk.x5c \notin {None, <<>>} /\ t.signed = Head(t.jwk.x5c).key
          /\ VerifyCert(Head(t.jwk.x5c), Range(Tail(t.jwk.x5c)), kbs.trusted_certs, clock)
      BY <2>2, <3>1, Zenon DEF verify_jwk_endorsement, AsToken
    <3>3. Head(t.jwk.x5c) \in Certificates /\ Range(Tail(t.jwk.x5c)) \subseteq Certificates
      BY <3>2, ChainParts, Zenon
    <3>4. VerifyCert(Head(t.jwk.x5c), Certificates, kbs.trusted_certs, clock)
      BY <3>2, <3>3, MoreCertificates, Zenon
    <3> QED BY <3>2, <3>3, <3>4, Zenon
  <2>3. CASE FromIta(t)
    <3>1. JwkSet(kbs.trusted_jwk_sets)
      BY <1>2, <2>1, Zenon DEF TrustInv
    <3> QED BY <2>1, <2>3, <3>1, KeyById, Zenon
  <2> QED BY <1>2, <2>2, <2>3, Zenon DEF TrustInv
<1>3. TrustInv => AcceptedIsEndorsed
  BY <1>1, <1>2, Zenon DEF AcceptedIsEndorsed
<1> QED BY <1>3, TrustInvariant, PTL

\* A chain of certificates up to a trusted root verifies, if it is in order and
\* all of it valid.
LEMMA ChainVerifies ==
    ASSUME NEW x5c \in CertChain, x5c \notin {None, <<>>}, Len(x5c) < MaxChain, NEW trusted, NEW now,
           \A i \in 1 .. Len(x5c) - 1 : x5c[i].issuer = x5c[i + 1].subject,
           \A i \in DOMAIN x5c : now <= x5c[i].until,
           NEW r \in trusted, SelfSigned(r), x5c[Len(x5c)].issuer = r.subject, now <= r.until
    PROVE  VerifyCert(Head(x5c), Range(Tail(x5c)), trusted, now)
<1> DEFINE m == Len(x5c)
           n == m + 1
           S == {Head(x5c)} \cup Range(Tail(x5c)) \cup trusted
           chain == [i \in 1 .. n |-> IF i <= m THEN x5c[i] ELSE r]
<1>1. /\ m \in Nat \ {0} /\ Head(x5c) = x5c[1] /\ Range(Tail(x5c)) = {x5c[i] : i \in 2 .. m}
      /\ DOMAIN x5c = 1 .. m
  BY ChainParts
<1>2. n \in 1 .. MaxChain /\ n \in Nat /\ ~(n <= m) /\ 1 <= m /\ 1 \in 1 .. n /\ n \in 1 .. n
  BY <1>1, TokenAssumption
<1> HIDE DEF m
<1>3. ASSUME NEW i \in 1 .. n PROVE chain[i] \in S
  <2>1. CASE i = 1
    BY <1>1, <1>2, <2>1, Zenon
  <2>2. CASE i # 1 /\ i <= m
    BY <1>1, <2>2
  <2>3. CASE ~(i <= m)
    BY <2>3, Zenon
  <2> QED BY <2>1, <2>2, <2>3, Zenon
<1>4. chain \in [1 .. n -> S]
  BY <1>3, Zenon
<1>5. chain[1] = Head(x5c) /\ chain[n] = r
  BY <1>1, <1>2, Zenon
<1>6. ASSUME NEW i \in 1 .. n - 1 PROVE chain[i].issuer = chain[i + 1].subject
  <2>1. i \in 1 .. n /\ i + 1 \in 1 .. n /\ i <= m
    BY <1>1
  <2>2. CASE i = m
    <3>1. chain[i] = x5c[m] /\ chain[i + 1] = r
      BY <1>1, <1>2, <2>1, <2>2, Zenon
    <3> QED BY <3>1, Zenon DEF m
  <2>3. CASE i # m
    <3>1. i \in 1 .. m - 1 /\ i + 1 <= m
      BY <1>1, <2>1, <2>3
    <3> QED BY <2>1, <3>1, Zenon DEF m
  <2> QED BY <2>2, <2>3, Zenon
<1>7. ASSUME NEW i \in 1 .. n PROVE now <= chain[i].until
  BY <1>1
<1> HIDE DEF chain, n, S
<1> QED BY <1>2, <1>4, <1>5, <1>6, <1>7, Zenon DEF VerifyCert, S

\* A token of a service that the KBS is configured to trust is accepted until it
\* expires, across restarts of both and however the keys rotate
\* (verify_jwk_endorsement, get_verification_jwk).
THEOREM TrustedAccepted == Spec => []TrustedIsAccepted
<1>1. ASSUME TrustInv, NEW t \in tokens, kbs # None, kbs.up, clock <= t.exp,
             get_verification_jwk(kbs, t, clock) = t.signed, t.signed # None
      PROVE  Accepts(t)
  <2>1. t.exp \in Nat /\ clock \in Nat /\ Leeway \in Nat
    BY <1>1, TokenAssumption, Zenon DEF TrustInv, AsToken, FromIta
  <2>2. t.exp >= clock - Leeway
    BY <1>1, <2>1
  <2> QED BY <1>1, <2>2, Zenon DEF Accepts, verify
<1>2. ASSUME TrustInv, NEW t \in tokens, kbs # None, kbs.up, clock <= t.exp, t.by = "as",
             t.jwk.x5c \notin {None, <<>>}, Len(t.jwk.x5c) < MaxChain,
             Head(t.jwk.x5c).key = t.signed,
             \A i \in 1 .. Len(t.jwk.x5c) - 1 : t.jwk.x5c[i].issuer = t.jwk.x5c[i + 1].subject,
             \A i \in DOMAIN t.jwk.x5c : clock <= t.jwk.x5c[i].until,
             NEW r \in kbs.trusted_certs, SelfSigned(r), t.jwk.x5c[Len(t.jwk.x5c)].issuer = r.subject, clock <= r.until
      PROVE  Accepts(t)
  <2>1. AsToken(t)
    BY <1>2, Zenon DEF TrustInv, FromIta
  <2>2. t.jwk.x5c \in CertChain /\ t.jwk.key = t.signed /\ Kind(t.signed) \in {"RSA", "P-256"}
    BY <2>1, Zenon DEF AsToken
  <2>3. VerifyCert(Head(t.jwk.x5c), Range(Tail(t.jwk.x5c)), kbs.trusted_certs, clock)
    BY <1>2, <2>2, ChainVerifies, Zenon
  <2>4. verify_jwk_endorsement(kbs, t.jwk, clock)
    BY <1>2, <2>2, <2>3, Zenon DEF verify_jwk_endorsement
  <2>5. get_verification_jwk(kbs, t, clock) = t.signed /\ t.signed # None
    BY <1>2, <2>1, <2>4, KeyInHeader, Zenon
  <2> QED BY <1>1, <1>2, <2>5, Zenon
<1>3. ASSUME TrustInv, NEW t \in tokens, kbs # None, kbs.up, clock <= t.exp, t.by = "ita",
             <<t.kid, t.signed>> \in Range(kbs.trusted_jwk_sets)
      PROVE  Accepts(t)
  <2>1. FromIta(t) /\ JwkSet(kbs.trusted_jwk_sets)
    BY <1>3, Zenon DEF TrustInv, AsToken
  <2>2. PICK i \in DOMAIN kbs.trusted_jwk_sets : kbs.trusted_jwk_sets[i] = <<t.kid, t.signed>>
    BY <1>3, Zenon DEF Range
  <2>3. kbs.trusted_jwk_sets[i][1] = t.kid
    BY <2>2
  <2>4. get_verification_jwk(kbs, t, clock) = t.signed
    BY <2>1, <2>3, KeyById, ZenonT(40)
  <2>5. t.signed \in SigningKey
    BY <2>1 DEF FromIta, ItaKey, SigningKey
  <2>6. t.signed # None
    BY <2>5, TokenAssumption, Zenon
  <2> QED BY <1>1, <1>3, <2>4, <2>6, Zenon
<1>4. TrustInv => TrustedIsAccepted
  BY <1>2, <1>3, Zenon DEF TrustedIsAccepted
<1> QED BY <1>4, TrustInvariant, PTL

-----------------------------------------------------------------------------
(* What the brokers put into a token.                                      *)

\* The devices of a class that come before one of it.
Before(cs, i) == {j \in 1 .. i - 1 : cs[j].tee_class = cs[i].tee_class}

\* A list of devices is a sequence that is not empty.
LEMMA Devices ==
    ASSUME NEW cs \in DeviceList
    PROVE  cs \in Seq(Range(cs)) /\ Len(cs) \in Nat \ {0} /\ DOMAIN cs = 1 .. Len(cs)
<1>1. cs \in Seq(Range(cs)) /\ cs # <<>>
  BY TokenAssumption, Zenon
<1> QED BY <1>1

\* A set without one of its elements is smaller.
LEMMA Fewer ==
    ASSUME NEW S, IsFiniteSet(S), NEW T \in SUBSET S, NEW x \in S, x \notin T
    PROVE  /\ Cardinality(T) \in Nat /\ Cardinality(S) \in Nat
           /\ Cardinality(T) < Cardinality(S)
<1>1. IsFiniteSet(T) /\ Cardinality(T) <= Cardinality(S) /\ (Cardinality(T) = Cardinality(S) => T = S)
  BY FS_Subset, Zenon
<1>2. Cardinality(T) \in Nat /\ Cardinality(S) \in Nat
  BY <1>1, FS_CardinalityType, Zenon
<1>3. T # S
  BY Zenon
<1> QED BY <1>1, <1>2, <1>3

\* Without wrapping, the index of a device counts those before it.
LEMMA IndexCounts ==
    ASSUME NEW cs \in DeviceList, Fits(cs), NEW i \in DOMAIN cs
    PROVE  /\ IsFiniteSet(Before(cs, i)) /\ Cardinality(Before(cs, i)) \in Nat
           /\ tee_class_index(cs, i) = Cardinality(Before(cs, i))
<1> DEFINE S == {j \in DOMAIN cs : cs[j].tee_class = cs[i].tee_class}
           n == Cardinality(Before(cs, i))
<1>1. Len(cs) \in Nat \ {0} /\ DOMAIN cs = 1 .. Len(cs)
  BY Devices, Zenon
<1>2. IsFiniteSet(S)
  <2>1. IsFiniteSet(1 .. Len(cs))
    BY <1>1, FS_Interval
  <2> QED BY <1>1, <2>1, FS_Subset, Zenon
<1>3. Before(cs, i) \in SUBSET S /\ i \in S /\ i \notin Before(cs, i)
  BY <1>1 DEF Before
<1>4. n \in Nat /\ Cardinality(S) \in Nat /\ n < Cardinality(S) /\ IsFiniteSet(Before(cs, i))
  BY <1>2, <1>3, Fewer, FS_Subset
<1>5. Cardinality(S) <= IndexRange
  BY Zenon DEF Fits
<1>6. ASSUME NEW a \in Nat, NEW b \in Nat \ {0}, a < b PROVE a % b = a
  BY <1>6
<1>7. tee_class_index(cs, i) = n % IndexRange
  BY Zenon DEF tee_class_index, Before
<1> HIDE DEF n, S
<1>8. n < IndexRange /\ IndexRange \in Nat \ {0}
  BY <1>4, <1>5, TokenAssumption
<1> QED BY <1>4, <1>6, <1>7, <1>8, Zenon DEF n

\* Without wrapping, no two devices have the same name.
LEMMA NamesDiffer ==
    ASSUME NEW cs \in DeviceList, Fits(cs), NEW i \in DOMAIN cs, NEW j \in DOMAIN cs, i # j
    PROVE  submod_name(cs, i) # submod_name(cs, j)
<1>1. Len(cs) \in Nat \ {0} /\ DOMAIN cs = 1 .. Len(cs)
  BY Devices, Zenon
<1>2. ASSUME NEW a \in DOMAIN cs, NEW b \in DOMAIN cs, a < b, cs[a].tee_class = cs[b].tee_class
      PROVE  tee_class_index(cs, a) # tee_class_index(cs, b)
  <2>1. IsFiniteSet(Before(cs, b)) /\ tee_class_index(cs, a) = Cardinality(Before(cs, a))
        /\ tee_class_index(cs, b) = Cardinality(Before(cs, b))
    BY IndexCounts, Zenon
  <2>2. Before(cs, a) \in SUBSET Before(cs, b) /\ a \in Before(cs, b) /\ a \notin Before(cs, a)
    BY <1>1, <1>2 DEF Before
  <2> QED BY <2>1, <2>2, Fewer
<1>3. CASE cs[i].tee_class # cs[j].tee_class
  BY <1>3, Zenon DEF submod_name
<1>4. CASE cs[i].tee_class = cs[j].tee_class
  <2>1. i < j \/ j < i
    BY <1>1
  <2>2. tee_class_index(cs, i) # tee_class_index(cs, j)
    BY <1>2, <1>4, <2>1, Zenon
  <2> QED BY <2>2, Zenon DEF submod_name
<1> QED BY <1>3, <1>4, Zenon

\* The device behind an appraisal: the last of its name.
LEMMA AppraisalOf ==
    ASSUME NEW cs \in DeviceList, NEW n \in DOMAIN submods(cs)
    PROVE  \E i \in DOMAIN cs : submod_name(cs, i) = n /\ submods(cs)[n] = transform_claims(cs[i])
<1> DEFINE S == {i \in DOMAIN cs : submod_name(cs, i) = n}
           P(i) == submod_name(cs, i) = n /\ \A j \in i + 1 .. Len(cs) : submod_name(cs, j) # n
<1>1. Len(cs) \in Nat \ {0} /\ DOMAIN cs = 1 .. Len(cs)
  BY Devices, Zenon
<1>2. S # {} /\ S \in SUBSET (1 .. Len(cs)) /\ n \in {submod_name(cs, i) : i \in DOMAIN cs}
  BY <1>1, Zenon DEF submods
<1>3. PICK m \in S : \A k \in S : k <= m
  BY <1>1, <1>2, Greatest, Zenon
<1>4. P(m)
  <2>1. ASSUME NEW j \in m + 1 .. Len(cs), submod_name(cs, j) = n PROVE FALSE
    <3>1. j \in 1 .. Len(cs) /\ ~(j <= m)
      BY <1>1, <1>3
    <3> QED BY <1>1, <1>3, <2>1, <3>1, Zenon
  <2> QED BY <1>3, <2>1, Zenon
<1>5. submods(cs)[n] = transform_claims(cs[CHOOSE i \in DOMAIN cs : P(i)])
  BY <1>2, Zenon DEF submods
<1>6. (CHOOSE i \in DOMAIN cs : P(i)) \in DOMAIN cs /\ P(CHOOSE i \in DOMAIN cs : P(i))
  BY <1>3, <1>4, Zenon
<1> QED BY <1>5, <1>6, Zenon

\* Without wrapping, every device has its appraisal.
LEMMA OwnAppraisal ==
    ASSUME NEW cs \in DeviceList, Fits(cs), NEW i \in DOMAIN cs
    PROVE  /\ submod_name(cs, i) \in DOMAIN submods(cs)
           /\ submods(cs)[submod_name(cs, i)] = transform_claims(cs[i])
<1>1. submod_name(cs, i) \in DOMAIN submods(cs)
  BY Zenon DEF submods
<1>2. PICK j \in DOMAIN cs : submod_name(cs, j) = submod_name(cs, i)
                             /\ submods(cs)[submod_name(cs, i)] = transform_claims(cs[j])
  BY <1>1, AppraisalOf, Zenon
<1>3. j = i
  BY <1>2, NamesDiffer, Zenon
<1> QED BY <1>1, <1>2, <1>3, Zenon

-----------------------------------------------------------------------------
(* The key that a response is encrypted for.                               *)

\* The places where the KBS looks, whatever is configured.
LEMMA PathsForm ==
    ASSUME NEW v
    PROVE  /\ DOMAIN paths(v) \in SUBSET Nat
           /\ \A i \in DOMAIN paths(v) : paths(v)[i] \in Pointer
           /\ \A p \in {"ita", "ita_vtpm", "coco", "ear"} : \E i \in DOMAIN paths(v) : paths(v)[i] = p
           /\ \A j \in DOMAIN paths(v) : paths(v)[j] = "ita_vtpm" => j - 1 \in DOMAIN paths(v) /\ paths(v)[j - 1] = "ita"
<1> DEFINE a == IF v.extra THEN <<"extra">> ELSE <<>>
           five == <<"ita", "ita_vtpm", "coco", "ear", "value">>
           t == paths(v)
<1>1. a \in Seq(Pointer) /\ five \in Seq(Pointer) /\ Len(five) = 5
  <2>1. \A P : "extra" \in P => <<"extra">> \in Seq(P) /\ <<>> \in Seq(P)
    OBVIOUS
  <2>2. \A P : "ita" \in P /\ "ita_vtpm" \in P /\ "coco" \in P /\ "ear" \in P /\ "value" \in P
               => five \in Seq(P)
    OBVIOUS
  <2>3. Len(five) = 5
    BY Zenon
  <2> HIDE DEF five
  <2> QED BY <2>1, <2>2, <2>3, Zenon DEF Pointer
<1>2. \A p \in {"ita", "ita_vtpm", "coco", "ear"} : \E j \in 1 .. 5 : five[j] = p
  OBVIOUS
<1>3. t = a \o five
  BY Zenon DEF paths
<1> HIDE DEF a, five, t
<1>4. /\ t \in Seq(Pointer) /\ Len(t) = Len(a) + 5
      /\ \A i \in 1 .. Len(a) + 5 : t[i] = IF i <= Len(a) THEN a[i] ELSE five[i - Len(a)]
  <2>1. /\ a \o five \in Seq(Pointer) /\ Len(a \o five) = Len(a) + Len(five)
        /\ \A i \in 1 .. Len(a) + Len(five) :
              (a \o five)[i] = IF i <= Len(a) THEN a[i] ELSE five[i - Len(a)]
    BY <1>1, ConcatProperties, Zenon
  <2> QED BY <1>1, <1>3, <2>1, Zenon
<1>5. Len(a) \in Nat /\ DOMAIN t = 1 .. Len(a) + 5
  BY <1>1, <1>4
<1>6. \A j \in 1 .. 5 : Len(a) + j \in DOMAIN t /\ t[Len(a) + j] = five[j]
  <2>1. ASSUME NEW j \in 1 .. 5 PROVE Len(a) + j \in DOMAIN t /\ t[Len(a) + j] = five[j]
    <3>1. Len(a) + j \in 1 .. Len(a) + 5 /\ ~(Len(a) + j <= Len(a)) /\ (Len(a) + j) - Len(a) = j
      BY <1>5
    <3> QED BY <1>4, <1>5, <3>1, Zenon
  <2> QED BY <2>1, Zenon
<1>7. \A p \in {"ita", "ita_vtpm", "coco", "ear"} : \E i \in DOMAIN t : t[i] = p
  BY <1>2, <1>6
<1>8. \A i \in DOMAIN t : t[i] \in Pointer
  BY <1>4
<1>9. ASSUME NEW j \in DOMAIN t, t[j] = "ita_vtpm" PROVE j - 1 \in DOMAIN t /\ t[j - 1] = "ita"
  <2>1. \A i \in 1 .. Len(a) : a[i] = "extra"
    BY DEF a
  <2>2. five[1] = "ita" /\ \A i \in 1 .. 5 : five[i] = "ita_vtpm" => i = 2
    BY DEF five
  <2>3. ~(j <= Len(a)) /\ j - Len(a) \in 1 .. 5
    BY <1>4, <1>5, <1>9, <2>1
  <2>4. j - Len(a) = 2
    BY <1>4, <1>5, <1>9, <2>2, <2>3
  <2>5. j - 1 = Len(a) + 1
    BY <1>5, <2>4
  <2> QED BY <1>6, <2>2, <2>5
<1> QED BY <1>5, <1>7, <1>8, <1>9 DEF t

\* Where a token has the key in one place, the KBS finds it there.
LEMMA Extracted ==
    ASSUME NEW v, NEW p \in {"ita", "ita_vtpm", "coco", "ear"}, NEW k
    PROVE  extract_tee_public_key(v, [NoClaims EXCEPT ![p] = k]) = k
<1> DEFINE claims == [NoClaims EXCEPT ![p] = k]
           there == {i \in DOMAIN paths(v) : claims[paths(v)[i]] # None}
<1>1. /\ DOMAIN paths(v) \in SUBSET Nat
      /\ \A i \in DOMAIN paths(v) : paths(v)[i] \in Pointer
      /\ \E i \in DOMAIN paths(v) : paths(v)[i] = p
  BY PathsForm, Zenon
<1>2. \A q \in Pointer : claims[q] = IF q = p THEN k ELSE None
  BY Zenon DEF NoClaims, Pointer
<1>3. extract_tee_public_key(v, claims) = IF there = {} THEN None ELSE claims[paths(v)[Min(there)]]
  BY Zenon DEF extract_tee_public_key
<1> HIDE DEF claims
<1>4. CASE k = None
  <2>1. there = {}
    BY <1>1, <1>2, <1>4, Zenon
  <2> QED BY <1>3, <1>4, <2>1, Zenon DEF claims
<1>5. CASE k # None
  <2>1. there # {} /\ there \in SUBSET Nat /\ \A i \in there : paths(v)[i] = p
    BY <1>1, <1>2, <1>5, Zenon
  <2>2. Min(there) \in there
    BY <2>1, MinIn, Zenon
  <2>3. claims[paths(v)[Min(there)]] = k
    BY <1>1, <1>2, <2>1, <2>2, Zenon
  <2> QED BY <1>3, <2>1, <2>3, Zenon DEF claims
<1> QED BY <1>4, <1>5, Zenon

\* A response opens with the key that it was encrypted for, and with no other.
LEMMA OpensFor ==
    ASSUME NEW k, jwe(k, "secret") # None, NEW g
    PROVE  Decrypt(g, jwe(k, "secret")) = "secret" <=> g.id = k.id
<1> DEFINE r == jwe(k, "secret")
<1>0. None # "secret"
  BY TokenAssumption, Zenon
<1>1. ASSUME NEW alg \in {RSA1_5_ALGORITHM, RSA_OAEP256_ALGORITHM},
             r = Encrypted([alg |-> alg, epk |-> None], <<alg, k.id, cek>>, "secret")
      PROVE  Decrypt(g, r) = "secret" <=> g.id = k.id
  <2> HIDE DEF r
  <2>1. /\ r.protected = [alg |-> alg, epk |-> None] /\ r.encrypted_key = <<alg, k.id, cek>>
        /\ r.ciphertext = <<"A256GCM", cek, r.protected, "secret">>
    BY <1>1, Zenon DEF Encrypted
  <2>2. r.protected.alg = alg /\ alg # ECDH_ES_A256KW
    BY <2>1 DEF RSA1_5_ALGORITHM, RSA_OAEP256_ALGORITHM, ECDH_ES_A256KW
  <2>3. r.ciphertext[3] = r.protected /\ r.ciphertext[4] = "secret"
    BY <2>1
  <2>4. Decrypt(g, r) = IF r.encrypted_key = <<alg, g.id, cek>> THEN "secret" ELSE None
    BY <2>2, <2>3, Zenon DEF Decrypt
  <2>5. r.encrypted_key = <<alg, g.id, cek>> <=> g.id = k.id
    BY <2>1
  <2> QED BY <1>0, <2>4, <2>5, Zenon
<1>2. ASSUME r = ecdh_es_a256kw_p256(k, "secret")
      PROVE  Decrypt(g, r) = "secret" <=> g.id = k.id
  <2> HIDE DEF r
  <2> DEFINE e == encrypter_secret
             W(x) == <<"A256KW", Derived(ECDH_ES_A256KW, e, x), cek>>
  <2>1. /\ r.protected = [alg |-> ECDH_ES_A256KW, epk |-> e] /\ r.encrypted_key = W(k.id)
        /\ r.ciphertext = <<"A256GCM", cek, r.protected, "secret">>
    BY <1>2, Zenon DEF Encrypted, ecdh_es_a256kw_p256
  <2>2. r.protected.alg = ECDH_ES_A256KW /\ r.protected.epk = e
    BY <2>1
  <2>3. r.ciphertext[3] = r.protected /\ r.ciphertext[4] = "secret"
    BY <2>1
  <2>4. Decrypt(g, r) = IF r.encrypted_key = W(g.id) THEN "secret" ELSE None
    BY <2>2, <2>3, Zenon DEF Decrypt
  <2>5. ASSUME NEW x, NEW y, Derived(ECDH_ES_A256KW, e, x) = Derived(ECDH_ES_A256KW, e, y) PROVE x = y
    <3>1. {e, x} = {e, y}
      BY <2>5, Zenon DEF Derived
    <3> QED BY <3>1
  <2>6. W(k.id) = W(g.id) => Derived(ECDH_ES_A256KW, e, k.id) = Derived(ECDH_ES_A256KW, e, g.id)
    BY Zenon
  <2>7. r.encrypted_key = W(g.id) <=> g.id = k.id
    BY <2>1, <2>5, <2>6, Zenon
  <2> QED BY <1>0, <2>4, <2>7, Zenon
<1>3. \/ r = rsa_1v15(k, "secret") \/ r = rsa_oaep256(k, "secret")
      \/ r = ecdh_es_a256kw_p256(k, "secret")
  BY Zenon DEF jwe, RSA1_5_ALGORITHM, RSA_OAEP256_ALGORITHM
<1> QED BY <1>1, <1>2, <1>3, Zenon DEF rsa_1v15, rsa_oaep256

\* A slot of the request is filled by a piece of evidence.
LEMMA SlotFilled ==
    ASSUME NEW es \in ItaEvidence, ItaRequest(es) # None, NEW s \in {"tdx", "sgx", "nvgpu"},
           ItaRequest(es)[s] # None
    PROVE  \E i \in DOMAIN es : Slot(es[i].tee) = s /\ ItaRequest(es)[s] = Part(es[i])
<1> DEFINE F == {i \in DOMAIN es : Slot(es[i].tee) = s /\ es[i].devices # <<>>}
           l == CHOOSE i \in F : \A j \in F : j <= i
<1>1. ItaRequest(es)[s] = IF F = {} THEN None ELSE Part(es[l])
  BY Zenon DEF ItaRequest
<1>2. F # {} /\ ItaRequest(es)[s] = Part(es[l])
  BY <1>1, Zenon
<1>3. Len(es) \in Nat /\ DOMAIN es = 1 .. Len(es)
  BY TokenAssumption
<1>4. \E i \in F : \A j \in F : j <= i
  BY <1>2, <1>3, Greatest, Zenon
<1>5. l \in F
  BY <1>4, Zenon
<1> HIDE DEF l
<1> QED BY <1>2, <1>5, Zenon

\* The key in a token of Intel Trust Authority is that of its guest, whatever user
\* data there is.
LEMMA ItaKeyFound ==
    ASSUME NEW es \in ItaEvidence, ItaRequest(es) # None, NEW v
    PROVE  extract_tee_public_key(v, ItaClaims(ItaRequest(es))) \in
             {es[i].runtime_data : i \in DOMAIN es} \cup {None}
<1> DEFINE request == ItaRequest(es)
           claims == ItaClaims(request)
           there == {i \in DOMAIN paths(v) : claims[paths(v)[i]] # None}
           Claim(s, f) == IF request[s] = None THEN None ELSE request[s][f]
           R == {es[i].runtime_data : i \in DOMAIN es}
<1>1. /\ claims["ita"] = Claim("tdx", "runtime_data")
      /\ claims["ita_vtpm"] = Claim("tdx", "user_data")
      /\ claims["extra"] = Claim("sgx", "runtime_data")
      /\ \A p \in Pointer \ {"ita", "ita_vtpm", "extra"} : claims[p] = None
  BY DEF ItaClaims, Pointer
<1>2. extract_tee_public_key(v, claims) = IF there = {} THEN None ELSE claims[paths(v)[Min(there)]]
  BY Zenon DEF extract_tee_public_key
<1>3. /\ DOMAIN paths(v) \in SUBSET Nat
      /\ \A i \in DOMAIN paths(v) : paths(v)[i] \in Pointer
      /\ \A j \in DOMAIN paths(v) : paths(v)[j] = "ita_vtpm" => j - 1 \in DOMAIN paths(v) /\ paths(v)[j - 1] = "ita"
  BY PathsForm, Zenon
<1>4. ASSUME NEW s \in {"tdx", "sgx"}, request[s] # None, request[s]["runtime_data"] # None
      PROVE  request[s]["runtime_data"] \in R
  <2>1. PICK i \in DOMAIN es : request[s] = Part(es[i])
    BY <1>4, SlotFilled, Zenon
  <2>2. request[s]["runtime_data"] = es[i].runtime_data
    BY <1>4, <2>1 DEF Part
  <2> QED BY <2>2, Zenon
<1>5. ASSUME request["tdx"] # None, request["tdx"]["runtime_data"] = None
      PROVE  request["tdx"]["user_data"] \in R
  <2>1. PICK i \in DOMAIN es : request["tdx"] = Part(es[i])
    BY <1>5, SlotFilled, Zenon
  <2>2. es[i].runtime_data # None
    BY TokenAssumption, Zenon
  <2>3. es[i].tee = "AzTdxVtpm"
    BY <1>5, <2>1, <2>2 DEF Part
  <2>4. request["tdx"]["user_data"] = es[i].runtime_data
    BY <2>1, <2>3 DEF Part
  <2> QED BY <2>4, Zenon
<1> HIDE DEF request, claims, R
<1>6. CASE there # {}
  <2> DEFINE m == Min(there)
             p == paths(v)[m]
  <2>1. m \in there /\ \A k \in there : m <= k
    BY <1>3, <1>6, MinIn, Zenon
  <2> HIDE DEF m
  <2>2. m \in DOMAIN paths(v) /\ p \in Pointer /\ claims[p] # None
    BY <1>3, <2>1, Zenon
  <2>3. p \in {"ita", "ita_vtpm", "extra"}
    BY <1>1, <2>2, Zenon
  <2>4. ASSUME p = "ita" \/ p = "extra" PROVE claims[p] \in R
    <3>1. ASSUME NEW s \in {"tdx", "sgx"}, claims[p] = Claim(s, "runtime_data") PROVE claims[p] \in R
      BY <1>4, <2>2, <3>1, Zenon
    <3> QED BY <1>1, <2>4, <3>1, Zenon
  <2>5. ASSUME p = "ita_vtpm" PROVE claims[p] \in R
    <3>1. m - 1 \in DOMAIN paths(v) /\ paths(v)[m - 1] = "ita" /\ m \in Nat
      BY <1>3, <2>2, <2>5, Zenon
    <3>2. ~(m <= m - 1)
      BY <3>1
    <3>3. claims["ita"] = None
      BY <2>1, <3>1, <3>2, Zenon
    <3> QED BY <1>1, <1>5, <2>2, <2>5, <3>3, Zenon
  <2>6. claims[p] \in R
    BY <2>3, <2>4, <2>5, Zenon
  <2> QED BY <1>2, <1>6, <2>6, Zenon DEF m, claims, request, R
<1>7. CASE there = {}
  BY <1>2, <1>7, Zenon DEF claims, request
<1> QED BY <1>6, <1>7, Zenon

\* A token has the key of a device of its guest, or none.
LEMMA ClaimedKey ==
    ASSUME NEW t, AsToken(t) \/ FromIta(t), NEW v
    PROVE  extract_tee_public_key(v, t.claims) \in KeyOf(t) \cup {None}
<1>1. CASE AsToken(t) /\ t.type = "Ear"
  <2> DEFINE m == submods(t.of)
             k == IF <<"cpu", 0>> \in DOMAIN m THEN m[<<"cpu", 0>>].runtime_data_claims ELSE None
  <2>1. t.claims = [NoClaims EXCEPT !["ear"] = k] /\ t.of \in DeviceList /\ t.by = "as"
    BY <1>1, Zenon DEF AsToken, EarClaims
  <2>2. extract_tee_public_key(v, t.claims) = k
    <3> HIDE DEF k
    <3> QED BY <2>1, Extracted, ZenonT(40)
  <2>3. ASSUME <<"cpu", 0>> \in DOMAIN m, k # None PROVE k \in KeyOf(t)
    <3>1. PICK i \in DOMAIN t.of : m[<<"cpu", 0>>] = transform_claims(t.of[i])
      BY <2>1, <2>3, AppraisalOf
    <3>2. k = t.of[i].runtime_data_claims
      BY <2>3, <3>1 DEF transform_claims
    <3> QED BY <2>1, <2>3, <3>2, Zenon DEF KeyOf, Range
  <2> QED BY <2>2, <2>3, Zenon
<1>2. CASE AsToken(t) /\ t.type = "Simple"
  <2> DEFINE k == t.of[1].runtime_data_claims
  <2>1. t.claims = [NoClaims EXCEPT !["coco"] = k] /\ t.of \in DeviceList /\ t.by = "as"
    BY <1>2, Zenon DEF AsToken, SimpleClaims
  <2>2. extract_tee_public_key(v, t.claims) = k
    BY <2>1, Extracted
  <2>3. 1 \in DOMAIN t.of
    BY <2>1, Devices
  <2> QED BY <2>1, <2>2, <2>3, Zenon DEF KeyOf, Range
<1>3. CASE FromIta(t)
  <2>1. t.of \in ItaEvidence /\ ItaRequest(t.of) # None /\ t.by = "ita" /\ t.claims = ItaClaims(ItaRequest(t.of))
    BY <1>3, Zenon DEF FromIta
  <2>2. extract_tee_public_key(v, t.claims) \in {t.of[i].runtime_data : i \in DOMAIN t.of} \cup {None}
    BY <2>1, ItaKeyFound, Zenon
  <2> QED BY <2>1, <2>2, Zenon DEF KeyOf, Range
<1> QED BY <1>1, <1>2, <1>3, Zenon DEF AsToken

\* Without wrapping, the key of an EAR token is that of the first CPU.
LEMMA FirstCpuKey ==
    ASSUME NEW t, AsToken(t), t.type = "Ear", Fits(t.of), NEW v
    PROVE  extract_tee_public_key(v, t.claims) =
             IF Cpus(t.of) # {} /\ "report_data" \in DOMAIN t.of[Min(Cpus(t.of))].claims
               THEN t.of[Min(Cpus(t.of))].runtime_data_claims ELSE None
<1> DEFINE cs == t.of
           m == submods(cs)
           i == Min(Cpus(cs))
           k == IF <<"cpu", 0>> \in DOMAIN m THEN m[<<"cpu", 0>>].runtime_data_claims ELSE None
<1>1. t.claims = [NoClaims EXCEPT !["ear"] = k] /\ cs \in DeviceList
  BY Zenon DEF AsToken, EarClaims
<1>2. extract_tee_public_key(v, t.claims) = k
  <2> HIDE DEF k
  <2> QED BY <1>1, Extracted
<1>3. Len(cs) \in Nat \ {0} /\ DOMAIN cs = 1 .. Len(cs)
  BY <1>1, Devices, Zenon
<1>4. CASE Cpus(cs) = {}
  <2>1. <<"cpu", 0>> \notin DOMAIN m
    BY <1>4, Zenon DEF submods, submod_name, Cpus
  <2> QED BY <1>2, <1>4, <2>1, Zenon
<1>5. CASE Cpus(cs) # {}
  <2>1. i \in Cpus(cs) /\ \A j \in Cpus(cs) : i <= j
    <3>1. Cpus(cs) \in SUBSET Nat
      BY <1>3 DEF Cpus
    <3> QED BY <1>5, <3>1, MinIn, Zenon
  <2> HIDE DEF i
  <2>2. i \in DOMAIN cs /\ cs[i].tee_class = "cpu"
    BY <2>1, Zenon DEF Cpus
  <2>3. Before(cs, i) = {}
    <3>1. ASSUME NEW j \in Before(cs, i) PROVE FALSE
      <4>1. j \in Cpus(cs) /\ ~(i <= j)
        BY <1>3, <2>2 DEF Before, Cpus
      <4> QED BY <2>1, <4>1, Zenon
    <3> QED BY <3>1, Zenon
  <2>4. tee_class_index(cs, i) = 0
    BY <1>1, <2>2, <2>3, IndexCounts, FS_EmptySet, Zenon
  <2>5. submod_name(cs, i) = <<"cpu", 0>>
    BY <2>2, <2>4, Zenon DEF submod_name
  <2>6. <<"cpu", 0>> \in DOMAIN m /\ m[<<"cpu", 0>>] = transform_claims(cs[i])
    BY <1>1, <2>2, <2>5, OwnAppraisal
  <2>7. k = IF "report_data" \in DOMAIN cs[i].claims THEN cs[i].runtime_data_claims ELSE None
    BY <2>6 DEF transform_claims
  <2> QED BY <1>2, <1>5, <2>7, Zenon DEF i
<1> QED BY <1>4, <1>5, Zenon

\* What an accepted token's guest is sent opens with the key in the runtime data
\* of the evidence behind that token and with no other; with an EAR token it is
\* the key of the first CPU, if that was checked (extract_tee_public_key, jwe).
THEOREM ResponseForGuest == Spec => []ResponseIsForTheGuest
<1>1. ASSUME TrustInv, NEW t \in tokens, Response(t) # None
      PROVE  \E k \in KeyOf(t) :
               {g \in GuestKeys : Decrypt(g, Response(t)) = "secret"} = {g \in GuestKeys : g.id = k.id}
  <2> DEFINE k == extract_tee_public_key(kbs, t.claims)
  <2>1. k \in KeyOf(t) \cup {None}
    BY <1>1, ClaimedKey, Zenon DEF TrustInv
  <2>2. k # None /\ Response(t) = jwe(k, "secret")
    BY <1>1, Zenon DEF Response
  <2> HIDE DEF k
  <2>3. \A g : Decrypt(g, Response(t)) = "secret" <=> g.id = k.id
    BY <1>1, <2>2, OpensFor, Zenon
  <2>4. {g \in GuestKeys : Decrypt(g, Response(t)) = "secret"} = {g \in GuestKeys : g.id = k.id}
    BY <2>3, Zenon
  <2> QED BY <2>1, <2>2, <2>4, Zenon
<1>2. ASSUME TrustInv, NEW t \in tokens, t.type = "Ear", Fits(t.of)
      PROVE  LET i == Min(Cpus(t.of))
                 k == IF Cpus(t.of) # {} /\ "report_data" \in DOMAIN t.of[i].claims
                        THEN t.of[i].runtime_data_claims ELSE None
             IN  Response(t) = IF k = None THEN None ELSE jwe(k, "secret")
  <2>1. AsToken(t)
    BY <1>2, Zenon DEF TrustInv, FromIta
  <2> QED BY <1>2, <2>1, FirstCpuKey, Zenon DEF Response
<1>3. TrustInv => ResponseIsForTheGuest
  BY <1>1, <1>2, Zenon DEF ResponseIsForTheGuest
<1> QED BY <1>3, TrustInvariant, PTL
=============================================================================
