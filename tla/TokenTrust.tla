----------------------------- MODULE TokenTrust -----------------------------
(***************************************************************************)
(* Who trusts whose tokens, while the attestation service and the KBS      *)
(* restart with other configurations, Intel Trust Authority rotates its    *)
(* keys, certificates and tokens expire, and guests hold on to the tokens  *)
(* that they were given.                                                   *)
(*                                                                         *)
(* A KBS uses one attestation backend, the attestation service or Intel    *)
(* Trust Authority, and verifies tokens with what its token verifier loaded*)
(* at its start.                                                           *)
(***************************************************************************)
EXTENDS Jwe

CONSTANTS
    AsConfig,   \* configurations of the token broker: broker and signer
    KbsConfig,  \* of the KBS: backend, trusted_certs, trusted_jwk_sets, certs_file, insecure_key, extra
    DeviceList, \* lists of the claims of the devices of a guest
    ItaEvidence,\* lists of evidence for Intel Trust Authority
    Duration,   \* duration_min: how long a token of the attestation service is valid
    MaxClock, MaxTokens, MaxKeys    \* bounds for TLC

VARIABLES
    clock,
    broker,     \* the token broker of the attestation service, or None
    kbs,        \* the configuration of the KBS and what it has loaded, or None
    file,       \* the keys of Intel Trust Authority in a local file
    ita,        \* the number of the key that Intel Trust Authority signs with
    keys,       \* counts ephemeral keys
    tokens      \* the tokens that guests hold

vars == <<clock, broker, kbs, file, ita, keys, tokens>>

\* The type of key that a broker signs with.
SignerKind(b) == IF b = "Ear" THEN "P-256" ELSE "RSA"

EphemeralKey(b, n) == <<SignerKind(b), "ephemeral", n>>

\* A broker with a configured signer: the key must be RSA for one and not RSA for
\* the other, and the certificates are not compared with it.
FromSigner(b, signer) ==
    IF (b = "Ear") = (Kind(signer.key) # "RSA")
      THEN [type |-> b, private_key |-> signer.key, cert_chain |-> signer.cert_chain]
      ELSE None

ItaKey(n) == <<"RSA", "ita", n>>

\* The keys that tokens are signed with, and the certificates next to them.
SigningKey ==
    {c.signer.key : c \in {d \in AsConfig : d.signer # None}} \cup ({"P-256", "RSA"} \X {"ephemeral", "ita"} \X Nat)
CertChain ==
    {c.signer.cert_chain : c \in {d \in AsConfig : d.signer # None}} \cup {None}

\* Chains, devices and evidence are lists, a guest has at least one device, and
\* the KBS puts its key into the runtime data of all of its evidence.
ASSUME TokenAssumption ==
    /\ Leeway \in Nat /\ Duration \in Nat /\ MaxChain \in Nat /\ IndexRange \in Nat \ {0}
    /\ \A c \in AsConfig : c.broker \in {"Ear", "Simple"}
    /\ \A x5c \in CertChain \ {None} : x5c \in Seq(Range(x5c))
    /\ \A cs \in DeviceList : cs \in Seq(Range(cs)) /\ cs # <<>>
    /\ \A es \in ItaEvidence : es \in Seq(Range(es)) /\ \A i \in DOMAIN es : es[i].runtime_data # None
    /\ None \notin Nat /\ None \notin SigningKey
    /\ None \notin [key : SigningKey, x5c : CertChain]
    /\ None # "secret"

Init ==
    /\ clock = 0
    /\ broker = None /\ kbs = None
    /\ ita = 1 /\ keys = 0
    /\ file = <<<<1, ItaKey(1)>>>>
    /\ tokens = {}

\* to_token_broker: without a signer, a new key without certificates.
StartBroker(c) ==
    /\ IF c.signer = None
         THEN /\ keys < MaxKeys
              /\ keys' = keys + 1
              /\ broker' = [type |-> c.broker, private_key |-> EphemeralKey(c.broker, keys + 1),
                            cert_chain |-> None]
         ELSE broker' = FromSigner(c.broker, c.signer) /\ UNCHANGED keys
    /\ UNCHANGED <<clock, kbs, file, ita, tokens>>

\* External: Intel Trust Authority publishes its key and the one before.
Published == IF ita = 1 THEN <<<<1, ItaKey(1)>>>> ELSE <<<<ita, ItaKey(ita)>>, <<ita - 1, ItaKey(ita - 1)>>>>

\* The operator saves them to the file, which is out of date after a rotation.
SaveKeys ==
    /\ file' = Published
    /\ UNCHANGED <<clock, broker, kbs, ita, keys, tokens>>

get_jwks_from_file_or_url(p) == IF p = "file" THEN file ELSE Published

\* JwkAttestationTokenVerifier::new, of the token verifier.  Bound: the sources of
\* keys are a file, the service, or both in this order.
LoadVerifier(c) ==
    /\ kbs = None
    /\ LET Keys(p) == IF p \in c.trusted_jwk_sets THEN get_jwks_from_file_or_url(p) ELSE <<>>
       IN  kbs' = [up |-> FALSE, backend |-> c.backend, certs_file |-> c.certs_file,
                   trusted_certs |-> c.trusted_certs, trusted_jwk_sets |-> Keys("file") \o Keys("https"),
                   insecure_key |-> c.insecure_key, extra |-> c.extra, ita |-> <<>>]
    /\ UNCHANGED <<clock, broker, file, ita, keys, tokens>>

\* Later IntelTrustAuthority::new loads keys of its own, and the KBS is up.
LoadBackend ==
    /\ kbs # None /\ ~kbs.up
    /\ kbs' = [kbs EXCEPT !.up = TRUE,
                 !.ita = IF kbs.backend = "ita" THEN get_jwks_from_file_or_url(kbs.certs_file) ELSE <<>>]
    /\ UNCHANGED <<clock, broker, file, ita, keys, tokens>>

\* The KBS is stopped, or its start ends: a source of keys or a certificate cannot
\* be read.
StopKbs ==
    /\ kbs # None
    /\ kbs' = None
    /\ UNCHANGED <<clock, broker, file, ita, keys, tokens>>

\* The key in the header of a token, with the certificates of the signer.
pubkey_jwk(b) == [key |-> b.private_key, x5c |-> b.cert_chain]

\* A token for the claims of the devices, after the policy accepted them.
Issued(b, cs) ==
    [by |-> "as", of |-> cs, kid |-> None, type |-> b.type,
     jwk |-> pubkey_jwk(b), signed |-> b.private_key,
     exp |-> clock + Duration,
     claims |-> IF b.type = "Ear" THEN EarClaims(cs) ELSE SimpleClaims(cs)]

\* The attestation service verifies the evidence of a guest, for a KBS or for the
\* guest itself, which gets the token.  The EAR broker signs with one curve only.
Attest(cs) ==
    /\ broker # None /\ Kind(broker.private_key) = SignerKind(broker.type)
    /\ Cardinality(tokens) < MaxTokens
    /\ tokens' = tokens \cup {Issued(broker, cs)}
    /\ UNCHANGED <<clock, broker, kbs, file, ita, keys>>

\* External: the token of Intel Trust Authority for a request.
ItaToken(es, request) ==
    [by |-> "ita", of |-> es, kid |-> ita, type |-> "Ita", jwk |-> None,
     signed |-> ItaKey(ita), exp |-> clock + Duration, claims |-> ItaClaims(request)]

\* The verifier of the backend has the keys that were published at its start; it
\* trusts a key in the header, which the service does not send.
ItaVerifier == [trusted_certs |-> {}, trusted_jwk_sets |-> kbs.ita, insecure_key |-> TRUE, extra |-> FALSE]

\* Intel Trust Authority attests, at one of its two addresses, and the backend
\* verifies its token.
ItaAttest(es) ==
    /\ kbs # None /\ kbs.up /\ kbs.backend = "ita"
    /\ Cardinality(tokens) < MaxTokens
    /\ ItaRequest(es) # None /\ att_url(es) \in {0, 1}
    /\ LET t == ItaToken(es, ItaRequest(es))
       IN  verify(ItaVerifier, t, clock) /\ tokens' = tokens \cup {t}
    /\ UNCHANGED <<clock, broker, kbs, file, ita, keys>>

\* External: the service changes its key.
Rotate ==
    /\ ita < MaxKeys
    /\ ita' = ita + 1
    /\ UNCHANGED <<clock, broker, kbs, file, keys, tokens>>

Tick ==
    /\ clock < MaxClock
    /\ clock' = clock + 1
    /\ UNCHANGED <<broker, kbs, file, ita, keys, tokens>>

Next ==
    \/ \E c \in AsConfig : StartBroker(c)
    \/ \E c \in KbsConfig : LoadVerifier(c)
    \/ LoadBackend
    \/ StopKbs
    \/ SaveKeys
    \/ \E cs \in DeviceList : Attest(cs)
    \/ \E es \in ItaEvidence : ItaAttest(es)
    \/ Rotate
    \/ Tick

Spec == Init /\ [][Next]_vars

-----------------------------------------------------------------------------
(* Properties.                                                             *)

Accepts(t) == kbs # None /\ kbs.up /\ verify(kbs, t, clock)

\* The certificates that the operator's services were given.
Certificates == UNION {Range(c.signer.cert_chain) :
                    c \in {d \in AsConfig : d.signer # None /\ d.signer.cert_chain # None}}

\* Every token that the KBS accepts is signed with a key that a trusted
\* certificate vouches for, or that Intel Trust Authority had published when the
\* KBS started, whatever chain the attestation service puts next to its key;
\* unless insecure_key says not to look.  In particular a KBS without trusted
\* certificates accepts none that brings its own key.  None is accepted beyond its
\* expiry and the leeway (get_verification_jwk, verify).
AcceptedIsEndorsed ==
  /\ \A t \in tokens : Accepts(t) => clock <= t.exp + Leeway
  /\ \A t \in tokens : Accepts(t) /\ ~kbs.insecure_key =>
        \/ \E c \in Certificates :
              c.key = t.signed /\ VerifyCert(c, Certificates, kbs.trusted_certs, clock)
        \/ \E i \in DOMAIN kbs.trusted_jwk_sets : kbs.trusted_jwk_sets[i][2] = t.signed

\* A token that was issued by a service that the KBS is configured to trust is
\* accepted until it expires, across restarts of both: one with the signer's own
\* chain up to a trusted root while that chain is valid and not too long, and one
\* of Intel Trust Authority while the keys that the KBS loaded contain its key.
TrustedIsAccepted ==
    \A t \in tokens : kbs # None /\ kbs.up /\ clock <= t.exp =>
        LET x5c == t.jwk.x5c
            chained ==
                /\ t.by = "as" /\ x5c \notin {None, <<>>} /\ Len(x5c) < MaxChain
                /\ Head(x5c).key = t.signed
                /\ \A i \in 1 .. Len(x5c) - 1 : x5c[i].issuer = x5c[i + 1].subject
                /\ \A i \in DOMAIN x5c : clock <= x5c[i].until
                /\ \E r \in kbs.trusted_certs :
                        SelfSigned(r) /\ x5c[Len(x5c)].issuer = r.subject /\ clock <= r.until
            loaded == t.by = "ita" /\ <<t.kid, t.signed>> \in Range(kbs.trusted_jwk_sets)
        IN  chained \/ loaded => Accepts(t)

\* The key in the runtime data of the guest's own evidence.
KeyOf(t) ==
    LET ks == IF t.by = "ita" THEN [i \in DOMAIN t.of |-> t.of[i].runtime_data]
                              ELSE [i \in DOMAIN t.of |-> t.of[i].runtime_data_claims]
    IN  Range(ks) \ {None}

\* The keys of all guests.
GuestKeys ==
    UNION ({{cs[i].runtime_data_claims : i \in DOMAIN cs} : cs \in DeviceList} \cup
           {{es[i].runtime_data : i \in DOMAIN es} \cup {es[i].user_data : i \in DOMAIN es} :
                es \in ItaEvidence}) \ {None}

Response(t) ==
    LET k == extract_tee_public_key(kbs, t.claims) IN IF k = None THEN None ELSE jwe(k, "secret")

\* The index of no class wraps.
Fits(cs) ==
    \A i \in DOMAIN cs : Cardinality({j \in DOMAIN cs : cs[j].tee_class = cs[i].tee_class}) <= IndexRange

Cpus(cs) == {i \in DOMAIN cs : cs[i].tee_class = "cpu"}

\* A response to an accepted token opens with the key that was in the runtime data
\* of the evidence behind that very token, and with no other, in whatever other
\* places the token has a key.  With an EAR token it
\* is the key of the first CPU, if the verifier checked it; without it there is no
\* response.
ResponseIsForTheGuest ==
    \A t \in tokens : Accepts(t) =>
        /\ Response(t) # None =>
             \E k \in KeyOf(t) :
                {g \in GuestKeys : Decrypt(g, Response(t)) = "secret"} = {g \in GuestKeys : g.id = k.id}
        /\ t.type = "Ear" /\ Fits(t.of) =>
             LET i == Min(Cpus(t.of))
                 k == IF Cpus(t.of) # {} /\ "report_data" \in DOMAIN t.of[i].claims
                        THEN t.of[i].runtime_data_claims ELSE None
             IN  Response(t) = IF k = None THEN None ELSE jwe(k, "secret")
=============================================================================
