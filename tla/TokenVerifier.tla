--------------------------- MODULE TokenVerifier ---------------------------
(***************************************************************************)
(* How the KBS checks a token and finds the key of the TEE in it           *)
(* (kbs/src/token), and what the Intel Trust Authority backend sends and   *)
(* accepts (kbs/src/attestation/intel_trust_authority).                    *)
(*                                                                         *)
(* A certificate is a record: subject, key, issuer, until.  A verifier is a*)
(* record of what it loaded when the KBS started: trusted_certs,           *)
(* trusted_jwk_sets, a sequence of pairs of a kid and a key, insecure_key, *)
(* and extra, whether an extra path for the key of the TEE is configured.  *)
(***************************************************************************)
EXTENDS TokenBrokers

CONSTANTS
    Leeway,     \* of the expiry of a token: 60 seconds
    MaxChain    \* certificates in the longest chain that OpenSSL follows

\* A key starts with its type, "RSA" or a curve.
Kind(key) == key[1]

SelfSigned(c) == c.subject = c.issuer

\* External, OpenSSL: a chain leads from the certificate to a trusted root, and
\* all of it is valid now.
VerifyCert(c, others, trusted, now) ==
    \E n \in 1 .. MaxChain : \E chain \in [1 .. n -> {c} \cup others \cup trusted] :
        /\ chain[1] = c
        /\ \A i \in 1 .. n - 1 : chain[i].issuer = chain[i + 1].subject
        /\ \A i \in 1 .. n : now <= chain[i].until
        /\ chain[n] \in trusted /\ SelfSigned(chain[n])

\* Mutant: the key is not compared with that of the certificate.
EndorsedByChain(v, jwk, now) ==
    /\ Kind(jwk.key) \in {"RSA", "P-256"}
    /\ jwk.x5c # None /\ jwk.x5c # <<>>
    /\ VerifyCert(Head(jwk.x5c), Range(Tail(jwk.x5c)), v.trusted_certs, now)

\* Mutant: the certificates between leaf and root are left out.
EndorsedByRootOnly(v, jwk, now) ==
    /\ Kind(jwk.key) \in {"RSA", "P-256"}
    /\ jwk.x5c # None /\ jwk.x5c # <<>>
    /\ jwk.key = Head(jwk.x5c).key
    /\ VerifyCert(Head(jwk.x5c), {}, v.trusted_certs, now)

\* The key of a token is RSA or on the one curve that is supported, and it has a
\* certificate chain, whose leaf is for the key and which a trusted certificate ends.
verify_jwk_endorsement(v, jwk, now) ==
    /\ Kind(jwk.key) \in {"RSA", "P-256"}
    /\ jwk.x5c # None /\ jwk.x5c # <<>>
    /\ jwk.key = Head(jwk.x5c).key
    /\ VerifyCert(Head(jwk.x5c), Range(Tail(jwk.x5c)), v.trusted_certs, now)

\* The key to verify a token with, or None: the one in its header, if it is
\* endorsed, else the first in the trusted sets that has its kid.
get_verification_jwk(v, t, now) ==
    LET found == {i \in DOMAIN v.trusted_jwk_sets : v.trusted_jwk_sets[i][1] = t.kid}
    IN  IF t.jwk # None
          THEN IF v.insecure_key \/ (v.trusted_certs # {} /\ verify_jwk_endorsement(v, t.jwk, now))
                 THEN t.jwk.key ELSE None
          ELSE IF t.kid = None \/ found = {} THEN None ELSE v.trusted_jwk_sets[Min(found)][2]

\* JwkAttestationTokenVerifier::verify: the signature and the expiry.
verify(v, t, now) ==
    LET k == get_verification_jwk(v, t, now)
    IN  k # None /\ t.signed = k /\ t.exp >= now - Leeway

paths(v) ==
    (IF v.extra THEN <<"extra">> ELSE <<>>) \o <<"ita", "ita_vtpm", "coco", "ear", "value">>

\* The key at the first place of the token that has one, or None.
extract_tee_public_key(v, claims) ==
    LET there == {i \in DOMAIN paths(v) : claims[paths(v)[i]] # None}
    IN  IF there = {} THEN None ELSE claims[paths(v)[Min(there)]]

-----------------------------------------------------------------------------
(* Intel Trust Authority.                                                  *)

\* The part of the request that a piece of evidence fills.
Slot(tee) == CASE tee \in {"Tdx", "AzTdxVtpm"} -> "tdx"
               [] tee = "Sgx" -> "sgx"
               [] tee = "Nvidia" -> "nvgpu"
               [] OTHER -> None

\* What fills it.  The runtime data has the key of the guest; Azure sends its own
\* there and the guest's as user data, which other evidence may have as well.
Part(e) == IF e.tee = "AzTdxVtpm" THEN [runtime_data |-> None, user_data |-> e.runtime_data]
                                  ELSE [runtime_data |-> e.runtime_data, user_data |-> e.user_data]

\* IntelTrustAuthority::verify: the request, or None.  A later piece of evidence
\* replaces an earlier one in its slot, and one without a device fills none.
ItaRequest(es) ==
    LET filling(s) == {i \in DOMAIN es : Slot(es[i].tee) = s /\ es[i].devices # <<>>}
        last(s) == CHOOSE i \in filling(s) : \A j \in filling(s) : j <= i
    IN  IF \E i \in DOMAIN es : Slot(es[i].tee) = None THEN None
        ELSE [s \in {"tdx", "sgx", "nvgpu"} |-> IF filling(s) = {} THEN None ELSE Part(es[last(s)])]

\* Every piece of Azure's evidence adds a suffix to the address.
att_url(es) == Cardinality({i \in DOMAIN es : es[i].tee = "AzTdxVtpm"})

\* External: what the service puts into its token is what it was sent.  There is
\* no built-in path to the part of SGX; an extra path leads there.
ItaClaims(request) ==
    LET Claim(s, f) == IF request[s] = None THEN None ELSE request[s][f]
    IN  [p \in Pointer |-> CASE p = "ita" -> Claim("tdx", "runtime_data")
                            [] p = "ita_vtpm" -> Claim("tdx", "user_data")
                            [] p = "extra" -> Claim("sgx", "runtime_data")
                            [] OTHER -> None]
=============================================================================
