-------------------------------- MODULE Jwe --------------------------------
(***************************************************************************)
(* The encryption of a response for the key of a TEE (kbs/src/jwe.rs).     *)
(* Cryptography is symbolic: what is encrypted is a tuple that starts with *)
(* how, followed by the key and by what can only be opened with it.        *)
(*                                                                         *)
(* A key of a TEE is a record: its id, which stands for the key pair, its  *)
(* type, "RSA" or a curve, and alg, the algorithm that the guest asks for. *)
(***************************************************************************)
EXTENDS TokenVerifier

RSA1_5_ALGORITHM == "RSA1_5"
RSA_OAEP256_ALGORITHM == "RSA-OAEP-256"
ECDH_ES_A256KW == "ECDH-ES+A256KW"

\* A fresh content key and ephemeral secret: each is used for one response.
cek == "cek"
encrypter_secret == "ephemeral"

\* The content is bound to the header, which is its AAD.
Encrypted(protected, encrypted_key, payload) ==
    [protected |-> protected, encrypted_key |-> encrypted_key,
     ciphertext |-> <<"A256GCM", cek, protected, payload>>]

rsa_1v15(key, payload) ==
    Encrypted([alg |-> RSA1_5_ALGORITHM, epk |-> None], <<RSA1_5_ALGORITHM, key.id, cek>>, payload)

rsa_oaep256(key, payload) ==
    Encrypted([alg |-> RSA_OAEP256_ALGORITHM, epk |-> None], <<RSA_OAEP256_ALGORITHM, key.id, cek>>, payload)

\* The key that both sides derive, from the algorithm and the shared secret.
Derived(alg, secret, public) == <<alg, {secret, public}>>

\* The content key is wrapped with the derived key, and the header carries the
\* public half of the ephemeral secret.
ecdh_es_a256kw_p256(key, payload) ==
    Encrypted([alg |-> ECDH_ES_A256KW, epk |-> encrypter_secret],
              <<"A256KW", Derived(ECDH_ES_A256KW, encrypter_secret, key.id), cek>>, payload)

\* The response, or None if the algorithm is not supported for the key.
jwe(key, payload) ==
    CASE key.type = "RSA" /\ key.alg = RSA1_5_ALGORITHM -> rsa_1v15(key, payload)
      [] key.type = "RSA" /\ key.alg = RSA_OAEP256_ALGORITHM -> rsa_oaep256(key, payload)
      [] key.type = "P-256" /\ key.alg = ECDH_ES_A256KW -> ecdh_es_a256kw_p256(key, payload)
      [] OTHER -> None

\* External: what a guest with the private half of a key reads in a response.  It
\* goes by the header, and None is what it cannot open.
Decrypt(key, r) ==
    LET wrapping == IF r.protected.alg = ECDH_ES_A256KW
                      THEN <<"A256KW", Derived(r.protected.alg, r.protected.epk, key.id), cek>>
                      ELSE <<r.protected.alg, key.id, cek>>
    IN  IF r.encrypted_key = wrapping /\ r.ciphertext[3] = r.protected THEN r.ciphertext[4] ELSE None
=============================================================================
