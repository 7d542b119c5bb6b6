---------------------------- MODULE MCTokenTrust ----------------------------
(* TokenTrust with a root, an intermediate and a signer that they certify. *)
EXTENDS TokenTrust

Cert(subject, key, issuer, until) == [subject |-> subject, key |-> key, issuer |-> issuer, until |-> until]

ownEc == <<"P-256", "own", 0>>
ownRsa == <<"RSA", "own", 0>>
newEc == <<"P-256", "new", 0>>
p384 == <<"P-384", "own", 0>>

root == Cert("root", <<"P-256", "root", 0>>, "root", 9)
inter == Cert("inter", <<"P-256", "inter", 0>>, "root", 9)
leaf == Cert("leaf", ownEc, "inter", 2)
self == Cert("self", ownRsa, "self", 9)

Signer(key, chain) == [key |-> key, cert_chain |-> chain]

\* The chain in full, without the intermediate, and left over from another key; a
\* certificate that signs itself; keys that the broker cannot load, or sign with; and
\* no signer.
MCAsConfig ==
    {[broker |-> "Ear", signer |-> Signer(ownEc, <<leaf, inter>>)],
     [broker |-> "Ear", signer |-> Signer(ownEc, <<leaf>>)],
     [broker |-> "Ear", signer |-> Signer(newEc, <<leaf, inter>>)],
     [broker |-> "Simple", signer |-> Signer(ownRsa, <<self>>)],
     [broker |-> "Simple", signer |-> Signer(ownEc, None)],
     [broker |-> "Ear", signer |-> Signer(p384, None)],
     [broker |-> "Ear", signer |-> None]}

Kbs(backend, certs, jwks, from, insecure) ==
    [backend |-> backend, trusted_certs |-> certs, trusted_jwk_sets |-> jwks, certs_file |-> from,
     insecure_key |-> insecure, extra |-> FALSE]

MCKbsConfig ==
    {Kbs("as", {root, self}, {}, None, FALSE), Kbs("as", {inter}, {"https"}, None, FALSE),
     Kbs("as", {}, {}, None, TRUE),
     Kbs("ita", {}, {"file"}, "https", FALSE),
     [Kbs("ita", {root}, {"file", "https"}, "file", FALSE) EXCEPT !.extra = TRUE]}

Key(type, alg, id) == [type |-> type, alg |-> alg, id |-> id]

Device(tee, class, claims, key) ==
    [tee |-> tee, tee_class |-> class, claims |-> claims, runtime_data_claims |-> key]

rsa1 == Key("RSA", "RSA1_5", "k4")
ecdh == Key("P-256", "ECDH-ES+A256KW", "k1")
oaep == Key("RSA", "RSA-OAEP-256", "k2")
other == Key("P-384", "ECDH-ES+A256KW", "k3")

cpu(tee, key) == Device(tee, "cpu", [report_data |-> "h", mr |-> tee], key)
gpu(n, key) == Device("Nvidia", "gpu", [mr |-> n], key)

MCDeviceList ==
    {<<cpu("Tdx", ecdh)>>,
     <<gpu("g1", oaep), gpu("g2", oaep), cpu("Snp", oaep)>>,
     <<cpu("Snp", oaep), gpu("g1", oaep), gpu("g2", oaep), gpu("g3", oaep)>>,
     <<[cpu("Sample", ecdh) EXCEPT !.claims = [mr |-> "Sample"]], cpu("Snp", oaep)>>,
     <<cpu("Snp", other), gpu("g1", ecdh)>>}

Evidence(tee, devices, key) == [tee |-> tee, devices |-> devices, runtime_data |-> key, user_data |-> None]

\* A TD with a GPU, two TDs of which one has user data, and SGX; Azure's before and
\* after other TDX evidence, and twice; and a TEE that is not supported.
MCItaEvidence ==
    {<<Evidence("Tdx", <<"td">>, ecdh), Evidence("Nvidia", <<"g1", "g2">>, ecdh)>>,
     <<Evidence("Tdx", <<"td1">>, oaep), [Evidence("Tdx", <<"td2">>, oaep) EXCEPT !.user_data = other],
       Evidence("Sgx", <<"sgx">>, oaep)>>,
     <<Evidence("AzTdxVtpm", <<"td">>, rsa1), Evidence("Nvidia", <<>>, rsa1)>>,
     <<[Evidence("Tdx", <<"td">>, rsa1) EXCEPT !.user_data = ecdh], Evidence("AzTdxVtpm", <<"td">>, rsa1)>>,
     <<Evidence("AzTdxVtpm", <<"td">>, ecdh), [Evidence("Tdx", <<"td">>, ecdh) EXCEPT !.user_data = rsa1]>>,
     <<Evidence("AzTdxVtpm", <<"td1">>, ecdh), Evidence("AzTdxVtpm", <<"td2">>, ecdh)>>,
     <<Evidence("Snp", <<"snp">>, ecdh)>>}
=============================================================================
