---------------------------- MODULE MCKbsPlugins ----------------------------
(* KbsPlugins with two starts and two requests in progress.                *)
EXTENDS KbsPlugins, TLC

CONSTANTS t1, t2, d1, d2, d3, r1, r2

base == [trustee |-> TRUE, insecure_http |-> FALSE, insecure_api |-> FALSE,
         auth_public_key |-> None, private_key |-> None, certificate |-> None,
         policy_path |-> "policy.rego", allow_all |-> FALSE, plugins |-> <<"sample">>]

\* `trustee run`, as it is and with the operator's HTTPS key; the kbs binary, with
\* all keys, without a certificate and with no keys; and, with few start-up steps of their own, the plugins.
MCConfig == {
    base,
    [base EXCEPT !.private_key = "own_key", !.allow_all = TRUE],
    [base EXCEPT !.trustee = FALSE, !.auth_public_key = "own_pub", !.private_key = "own_key",
                 !.certificate = "own_cert"],
    [base EXCEPT !.trustee = FALSE, !.auth_public_key = "own_pub", !.private_key = "own_key"],
    [base EXCEPT !.trustee = FALSE],
    [base EXCEPT !.insecure_http = TRUE, !.allow_all = TRUE, !.auth_public_key = "own_pub",
                 !.plugins = <<"aliyun", "nebula-ca", "vault">>],
    [base EXCEPT !.insecure_http = TRUE, !.insecure_api = TRUE, !.auth_public_key = "own_pub",
                 !.allow_all = TRUE, !.plugins = <<"pkcs11", "aliyun">>]}

\* One tag in two repositories.
MCTag(l) == "tag"
MCKmsSecret == [t \in {"tag"} |-> d1]

Symmetry == Permutations({r1, r2}) \cup Permutations({t1, t2})
=============================================================================
