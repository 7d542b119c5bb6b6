----------------------------- MODULE TrusteeRun -----------------------------
(***************************************************************************)
(* The start of the KBS, by `trustee run` or by the kbs binary, and what   *)
(* it leaves in the home directory (tools/trustee/src, ApiServer::new,     *)
(* kbs/src/http.rs): the key pairs for the administrator and for HTTPS,    *)
(* the certificate and the policy files.  `trustee keygen` may run at the  *)
(* same time.                                                              *)
(*                                                                         *)
(* A process works through a queue of file writes, each of which creates   *)
(* the file empty and then fills it; the process can be killed between any *)
(* two of these steps.  ApiServer::new then uses what it finds.            *)
(***************************************************************************)
EXTENDS Integers, Sequences

CONSTANTS
    Config,     \* the configurations to start with
    Policy,     \* policies that the administrator may set
    MaxStarts,  \* bounds for TLC: starts of the server,
    MaxKey,     \* and keys that can be generated
    None

VARIABLES
    file,           \* the content of each file of the home directory
    cfg,            \* the configuration of this start
    stage,          \* the stages of the start that are left, or where it ended
    writes,         \* for each process, the files it has to write
    policy_path,    \* the policy file that the engine uses
    admin,          \* the key that admin requests must be signed with
    tls,            \* the private key that the HTTPS server loaded
    keys, starts,   \* counters of generated keys and of starts
    acked,          \* for each policy file, the policy last acknowledged and in which start
    ran             \* the configurations with which the server was up

setup == <<cfg, policy_path, admin, tls>>
runVars == <<file, setup, stage, writes, keys, starts, acked, ran>>

\* Contents of files, as tuples of a kind and what it is of.
Missing == <<"missing", None>>
Partial == <<"partial", None>>
Private(k) == <<"private", k>>
Public(k) == <<"public", k>>
Cert(k, p) == <<"cert", k, p>>
Rego(p) == <<"policy", p>>

Process == {"run", "keygen"}

\* The files of an operator's own keys, next to the generated ones.
HomeFile == {"auth_key", "auth_key.pub", "https_key", "https_key.pub", "https_cert.pem",
             "policy.rego", "allow_all.rego", "deny_all.rego", "own_key", "own_cert", "own_pub"}

PolicyFile == {"policy.rego", "allow_all.rego", "deny_all.rego"}

\* The operator's own key, of which there is a public key and a certificate.
OwnKey == 0

\* Where the server takes its keys from: the configuration, else the home
\* directory.
auth_public_key == IF cfg.auth_public_key = None /\ cfg.trustee THEN "auth_key.pub" ELSE cfg.auth_public_key
private_key == IF cfg.private_key = None /\ cfg.trustee THEN "https_key" ELSE cfg.private_key
certificate == IF cfg.certificate = None /\ cfg.trustee THEN "https_cert.pem" ELSE cfg.certificate

\* get_config, then ApiServer::new and ApiServer::server.
Stages(c) ==
    (IF c.trustee THEN <<"auth_key", "https_key", "https_cert", "policy">> ELSE <<>>)
        \o <<"plugins", "token", "engine", "admin", "attestation", "tls", "bind", "up">>

At(s) == Len(stage) > 0 /\ Head(stage) = s
Up == stage = <<"up">>
Down == stage \in {<<"down">>, <<"failed">>}

RunInit ==
    /\ file = [f \in HomeFile |->
                CASE f = "own_key" -> Private(OwnKey)
                  [] f = "own_pub" -> Public(OwnKey)
                  [] f = "own_cert" -> Cert(OwnKey, "own_key")
                  [] OTHER -> Missing]
    /\ cfg \in Config
    /\ stage = <<"down">>
    /\ writes = [p \in Process |-> <<>>]
    /\ policy_path = None
    /\ admin = None /\ tls = None
    /\ keys = 0 /\ starts = 0
    /\ acked = [f \in PolicyFile |-> None]
    /\ ran = {}

\* The keys that a configuration names are the operator's own, and its policy
\* file is not one of those with the built-in policies; the administrator's
\* policies are told apart from allow-all.
ASSUME RunAssumption ==
    /\ \A c \in Config :
         /\ {c.trustee, c.insecure_http, c.insecure_api, c.allow_all} \subseteq BOOLEAN
         /\ c.auth_public_key \in {None, "own_pub"}
         /\ c.private_key \in {None, "own_key"}
         /\ c.certificate \in {None, "own_cert"}
         /\ c.policy_path = "policy.rego"
    /\ "allow_all" \notin Policy
    /\ None \notin HomeFile /\ None \notin Nat

-----------------------------------------------------------------------------
(* Writing files.                                                          *)

Put(f, c, new) == [file |-> f, content |-> c, new |-> new, open |-> FALSE]

\* Mutant: a key file that exists is overwritten.
CreateOver(p) ==
    /\ writes[p] # <<>> /\ ~Head(writes[p]).open
    /\ file' = [file EXCEPT ![Head(writes[p]).file] = Partial]
    /\ writes' = [writes EXCEPT ![p][1].open = TRUE]
    /\ UNCHANGED <<setup, stage, keys, starts, acked, ran>>

\* File::create_new, which refuses a file that exists, or File::create.
Create(p) ==
    /\ writes[p] # <<>> /\ ~Head(writes[p]).open
    /\ LET w == Head(writes[p])
       IN  IF w.new /\ file[w.file] # Missing
             THEN /\ writes' = [writes EXCEPT ![p] = <<>>]
                  /\ stage' = IF p = "run" THEN <<"failed">> ELSE stage
                  /\ UNCHANGED file
             ELSE /\ file' = [file EXCEPT ![w.file] = Partial]
                  /\ writes' = [writes EXCEPT ![p][1].open = TRUE]
                  /\ UNCHANGED stage
    /\ UNCHANGED <<setup, keys, starts, acked, ran>>

\* The file is written.  What a running server writes is the policy that the
\* administrator sets, and it answers after that.
Fill(p) ==
    /\ writes[p] # <<>> /\ Head(writes[p]).open
    /\ file' = [file EXCEPT ![Head(writes[p]).file] = Head(writes[p]).content]
    /\ writes' = [writes EXCEPT ![p] = Tail(@)]
    /\ acked' = IF p = "run" /\ Up
                  THEN [acked EXCEPT ![policy_path] = <<Head(writes[p]).content[2], starts>>]
                  ELSE acked
    /\ UNCHANGED <<setup, stage, keys, starts, ran>>

\* write_pem: the private key, and then the public key.
KeyPair(private, public) ==
    <<Put(private, Private(keys + 1), TRUE), Put(public, Public(keys + 1), TRUE)>>

Generate(p, private, public) ==
    /\ keys < MaxKey
    /\ writes' = [writes EXCEPT ![p] = KeyPair(private, public)]
    /\ keys' = keys + 1

\* `trustee keygen -f auth_key`; to bound the interleavings, only while the
\* configuration relies on that file.
Keygen ==
    /\ cfg.auth_public_key = None
    /\ writes["keygen"] = <<>>
    /\ Generate("keygen", "auth_key", "auth_key.pub")
    /\ UNCHANGED <<file, setup, stage, starts, acked, ran>>

-----------------------------------------------------------------------------
(* A start of the server.                                                  *)

\* The operator may change the configuration, though not, to bound the model,
\* the plugins in it.
Start(c) ==
    /\ Down
    /\ c.plugins = cfg.plugins
    /\ starts < MaxStarts
    /\ starts' = starts + 1
    /\ cfg' = c
    /\ stage' = Stages(c)
    /\ policy_path' = c.policy_path
    /\ admin' = None /\ tls' = None
    /\ UNCHANGED <<file, writes, keys, acked, ran>>

\* The stage begins when the files of the one before are written.
Begin(s) == At(s) /\ writes["run"] = <<>>

Done == stage' = Tail(stage)
Fail == stage' = <<"failed">>

EnsureAuthKeyPair ==
    /\ Begin("auth_key")
    /\ IF cfg.auth_public_key = None /\ file["auth_key"] = Missing
         THEN Generate("run", "auth_key", "auth_key.pub")
         ELSE UNCHANGED <<writes, keys>>
    /\ Done
    /\ UNCHANGED <<file, setup, starts, acked, ran>>

EnsureHttpsKeyPair ==
    /\ Begin("https_key")
    /\ IF ~cfg.insecure_http /\ cfg.private_key = None /\ file["https_key"] = Missing
         THEN Generate("run", "https_key", "https_key.pub")
         ELSE UNCHANGED <<writes, keys>>
    /\ Done
    /\ UNCHANGED <<file, setup, starts, acked, ran>>

\* Mutant: no check for a certificate that exists.
AlwaysNewHttpsCert ==
    /\ Begin("https_cert")
    /\ IF ~cfg.insecure_http /\ cfg.certificate = None /\ file[private_key][1] = "private"
         THEN writes' = [writes EXCEPT !["run"] =
                <<Put("https_cert.pem", Cert(file[private_key][2], private_key), TRUE)>>]
         ELSE UNCHANGED writes
    /\ Done
    /\ UNCHANGED <<file, setup, keys, starts, acked, ran>>

\* A certificate for the private key, unless there is one.
EnsureHttpsCert ==
    /\ Begin("https_cert")
    /\ IF ~cfg.insecure_http /\ cfg.certificate = None /\ file["https_cert.pem"] = Missing
         THEN LET k == file[private_key]
              IN  IF k[1] = "private"
                    THEN /\ writes' = [writes EXCEPT !["run"] =
                                        <<Put("https_cert.pem", Cert(k[2], private_key), TRUE)>>]
                         /\ Done
                    ELSE Fail /\ UNCHANGED writes
         ELSE Done /\ UNCHANGED writes
    /\ UNCHANGED <<file, setup, keys, starts, acked, ran>>

\* Mutant: the built-in policies are written to the configured file.
PolicyInPlace ==
    /\ Begin("policy")
    /\ LET p == CASE cfg.allow_all -> "allow_all"
                  [] ~cfg.allow_all /\ file[policy_path] = Missing -> "deny_all"
                  [] OTHER -> None
       IN  writes' = IF p = None THEN writes
                     ELSE [writes EXCEPT !["run"] = <<Put(policy_path, Rego(p), FALSE)>>]
    /\ Done
    /\ UNCHANGED <<file, setup, keys, starts, acked, ran>>

\* The built-in policies have files of their own, which every start that uses
\* them writes anew, over what an administrator may have set there.
SetPolicyPath ==
    /\ Begin("policy")
    /\ LET f == CASE cfg.allow_all -> "allow_all.rego"
                  [] ~cfg.allow_all /\ file[policy_path] = Missing -> "deny_all.rego"
                  [] OTHER -> None
           p == IF cfg.allow_all THEN "allow_all" ELSE "deny_all"
       IN  IF f = None THEN UNCHANGED <<writes, policy_path>>
           ELSE /\ policy_path' = f
                /\ writes' = [writes EXCEPT !["run"] = <<Put(f, Rego(p), FALSE)>>]
    /\ Done
    /\ UNCHANGED <<file, cfg, admin, tls, keys, starts, acked, ran>>

\* Opa::new
PolicyEngine ==
    /\ Begin("engine")
    /\ writes' = IF file[policy_path] = Missing
                   THEN [writes EXCEPT !["run"] = <<Put(policy_path, Rego("default"), FALSE)>>]
                   ELSE writes
    /\ Done
    /\ UNCHANGED <<file, setup, keys, starts, acked, ran>>

\* Admin::try_from reads the public key, unless the API is insecure.
AdminAuth ==
    /\ Begin("admin")
    /\ IF cfg.insecure_api
         THEN Done /\ UNCHANGED admin
         ELSE IF auth_public_key # None /\ file[auth_public_key][1] = "public"
                THEN Done /\ admin' = file[auth_public_key][2]
                ELSE Fail /\ UNCHANGED admin
    /\ UNCHANGED <<file, cfg, policy_path, tls, writes, keys, starts, acked, ran>>

\* TokenVerifier::from_config and AttestationService::new read certificates and
\* key sets and connect to other services: they succeed or end the start.
Connect(s) ==
    /\ Begin(s)
    /\ Done \/ Fail
    /\ UNCHANGED <<file, setup, writes, keys, starts, acked, ran>>

\* tls_config loads the private key and then the certificate.  OpenSSL drops a
\* private key of the same type that the certificate is not for.
Serve ==
    /\ Begin("tls")
    /\ IF cfg.insecure_http
         THEN Done /\ UNCHANGED tls
         ELSE IF private_key = None \/ certificate = None THEN Fail /\ UNCHANGED tls
         ELSE LET k == file[private_key]
                  c == file[certificate]
              IN  IF k[1] = "private" /\ c[1] = "cert"
                    THEN /\ Done
                         /\ tls' = IF c[2] = k[2] THEN k[2] ELSE None
                    ELSE Fail /\ UNCHANGED tls
    /\ UNCHANGED <<file, cfg, policy_path, admin, writes, keys, starts, acked, ran>>

\* The sockets, which other programs may hold.
Bind ==
    /\ Begin("bind")
    /\ \/ Done /\ ran' = ran \cup {cfg}
       \/ Fail /\ UNCHANGED ran
    /\ UNCHANGED <<file, setup, writes, keys, starts, acked>>

-----------------------------------------------------------------------------
(* The administrator sets the policy, and processes are killed.            *)

\* The administrator signs with the private key that belongs to what the
\* configuration names, else with the one in the home directory.
Signs ==
    \/ cfg.insecure_api
    \/ cfg.auth_public_key # None
    \/ file["auth_key"] = Private(admin)

SetPolicy(p) ==
    /\ Up
    /\ writes["run"] = <<>>
    /\ Signs
    /\ writes' = [writes EXCEPT !["run"] = <<Put(policy_path, Rego(p), FALSE)>>]
    /\ acked' = [acked EXCEPT ![policy_path] = None]
    /\ UNCHANGED <<file, setup, stage, keys, starts, ran>>

Kill(p) ==
    /\ IF p = "run" THEN ~Down ELSE writes[p] # <<>>
    /\ writes' = [writes EXCEPT ![p] = <<>>]
    /\ stage' = IF p = "run" THEN <<"down">> ELSE stage
    /\ UNCHANGED <<file, setup, keys, starts, acked, ran>>

\* All but the stage in which the plugins start, which is KbsPlugins'.
RunNext ==
    \/ \E c \in Config : Start(c)
    \/ \E p \in Process : Create(p) \/ Fill(p)
    \/ Keygen \/ Kill("keygen")
    \/ EnsureAuthKeyPair \/ EnsureHttpsKeyPair \/ EnsureHttpsCert
    \/ SetPolicyPath \/ PolicyEngine \/ AdminAuth \/ Serve \/ Bind
    \/ Connect("token") \/ Connect("attestation")
    \/ \E p \in Policy : SetPolicy(p)

-----------------------------------------------------------------------------
(* Properties.                                                             *)

KeyFiles == {<<"auth_key", "auth_key.pub">>, <<"https_key", "https_key.pub">>}

\* A public key file belongs to the private key file next to it, and a server
\* that is up accepts what the administrator signs, whatever starts and key
\* generations overlapped or were cut off (write_pem's order and create_new).  A
\* server with a certificate made for the key it is configured with has both
\* loaded: later starts change neither (ensure_https_key_pair, ensure_https_cert,
\* tls_config).
KeyPairsMatch ==
    /\ \A f \in KeyFiles : file[f[2]][1] = "public" => file[f[1]] = Private(file[f[2]][2])
    /\ Up => Signs
    /\ Up /\ ~cfg.insecure_http /\ file[certificate][3] = private_key =>
         tls # None /\ tls = file[private_key][2]

\* The policy of a file that must still be in it: the one acknowledged last, in
\* this start or, if it is the configured file, in any.
Binding(f) == acked[f] # None /\ (f = "policy.rego" \/ acked[f][2] = starts)

\* A policy that the administrator set, and that was acknowledged, is in the
\* configured file at every later start.  One set while a built-in policy is in
\* force is in the file of that policy, and lasts until the next start: the
\* policy of a start is the configured one or the built-in one (get_config).
\* Allow-all is in force only if this start asked for it (Opa::new).
AcknowledgedPolicySurvives ==
    /\ \A f \in PolicyFile : Binding(f) => file[f] = Rego(acked[f][1])
    /\ Up /\ ~cfg.allow_all => file[policy_path] # Rego("allow_all")

\* The stages that depend on more than the home directory.
Outside == At("plugin") \/ At("token") \/ At("attestation") \/ At("bind")
=============================================================================
