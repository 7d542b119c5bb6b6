----------------------------- MODULE KbsPlugins -----------------------------
(***************************************************************************)
(* The plugins of the KBS (kbs/src/plugins) and the requests that          *)
(* kbs/src/api_server.rs hands to them, on top of the starts and kills of  *)
(* TrusteeRun: the resource plugin with the Vault and Aliyun backends, the *)
(* PKCS#11 plugin, the Nebula CA plugin and the sample plugin.             *)
(*                                                                         *)
(* Vault, Aliyun KMS, the HSM and the nebula-cert program are external:    *)
(* they keep what the plugin asked them to keep, and any call may fail.    *)
(***************************************************************************)
EXTENDS TrusteeRun, FiniteSets

CONSTANTS
    Request,    \* requests that may be in progress at the same time
    Label,      \* names of resources: repository, type and tag
    Data,       \* what an administrator uploads
    Opaque,     \* data that is not UTF-8
    Tag(_),     \* the tag of a resource name
    KmsSecret,  \* what Aliyun KMS holds under each tag
    Allowed,    \* policies that let a workload pass
    MaxRequests \* bound for TLC: requests that reach a plugin

VARIABLES
    toStart,    \* entries of the plugin configuration that are left to start
    plugins,    \* PluginManager: the entry that serves each name, or None
    ca,         \* ca.crt and ca.key of the Nebula CA: the CA they are of, or None
    vault,      \* Vault: the data under each name, or None
    flight,     \* writes that Vault may still receive, though their requests have ended
    session,    \* objects of the PKCS#11 session: pairs of label and data
    wrapkey,    \* the wrapping key of this start; the HSM keeps them all
    tmp,        \* the credential directories, by request and start
    req,        \* requests
    blobs,      \* what wrap-key returned: pairs of the wrapping key and the data
    handled,    \* counts the requests that reach a plugin
    written,    \* per name, the data that a read from Vault may return
    issued,     \* the CAs that credentials were issued under
    orphans     \* credential directories of requests that were cut off

pluginVars == <<toStart, plugins, ca, vault, flight, session, wrapkey, tmp, req, blobs, handled, written,
                issued, orphans>>
vars == <<runVars, pluginVars>>

Entry == {"vault", "aliyun", "pkcs11", "nebula-ca", "sample"}
Name == {"resource", "pkcs11", "nebula-ca", "sample"}

\* Display for PluginsConfig
name(e) == IF e \in {"vault", "aliyun"} THEN "resource" ELSE e

ASSUME PluginAssumption ==
    /\ \A c \in Config : c.plugins \in Seq(Entry)
    /\ None \notin Entry

idle == [pc |-> "idle"]

Init ==
    /\ RunInit
    /\ toStart = <<>>
    /\ plugins = [n \in Name |-> None]
    /\ ca = [crt |-> None, key |-> None]
    /\ vault = [l \in Label |-> None]
    /\ flight = [l \in Label |-> {}]
    /\ session = {}
    /\ wrapkey = None
    /\ tmp = {} /\ orphans = {} /\ issued = {}
    /\ req = [r \in Request |-> idle]
    /\ blobs = {} /\ handled = 0
    /\ written = [l \in Label |-> {None}]

-----------------------------------------------------------------------------
(* PluginManager::try_from starts the entries in their order.              *)

request == <<vault, flight, tmp, req, blobs, handled, issued, orphans>>

StartPlugins ==
    /\ Begin("plugins")
    /\ stage' = [stage EXCEPT ![1] = "plugin"]
    /\ toStart' = cfg.plugins
    /\ plugins' = [n \in Name |-> None]
    /\ UNCHANGED <<file, setup, writes, keys, starts, acked, ran, ca, session, wrapkey, request, written>>

Starting(e) == At("plugin") /\ toStart # <<>> /\ Head(toStart) = e

\* The map holds the last entry of a name.
Started(e) ==
    /\ toStart' = Tail(toStart)
    /\ plugins' = [plugins EXCEPT ![name(e)] = e]

\* An error of any plugin ends the start.
PluginFails ==
    /\ At("plugin") /\ toStart # <<>>
    /\ Head(toStart) # "sample"
    /\ Fail
    /\ UNCHANGED <<file, setup, writes, keys, starts, acked, ran, pluginVars>>

\* The sample plugin; the clients of Vault and Aliyun KMS connect on use.
StartSimple(e) ==
    /\ Starting(e)
    /\ Started(e)
    /\ UNCHANGED <<runVars, ca, session, wrapkey, request, written>>

\* A session, without objects yet, and a new wrapping key pair in the token.
StartPkcs11 ==
    /\ Starting("pkcs11")
    /\ plugins["pkcs11"] = None
    /\ Started("pkcs11")
    /\ session' = {}
    /\ wrapkey' = starts
    /\ UNCHANGED <<runVars, ca, request, written>>

\* Mutant: every start makes a CA.
NebulaCaAnew(f) ==
    /\ Starting("nebula-ca")
    /\ ca[f] # starts
    /\ ca' = [ca EXCEPT ![f] = starts]
    /\ UNCHANGED <<runVars, toStart, plugins, session, wrapkey, request, written>>

\* `nebula-cert ca` makes the CA of this start, if there is neither file.
NebulaCa(f) ==
    /\ Starting("nebula-ca")
    /\ \/ ca = [crt |-> None, key |-> None]
       \/ ca[f] = None /\ ca["crt"] # ca["key"] /\ starts \in {ca["crt"], ca["key"]}
    /\ ca' = [ca EXCEPT ![f] = starts]
    /\ UNCHANGED <<runVars, toStart, plugins, session, wrapkey, request, written>>

StartNebula ==
    /\ Starting("nebula-ca")
    /\ ca.crt # None /\ ca.key # None
    /\ Started("nebula-ca")
    /\ UNCHANGED <<runVars, ca, session, wrapkey, request, written>>

PluginsStarted ==
    /\ At("plugin") /\ toStart = <<>>
    /\ Done
    /\ UNCHANGED <<file, setup, writes, keys, starts, acked, ran, pluginVars>>

-----------------------------------------------------------------------------
(* A request reaches a plugin.                                             *)

served == <<runVars, toStart, plugins, ca, wrapkey>>

\* `wrap` is for the path wrap-key of the PKCS#11 plugin.
Op == {o \in [plugin : Name, method : {"GET", "POST"}, wrap : BOOLEAN] :
            o.wrap => o.plugin = "pkcs11"}

\* What the path and the body of a request may name, where they are used.
Labels(o) == IF o.plugin \in {"resource", "pkcs11"} /\ ~o.wrap THEN Label ELSE {None}

Bodies(o) ==
    CASE o.plugin \in {"resource", "pkcs11"} /\ o.method = "POST" -> Data
      [] o.method = "GET" /\ o.wrap -> blobs
      [] OTHER -> {None}

End(r, a) == req' = [req EXCEPT ![r] = [pc |-> "done", answer |-> a]]

Refusal == <<"refused">>

\* validate_auth of the plugin says whether the administrator must have signed,
\* which an insecure API does not ask for; else the policy decides.
Admits(e, o, signed) ==
    IF e = "sample" \/ (e # "nebula-ca" /\ o.method = "POST")
      THEN cfg.insecure_api \/ (signed /\ Signs)
      ELSE \E p \in Allowed : file[policy_path] = Rego(p)

\* The uploads to Vault under a name that are in progress.
Uploads(l) == {q \in Request : /\ req[q].pc \in {"handle", "set"}
                               /\ req[q].entry = "vault"
                               /\ req[q].op.method = "POST"
                               /\ req[q].label = l
                               /\ req[q].data \notin Opaque}

\* ApiServer::api: the plugin, the administrator's signature or the policy.  An
\* upload to Vault meets those that are in progress or on their way, and they
\* meet it.
Arrive(r, o, l, d, signed) ==
    /\ Up /\ req[r].pc = "idle"
    /\ LET e == plugins[o.plugin]
           go == e # None /\ Admits(e, o, signed)
           stores == go /\ e = "vault" /\ o.method = "POST" /\ d \notin Opaque
           met == IF stores THEN Uploads(l) ELSE {}
       IN  /\ go => handled < MaxRequests
           /\ handled' = IF go THEN handled + 1 ELSE handled
           /\ req' = [q \in Request |->
                        CASE q = r /\ go -> [pc |-> "handle", entry |-> e, op |-> o, label |-> l, data |-> d,
                                             meets |-> IF stores THEN {req[m].data : m \in met} \cup flight[l]
                                                       ELSE {}]
                          [] q = r /\ ~go -> [pc |-> "done", answer |-> Refusal]
                          [] q \in met -> [req[q] EXCEPT !.meets = @ \cup {d}]
                          [] OTHER -> req[q]]
           /\ written' = IF stores THEN [written EXCEPT ![l] = @ \cup {d}] ELSE written
    /\ UNCHANGED <<served, vault, flight, session, tmp, blobs, issued, orphans>>

\* The request is at step s of the plugin entry e.
Doing(r, s, e, method) ==
    Up /\ req[r].pc = s /\ req[r].entry = e /\ req[r].op.method = method

Step(r, s) == req' = [req EXCEPT ![r].pc = s]

Dir(r) == <<r, starts>>

\* What requests have sent to Vault may reach it when they have ended.
Leave(R) ==
    flight' = [l \in Label |-> flight[l] \cup {req[r].data : r \in {q \in R \cap Uploads(l) : req[q].pc = "handle"}}]

\* An external service fails or does not answer, or the request is malformed.
HandleFails(r) ==
    /\ Up /\ req[r].pc \notin {"idle", "done"} /\ req[r].entry # "sample"
    /\ End(r, Refusal)
    /\ tmp' = tmp \ {Dir(r)}
    /\ Leave({r})
    /\ UNCHANGED <<served, vault, session, blobs, handled, written, issued, orphans>>

\* The client closes the connection: the handler goes no further.  It does not
\* end nebula-cert, which may put a file into the directory being removed.
ClientLeaves(r) ==
    /\ Up /\ req[r].pc \notin {"idle", "done"}
    /\ End(r, Refusal)
    /\ IF req[r].pc = "sign"
         THEN /\ tmp' \in {tmp, tmp \ {Dir(r)}}
              /\ orphans' = orphans \cup {Dir(r)}
         ELSE tmp' = tmp \ {Dir(r)} /\ UNCHANGED orphans
    /\ Leave({r})
    /\ UNCHANGED <<served, vault, session, blobs, handled, written, issued>>

SampleHandle(r) ==
    /\ Doing(r, "handle", "sample", req[r].op.method)
    /\ End(r, <<"sample">>)
    /\ UNCHANGED <<served, vault, flight, session, tmp, blobs, handled, written, issued, orphans>>

-----------------------------------------------------------------------------
(* The resource plugin on Vault and on Aliyun KMS.                         *)

VaultWrite(r) ==
    /\ Doing(r, "handle", "vault", "POST")
    /\ IF req[r].data \in Opaque
         THEN End(r, Refusal) /\ UNCHANGED vault
         ELSE /\ vault' = [vault EXCEPT ![req[r].label] = req[r].data]
              /\ Step(r, "set")
    /\ UNCHANGED <<served, flight, session, tmp, blobs, handled, written, issued, orphans>>

\* From now on a read returns this data, or that of an upload that it met.
VaultAnswers(r) ==
    /\ Doing(r, "set", "vault", "POST")
    /\ End(r, <<"empty">>)
    /\ written' = [written EXCEPT ![req[r].label] = {req[r].data} \cup req[r].meets]
    /\ UNCHANGED <<served, vault, flight, session, tmp, blobs, handled, issued, orphans>>

\* Mutant: the path has only the tag.
VaultReadByTag(r) ==
    /\ Doing(r, "handle", "vault", "GET")
    /\ \E l \in Label :
         /\ Tag(l) = Tag(req[r].label)
         /\ End(r, IF vault[l] = None THEN Refusal ELSE <<"data", vault[l]>>)
    /\ UNCHANGED <<served, vault, flight, session, tmp, blobs, handled, written, issued, orphans>>

VaultRead(r) ==
    /\ Doing(r, "handle", "vault", "GET")
    /\ LET d == vault[req[r].label]
       IN  End(r, IF d = None THEN Refusal ELSE <<"data", d>>)
    /\ UNCHANGED <<served, vault, flight, session, tmp, blobs, handled, written, issued, orphans>>

\* A write arrives though its request has ended.  Another one with the same data
\* may still follow.
VaultLate(l, d) ==
    /\ d \in flight[l]
    /\ vault' = [vault EXCEPT ![l] = d]
    /\ flight' \in {flight, [flight EXCEPT ![l] = @ \ {d}]}
    /\ UNCHANGED <<served, session, tmp, req, blobs, handled, written, issued, orphans>>

\* Aliyun KMS looks the tag up, without repository and type.
AliyunRead(r) ==
    /\ Doing(r, "handle", "aliyun", "GET")
    /\ End(r, <<"data", KmsSecret[Tag(req[r].label)]>>)
    /\ UNCHANGED <<served, vault, flight, session, tmp, blobs, handled, written, issued, orphans>>

\* todo!() panics: the connection is closed.
AliyunWrite(r) ==
    /\ Doing(r, "handle", "aliyun", "POST")
    /\ End(r, Refusal)
    /\ UNCHANGED <<served, vault, flight, session, tmp, blobs, handled, written, issued, orphans>>

-----------------------------------------------------------------------------
(* The PKCS#11 plugin, one call into the session at a time.                *)

\* An object without CKA_TOKEN: it is gone with the session.  There may be
\* others with its label.
Pkcs11Write(r) ==
    /\ Doing(r, "handle", "pkcs11", "POST") /\ ~req[r].op.wrap
    /\ session' = session \cup {<<req[r].label, req[r].data>>}
    /\ End(r, <<"empty">>)
    /\ UNCHANGED <<served, vault, flight, tmp, blobs, handled, written, issued, orphans>>

\* find_objects, of which read takes the first.
Objects(l) == {o[2] : o \in {x \in session : x[1] = l}}

Pkcs11Read(r) ==
    /\ Doing(r, "handle", "pkcs11", "GET") /\ ~req[r].op.wrap
    /\ \/ \E d \in Objects(req[r].label) : End(r, <<"data", d>>)
       \/ Objects(req[r].label) = {} /\ End(r, Refusal)
    /\ UNCHANGED <<served, vault, flight, session, tmp, blobs, handled, written, issued, orphans>>

\* wrapkey_wrap and wrapkey_unwrap: find the key, unlock, lock, use it.
FindKey(r) ==
    /\ \E m \in {"GET", "POST"} : Doing(r, "handle", "pkcs11", m)
    /\ req[r].op.wrap
    /\ Step(r, "found")
    /\ UNCHANGED <<served, vault, flight, session, tmp, blobs, handled, written, issued, orphans>>

Wrap(r) ==
    /\ Doing(r, "found", "pkcs11", "POST")
    /\ blobs' = blobs \cup {<<"blob", wrapkey, req[r].data>>}
    /\ End(r, <<"blob", wrapkey, req[r].data>>)
    /\ UNCHANGED <<served, vault, flight, session, tmp, handled, written, issued, orphans>>

Unwrap(r) ==
    /\ Doing(r, "found", "pkcs11", "GET")
    /\ End(r, IF req[r].data[2] = wrapkey THEN <<"data", req[r].data[3]>> ELSE Refusal)
    /\ UNCHANGED <<served, vault, flight, session, tmp, blobs, handled, written, issued, orphans>>

-----------------------------------------------------------------------------
(* The Nebula CA plugin.                                                   *)

\* A directory for the credential, and `nebula-cert sign`.
NebulaSign(r) ==
    /\ Doing(r, "handle", "nebula-ca", "GET")
    /\ tmp' = tmp \cup {Dir(r)}
    /\ Step(r, "sign")
    /\ UNCHANGED <<served, vault, flight, session, blobs, handled, written, issued, orphans>>

NebulaRefuses(r) ==
    /\ Doing(r, "handle", "nebula-ca", "POST")
    /\ End(r, Refusal)
    /\ UNCHANGED <<served, vault, flight, session, tmp, blobs, handled, written, issued, orphans>>

\* It succeeds with a CA whose key fits; `nebula-cert verify` and reading the
\* files follow.
NebulaVerify(r) ==
    /\ Doing(r, "sign", "nebula-ca", "GET")
    /\ ca.key = ca.crt
    /\ Step(r, "verified")
    /\ UNCHANGED <<served, vault, flight, session, tmp, blobs, handled, written, issued, orphans>>

\* Mutant: the directory is kept.
NebulaAnswersKeeping(r) ==
    /\ Doing(r, "verified", "nebula-ca", "GET")
    /\ End(r, <<"credential", ca.crt>>)
    /\ issued' = issued \cup {ca.crt}
    /\ UNCHANGED <<served, vault, flight, session, tmp, blobs, handled, written, orphans>>

NebulaAnswers(r) ==
    /\ Doing(r, "verified", "nebula-ca", "GET")
    /\ End(r, <<"credential", ca.crt>>)
    /\ tmp' = tmp \ {Dir(r)}
    /\ issued' = issued \cup {ca.crt}
    /\ UNCHANGED <<served, vault, flight, session, blobs, handled, written, orphans>>

-----------------------------------------------------------------------------
\* The server is killed, and its requests with it; the directories stay, and what
\* was sent to Vault may still arrive.
KillServer ==
    /\ Kill("run")
    /\ req' = [r \in Request |-> idle]
    /\ Leave(Request)
    /\ orphans' = orphans \cup tmp
    /\ session' = {}
    /\ toStart' = <<>>
    /\ UNCHANGED <<plugins, ca, vault, wrapkey, tmp, blobs, handled, written, issued>>

Handle(r) ==
    \/ HandleFails(r) \/ ClientLeaves(r) \/ SampleHandle(r)
    \/ VaultWrite(r) \/ VaultAnswers(r) \/ VaultRead(r)
    \/ AliyunRead(r) \/ AliyunWrite(r)
    \/ Pkcs11Write(r) \/ Pkcs11Read(r) \/ FindKey(r) \/ Wrap(r) \/ Unwrap(r)
    \/ NebulaSign(r) \/ NebulaRefuses(r) \/ NebulaVerify(r) \/ NebulaAnswers(r)

Next ==
    \/ RunNext /\ UNCHANGED pluginVars
    \/ StartPlugins \/ PluginFails \/ PluginsStarted
    \/ \E e \in {"sample", "vault", "aliyun"} : StartSimple(e)
    \/ StartPkcs11 \/ StartNebula
    \/ \E f \in {"crt", "key"} : NebulaCa(f)
    \/ KillServer
    \/ \E l \in Label, d \in Data : VaultLate(l, d)
    \/ \E r \in Request :
         \/ \E o \in Op : \E l \in Labels(o), d \in Bodies(o), signed \in BOOLEAN :
                Arrive(r, o, l, d, signed)
         \/ Handle(r)

Spec == Init /\ [][Next]_vars

-----------------------------------------------------------------------------
(* Properties.                                                             *)

\* A configuration with which the server was up once brings it up again: whatever
\* starts, key generations and kills came between, a later start fails only for
\* what is outside the home directory - a plugin, the key sets of the token
\* verifier, the attestation service or the sockets (ensure_auth_key_pair,
\* ensure_https_key_pair, ensure_https_cert, Admin::try_from, tls_config).
ComesUpAgain ==
    [][stage' = <<"failed">> /\ stage # <<"failed">> /\ cfg \in ran => Outside]_vars

\* A resource that is read from Vault was uploaded under the very name: by the
\* upload acknowledged last, one in progress at the same time, one that came
\* later and was not acknowledged, or one that had ended without an answer and
\* was still on its way, across restarts of the server.
ReadsReturnUploads ==
    [][\A r \in Request :
         /\ req[r].pc = "handle" /\ req[r].entry = "vault" /\ req[r].op.method = "GET"
         /\ req'[r].pc = "done" /\ req'[r].answer # Refusal
         => req'[r].answer[2] \in written[req[r].label]]_vars

\* The directory with the key of a credential is gone when the request has
\* ended, unless the server was killed or the client left while nebula-cert
\* was signing.
CredentialDirsRemoved ==
    tmp \subseteq orphans \cup {Dir(r) : r \in {q \in Request : req[q].pc \in {"sign", "verified"}}}

\* A credential once issued verifies under the CA of every later start.
CredentialsKeepVerifying == issued \subseteq {ca.crt}
=============================================================================
