-------------------------- MODULE KbsPlugins_proofs --------------------------
(***************************************************************************)
(* Theorems about the plugins of the KBS (KbsPlugins), across kills and    *)
(* restarts of the server, for every set of requests, names and data.      *)
(***************************************************************************)
EXTENDS KbsPlugins, TrusteeRun_proofs

(* The starts, whatever the plugins do.                                    *)

\* Every step is one of a start, as far as a start is concerned.
LEMMA NextRuns == [Next]_vars => RunStep
<1> SUFFICES ASSUME [Next]_vars PROVE RunStep
  BY Zenon
<1> USE DEF RunStep
<1>1. CASE RunNext
  BY <1>1, Zenon
<1>2. CASE StartPlugins \/ PluginFails \/ PluginsStarted
  BY <1>2, Zenon DEF PluginStep, StartPlugins, PluginFails, PluginsStarted
<1>3. CASE KillServer
  BY <1>3, Zenon DEF KillServer
<1>5. ASSUME NEW r \in Request, Handle(r)
      PROVE  UNCHANGED runVars
  BY <1>5, Zenon DEF Handle, HandleFails, ClientLeaves, SampleHandle, VaultWrite, VaultAnswers, VaultRead,
     AliyunRead, AliyunWrite, Pkcs11Write, Pkcs11Read, FindKey, Wrap, Unwrap, NebulaSign,
     NebulaRefuses, NebulaVerify, NebulaAnswers, served
<1>6. ASSUME NEW r \in Request, NEW o \in Op, NEW l \in Labels(o), NEW d \in Bodies(o),
             NEW signed \in BOOLEAN, Arrive(r, o, l, d, signed)
      PROVE  UNCHANGED runVars
  BY <1>6, Zenon DEF Arrive, served
<1>7. CASE \/ \E e \in {"sample", "vault", "aliyun"} : StartSimple(e)
           \/ StartPkcs11 \/ StartNebula
           \/ \E f \in {"crt", "key"} : NebulaCa(f)
  BY <1>7, Zenon DEF StartSimple, StartPkcs11, StartNebula, NebulaCa
<1>4. ASSUME NEW l \in Label, NEW d \in Data, VaultLate(l, d)
      PROVE  UNCHANGED runVars
  BY <1>4, Zenon DEF VaultLate, served
<1>8. CASE UNCHANGED vars
  BY <1>8, Zenon DEF vars
<1> QED
  BY <1>1, <1>2, <1>3, <1>4, <1>5, <1>6, <1>7, <1>8, ZenonT(40) DEF Next

\* The invariant of the starts holds in the whole system.
LEMMA RunInvariant == Spec => []RunInv
<1>1. RunInv /\ [Next]_vars => RunInv'
  BY NextRuns, RunInvStep, Zenon
<1>2. Init => RunInv
  BY RunInvInit, Zenon DEF Init
<1> QED BY <1>1, <1>2, PTL DEF Spec

\* Key pairs and certificates stay together, and a server that is up accepts the
\* administrator's signatures, whatever starts and key generations overlap or
\* are cut off (ensure_auth_key_pair, ensure_https_key_pair, write_pem).
THEOREM PairsMatch == Spec => []KeyPairsMatch
BY RunInvariant, PairsHold, PTL

\* An acknowledged policy is in the configured file at every later start, and in
\* the file of a built-in policy until the next one; allow-all is in force only
\* where the start asked for it (get_config, Opa::new).
THEOREM PolicySurvives == Spec => []AcknowledgedPolicySurvives
BY RunInvariant, PolicyHolds, PTL

\* A configuration with which the server was up brings it up again, whatever
\* starts, key generations and kills came between, but for what is outside the
\* home directory (write_pem, ensure_https_cert, Admin::try_from, tls_config).
THEOREM UpAgain == Spec => ComesUpAgain
<1>1. RunInv /\ [Next]_vars =>
        [stage' = <<"failed">> /\ stage # <<"failed">> /\ cfg \in ran => Outside]_vars
  BY NextRuns, FailureCause, Zenon
<1> QED BY <1>1, RunInvariant, PTL DEF Spec, ComesUpAgain
-----------------------------------------------------------------------------
(* The plugins.                                                            *)

\* The certificate authority of nebula has both its files.
CaComplete == ca.crt # None /\ ca.key # None

\* The plugins of a start, under their names, and the shape of what they store.
PluginTypes ==
    /\ toStart \in Seq(Entry)
    /\ plugins \in [Name -> Entry \cup {None}]
    /\ \A n \in Name : plugins[n] # None => name(plugins[n]) = n
    /\ plugins["nebula-ca"] # None \/ issued # {} => CaComplete
    /\ DOMAIN ca = {"crt", "key"}
    /\ DOMAIN vault = Label /\ DOMAIN flight = Label /\ DOMAIN written = Label

\* Where a request is while a plugin handles it, and what a request carries.
Active == {"handle", "set", "found", "sign", "verified"}
Fields == {"pc", "entry", "op", "label", "data", "meets"}

\* A request in the hands of the plugin that its path names.
Handled(r) ==
    /\ DOMAIN req[r] = Fields
    /\ req[r].entry \in Entry /\ req[r].op \in Op
    /\ name(req[r].entry) = req[r].op.plugin
    /\ req[r].label \in Labels(req[r].op)
    /\ req[r].entry = "nebula-ca" => CaComplete
    /\ req[r].pc = "set" => req[r].data \notin Opaque

\* No plugin handles a request of a server that is not up.
Requests ==
    /\ DOMAIN req = Request
    /\ \A r \in Request : req[r].pc \in Active \cup {"idle", "done"}
    /\ \A r \in Request : req[r].pc \in Active => Handled(r)
    /\ ~Up => \A r \in Request : req[r].pc = "idle"

\* What a read of Vault may return, and what uploads in progress know of each
\* other and of those on their way: one that has written is followed only by
\* those that it met.
VaultInv ==
    \A l \in Label :
      /\ vault[l] \in written[l] /\ flight[l] \subseteq written[l]
      /\ \A r \in Uploads(l) :
           /\ req[r].data \in written[l] /\ flight[l] \subseteq req[r].meets
           /\ \A q \in Uploads(l) \ {r} : req[q].data \in req[r].meets
           /\ req[r].pc = "set" => vault[l] \in {req[r].data} \cup req[r].meets

\* The inductive invariant.
PluginInv ==
    PluginTypes /\ Requests /\ VaultInv /\ CredentialDirsRemoved /\ CredentialsKeepVerifying
-----------------------------------------------------------------------------
(* What the steps do to the requests.                                      *)

\* The steps that start the plugins.
Boots ==
    \/ StartPlugins \/ PluginFails \/ PluginsStarted
    \/ \E e \in {"sample", "vault", "aliyun"} : StartSimple(e)
    \/ StartPkcs11 \/ StartNebula
    \/ \E f \in {"crt", "key"} : NebulaCa(f)

\* A server that is up stays so until it is killed.
LEMMA UpKept ==
    ASSUME RunInv, RunNext, Up
    PROVE  Up'
<1> USE DEF RunInv
<1>0. stage \in Stage /\ "run" \in Process /\ writes \in [Process -> Seq(Write)]
  BY Zenon DEF Types, Process
<1>1. CASE \E c \in Config : Start(c)
  BY <1>1, Heads, Zenon DEF Start, Up, Down
<1>2. CASE Create("run")
  <2>1. writes["run"] # <<>> /\ Head(writes["run"]) = writes["run"][1]
    BY <1>0, <1>2, First, ZenonT(40) DEF Create
  <2>2. ~Head(writes["run"]).new
    BY <1>0, <2>1, Zenon DEF Queues, FirstWrite, StageInv
  <2> QED BY <1>2, <2>2, Zenon DEF Create, Up
<1>3. CASE Create("keygen") \/ Kill("keygen") \/ Keygen \/ (\E p \in Process : Fill(p))
           \/ (\E p \in Policy : SetPolicy(p))
  BY <1>3, Zenon DEF Create, Kill, Keygen, Fill, SetPolicy, Up
<1>4. ~(\/ EnsureAuthKeyPair \/ EnsureHttpsKeyPair \/ EnsureHttpsCert
        \/ SetPolicyPath \/ PolicyEngine \/ AdminAuth \/ Serve \/ Bind \/ Connect("token") \/ Connect("attestation"))
  BY <1>0, NotAt, Zenon DEF EnsureAuthKeyPair, EnsureHttpsKeyPair, EnsureHttpsCert, SetPolicyPath, PolicyEngine,
     AdminAuth, Serve, Bind, Connect, Begin
<1> QED BY <1>1, <1>2, <1>3, <1>4, Zenon DEF RunNext, Process

\* While the plugins start there is no server.
LEMMA BootForm ==
    ASSUME RunInv, Boots
    PROVE  /\ ~Up /\ ~Up'
           /\ UNCHANGED <<request, written, starts, cfg>>
           /\ UNCHANGED ca \/ \E f \in {"crt", "key"} : NebulaCa(f)
<1>0. stage \in Stage
  BY Zenon DEF RunInv, Types
<1>1. At("plugins") \/ At("plugin")
  BY Zenon DEF Boots, StartPlugins, PluginFails, PluginsStarted, StartSimple, StartPkcs11, StartNebula,
     NebulaCa, Starting, Begin
<1>2. ~Up
  BY <1>0, <1>1, Where, Heads, ZenonT(40) DEF Up
<1>3. stage' \in {stage, <<"failed">>} \/ (At("plugins") /\ stage' = [stage EXCEPT ![1] = "plugin"])
      \/ (At("plugin") /\ stage' = Tail(stage))
  BY Zenon DEF Boots, StartPlugins, PluginFails, PluginsStarted, StartSimple, StartPkcs11, StartNebula,
     NebulaCa, runVars, Fail, Done, Begin
<1>4. stage' \in {stage, <<"failed">>, FromPlugin, FromToken}
  BY <1>0, <1>3, Where, Follows, Zenon
<1>5. ~Up'
  BY <1>2, <1>4, Heads, Zenon DEF Up
<1>6. UNCHANGED <<request, written, starts, cfg>>
  BY Zenon DEF Boots, StartPlugins, PluginFails, PluginsStarted, StartSimple, StartPkcs11, StartNebula,
     NebulaCa, runVars, request, pluginVars, setup
<1>7. UNCHANGED ca \/ \E f \in {"crt", "key"} : NebulaCa(f)
  BY Zenon DEF Boots, StartPlugins, PluginFails, PluginsStarted, StartSimple, StartPkcs11, StartNebula, pluginVars
<1> QED BY <1>2, <1>5, <1>6, <1>7, ZenonT(40)

\* The request ends with an answer.
LEMMA Ending ==
    ASSUME DOMAIN req = Request, NEW r \in Request, NEW a, End(r, a)
    PROVE  /\ DOMAIN req' = Request
           /\ req'[r] = [pc |-> "done", answer |-> a]
           /\ req'[r].pc = "done" /\ req'[r].answer = a
           /\ \A q \in Request \ {r} : req'[q] = req[q]
<1>1. req' = [req EXCEPT ![r] = [pc |-> "done", answer |-> a]]
  BY Zenon DEF End
<1>2. req'[r] = [pc |-> "done", answer |-> a]
  BY <1>1, Zenon
<1> QED BY <1>1, <1>2, Zenon

\* The request goes on to another step.
LEMMA Stepping ==
    ASSUME DOMAIN req = Request, NEW r \in Request, DOMAIN req[r] = Fields, NEW s, Step(r, s)
    PROVE  /\ DOMAIN req' = Request
           /\ DOMAIN req'[r] = Fields /\ req'[r].pc = s
           /\ req'[r].entry = req[r].entry /\ req'[r].op = req[r].op /\ req'[r].label = req[r].label
           /\ req'[r].data = req[r].data /\ req'[r].meets = req[r].meets
           /\ \A q \in Request \ {r} : req'[q] = req[q]
<1>1. req' = [req EXCEPT ![r] = [req[r] EXCEPT !.pc = s]]
  BY Zenon DEF Step
<1>2. req'[r] = [req[r] EXCEPT !.pc = s]
  BY <1>1, Zenon
<1> QED BY <1>1, <1>2, Zenon DEF Fields

\* A handler ends its request.
Ended(r) == \E a : End(r, a)

\* A handler goes on to its next step.
Stepped(r) ==
    \/ req[r].entry = "vault" /\ req[r].pc = "handle" /\ Step(r, "set")
    \/ req[r].entry = "pkcs11" /\ req[r].op.wrap /\ Step(r, "found")
    \/ req[r].entry = "nebula-ca" /\ (Step(r, "sign") \/ Step(r, "verified"))

\* A handler works in a server that is up, and ends or goes on.
LEMMA HandleForm ==
    ASSUME Requests, NEW r \in Request, Handle(r)
    PROVE  /\ Up /\ UNCHANGED <<served, handled>>
           /\ req[r].pc \in Active
           /\ Ended(r) \/ Stepped(r)
<1>1. UNCHANGED <<served, handled>>
  BY Zenon DEF Handle, HandleFails, ClientLeaves, SampleHandle, VaultWrite, VaultAnswers, VaultRead,
     AliyunRead, AliyunWrite, Pkcs11Write, Pkcs11Read, FindKey, Wrap, Unwrap, NebulaSign,
     NebulaRefuses, NebulaVerify, NebulaAnswers
<1>2. Up /\ req[r].pc \in Active
  BY Zenon DEF Requests, Active, Handle, HandleFails, ClientLeaves, SampleHandle, VaultWrite, VaultAnswers, VaultRead,
     AliyunRead, AliyunWrite, Pkcs11Write, Pkcs11Read, FindKey, Wrap, Unwrap, NebulaSign,
     NebulaRefuses, NebulaVerify, NebulaAnswers, Doing
<1>3. Ended(r) \/ Stepped(r)
  BY Zenon DEF Ended, Stepped, Handle, HandleFails, ClientLeaves, SampleHandle, VaultWrite, VaultAnswers, VaultRead,
     AliyunRead, AliyunWrite, Pkcs11Write, Pkcs11Read, FindKey, Wrap, Unwrap, NebulaSign,
     NebulaRefuses, NebulaVerify, NebulaAnswers, Doing
<1> QED BY <1>1, <1>2, <1>3, Zenon

\* What an upload in progress learns of one that arrives.
Meets(q, d) ==
    /\ DOMAIN req'[q] = DOMAIN req[q] /\ req'[q].pc = req[q].pc
    /\ req'[q].entry = req[q].entry /\ req'[q].op = req[q].op
    /\ req'[q].label = req[q].label /\ req'[q].data = req[q].data
    /\ req'[q].meets = req[q].meets \cup {d}

\* The request is taken up by the entry e.
Taken(r, e, o, l, d) ==
    /\ DOMAIN req'[r] = Fields /\ req'[r].pc = "handle"
    /\ req'[r].entry = e /\ req'[r].op = o /\ req'[r].label = l /\ req'[r].data = d

\* A request is refused, or taken up by an entry; uploads to Vault meet each other.
LEMMA ArriveForm ==
    ASSUME Requests, NEW r \in Request, NEW o \in Op, NEW l \in Labels(o), NEW d \in Bodies(o),
           NEW signed \in BOOLEAN, Arrive(r, o, l, d, signed)
    PROVE  /\ Up /\ UNCHANGED <<served, vault, flight, session, tmp, blobs, issued, orphans>>
           /\ req[r].pc = "idle" /\ DOMAIN req' = Request
           /\ \/ End(r, Refusal) /\ UNCHANGED written
              \/ LET e == plugins[o.plugin]
                 IN  /\ e # None /\ Taken(r, e, o, l, d)
                     /\ \/ /\ e = "vault" /\ o.method = "POST" /\ d \notin Opaque
                           /\ written' = [written EXCEPT ![l] = @ \cup {d}]
                           /\ req'[r].meets = {req[m].data : m \in Uploads(l)} \cup flight[l]
                           /\ \A q \in Uploads(l) \ {r} : Meets(q, d)
                           /\ \A q \in Request \ {r} : q \notin Uploads(l) => req'[q] = req[q]
                        \/ /\ ~(e = "vault" /\ o.method = "POST" /\ d \notin Opaque)
                           /\ \A q \in Request \ {r} : req'[q] = req[q]
                           /\ UNCHANGED written
<1> DEFINE e == plugins[o.plugin]
           go == e # None /\ Admits(e, o, signed)
           stores == go /\ e = "vault" /\ o.method = "POST" /\ d \notin Opaque
           met == IF stores THEN Uploads(l) ELSE {}
           ms == IF stores THEN {req[m].data : m \in met} \cup flight[l] ELSE {}
           new == [pc |-> "handle", entry |-> e, op |-> o, label |-> l, data |-> d, meets |-> ms]
<1>1. /\ Up /\ UNCHANGED <<served, vault, flight, session, tmp, blobs, issued, orphans>> /\ req[r].pc = "idle"
      /\ req' = [q \in Request |->
                   CASE q = r /\ go -> new
                     [] q = r /\ ~go -> [pc |-> "done", answer |-> Refusal]
                     [] q \in met -> [req[q] EXCEPT !.meets = @ \cup {d}]
                     [] OTHER -> req[q]]
      /\ written' = IF stores THEN [written EXCEPT ![l] = @ \cup {d}] ELSE written
  BY Zenon DEF Arrive
<1>2. DOMAIN req' = Request /\ DOMAIN req = Request /\ r \notin Uploads(l) /\ Uploads(l) \subseteq Request
  BY <1>1, Zenon DEF Requests, Uploads
<1>3. CASE ~go
  <2>1. met = {} /\ ~stores
    BY <1>3, Zenon
  <2> HIDE DEF go, met, stores, new
  <2>2. req' = [q \in Request |-> IF q = r THEN [pc |-> "done", answer |-> Refusal] ELSE req[q]]
    BY <1>1, <1>3, <2>1, Zenon
  <2>3. End(r, Refusal)
    BY <1>2, <2>2, Zenon DEF End
  <2> QED BY <1>1, <1>2, <2>1, <2>3, ZenonT(40)
<1>4. CASE go
  <2>1. e # None /\ (stores <=> e = "vault" /\ o.method = "POST" /\ d \notin Opaque)
    BY <1>4, Zenon
  <2>2. /\ met = IF stores THEN Uploads(l) ELSE {}
        /\ ms = IF stores THEN {req[m].data : m \in met} \cup flight[l] ELSE {}
    BY Zenon
  <2>3. new = [pc |-> "handle", entry |-> e, op |-> o, label |-> l, data |-> d, meets |-> ms]
    BY Zenon
  <2> HIDE DEF go, met, stores, new, e, ms
  <2>4. req'[r] = new
    <3>1. req'[r] = CASE r = r /\ go -> new
                      [] r = r /\ ~go -> [pc |-> "done", answer |-> Refusal]
                      [] r \in met -> [req[r] EXCEPT !.meets = @ \cup {d}]
                      [] OTHER -> req[r]
      BY <1>1, Zenon
    <3>2. r \notin met
      BY <1>2, <2>2, Zenon
    <3> QED BY <1>4, <3>1, <3>2, Zenon
  <2>5. Taken(r, e, o, l, d) /\ req'[r].meets = ms
    BY <2>3, <2>4 DEF Taken, Fields
  <2>6. \A q \in Request \ {r} : req'[q] = IF q \in met THEN [req[q] EXCEPT !.meets = @ \cup {d}] ELSE req[q]
    BY <1>1, Zenon
  <2>7. CASE e = "vault" /\ o.method = "POST" /\ d \notin Opaque
    <3>1. stores /\ met = Uploads(l) /\ ms = {req[m].data : m \in Uploads(l)} \cup flight[l]
      BY <2>1, <2>2, <2>7, Zenon
    <3>2. written' = [written EXCEPT ![l] = @ \cup {d}]
      BY <1>1, <3>1, Zenon
    <3>3. ASSUME NEW q \in Uploads(l) \ {r} PROVE Meets(q, d)
      <4>1. req'[q] = [req[q] EXCEPT !.meets = @ \cup {d}]
        BY <1>2, <2>6, <3>1, <3>3, ZenonT(40)
      <4>2. DOMAIN req[q] = Fields
        BY <1>2, <3>3, Zenon DEF Requests, Handled, Uploads, Active
      <4> QED BY <4>1, <4>2, Zenon DEF Meets, Fields
    <3>4. \A q \in Request \ {r} : q \notin Uploads(l) => req'[q] = req[q]
      BY <2>6, <3>1, Zenon
    <3> QED BY <1>1, <1>2, <2>1, <2>5, <2>7, <3>1, <3>2, <3>3, <3>4, ZenonT(40) DEF e
  <2>8. CASE ~(e = "vault" /\ o.method = "POST" /\ d \notin Opaque)
    <3>1. met = {} /\ ~stores
      BY <2>1, <2>2, <2>8, Zenon
    <3>2. \A q \in Request \ {r} : req'[q] = req[q]
      BY <2>6, <3>1, Zenon
    <3>3. UNCHANGED written
      BY <1>1, <3>1, Zenon
    <3> QED BY <1>1, <1>2, <2>1, <2>5, <2>8, <3>2, <3>3, Zenon DEF e
  <2> QED BY <2>7, <2>8, Zenon
<1> QED BY <1>3, <1>4, Zenon

\* The other requests stay as they are, or learn of the upload that arrives.
LEMMA ArriveOthers ==
    ASSUME Requests, NEW r \in Request, NEW o \in Op, NEW l \in Labels(o), NEW d \in Bodies(o),
           NEW signed \in BOOLEAN, Arrive(r, o, l, d, signed), NEW q \in Request \ {r}
    PROVE  req'[q] = req[q] \/ (q \in Uploads(l) /\ Meets(q, d))
<1>1. CASE End(r, Refusal)
  <2>1. DOMAIN req = Request
    BY Zenon DEF Requests
  <2> QED BY <1>1, <2>1, Ending, Zenon
<1>2. CASE \A p \in Request \ {r} : req'[p] = req[p]
  BY <1>2, Zenon
<1>3. CASE /\ \A p \in Uploads(l) \ {r} : Meets(p, d)
           /\ \A p \in Request \ {r} : p \notin Uploads(l) => req'[p] = req[p]
  BY <1>3, Zenon
<1> QED BY <1>1, <1>2, <1>3, ArriveForm

-----------------------------------------------------------------------------
(* The invariant is kept.                                                  *)

\* Every step keeps the types; only the start of nebula creates the files of its
\* certificate authority, and a start that is cut off leaves them to the next.
LEMMA PluginTypesStep ==
    ASSUME RunInv, PluginInv, [Next]_vars
    PROVE  PluginTypes'
<1> USE DEF PluginInv
<1>0. starts \in Nat /\ cfg \in Config /\ cfg.plugins \in Seq(Entry) /\ None \notin Nat /\ None \notin Entry
  BY RunAssumption, PluginAssumption, Zenon DEF RunInv, Types
<1>1. CASE (RunNext /\ UNCHANGED pluginVars) \/ UNCHANGED vars
  BY <1>1, Zenon DEF PluginTypes, CaComplete, pluginVars, vars
<1>2. CASE StartPlugins
  <2>1. plugins' = [n \in Name |-> None] /\ toStart' \in Seq(Entry) /\ UNCHANGED <<ca, issued, vault, flight, written>>
    BY <1>0, <1>2, Zenon DEF StartPlugins, request
  <2>2. plugins'["nebula-ca"] = None
    BY <2>1, Zenon DEF Name
  <2> QED BY <2>1, <2>2, Zenon DEF PluginTypes, CaComplete
<1>3. CASE PluginFails \/ PluginsStarted
  BY <1>3, Zenon DEF PluginFails, PluginsStarted, PluginTypes, CaComplete, pluginVars
<1>4. ASSUME NEW e \in Entry, Starting(e), Started(e), e = "nebula-ca" => CaComplete,
             UNCHANGED <<ca, issued, vault, flight, written>>
      PROVE  PluginTypes'
  <2>1. toStart' \in Seq(Entry)
    BY <1>4 DEF PluginTypes, Starting, Started
  <2>2. plugins' = [plugins EXCEPT ![name(e)] = e] /\ name(e) \in Name
    BY <1>4, Zenon DEF Started, name, Entry, Name
  <2>3. plugins' \in [Name -> Entry \cup {None}] /\ \A n \in Name : plugins'[n] # None => name(plugins'[n]) = n
    BY <2>2, Zenon DEF PluginTypes
  <2>4. plugins'["nebula-ca"] # None => CaComplete
    BY <1>4, <2>2, Zenon DEF PluginTypes, name, Entry, Name
  <2>5. CaComplete' <=> CaComplete
    BY <1>4, Zenon DEF CaComplete
  <2> QED BY <1>4, <2>1, <2>3, <2>4, <2>5, ZenonT(40) DEF PluginTypes
<1>5. ASSUME NEW e \in {"sample", "vault", "aliyun"}, StartSimple(e) PROVE PluginTypes'
  <2>1. e \in Entry /\ e # "nebula-ca"
    BY <1>5, Zenon DEF Entry
  <2> QED BY <1>4, <1>5, <2>1, Zenon DEF StartSimple, request
<1>6. CASE StartPkcs11
  <2>1. "pkcs11" \in Entry
    BY Zenon DEF Entry
  <2> QED BY <1>4, <1>6, <2>1, Zenon DEF StartPkcs11, request
<1>7. CASE StartNebula
  <2>1. "nebula-ca" \in Entry
    BY Zenon DEF Entry
  <2> QED BY <1>4, <1>7, <2>1, Zenon DEF StartNebula, request, CaComplete
<1>8. ASSUME NEW f \in {"crt", "key"}, NebulaCa(f) PROVE PluginTypes'
  <2>1. ~CaComplete
    BY <1>8 DEF NebulaCa, CaComplete
  <2>2. DOMAIN ca' = {"crt", "key"}
    BY <1>8, Zenon DEF NebulaCa, PluginTypes
  <2> QED BY <1>8, <2>1, <2>2, Zenon DEF NebulaCa, PluginTypes, request
<1>9. CASE KillServer
  BY <1>9 DEF KillServer, Leave, PluginTypes, CaComplete
<1>10. ASSUME NEW r \in Request, Handle(r) PROVE PluginTypes'
  <2>1. UNCHANGED <<toStart, plugins, ca>>
    BY <1>10, HandleForm, Zenon DEF served
  <2>2. DOMAIN vault' = Label /\ DOMAIN flight' = Label /\ DOMAIN written' = Label
    <3>1. vault' = vault \/ vault' = [vault EXCEPT ![req[r].label] = req[r].data]
      BY <1>10, Zenon DEF Handle, HandleFails, ClientLeaves, SampleHandle, VaultWrite, VaultAnswers, VaultRead,
         AliyunRead, AliyunWrite, Pkcs11Write, Pkcs11Read, FindKey, Wrap, Unwrap, NebulaSign,
         NebulaRefuses, NebulaVerify, NebulaAnswers
    <3>2. written' = written \/ written' = [written EXCEPT ![req[r].label] = {req[r].data} \cup req[r].meets]
      BY <1>10, Zenon DEF Handle, HandleFails, ClientLeaves, SampleHandle, VaultWrite, VaultAnswers, VaultRead,
         AliyunRead, AliyunWrite, Pkcs11Write, Pkcs11Read, FindKey, Wrap, Unwrap, NebulaSign,
         NebulaRefuses, NebulaVerify, NebulaAnswers
    <3>3. flight' = flight \/ Leave({r})
      BY <1>10, Zenon DEF Handle, HandleFails, ClientLeaves, SampleHandle, VaultWrite, VaultAnswers, VaultRead,
         AliyunRead, AliyunWrite, Pkcs11Write, Pkcs11Read, FindKey, Wrap, Unwrap, NebulaSign,
         NebulaRefuses, NebulaVerify, NebulaAnswers
    <3>4. DOMAIN flight' = Label
      BY <3>3, Zenon DEF Leave, PluginTypes
    <3> QED BY <3>1, <3>2, <3>4, Zenon DEF PluginTypes
  <2>3. issued' # {} => issued # {} \/ CaComplete
    <3>1. UNCHANGED issued \/ NebulaAnswers(r)
      BY <1>10, Zenon DEF Handle, HandleFails, ClientLeaves, SampleHandle, VaultWrite, VaultAnswers, VaultRead,
         AliyunRead, AliyunWrite, Pkcs11Write, Pkcs11Read, FindKey, Wrap, Unwrap, NebulaSign,
         NebulaRefuses, NebulaVerify
    <3>2. NebulaAnswers(r) => CaComplete
      BY Zenon DEF NebulaAnswers, Doing, Requests, Handled, Active
    <3> QED BY <3>1, <3>2, Zenon
  <2> QED BY <2>1, <2>2, <2>3, Zenon DEF PluginTypes, CaComplete
<1>11. ASSUME NEW r \in Request, NEW o \in Op, NEW l \in Labels(o), NEW d \in Bodies(o),
              NEW signed \in BOOLEAN, Arrive(r, o, l, d, signed)
       PROVE  PluginTypes'
  <2>1. UNCHANGED <<toStart, plugins, ca, vault, flight, issued>>
    BY <1>11, Zenon DEF Arrive, served
  <2>2. written' = written \/ written' = [written EXCEPT ![l] = @ \cup {d}]
    BY <1>11, Zenon DEF Arrive
  <2> QED BY <2>1, <2>2, Zenon DEF PluginTypes, CaComplete
<1>12. ASSUME NEW l \in Label, NEW d \in Data, VaultLate(l, d) PROVE PluginTypes'
  <2>1. UNCHANGED <<toStart, plugins, ca, issued, written>> /\ DOMAIN vault' = Label /\ DOMAIN flight' = Label
    BY <1>12, Zenon DEF VaultLate, served, PluginTypes
  <2> QED BY <2>1, Zenon DEF PluginTypes, CaComplete
<1> QED BY <1>1, <1>2, <1>3, <1>5, <1>6, <1>7, <1>8, <1>9, <1>10, <1>11, <1>12, ZenonT(40) DEF Next

\* A request that arrives is for an entry of the name it asks for.
LEMMA TakenHandled ==
    ASSUME PluginInv, NEW r \in Request, NEW o \in Op, NEW l \in Labels(o), NEW d,
           plugins[o.plugin] # None, Taken(r, plugins[o.plugin], o, l, d), UNCHANGED ca
    PROVE  Handled(r)' /\ req'[r].pc = "handle"
<1>1. o.plugin \in Name
  BY Zenon DEF Op
<1>2. plugins[o.plugin] \in Entry /\ name(plugins[o.plugin]) = o.plugin
  BY <1>1, Zenon DEF PluginInv, PluginTypes
<1>3. plugins[o.plugin] = "nebula-ca" => CaComplete
  BY <1>2, PluginAssumption, Zenon DEF PluginInv, PluginTypes, name, Entry
<1> QED BY <1>2, <1>3, Zenon DEF Taken, Handled, CaComplete

\* Every step keeps what is known of requests.
LEMMA RequestsStep ==
    ASSUME RunInv, PluginInv, [Next]_vars
    PROVE  Requests'
<1> USE DEF PluginInv
<1>0. DOMAIN req = Request
  BY Zenon DEF Requests
<1>1. CASE RunNext /\ UNCHANGED pluginVars
  <2>1. UNCHANGED <<req, ca>> /\ (Up => Up')
    BY <1>1, UpKept, Zenon DEF pluginVars
  <2> QED BY <2>1, Zenon DEF Requests, Handled, CaComplete
<1>2. CASE UNCHANGED vars
  BY <1>2, Zenon DEF Requests, Handled, CaComplete, vars, runVars, pluginVars, Up
<1>3. CASE Boots
  <2>1. UNCHANGED req /\ \A r \in Request : req[r].pc = "idle"
    BY <1>3, BootForm, Zenon DEF request, Requests
  <2> QED BY <1>0, <2>1, Zenon DEF Requests, Active
<1>4. CASE KillServer
  <2>1. req' = [r \in Request |-> idle]
    BY <1>4, Zenon DEF KillServer
  <2>2. DOMAIN req' = Request /\ \A r \in Request : req'[r].pc = "idle"
    BY <2>1, Zenon DEF idle
  <2> QED BY <2>2, Zenon DEF Requests, Active
<1>5. ASSUME NEW r \in Request, Handle(r) PROVE Requests'
  <2>1. Up' /\ UNCHANGED ca /\ req[r].pc \in Active /\ (Ended(r) \/ Stepped(r))
    BY <1>5, HandleForm, Zenon DEF served, runVars, Up
  <2>2. Handled(r)
    BY <2>1, Zenon DEF Requests
  <2>3. /\ DOMAIN req' = Request /\ \A q \in Request \ {r} : req'[q] = req[q]
        /\ req'[r].pc = "done" \/ (req'[r].pc \in Active /\ Handled(r)')
    <3>1. CASE Ended(r)
      BY <1>0, <3>1, Ending, Zenon DEF Ended
    <3>2. CASE Stepped(r)
      <4>1. PICK s \in Active : Step(r, s)
        BY <3>2, Zenon DEF Stepped, Active
      <4>2. DOMAIN req[r] = Fields
        BY <2>2, Zenon DEF Handled
      <4>3. /\ DOMAIN req' = Request /\ DOMAIN req'[r] = Fields /\ req'[r].pc = s
            /\ req'[r].entry = req[r].entry /\ req'[r].op = req[r].op /\ req'[r].label = req[r].label
            /\ req'[r].data = req[r].data
            /\ \A q \in Request \ {r} : req'[q] = req[q]
        BY <1>0, <4>1, <4>2, Stepping, Zenon
      <4>4. ASSUME s = "set" PROVE req[r].data \notin Opaque
        <5>1. ASSUME NEW a PROVE ~End(r, a)
          BY <1>0, <4>3, <4>4, Ending, Zenon
        <5>2. ASSUME NEW t, t # "set" PROVE ~Step(r, t)
          BY <1>0, <4>2, <4>3, <4>4, <5>2, Stepping, Zenon
        <5> QED BY <1>5, <5>1, <5>2, ZenonT(40) DEF Handle, HandleFails, ClientLeaves, SampleHandle, VaultWrite,
               VaultAnswers, VaultRead, AliyunRead, AliyunWrite, Pkcs11Write, Pkcs11Read, FindKey, Wrap, Unwrap,
               NebulaSign, NebulaRefuses, NebulaVerify, NebulaAnswers
      <4> QED BY <2>1, <2>2, <4>3, <4>4, Zenon DEF Handled, CaComplete
    <3> QED BY <2>1, <3>1, <3>2, Zenon
  <2>4. ASSUME NEW q \in Request \ {r}, req'[q].pc \in Active PROVE Handled(q)'
    BY <2>1, <2>3, <2>4, Zenon DEF Requests, Handled, CaComplete
  <2>5. \A q \in Request : req'[q].pc \in Active \cup {"idle", "done"}
    BY <2>3, Zenon DEF Requests
  <2> QED BY <2>1, <2>3, <2>4, <2>5, Zenon DEF Requests, Active
<1>6. ASSUME NEW r \in Request, NEW o \in Op, NEW l \in Labels(o), NEW d \in Bodies(o),
             NEW signed \in BOOLEAN, Arrive(r, o, l, d, signed)
      PROVE  Requests'
  <2>1. Up' /\ UNCHANGED ca /\ DOMAIN req' = Request
    BY <1>6, ArriveForm, Zenon DEF served, runVars, Up
  <2>2. req'[r].pc = "done" \/ (req'[r].pc = "handle" /\ Handled(r)')
    <3>1. CASE End(r, Refusal)
      BY <1>0, <3>1, Ending, ZenonT(40)
    <3>2. CASE plugins[o.plugin] # None /\ Taken(r, plugins[o.plugin], o, l, d)
      BY <2>1, <3>2, TakenHandled, Zenon
    <3> QED BY <1>6, <3>1, <3>2, ArriveForm, SMTT(30)
  <2>3. ASSUME NEW q \in Request \ {r} PROVE req'[q] = req[q] \/ Meets(q, d)
    BY <1>6, ArriveOthers, ZenonT(40)
  <2>4. ASSUME NEW q \in Request \ {r}
        PROVE  /\ req'[q].pc = req[q].pc
               /\ req'[q].pc \in Active => Handled(q)'
    BY <2>1, <2>3, SMTT(30) DEF Requests, Handled, CaComplete, Meets
  <2>5. \A q \in Request : req'[q].pc \in Active \cup {"idle", "done"}
    BY <2>2, <2>4, Zenon DEF Requests, Active
  <2> QED BY <2>1, <2>2, <2>4, <2>5, Zenon DEF Requests, Active
<1>7. ASSUME NEW l \in Label, NEW d \in Data, VaultLate(l, d) PROVE Requests'
  BY <1>7, Zenon DEF VaultLate, served, runVars, Up, Requests, Handled, CaComplete
<1> QED BY <1>1, <1>2, <1>3, <1>4, <1>5, <1>6, <1>7, Zenon DEF Next, Boots

\* CredentialDirsRemoved, one directory at a time.
DirsForm ==
    \A t \in tmp : t \in orphans \/ \E q \in Request : req[q].pc \in {"sign", "verified"} /\ t = Dir(q)

\* A directory of a credential is in use, or was orphaned by a kill.
LEMMA DirsStep ==
    ASSUME RunInv, PluginInv, [Next]_vars
    PROVE  CredentialDirsRemoved'
<1> USE DEF PluginInv
<1>0. DOMAIN req = Request /\ RunStep /\ DirsForm
  BY NextRuns, Zenon DEF Requests, CredentialDirsRemoved, DirsForm
<1> SUFFICES DirsForm'
  BY Zenon DEF CredentialDirsRemoved, DirsForm
<1>1. CASE RunNext /\ UNCHANGED pluginVars
  <2>1. UNCHANGED <<tmp, req, orphans>>
    BY <1>1, Zenon DEF pluginVars
  <2>2. CASE \E c \in Config : Start(c)
    <3>1. ~Up
      BY <2>2, Heads, Zenon DEF Start, Down, Up
    <3>2. \A r \in Request : req[r].pc = "idle"
      BY <3>1, Zenon DEF Requests
    <3> QED BY <1>0, <2>1, <3>2, Zenon DEF DirsForm
  <2>3. CASE ~\E c \in Config : Start(c)
    <3>1. UNCHANGED starts
      BY <1>0, <2>3, SetupKept, Zenon
    <3> QED BY <1>0, <2>1, <3>1, Zenon DEF DirsForm, Dir
  <2> QED BY <2>2, <2>3, Zenon
<1>2. CASE UNCHANGED vars \/ Boots
  <2>1. UNCHANGED <<tmp, req, orphans, starts>>
    BY <1>2, BootForm, Zenon DEF vars, runVars, pluginVars, request
  <2> QED BY <1>0, <2>1, Zenon DEF DirsForm, Dir
<1>3. CASE KillServer
  BY <1>3, Zenon DEF KillServer, DirsForm
<1>4. ASSUME NEW r \in Request, Handle(r) PROVE DirsForm'
  <2>1. UNCHANGED starts /\ req[r].pc \in Active /\ Handled(r) /\ Dir(r)' = Dir(r) /\ \A q : Dir(q)' = Dir(q)
    BY <1>4, HandleForm, Zenon DEF Requests, served, runVars, Dir
  <2>2. \A q \in Request \ {r} : req'[q] = req[q]
    <3>1. CASE Ended(r)
      BY <1>0, <3>1, Ending, Zenon DEF Ended
    <3>2. CASE Stepped(r)
      <4>1. PICK s : Step(r, s)
        BY <3>2, Zenon DEF Stepped
      <4> QED BY <1>0, <2>1, <4>1, Stepping, Zenon DEF Handled
    <3> QED BY <1>4, <3>1, <3>2, HandleForm, Zenon
  <2>3. CASE tmp' \subseteq tmp \ {Dir(r)} /\ orphans \subseteq orphans'
    BY <1>0, <2>1, <2>2, <2>3, Zenon DEF DirsForm
  <2>4. CASE tmp' \subseteq tmp /\ orphans' = orphans \cup {Dir(r)}
    BY <1>0, <2>1, <2>2, <2>4, Zenon DEF DirsForm
  <2>5. CASE tmp' \subseteq tmp \cup {Dir(r)} /\ UNCHANGED orphans /\ (Step(r, "sign") \/ Step(r, "verified"))
    <3>1. req'[r].pc \in {"sign", "verified"}
      BY <1>0, <2>1, <2>5, Stepping, Zenon DEF Handled
    <3> QED BY <1>0, <2>1, <2>2, <2>5, <3>1, Zenon DEF DirsForm
  <2>6. CASE UNCHANGED <<tmp, orphans>> /\ req[r].pc \notin {"sign", "verified"}
    BY <1>0, <2>1, <2>2, <2>6, ZenonT(40) DEF DirsForm
  <2>7. CASE HandleFails(r) \/ NebulaAnswers(r)
    BY <2>3, <2>7, Zenon DEF HandleFails, NebulaAnswers
  <2>8. CASE ClientLeaves(r)
    BY <2>3, <2>4, <2>8, Zenon DEF ClientLeaves
  <2>9. CASE NebulaSign(r) \/ NebulaVerify(r)
    BY <2>5, <2>9, Zenon DEF NebulaSign, NebulaVerify
  <2>10. CASE ~(HandleFails(r) \/ NebulaAnswers(r) \/ ClientLeaves(r) \/ NebulaSign(r) \/ NebulaVerify(r))
    BY <1>4, <2>6, <2>10, ZenonT(40) DEF Handle, SampleHandle, VaultWrite, VaultAnswers, VaultRead,
       AliyunRead, AliyunWrite, Pkcs11Write, Pkcs11Read, FindKey, Wrap, Unwrap, NebulaRefuses, Doing
  <2> QED BY <2>7, <2>8, <2>9, <2>10, Zenon
<1>5. ASSUME NEW r \in Request, NEW o \in Op, NEW l \in Labels(o), NEW d \in Bodies(o),
             NEW signed \in BOOLEAN, Arrive(r, o, l, d, signed)
      PROVE  DirsForm'
  <2>1. UNCHANGED <<tmp, orphans, starts>> /\ req[r].pc = "idle"
    BY <1>5, ArriveForm, SMTT(30) DEF served, runVars
  <2>2. ASSUME NEW q \in Request \ {r} PROVE req'[q].pc = req[q].pc
    <3>1. req'[q] = req[q] \/ Meets(q, d)
      BY <1>5, <2>2, ArriveOthers, ZenonT(40)
    <3> QED BY <3>1, Zenon DEF Meets
  <2> QED BY <1>0, <2>1, <2>2, Zenon DEF DirsForm, Dir
<1>6. ASSUME NEW l \in Label, NEW d \in Data, VaultLate(l, d) PROVE DirsForm'
  BY <1>0, <1>6, Zenon DEF VaultLate, served, runVars, DirsForm, Dir
<1> QED BY <1>1, <1>2, <1>3, <1>4, <1>5, <1>6, Zenon DEF Next, Boots

\* The certificate authority does not change once a credential is issued.
LEMMA CredentialsStep ==
    ASSUME RunInv, PluginInv, [Next]_vars
    PROVE  CredentialsKeepVerifying'
<1> USE DEF PluginInv, CredentialsKeepVerifying
<1>1. CASE UNCHANGED <<ca, issued>>
  BY <1>1, Zenon
<1>2. ASSUME NEW f \in {"crt", "key"}, NebulaCa(f) PROVE CredentialsKeepVerifying'
  <2>1. ~CaComplete /\ UNCHANGED issued
    BY <1>2 DEF NebulaCa, CaComplete, request
  <2>2. issued = {}
    BY <2>1, Zenon DEF PluginTypes
  <2> QED BY <2>1, <2>2, Zenon
<1>3. ASSUME NEW r \in Request, NebulaAnswers(r) PROVE CredentialsKeepVerifying'
  BY <1>3, Zenon DEF NebulaAnswers, served
<1>4. ASSUME NEW r \in Request, Handle(r), ~NebulaAnswers(r) PROVE UNCHANGED <<ca, issued>>
  BY <1>4, Zenon DEF Handle, HandleFails, ClientLeaves, SampleHandle, VaultWrite, VaultAnswers, VaultRead,
     AliyunRead, AliyunWrite, Pkcs11Write, Pkcs11Read, FindKey, Wrap, Unwrap, NebulaSign,
     NebulaRefuses, NebulaVerify, served
<1>5. ASSUME NEW r \in Request, NEW o \in Op, NEW l \in Labels(o), NEW d \in Bodies(o),
             NEW signed \in BOOLEAN, Arrive(r, o, l, d, signed)
      PROVE  UNCHANGED <<ca, issued>>
  BY <1>5, ArriveForm, Zenon DEF served
<1>6. (RunNext /\ UNCHANGED pluginVars) \/ UNCHANGED vars \/ KillServer => UNCHANGED <<ca, issued>>
  BY Zenon DEF pluginVars, vars, KillServer
<1>7. Boots => UNCHANGED <<ca, issued>> \/ \E f \in {"crt", "key"} : NebulaCa(f)
  BY BootForm, Zenon DEF request
<1>8. ASSUME NEW l \in Label, NEW d \in Data, VaultLate(l, d) PROVE UNCHANGED <<ca, issued>>
  BY <1>8, Zenon DEF VaultLate, served
<1> QED BY <1>1, <1>2, <1>3, <1>4, <1>5, <1>6, <1>7, <1>8, ZenonT(40) DEF Next, Boots

\* Steps that are not about Vault, but for uploads that end and leave a write behind.
LEMMA VaultKept ==
    ASSUME VaultInv, UNCHANGED <<vault, written>>,
           \A l \in Label : \A q \in Uploads(l)' : q \in Uploads(l) /\ req'[q] = req[q],
           \A l \in Label : \A d \in flight'[l] :
             d \in flight[l] \/ \E q \in Uploads(l) : q \notin Uploads(l)' /\ d = req[q].data
    PROVE  VaultInv'
<1> SUFFICES ASSUME NEW l \in Label
             PROVE  /\ vault[l] \in written[l] /\ flight'[l] \subseteq written[l]
                    /\ \A r \in Uploads(l)' :
                         /\ req'[r].data \in written[l] /\ flight'[l] \subseteq req'[r].meets
                         /\ \A q \in Uploads(l)' \ {r} : req'[q].data \in req'[r].meets
                         /\ req'[r].pc = "set" => vault[l] \in {req'[r].data} \cup req'[r].meets
  BY Zenon DEF VaultInv
<1>0. /\ vault[l] \in written[l] /\ flight[l] \subseteq written[l]
      /\ \A r \in Uploads(l) :
           /\ req[r].data \in written[l] /\ flight[l] \subseteq req[r].meets
           /\ \A q \in Uploads(l) \ {r} : req[q].data \in req[r].meets
           /\ req[r].pc = "set" => vault[l] \in {req[r].data} \cup req[r].meets
  BY Zenon DEF VaultInv
<1>1. ASSUME NEW d \in flight'[l]
      PROVE  d \in written[l] /\ \A r \in Uploads(l)' : d \in req'[r].meets
  <2>1. CASE d \in flight[l]
    BY <1>0, <2>1, Zenon
  <2>2. ASSUME NEW q \in Uploads(l), q \notin Uploads(l)', d = req[q].data
        PROVE  d \in written[l] /\ \A r \in Uploads(l)' : d \in req'[r].meets
    <3>1. ASSUME NEW r \in Uploads(l)' PROVE r \in Uploads(l) /\ req'[r] = req[r] /\ q # r
      BY <2>2, <3>1, Zenon
    <3>2. ASSUME NEW r \in Uploads(l)' PROVE d \in req'[r].meets
      <4>1. r \in Uploads(l) /\ req'[r] = req[r] /\ q \in Uploads(l) \ {r}
        BY <3>1, <3>2, Zenon
      <4>2. req[q].data \in req[r].meets
        BY <1>0, <4>1, Zenon
      <4> QED BY <2>2, <4>1, <4>2, Zenon
    <3> QED BY <1>0, <2>2, <3>2, Zenon
  <2> QED BY <1>1, <2>1, <2>2, Zenon
<1>2. flight'[l] \subseteq written[l] /\ \A r \in Uploads(l)' : flight'[l] \subseteq req'[r].meets
  BY <1>1, Zenon
<1> QED BY <1>0, <1>2, Zenon

\* What a request leaves behind.
LEMMA Leaving ==
    ASSUME NEW R, Leave(R), NEW l \in Label, NEW d \in flight'[l]
    PROVE  d \in flight[l] \/ \E q \in R \cap Uploads(l) : d = req[q].data
  BY Zenon DEF Leave

\* The other requests stay as they are, and the one that moves is an upload to
\* Vault only if it was.
LEMMA HandleOthers ==
    ASSUME Requests, NEW r \in Request, Handle(r)
    PROVE  /\ \A q \in Request \ {r} : req'[q] = req[q]
           /\ req'[r].pc \notin Active \/ (/\ req'[r].entry = req[r].entry /\ req'[r].op = req[r].op
                                          /\ req'[r].label = req[r].label /\ req'[r].data = req[r].data
                                          /\ req'[r].meets = req[r].meets)
           /\ req'[r].pc \in {"done", "found", "sign", "verified"} \/ (VaultWrite(r) /\ Step(r, "set"))
<1>0. DOMAIN req = Request /\ DOMAIN req[r] = Fields
  BY HandleForm, Zenon DEF Requests, Handled
<1>1. CASE Ended(r)
  BY <1>0, <1>1, Ending, Zenon DEF Ended, Active
<1>2. CASE Stepped(r)
  <2>1. PICK s \in Active : Step(r, s) /\ s # "handle"
    BY <1>2, Zenon DEF Stepped, Active
  <2>2. req'[r].pc = s
    BY <1>0, <2>1, Stepping, Zenon
  <2>3. s = "set" => VaultWrite(r)
    <3>1. ASSUME s = "set", End(r, Refusal) \/ \E a : End(r, a) PROVE FALSE
      BY <1>0, <2>2, <3>1, Ending, Zenon
    <3>2. ASSUME s = "set", NEW t \in {"found", "sign", "verified"}, Step(r, t) PROVE FALSE
      BY <1>0, <2>2, <3>2, Stepping, Zenon
    <3> QED BY <3>1, <3>2, Zenon DEF Handle, HandleFails, ClientLeaves, SampleHandle, VaultWrite, VaultAnswers, VaultRead,
         AliyunRead, AliyunWrite, Pkcs11Write, Pkcs11Read, FindKey, Wrap, Unwrap, NebulaSign,
         NebulaRefuses, NebulaVerify, NebulaAnswers
  <2> QED BY <1>0, <2>1, <2>2, <2>3, Stepping, Zenon DEF Active
<1> QED BY <1>1, <1>2, HandleForm, Zenon

\* Vault holds an upload, and the uploads in progress know of each other.
LEMMA VaultStep ==
    ASSUME RunInv, PluginInv, [Next]_vars
    PROVE  VaultInv'
<1> USE DEF PluginInv
<1>0. DOMAIN req = Request /\ DOMAIN vault = Label /\ DOMAIN flight = Label /\ DOMAIN written = Label
  BY Zenon DEF Requests, PluginTypes
<1>1. CASE UNCHANGED <<vault, flight, req, written>>
  BY <1>1, VaultKept, Zenon DEF Uploads
<1>2. CASE KillServer
  <2>1. UNCHANGED <<vault, written>> /\ Leave(Request) /\ \A l \in Label : Uploads(l)' = {}
    BY <1>2, Zenon DEF KillServer, Uploads, idle
  <2>2. \A l \in Label : \A d \in flight'[l] :
          d \in flight[l] \/ \E q \in Uploads(l) : q \notin Uploads(l)' /\ d = req[q].data
    BY <2>1, Leaving, Zenon
  <2> QED BY <2>1, <2>2, VaultKept, Zenon
<1>3. (RunNext /\ UNCHANGED pluginVars) \/ UNCHANGED vars \/ Boots =>
        UNCHANGED <<vault, flight, req, written>>
  BY BootForm, Zenon DEF pluginVars, vars, request
<1>4. ASSUME NEW r \in Request, VaultWrite(r), Step(r, "set") PROVE VaultInv'
  <2>1. PICK k \in Label : k = req[r].label
    BY <1>4, Zenon DEF VaultWrite, Doing, Requests, Handled, Active, Labels, Op, name, Entry
  <2>2. /\ UNCHANGED <<written, flight>> /\ req[r].pc = "handle" /\ DOMAIN req[r] = Fields
        /\ req[r].entry = "vault" /\ req[r].op.method = "POST"
    BY <1>4, Zenon DEF VaultWrite, Doing, Requests, Handled, Active
  <2>3. /\ req'[r].pc = "set" /\ req'[r].data = req[r].data /\ req'[r].meets = req[r].meets
        /\ req'[r].entry = req[r].entry /\ req'[r].op = req[r].op /\ req'[r].label = req[r].label
        /\ \A q \in Request \ {r} : req'[q] = req[q]
    BY <1>0, <1>4, <2>2, Stepping, Zenon
  <2>4. vault' = [vault EXCEPT ![k] = req[r].data] /\ r \in Uploads(k)
    <3>1. ~End(r, Refusal)
      BY <1>0, <2>3, Ending, Zenon
    <3> QED BY <1>4, <2>1, <2>2, <3>1, Zenon DEF VaultWrite, Uploads
  <2>5. ASSUME NEW l \in Label PROVE Uploads(l)' = Uploads(l)
    BY <2>2, <2>3 DEF Uploads
  <2>6. ASSUME NEW q \in Request PROVE req'[q].data = req[q].data /\ req'[q].meets = req[q].meets
    BY <2>3, Zenon
  <2>7. ASSUME NEW l \in Label PROVE vault'[l] \in written[l]
    BY <1>0, <2>4, Zenon DEF VaultInv
  <2>8. ASSUME NEW l \in Label, NEW q \in Uploads(l), req'[q].pc = "set" PROVE vault'[l] \in {req[q].data} \cup req[q].meets
    <3>1. q \in Request /\ req[q].label = l
      BY Zenon DEF Uploads
    <3>2. CASE q = r
      BY <1>0, <2>1, <2>4, <3>1, <3>2, Zenon
    <3>3. CASE q # r /\ l = k
      BY <1>0, <2>4, <2>8, <3>3, Zenon DEF VaultInv
    <3>4. CASE q # r /\ l # k
      <4>1. vault'[l] = vault[l] /\ req'[q] = req[q]
        BY <1>0, <2>3, <2>4, <3>1, <3>4, Zenon
      <4> QED BY <2>8, <4>1, Zenon DEF VaultInv
    <3> QED BY <3>2, <3>3, <3>4, Zenon
  <2>9. \A l \in Label : Uploads(l) \subseteq Request
    BY Zenon DEF Uploads
  <2> QED BY <2>2, <2>5, <2>6, <2>7, <2>8, <2>9, ZenonT(40) DEF VaultInv
<1>5. ASSUME NEW r \in Request, VaultAnswers(r) PROVE VaultInv'
  <2>1. PICK k \in Label : k = req[r].label
    BY <1>5, Zenon DEF VaultAnswers, Doing, Requests, Handled, Active, Labels, Op, name, Entry
  <2>2. UNCHANGED <<vault, flight>> /\ req[r].pc = "set" /\ r \in Uploads(k)
    <3>1. req[r].data \notin Opaque
      BY <1>5, Zenon DEF VaultAnswers, Doing, Requests, Handled, Active
    <3> QED BY <1>5, <2>1, <3>1, Zenon DEF VaultAnswers, Doing, Uploads
  <2>3. written' = [written EXCEPT ![k] = {req[r].data} \cup req[r].meets]
    BY <1>5, <2>1, Zenon DEF VaultAnswers
  <2>4. \A l \in Label : written'[l] = IF l = k THEN {req[r].data} \cup req[r].meets ELSE written[l]
    BY <1>0, <2>3, Zenon
  <2>5. req'[r].pc = "done" /\ \A q \in Request \ {r} : req'[q] = req[q]
    BY <1>0, <1>5, Ending, Zenon DEF VaultAnswers
  <2>6. ASSUME NEW l \in Label, NEW q \in Uploads(l)' PROVE q \in Uploads(l) /\ q # r /\ req'[q] = req[q]
    BY <2>5, Zenon DEF Uploads
  <2>7. ASSUME NEW l \in Label PROVE vault[l] \in written'[l] /\ flight[l] \subseteq written'[l]
    BY <2>2, <2>4, Zenon DEF VaultInv
  <2>8. ASSUME NEW l \in Label, NEW q \in Uploads(l)' PROVE req[q].data \in written'[l]
    BY <2>2, <2>4, <2>6, Zenon DEF VaultInv
  <2> QED BY <2>2, <2>6, <2>7, <2>8, Zenon DEF VaultInv
<1>6. ASSUME NEW r \in Request, Handle(r), ~(VaultWrite(r) /\ Step(r, "set")), ~VaultAnswers(r) PROVE VaultInv'
  <2>1. UNCHANGED written
    BY <1>6, ZenonT(40) DEF Handle, HandleFails, ClientLeaves, SampleHandle, VaultWrite, VaultRead,
       AliyunRead, AliyunWrite, Pkcs11Write, Pkcs11Read, FindKey, Wrap, Unwrap, NebulaSign,
       NebulaRefuses, NebulaVerify, NebulaAnswers
  <2>2. UNCHANGED vault
    BY <1>6, ZenonT(40) DEF Handle, HandleFails, ClientLeaves, SampleHandle, VaultWrite, VaultRead,
       AliyunRead, AliyunWrite, Pkcs11Write, Pkcs11Read, FindKey, Wrap, Unwrap, NebulaSign,
       NebulaRefuses, NebulaVerify, NebulaAnswers
  <2>3. req'[r].pc \notin {"handle", "set"} /\ \A q \in Request \ {r} : req'[q] = req[q]
    BY <1>6, HandleOthers, Zenon
  <2>4. \A l \in Label : \A q \in Uploads(l)' : q \in Uploads(l) /\ req'[q] = req[q]
    BY <2>3, Zenon DEF Uploads
  <2>5. UNCHANGED flight \/ Leave({r})
    BY <1>6, ZenonT(40) DEF Handle, HandleFails, ClientLeaves, SampleHandle, VaultWrite, VaultRead,
       AliyunRead, AliyunWrite, Pkcs11Write, Pkcs11Read, FindKey, Wrap, Unwrap, NebulaSign,
       NebulaRefuses, NebulaVerify, NebulaAnswers
  <2>6. ASSUME NEW l \in Label, NEW d \in flight'[l]
        PROVE  d \in flight[l] \/ \E q \in Uploads(l) : q \notin Uploads(l)' /\ d = req[q].data
    <3>1. r \notin Uploads(l)'
      BY <2>3, Zenon DEF Uploads
    <3>2. CASE Leave({r})
      <4>1. d \in flight[l] \/ \E q \in {r} \cap Uploads(l) : d = req[q].data
        BY <2>6, <3>2, Zenon DEF Leave
      <4> QED BY <3>1, <4>1, Zenon
    <3>3. CASE UNCHANGED flight
      BY <2>6, <3>3, Zenon
    <3> QED BY <2>5, <3>2, <3>3, Zenon
  <2> QED BY <2>1, <2>2, <2>4, <2>6, VaultKept, Zenon
<1>7. ASSUME NEW r \in Request, NEW o \in Op, NEW l \in Labels(o), NEW d \in Bodies(o),
             NEW signed \in BOOLEAN, Arrive(r, o, l, d, signed)
      PROVE  VaultInv'
  <2> DEFINE e == plugins[o.plugin]
             S == e = "vault" /\ o.method = "POST" /\ d \notin Opaque
  <2>0. UNCHANGED <<vault, flight>>
    BY <1>7, ArriveForm, Zenon
  <2>1. CASE End(r, Refusal) /\ UNCHANGED written
    <3>1. req'[r].pc = "done" /\ \A q \in Request \ {r} : req'[q] = req[q]
      BY <1>0, <2>1, Ending, Zenon
    <3>2. \A k \in Label : \A q \in Uploads(k)' : q \in Uploads(k) /\ req'[q] = req[q]
      BY <3>1, Zenon DEF Uploads
    <3> QED BY <2>0, <2>1, <3>2, VaultKept, Zenon
  <2>2. ASSUME ~S, Taken(r, e, o, l, d), e # None, \A q \in Request \ {r} : req'[q] = req[q], UNCHANGED written
        PROVE  VaultInv'
    <3>1. \A k \in Label : \A q \in Uploads(k)' : q \in Uploads(k) /\ req'[q] = req[q]
      BY <2>2, ZenonT(40) DEF Uploads, Taken
    <3> QED BY <2>0, <2>2, <3>1, VaultKept, Zenon
  <2>3. ASSUME S, Taken(r, e, o, l, d), e # None,
               written' = [written EXCEPT ![l] = @ \cup {d}],
               req'[r].meets = {req[m].data : m \in Uploads(l)} \cup flight[l],
               \A q \in Uploads(l) \ {r} : Meets(q, d),
               \A q \in Request \ {r} : q \notin Uploads(l) => req'[q] = req[q],
               req[r].pc = "idle"
        PROVE  VaultInv'
    <3>1. l \in Label
      BY <2>3, Zenon DEF PluginTypes, Op, name, Labels
    <3>2. \A k \in Label : written'[k] = IF k = l THEN written[l] \cup {d} ELSE written[k]
      BY <1>0, <2>3, <3>1, Zenon
    <3>3. r \notin Uploads(l) /\ Uploads(l)' = Uploads(l) \cup {r}
      BY <2>3, <3>1, SMTT(30) DEF Uploads, Taken, Meets
    <3>4. ASSUME NEW k \in Label \ {l}
          PROVE  Uploads(k)' = Uploads(k) /\ \A q \in Uploads(k) : req'[q] = req[q]
      BY <2>3, <3>1 DEF Uploads, Taken, Meets
    <3>5. req'[r].data = d /\ req'[r].pc = "handle"
      BY <2>3, Zenon DEF Taken
    <3>6. ASSUME NEW q \in Uploads(l)
          PROVE  req'[q].data = req[q].data /\ req'[q].meets = req[q].meets \cup {d} /\ req'[q].pc = req[q].pc
      BY <2>3, <3>3, Zenon DEF Meets
    <3> HIDE DEF S, e
    <3>7. ASSUME NEW k \in Label
          PROVE  /\ vault[k] \in written'[k] /\ flight[k] \subseteq written'[k]
                 /\ \A p \in Uploads(k)' : req'[p].data \in written'[k]
      BY <3>2, <3>3, <3>4, <3>5, <3>6, SMTT(30) DEF VaultInv
    <3>8. ASSUME NEW k \in Label, NEW p \in Uploads(k)', NEW q \in Uploads(k)' \ {p}
          PROVE  req'[q].data \in req'[p].meets
      <4>1. CASE k # l
        BY <3>4, <4>1 DEF VaultInv
      <4>2. CASE k = l /\ p = r
        BY <2>3, <3>3, <3>6, <4>2, Zenon
      <4>3. CASE k = l /\ p # r /\ q = r
        BY <3>3, <3>5, <3>6, <4>3, ZenonT(40)
      <4>4. CASE k = l /\ p # r /\ q # r
        <5>1. p \in Uploads(l) /\ q \in Uploads(l) \ {p}
          BY <3>3, <3>8, <4>4, Zenon
        <5>2. req[q].data \in req[p].meets
          BY <3>1, <5>1, Zenon DEF VaultInv
        <5> QED BY <3>6, <5>1, <5>2, Zenon
      <4> QED BY <4>1, <4>2, <4>3, <4>4, ZenonT(40)
    <3>9. ASSUME NEW k \in Label, NEW p \in Uploads(k)', req'[p].pc = "set"
          PROVE  vault[k] \in {req'[p].data} \cup req'[p].meets
      <4>1. CASE k # l
        BY <3>4, <3>9, <4>1, SMTT(30) DEF VaultInv
      <4>2. CASE k = l
        BY <3>3, <3>5, <3>6, <3>9, <4>2, SMTT(30) DEF VaultInv
      <4> QED BY <4>1, <4>2, Zenon
    <3>10. ASSUME NEW k \in Label, NEW p \in Uploads(k)' PROVE flight[k] \subseteq req'[p].meets
      <4>1. CASE k # l
        BY <3>4, <3>10, <4>1, SMTT(30) DEF VaultInv
      <4>2. CASE k = l /\ p = r
        BY <2>3, <4>2, Zenon
      <4>3. CASE k = l /\ p # r
        BY <3>3, <3>6, <3>10, <4>3, SMTT(30) DEF VaultInv
      <4> QED BY <4>1, <4>2, <4>3, Zenon
    <3> QED BY <2>0, <3>7, <3>8, <3>9, <3>10, Zenon DEF VaultInv
  <2> QED BY <1>7, <2>1, <2>2, <2>3, ArriveForm, SMTT(30)
<1>8. ASSUME NEW k \in Label, NEW d \in Data, VaultLate(k, d) PROVE VaultInv'
  <2>1. /\ UNCHANGED <<req, written>> /\ d \in flight[k] /\ vault' = [vault EXCEPT ![k] = d]
        /\ \A l \in Label : flight'[l] \subseteq flight[l]
    BY <1>0, <1>8, Zenon DEF VaultLate
  <2>2. \A l \in Label : Uploads(l)' = Uploads(l)
    BY <2>1, Zenon DEF Uploads
  <2>3. ASSUME NEW l \in Label PROVE vault'[l] \in written[l] /\ flight'[l] \subseteq written[l]
    BY <1>0, <2>1, Zenon DEF VaultInv
  <2>4. ASSUME NEW l \in Label, NEW r \in Uploads(l)
        PROVE  /\ flight'[l] \subseteq req[r].meets
               /\ req[r].pc = "set" => vault'[l] \in {req[r].data} \cup req[r].meets
    BY <1>0, <2>1, <2>4, Zenon DEF VaultInv
  <2> QED BY <2>1, <2>2, <2>3, <2>4, Zenon DEF VaultInv
<1> QED BY <1>1, <1>2, <1>3, <1>4, <1>5, <1>6, <1>7, <1>8, ZenonT(40) DEF Next, Boots, Handle

\* The label of a request to Vault.
LEMMA LabelFits ==
    ASSUME NEW r \in Request, Handled(r), req[r].entry = "vault"
    PROVE  req[r].label \in Label
  BY Zenon DEF Handled, Labels, Op, name, Entry

\* At first nothing is stored and no request has arrived.
LEMMA PluginInvInit == Init => PluginInv
<1> SUFFICES ASSUME Init PROVE PluginInv
  BY Zenon
<1>1. PluginTypes
  <2>1. plugins["nebula-ca"] = None /\ issued = {} /\ toStart \in Seq(Entry) /\ plugins \in [Name -> Entry \cup {None}]
    BY DEF Init, Name
  <2>2. /\ DOMAIN ca = {"crt", "key"} /\ DOMAIN vault = Label /\ DOMAIN flight = Label /\ DOMAIN written = Label
        /\ \A n \in Name : plugins[n] = None
    BY Zenon DEF Init
  <2> QED BY <2>1, <2>2, Zenon DEF PluginTypes
<1>2. DOMAIN req = Request /\ \A r \in Request : req[r].pc = "idle"
  BY Zenon DEF Init, idle
<1>3. Requests
  BY <1>2, Zenon DEF Requests, Active
<1>4. VaultInv
  <2>1. \A l \in Label : Uploads(l) = {} /\ vault[l] \in written[l] /\ flight[l] = {}
    BY <1>2, Zenon DEF Init, Uploads
  <2> QED BY <2>1, Zenon DEF VaultInv
<1>5. CredentialDirsRemoved /\ CredentialsKeepVerifying
  BY <1>2, Zenon DEF Init, CredentialDirsRemoved, CredentialsKeepVerifying
<1> QED BY <1>1, <1>3, <1>4, <1>5, ZenonT(40) DEF PluginInv

\* The invariant always holds.
LEMMA PluginInvariant == Spec => []PluginInv
<1>1. RunInv /\ PluginInv /\ [Next]_vars => PluginInv'
  BY PluginTypesStep, RequestsStep, VaultStep, DirsStep, CredentialsStep, ZenonT(40) DEF PluginInv
<1> QED BY <1>1, PluginInvInit, RunInvariant, PTL DEF Spec

-----------------------------------------------------------------------------
(* The theorems.                                                           *)

\* The directory with the key of a credential is removed however the request
\* ends, but for a kill or a client that leaves while nebula-cert signs
\* (NebulaCaPlugin::get_credential and the drop of its TempDir).
THEOREM DirsRemoved == Spec => []CredentialDirsRemoved
<1>1. PluginInv => CredentialDirsRemoved
  BY Zenon DEF PluginInv
<1> QED BY <1>1, PluginInvariant, PTL

\* A credential verifies under the CA of every later start: a CA that is
\* complete is never replaced (TryFrom<NebulaCaPluginConfig>).
THEOREM CredentialsVerify == Spec => []CredentialsKeepVerifying
<1>1. PluginInv => CredentialsKeepVerifying
  BY Zenon DEF PluginInv
<1> QED BY <1>1, PluginInvariant, PTL

\* What a read of Vault returns was uploaded under the very name, and it is no
\* older than the upload acknowledged last, but for writes still on their way
\* when that one began, across restarts and however uploads overlap
\* (read_secret_resource and write_secret_resource of VaultKvBackend).
THEOREM ReadsAreUploads == Spec => ReadsReturnUploads
<1> DEFINE A == \A r \in Request :
                  /\ req[r].pc = "handle" /\ req[r].entry = "vault" /\ req[r].op.method = "GET"
                  /\ req'[r].pc = "done" /\ req'[r].answer # Refusal
                  => req'[r].answer[2] \in written[req[r].label]
<1>1. ASSUME RunInv, PluginInv, [Next]_vars PROVE A
  <2> SUFFICES ASSUME NEW r \in Request, req[r].pc = "handle", req[r].entry = "vault", req[r].op.method = "GET",
                      req'[r].pc = "done", req'[r].answer # Refusal
               PROVE  req'[r].answer[2] \in written[req[r].label]
    BY Zenon
  <2> USE <1>1 DEF PluginInv
  <2>0. DOMAIN req = Request /\ Handled(r) /\ req[r].label \in Label
    BY LabelFits, Zenon DEF Requests, Active
  <2>1. ASSUME NEW q \in Request, Handle(q) PROVE q = r
    BY <2>1, HandleOthers, Zenon
  <2>2. Handle(r)
    <3>1. (RunNext /\ UNCHANGED pluginVars) \/ UNCHANGED vars \/ Boots => UNCHANGED req
      BY BootForm, Zenon DEF pluginVars, vars, request
    <3>2. ~KillServer
      BY SMTT(30) DEF KillServer, idle
    <3>3. ASSUME NEW q \in Request, NEW o \in Op, NEW l \in Labels(o), NEW d \in Bodies(o),
                 NEW signed \in BOOLEAN, Arrive(q, o, l, d, signed)
          PROVE  FALSE
      <4>1. req[q].pc = "idle"
        BY <3>3, Zenon DEF Arrive
      <4> QED BY <3>3, <4>1, ArriveOthers, SMTT(30) DEF Meets
    <3>4. (\E l \in Label, d \in Data : VaultLate(l, d)) => UNCHANGED req
      BY Zenon DEF VaultLate
    <3> QED BY <2>1, <3>1, <3>2, <3>3, <3>4, ZenonT(40) DEF Next, Boots
  <2>3. ASSUME NEW a, End(r, a) PROVE a = req'[r].answer /\ a # Refusal
    BY <2>0, <2>3, Ending, ZenonT(40)
  <2>4. End(r, <<"data", vault[req[r].label]>>)
    <3>1. ~VaultWrite(r)
      BY Zenon DEF VaultWrite, Doing
    <3>2. VaultRead(r)
      BY <2>2, <2>3, <3>1, ZenonT(40) DEF Handle, HandleFails, ClientLeaves, SampleHandle, VaultAnswers,
         AliyunRead, AliyunWrite, Pkcs11Write, Pkcs11Read, FindKey, Wrap, Unwrap, NebulaSign,
         NebulaRefuses, NebulaVerify, NebulaAnswers, Doing
    <3> QED BY <2>3, <3>2, Zenon DEF VaultRead
  <2>5. req'[r].answer = <<"data", vault[req[r].label]>>
    BY <2>3, <2>4, Zenon
  <2>6. req'[r].answer[2] = vault[req[r].label]
    BY <2>5, SMTT(30)
  <2> QED BY <2>0, <2>6, Zenon DEF VaultInv
<1>2. RunInv /\ PluginInv /\ [Next]_vars => [A]_vars
  BY <1>1, Zenon
<1> QED BY <1>2, RunInvariant, PluginInvariant, PTL DEF Spec, ReadsReturnUploads
=============================================================================
