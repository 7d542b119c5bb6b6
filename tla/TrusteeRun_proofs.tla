-------------------------- MODULE TrusteeRun_proofs --------------------------
(***************************************************************************)
(* The inductive invariant of the starts of the KBS (TrusteeRun) and what  *)
(* it implies, for every set of configurations and policies and any number *)
(* of starts and keys, with what the plugins do in a start (KbsPlugins)    *)
(* reduced to the stages that it passes.                                   *)
(***************************************************************************)
EXTENDS TrusteeRun, SequenceTheorems, TLAPS

(* The files and the queues of writes.                                     *)

\* The policies that a file may hold: those of clients and the built-in ones.
PolicyName == Policy \cup {"allow_all", "deny_all", "default"}

\* The contents of a file.
Content ==
    {Missing, Partial}
        \cup {Private(k) : k \in Nat} \cup {Public(k) : k \in Nat}
        \cup {Cert(k, f) : k \in Nat, f \in {"own_key", "https_key"}}
        \cup {Rego(p) : p \in PolicyName}

\* The files of private keys, of public keys and of certificates.
PrivateFile == {"auth_key", "https_key", "own_key"}
PublicFile == {"auth_key.pub", "https_key.pub", "own_pub"}
CertFile == {"https_cert.pem", "own_cert"}

\* A content that has the kind of its file.
Fits(f, c) ==
    /\ f \in PrivateFile => c[1] = "private"
    /\ f \in PublicFile => c[1] = "public"
    /\ f \in CertFile => c[1] = "cert"
    /\ f \in PolicyFile => c[1] = "policy" /\ (c[2] = "allow_all" => f = "allow_all.rego")

\* A write that a process has still to do.
Write == [file : HomeFile, content : Content, new : BOOLEAN, open : BOOLEAN]

\* What is left of the stages, from each of them on.
FromBind == <<"bind", "up">>
FromTls == <<"tls", "bind", "up">>
FromAttest == <<"attestation", "tls", "bind", "up">>
FromAdmin == <<"admin", "attestation", "tls", "bind", "up">>
FromEngine == <<"engine", "admin", "attestation", "tls", "bind", "up">>
FromToken == <<"token", "engine", "admin", "attestation", "tls", "bind", "up">>
FromPlugin == <<"plugin", "token", "engine", "admin", "attestation", "tls", "bind", "up">>
FromPlugins == <<"plugins", "token", "engine", "admin", "attestation", "tls", "bind", "up">>
FromPolicy == <<"policy", "plugins", "token", "engine", "admin", "attestation", "tls", "bind", "up">>
FromCert == <<"https_cert", "policy", "plugins", "token", "engine", "admin", "attestation", "tls", "bind", "up">>
FromHttps ==
    <<"https_key", "https_cert", "policy", "plugins", "token", "engine", "admin", "attestation", "tls", "bind", "up">>
FromAuth ==
    <<"auth_key", "https_key", "https_cert", "policy",
      "plugins", "token", "engine", "admin", "attestation", "tls", "bind", "up">>

\* The stages after those that make keys and certificates.
AfterTls == {FromBind, <<"up">>}
AfterAdmin == AfterTls \cup {FromAttest, FromTls}
AfterCert == AfterAdmin \cup {FromPolicy, FromPlugins, FromPlugin, FromToken, FromEngine, FromAdmin}
AfterHttps == AfterCert \cup {FromCert}
AfterAuth == AfterHttps \cup {FromHttps}
Stage == AfterAuth \cup {FromAuth, <<"down">>, <<"failed">>}

\* The types of the variables; the own key of the deployment is never touched.
Types ==
    /\ file \in [HomeFile -> Content]
    /\ \A f \in HomeFile : file[f] \notin {Missing, Partial} => Fits(f, file[f])
    /\ file["own_key"] = Private(OwnKey) /\ file["own_pub"] = Public(OwnKey)
    /\ file["own_cert"] = Cert(OwnKey, "own_key")
    /\ cfg \in Config
    /\ stage \in Stage
    /\ writes \in [Process -> Seq(Write)]
    /\ keys \in Nat /\ starts \in Nat
    /\ acked \in [PolicyFile -> (PolicyName \X Nat) \cup {None}]
    /\ ran \subseteq Config

\* A public key and a certificate belong to the private key they were made for.
Pairs ==
    /\ \A f \in KeyFiles : file[f[2]] # Missing => file[f[1]][1] = "private"
    /\ \A f \in KeyFiles : file[f[2]][1] = "public" => file[f[1]] = Private(file[f[2]][2])
    /\ file["https_cert.pem"][1] = "cert" =>
         file[file["https_cert.pem"][3]] = Private(file["https_cert.pem"][2])

\* The first write of a process, and what the ones before it have done.
KeyWrite(p, w) ==
    \A f \in KeyFiles :
      /\ w.file = f[1] => Len(writes[p]) = 2 /\ writes[p][2] = Put(f[2], Public(w.content[2]), TRUE)
      /\ w.file = f[2] => Len(writes[p]) = 1 /\ file[f[1]] = Private(w.content[2])

\* A certificate is written for the key that is in its file.
CertWrite(p, w) ==
    w.file = "https_cert.pem" => Len(writes[p]) = 1 /\ file[w.content[3]] = Private(w.content[2])

\* A policy is written where no acknowledged one has to stay.
PolicyWrite(p, w) ==
    w.file \in PolicyFile => Len(writes[p]) = 1 /\ w.file = policy_path /\ ~Binding(w.file)

\* All of this, and whether the file is there and open.
FirstWrite(p, w) ==
    /\ w.file \notin {"own_key", "own_pub", "own_cert"}
    /\ Fits(w.file, w.content)
    /\ w.new <=> w.file \notin PolicyFile
    /\ w.open => file[w.file] = Partial
    /\ ~w.open /\ w.new /\ w.file # "auth_key" => file[w.file] = Missing
    /\ KeyWrite(p, w) /\ CertWrite(p, w) /\ PolicyWrite(p, w)
    /\ p = "keygen" => w.file \in {"auth_key", "auth_key.pub"}
    /\ w.file \in PrivateFile \cup PublicFile => w.content[2] <= keys

\* It holds for every process that has a write to do.
Queues == \A p \in Process : writes[p] # <<>> => FirstWrite(p, writes[p][1])

\* Two processes generate different keys, and have different files open.
Rivals ==
    writes["run"] # <<>> /\ writes["keygen"] # <<>> =>
      LET v == writes["run"][1]
          w == writes["keygen"][1]
      IN  /\ v.open /\ w.open => v.file # w.file
          /\ v.file \in PrivateFile \cup PublicFile => v.content[2] # w.content[2]

-----------------------------------------------------------------------------
(* The stages of a start.                                                  *)

\* What a stage says of the policy file and of the writes of the start.
StageInv ==
    /\ policy_path \in PolicyFile \/ (Down /\ policy_path = None)
    /\ policy_path = "allow_all.rego" => cfg.allow_all
    /\ Down \/ At("plugin") => writes["run"] = <<>>
    /\ Up /\ writes["run"] # <<>> => writes["run"][1].file \in PolicyFile
    /\ stage \in {FromAuth, FromHttps, FromCert, FromPolicy} => cfg.trustee

\* What was acknowledged is in the file, and was so before a start that is not over.
AckedInv ==
    /\ \A f \in PolicyFile : Binding(f) => file[f] = Rego(acked[f][1])
    /\ \A f \in PolicyFile : acked[f] # None =>
         acked[f][2] <= starts /\ (~Up /\ ~Down => acked[f][2] < starts)

\* The keys that a server which is up, or about to be, has read.
KeysRead ==
    /\ stage \in AfterAdmin => Signs
    /\ stage \in AfterAdmin /\ ~cfg.insecure_api =>
         auth_public_key \in PublicFile /\ file[auth_public_key][1] = "public"
    /\ stage \in AfterTls /\ ~cfg.insecure_http =>
         /\ private_key \in {"own_key", "https_key"} /\ certificate \in CertFile
         /\ file[private_key][1] = "private" /\ file[certificate][1] = "cert"
         /\ tls = IF file[certificate][2] = file[private_key][2] THEN file[private_key][2] ELSE None

\* The file exists, or is the next one that this start writes.
Made(f) == file[f] # Missing \/ (writes["run"] # <<>> /\ writes["run"][1].file = f)

\* What the first stage has made, once it is over.
Progress ==
    stage \in AfterAuth /\ cfg.trustee /\ cfg.auth_public_key = None => Made("auth_key")

\* The files that a start with the configuration c looks for are there and whole.
Usable(c) ==
    /\ c.trustee /\ c.auth_public_key = None => file["auth_key"] # Missing
    /\ ~c.insecure_api =>
         c.auth_public_key # None \/ (c.trustee /\ file["auth_key.pub"][1] = "public")
    /\ ~c.insecure_http =>
         /\ c.private_key # None \/ (c.trustee /\ file["https_key"][1] = "private")
         /\ c.certificate # None \/ (c.trustee /\ file["https_cert.pem"][1] = "cert")

\* They are, of a configuration that the server was up with, which therefore
\* generates no key for the administrator.
RanInv ==
    /\ \A c \in ran : Usable(c)
    /\ writes["run"] # <<>> /\ writes["run"][1].file = "auth_key" => cfg \notin ran

\* The inductive invariant of the starts.
RunInv == Types /\ Pairs /\ Queues /\ Rivals /\ StageInv /\ AckedInv /\ KeysRead /\ Progress /\ RanInv

-----------------------------------------------------------------------------
(* Contents, stages and configurations.                                    *)

\* The parts of a content.
LEMMA Parts ==
    /\ Missing[1] = "missing" /\ Partial[1] = "partial"
    /\ \A k : Private(k)[1] = "private" /\ Private(k)[2] = k
    /\ \A k : Public(k)[1] = "public" /\ Public(k)[2] = k
    /\ \A k, f : Cert(k, f)[1] = "cert" /\ Cert(k, f)[2] = k /\ Cert(k, f)[3] = f
    /\ \A q : Rego(q)[1] = "policy" /\ Rego(q)[2] = q
  BY Zenon DEF Missing, Partial, Private, Public, Cert, Rego

\* A private key is determined by its number.
LEMMA SamePrivate == \A j, k : Private(j) = Private(k) => j = k
  BY Zenon DEF Private

\* A content is determined by its parts.
LEMMA Kinds ==
    ASSUME NEW c \in Content
    PROVE  /\ c[1] \in {"missing", "partial", "private", "public", "cert", "policy"}
           /\ c[1] = "missing" <=> c = Missing
           /\ c[1] = "partial" <=> c = Partial
           /\ c[1] = "private" => c = Private(c[2]) /\ c[2] \in Nat
           /\ c[1] = "public" => c = Public(c[2]) /\ c[2] \in Nat
           /\ c[1] = "cert" => c = Cert(c[2], c[3]) /\ c[2] \in Nat /\ c[3] \in {"own_key", "https_key"}
           /\ c[1] = "policy" => c = Rego(c[2]) /\ c[2] \in PolicyName
  BY Parts DEF Content

\* The stage that comes after each.
LEMMA Follows ==
    /\ Tail(FromAuth) = FromHttps /\ Tail(FromHttps) = FromCert
    /\ Tail(FromCert) = FromPolicy /\ Tail(FromPolicy) = FromPlugins
    /\ [FromPlugins EXCEPT ![1] = "plugin"] = FromPlugin /\ Tail(FromPlugin) = FromToken
    /\ Tail(FromToken) = FromEngine /\ Tail(FromEngine) = FromAdmin /\ Tail(FromAdmin) = FromAttest
    /\ Tail(FromAttest) = FromTls /\ Tail(FromTls) = FromBind /\ Tail(FromBind) = <<"up">>
<1>1. Tail(FromAuth) = FromHttps BY DEF FromAuth, FromHttps
<1>2. Tail(FromHttps) = FromCert BY DEF FromCert, FromHttps
<1>3. Tail(FromCert) = FromPolicy BY DEF FromCert, FromPolicy
<1>4. Tail(FromPolicy) = FromPlugins BY DEF FromPlugins, FromPolicy
<1>5. [FromPlugins EXCEPT ![1] = "plugin"] = FromPlugin BY DEF FromPlugins, FromPlugin
<1>6. Tail(FromPlugin) = FromToken BY DEF FromPlugin, FromToken
<1>7. Tail(FromToken) = FromEngine BY DEF FromToken, FromEngine
<1>8. Tail(FromEngine) = FromAdmin BY DEF FromAdmin, FromEngine
<1>9. Tail(FromAdmin) = FromAttest BY DEF FromAdmin, FromAttest
<1>10. Tail(FromAttest) = FromTls /\ Tail(FromTls) = FromBind /\ Tail(FromBind) = <<"up">>
  BY DEF FromAttest, FromTls, FromBind
<1> QED BY <1>1, <1>2, <1>3, <1>4, <1>5, <1>6, <1>7, <1>8, <1>9, <1>10, Zenon

\* The stage that each begins with.
LEMMA Heads ==
    /\ FromAuth[1] = "auth_key" /\ FromHttps[1] = "https_key" /\ FromCert[1] = "https_cert"
    /\ FromPolicy[1] = "policy" /\ FromPlugins[1] = "plugins" /\ FromPlugin[1] = "plugin"
    /\ FromToken[1] = "token" /\ FromEngine[1] = "engine" /\ FromAdmin[1] = "admin"
    /\ FromAttest[1] = "attestation" /\ FromTls[1] = "tls" /\ FromBind[1] = "bind"
    /\ <<"up">>[1] = "up" /\ <<"down">>[1] = "down" /\ <<"failed">>[1] = "failed"
  BY Zenon DEF FromAuth, FromHttps, FromCert, FromPolicy, FromPlugins, FromPlugin, FromToken, FromEngine, FromAdmin,
     FromAttest, FromTls, FromBind

\* Where a start is, by the stage at the head.
LEMMA Where ==
    ASSUME stage \in Stage
    PROVE  /\ At("auth_key") => stage = FromAuth
           /\ At("https_key") => stage = FromHttps
           /\ At("https_cert") => stage = FromCert
           /\ At("policy") => stage = FromPolicy
           /\ At("plugins") => stage = FromPlugins
           /\ At("plugin") => stage = FromPlugin
           /\ At("token") => stage = FromToken
           /\ At("engine") => stage = FromEngine
           /\ At("admin") => stage = FromAdmin
           /\ At("attestation") => stage = FromAttest
           /\ At("tls") => stage = FromTls
           /\ At("bind") => stage = FromBind
<1>1. Len(stage) > 0 => Head(stage) = stage[1]
  OBVIOUS
<1> QED BY <1>1, Heads, ZenonT(40) DEF At, Stage, AfterAuth, AfterHttps, AfterCert, AfterAdmin, AfterTls

\* Stages(c), as one of two sequences.
LEMMA StagesForm ==
    ASSUME NEW c
    PROVE  Stages(c) = IF c.trustee THEN FromAuth ELSE FromPlugins
<1> DEFINE N == {"auth_key", "https_key", "https_cert", "policy", "plugins", "token", "engine", "admin",
                "attestation", "tls", "bind", "up"}
           a == <<"auth_key", "https_key", "https_cert", "policy">>
           t == a \o FromPlugins
<1>1. a \in Seq(N) /\ FromPlugins \in Seq(N) /\ FromAuth \in Seq(N)
  BY DEF FromPlugins, FromAuth
<1>2. Len(a) = 4 /\ a[1] = "auth_key" /\ a[2] = "https_key" /\ a[3] = "https_cert" /\ a[4] = "policy"
  BY Zenon
<1>3. Len(FromPlugins) = 8 /\ Len(FromAuth) = 12
  BY Zenon DEF FromPlugins, FromAuth
<1> HIDE DEF N, a
<1>4. /\ t \in Seq(N) /\ Len(t) = Len(a) + Len(FromPlugins)
      /\ \A i \in 1..Len(a) + Len(FromPlugins) :
           t[i] = IF i <= Len(a) THEN a[i] ELSE FromPlugins[i - Len(a)]
  BY <1>1, ConcatProperties, Zenon
<1> HIDE DEF t
<1>5. t = FromAuth
  BY <1>1, <1>2, <1>3, <1>4, SeqEqual DEF FromAuth, FromPlugins
<1>6. <<>> \o FromPlugins = FromPlugins
  BY <1>1, ConcatEmptySeq, Zenon
<1> QED BY <1>5, <1>6, Zenon DEF Stages, t, a, FromPlugins
-----------------------------------------------------------------------------
(* What the steps do to the files, the queues and the stages.              *)

\* The steps of the plugins, as far as they matter to a start.
PluginStep ==
    /\ \/ Begin("plugins") /\ stage' = [stage EXCEPT ![1] = "plugin"]
       \/ At("plugin") /\ (Done \/ Fail)
    /\ UNCHANGED <<file, setup, writes, keys, starts, acked, ran>>

\* Every step of the system, as far as a start is concerned.
RunStep == RunNext \/ Kill("run") \/ PluginStep \/ UNCHANGED runVars

\* The first state, with the own key only.
LEMMA RunInvInit == RunInit => RunInv
<1> SUFFICES ASSUME RunInit PROVE RunInv
  BY Zenon
<1> USE DEF RunInit
<1>1. Types
  <2>1. file \in [HomeFile -> Content]
    BY DEF HomeFile, Content, OwnKey
  <2>2. file["own_key"] = Private(OwnKey) /\ file["own_pub"] = Public(OwnKey) /\ file["own_cert"] = Cert(OwnKey, "own_key")
    BY Zenon DEF HomeFile
  <2>3. \A f \in HomeFile : file[f] # Missing => f \in {"own_key", "own_pub", "own_cert"}
    BY Zenon DEF HomeFile
  <2>4. \A f \in HomeFile : file[f] \notin {Missing, Partial} => Fits(f, file[f])
    BY <2>2, <2>3, Parts DEF Fits, PrivateFile, PublicFile, CertFile, PolicyFile
  <2>5. stage \in Stage /\ writes \in [Process -> Seq(Write)] /\ acked \in [PolicyFile -> (PolicyName \X Nat) \cup {None}]
    BY DEF Stage
  <2> QED BY <2>1, <2>2, <2>4, <2>5, Zenon DEF Types
<1>2. Down /\ ~Up /\ ~At("plugin") /\ stage \notin AfterAuth \cup {FromAuth}
  BY Heads DEF Down, Up, At, AfterAuth, AfterHttps, AfterCert, AfterAdmin, AfterTls
<1>3. writes["run"] = <<>> /\ writes["keygen"] = <<>>
  BY Zenon DEF Process
<1>4. Pairs
  BY Parts DEF Pairs, KeyFiles, HomeFile
<1>5. Queues /\ Rivals
  BY <1>3, Zenon DEF Queues, Rivals, Process
<1>6. StageInv
  BY <1>2, <1>3, RunAssumption, Zenon DEF StageInv, HomeFile, AfterAuth, AfterHttps, AfterCert
<1>7. AckedInv /\ RanInv
  BY <1>3, Zenon DEF AckedInv, Binding, RanInv
<1>8. KeysRead /\ Progress
  BY <1>2, Zenon DEF KeysRead, Progress, AfterAuth, AfterHttps, AfterCert, AfterAdmin
<1> QED BY <1>1, <1>4, <1>5, <1>6, <1>7, <1>8, Zenon DEF RunInv

\* Sequences of one and of two elements.
LEMMA Short ==
    ASSUME NEW S
    PROVE  /\ \A a \in S : <<a>> \in Seq(S) /\ Len(<<a>>) = 1 /\ <<a>>[1] = a
           /\ \A a, b \in S : <<a, b>> \in Seq(S) /\ Len(<<a, b>>) = 2 /\ <<a, b>>[1] = a /\ <<a, b>>[2] = b
  OBVIOUS

\* What is left of a list of two.
LEMMA TailOfTwo ==
    ASSUME NEW S, NEW t \in Seq(S), Len(t) = 2
    PROVE  t[2] \in S /\ Tail(t) = <<t[2]>>
<1>1. t[2] \in S
  <2>1. 2 \in 1..Len(t)
    OBVIOUS
  <2> QED BY <2>1, ElementOfSeq, Zenon
<1>2. t # <<>>
  BY EmptySeq
<1>3. /\ Tail(t) \in Seq(S) /\ Len(Tail(t)) = Len(t) - 1
      /\ \A i \in 1..Len(Tail(t)) : Tail(t)[i] = t[i + 1]
  BY <1>2, HeadTailProperties, Zenon
<1>4. Len(Tail(t)) = 1
  BY <1>3
<1>5. Tail(t)[1] = t[2]
  <2>1. 1 \in 1..1 /\ 1 + 1 = 2
    OBVIOUS
  <2>2. 1 \in 1..Len(Tail(t))
    BY <2>1, <1>4, Zenon
  <2> QED BY <2>1, <2>2, <1>3, Zenon
<1>6. \A i \in 1..1 : i = 1
  OBVIOUS
<1>7. <<t[2]>> \in Seq(S) /\ Len(<<t[2]>>) = 1 /\ <<t[2]>>[1] = t[2]
  BY <1>1, Short, Zenon
<1>8. \A i \in 1..Len(Tail(t)) : Tail(t)[i] = <<t[2]>>[i]
  BY <1>4, <1>5, <1>6, <1>7, Zenon
<1> QED BY <1>1, <1>3, <1>4, <1>7, <1>8, SeqEqual, Zenon

\* The first write of a queue.
LEMMA First ==
    ASSUME writes \in [Process -> Seq(Write)], NEW p \in Process, writes[p] # <<>>
    PROVE  /\ Head(writes[p]) = writes[p][1] /\ writes[p][1] \in Write
           /\ Len(writes[p]) \in Nat /\ Len(writes[p]) > 0
           /\ Tail(writes[p]) \in Seq(Write) /\ Len(Tail(writes[p])) = Len(writes[p]) - 1
           /\ Len(writes[p]) = 2 => Tail(writes[p]) = <<writes[p][2]>>
           /\ Len(writes[p]) = 1 => Tail(writes[p]) = <<>>
<1> DEFINE q == writes[p]
<1>1. q \in Seq(Write) /\ q # <<>>
  BY Zenon
<1> HIDE DEF q
<1>2. /\ Head(q) = q[1] /\ q[1] \in Write /\ Len(q) \in Nat /\ Len(q) > 0
      /\ Tail(q) \in Seq(Write) /\ Len(Tail(q)) = Len(q) - 1
  BY <1>1
<1>3. Len(q) = 1 => Tail(q) = <<>>
  <2>1. Len(q) = 1 => Len(Tail(q)) = 0
    BY <1>2
  <2> QED BY <2>1, <1>2, EmptySeq, Zenon
<1>4. Len(q) = 2 => Tail(q) = <<q[2]>>
  BY <1>1, TailOfTwo, Zenon
<1> QED BY <1>2, <1>3, <1>4, Zenon DEF q

\* A write of a content.
LEMMA PutWrite ==
    ASSUME NEW f \in HomeFile, NEW c \in Content, NEW new \in BOOLEAN
    PROVE  /\ Put(f, c, new) \in Write
           /\ Put(f, c, new).file = f /\ Put(f, c, new).content = c
           /\ Put(f, c, new).new = new /\ Put(f, c, new).open = FALSE
  BY Zenon DEF Put, Write

\* A key pair to be written.
LEMMA Generated ==
    ASSUME Types, NEW p \in Process, NEW f \in KeyFiles, Generate(p, f[1], f[2])
    PROVE  /\ writes' \in [Process -> Seq(Write)] /\ keys' = keys + 1 /\ keys' \in Nat
           /\ writes' = [writes EXCEPT ![p] = <<Put(f[1], Private(keys'), TRUE), Put(f[2], Public(keys'), TRUE)>>]
<1>1. keys' = keys + 1 /\ keys' \in Nat
  BY DEF Types, Generate
<1>2. Private(keys') \in Content /\ Public(keys') \in Content /\ f[1] \in HomeFile /\ f[2] \in HomeFile
  BY <1>1 DEF Content, KeyFiles, HomeFile
<1>3. Put(f[1], Private(keys'), TRUE) \in Write /\ Put(f[2], Public(keys'), TRUE) \in Write
  <2>1. TRUE \in BOOLEAN
    BY Zenon
  <2> QED BY <1>2, <2>1, PutWrite, Zenon
<1>4. writes' = [writes EXCEPT ![p] = <<Put(f[1], Private(keys'), TRUE), Put(f[2], Public(keys'), TRUE)>>]
  BY <1>1, Zenon DEF Generate, KeyPair
<1>5. <<Put(f[1], Private(keys'), TRUE), Put(f[2], Public(keys'), TRUE)>> \in Seq(Write)
  BY <1>3, Short, Zenon
<1> QED BY <1>1, <1>4, <1>5, Zenon DEF Types

\* The first write of a queue is marked as begun.
LEMMA Opened ==
    ASSUME writes \in [Process -> Seq(Write)], NEW p \in Process, writes[p] # <<>>,
           writes' = [writes EXCEPT ![p][1].open = TRUE]
    PROVE  /\ writes' \in [Process -> Seq(Write)]
           /\ writes'[p] # <<>> /\ Len(writes'[p]) = Len(writes[p])
           /\ \A q \in Process \ {p} : writes'[q] = writes[q]
           /\ writes'[p][1] \in Write /\ writes'[p][1].open
           /\ writes'[p][1].file = writes[p][1].file
           /\ writes'[p][1].content = writes[p][1].content
           /\ writes'[p][1].new = writes[p][1].new
           /\ Len(writes[p]) = 2 => writes'[p][2] = writes[p][2]
<1> DEFINE q == writes[p]
           w == [q[1] EXCEPT !.open = TRUE]
<1>1. q \in Seq(Write) /\ q[1] \in Write /\ Len(q) \in Nat /\ Len(q) > 0
  BY First, Zenon
<1>2. w \in Write /\ w.open /\ w.file = q[1].file /\ w.content = q[1].content /\ w.new = q[1].new
  BY <1>1, Zenon DEF Write
<1>3. writes' = [writes EXCEPT ![p] = [q EXCEPT ![1] = w]]
  BY Zenon
<1> HIDE DEF q, w
<1>4. 1 \in 1..Len(q)
  BY <1>1
<1>5. /\ [q EXCEPT ![1] = w] \in Seq(Write) /\ Len([q EXCEPT ![1] = w]) = Len(q)
      /\ \A j \in 1..Len(q) : [q EXCEPT ![1] = w][j] = IF j = 1 THEN w ELSE q[j]
  BY <1>1, <1>2, <1>4, ExceptSeq
<1>6. [q EXCEPT ![1] = w][1] = w
  BY <1>4, <1>5, Zenon
<1>7. Len(q) = 2 => [q EXCEPT ![1] = w][2] = q[2]
  BY <1>5
<1>8. [q EXCEPT ![1] = w] # <<>>
  BY <1>1, <1>5
<1>9. writes' \in [Process -> Seq(Write)] /\ writes'[p] = [q EXCEPT ![1] = w]
  BY <1>3, <1>5, Zenon
<1>10. \A o \in Process \ {p} : writes'[o] = writes[o]
  BY <1>3, Zenon
<1> HIDE <1>3
<1> QED BY <1>2, <1>5, <1>6, <1>7, <1>8, <1>9, <1>10, ZenonT(40) DEF q

\* What a configuration may hold.
LEMMA Configured ==
    ASSUME NEW c \in Config
    PROVE  /\ c.auth_public_key = None \/ c.auth_public_key = "own_pub"
           /\ c.private_key = None \/ c.private_key = "own_key"
           /\ c.certificate = None \/ c.certificate = "own_cert"
           /\ c.policy_path = "policy.rego"
           /\ None \notin HomeFile /\ None \notin Nat /\ "allow_all" \notin Policy
  BY RunAssumption, Zenon

\* The queue of the server, when a stage has one file to write.
LEMMA OneWrite ==
    ASSUME writes \in [Process -> Seq(Write)], NEW f \in HomeFile, NEW c \in Content, NEW new \in BOOLEAN,
           writes' = [writes EXCEPT !["run"] = <<Put(f, c, new)>>]
    PROVE  /\ writes' \in [Process -> Seq(Write)] /\ writes'["keygen"] = writes["keygen"]
           /\ writes'["run"] # <<>> /\ Len(writes'["run"]) = 1 /\ writes'["run"][1] = Put(f, c, new)
<1>1. Put(f, c, new) \in Write
  BY PutWrite, Zenon
<1>2. <<Put(f, c, new)>> \in Seq(Write) /\ Len(<<Put(f, c, new)>>) = 1 /\ <<Put(f, c, new)>>[1] = Put(f, c, new)
  BY <1>1, Short, Zenon
<1>3. <<Put(f, c, new)>> # <<>>
  BY <1>2, Zenon
<1> QED BY <1>2, <1>3, Zenon DEF Process

\* What a stage of the server may do to the queues.
LEMMA StageWrites ==
    ASSUME RunInv,
           EnsureAuthKeyPair \/ EnsureHttpsKeyPair \/ EnsureHttpsCert \/ SetPolicyPath \/ PolicyEngine
    PROVE  writes' \in [Process -> Seq(Write)] /\ keys' \in Nat
<1> USE DEF RunInv
<1>1. CASE EnsureAuthKeyPair
  <2>1. <<"auth_key", "auth_key.pub">> \in KeyFiles /\ "run" \in Process
    BY Zenon DEF KeyFiles, Process
  <2> QED BY <1>1, <2>1, Generated, Zenon DEF EnsureAuthKeyPair, Types
<1>2. CASE EnsureHttpsKeyPair
  <2>1. <<"https_key", "https_key.pub">> \in KeyFiles /\ "run" \in Process
    BY Zenon DEF KeyFiles, Process
  <2> QED BY <1>2, <2>1, Generated, Zenon DEF EnsureHttpsKeyPair, Types
<1>3. CASE EnsureHttpsCert
  <2>1. CASE UNCHANGED writes
    BY <2>1, <1>3, Zenon DEF EnsureHttpsCert, Types
  <2>2. CASE ~UNCHANGED writes
    <3>1. /\ file[private_key][1] = "private" /\ cfg.trustee
          /\ writes' = [writes EXCEPT !["run"] = <<Put("https_cert.pem", Cert(file[private_key][2], private_key), TRUE)>>]
      BY <1>3, <2>2, Where, Heads, Zenon DEF EnsureHttpsCert, StageInv, Types, Begin
    <3>2. private_key \in {"own_key", "https_key"}
      BY <3>1, Configured, Zenon DEF private_key, Types
    <3>3. Cert(file[private_key][2], private_key) \in Content
      BY <3>1, <3>2, Kinds DEF Types, HomeFile, Content
    <3>4. "https_cert.pem" \in HomeFile /\ TRUE \in BOOLEAN
      BY Zenon DEF HomeFile
    <3> QED BY <3>1, <3>3, <3>4, OneWrite, <1>3, Zenon DEF Types, EnsureHttpsCert
  <2> QED BY <2>1, <2>2, Zenon
<1>4. CASE SetPolicyPath
  <2>1. CASE UNCHANGED writes
    BY <2>1, <1>4, Zenon DEF SetPolicyPath, Types
  <2>2. CASE ~UNCHANGED writes
    <3>1. PICK f \in PolicyFile, q \in PolicyName : writes' = [writes EXCEPT !["run"] = <<Put(f, Rego(q), FALSE)>>]
      BY <1>4, <2>2, RunAssumption, Zenon DEF SetPolicyPath, PolicyFile, PolicyName, HomeFile
    <3>2. f \in HomeFile /\ Rego(q) \in Content /\ FALSE \in BOOLEAN
      BY DEF HomeFile, PolicyFile, Content
    <3> QED BY <3>1, <3>2, OneWrite, <1>4, Zenon DEF Types, SetPolicyPath
  <2> QED BY <2>1, <2>2, Zenon
<1>5. CASE PolicyEngine
  <2>1. CASE UNCHANGED writes
    BY <2>1, <1>5, Zenon DEF PolicyEngine, Types
  <2>2. CASE ~UNCHANGED writes
    <3>1. writes' = [writes EXCEPT !["run"] = <<Put(policy_path, Rego("default"), FALSE)>>]
      BY <1>5, <2>2, Zenon DEF PolicyEngine
    <3>2. ~Down
      BY <1>5, Where, Heads, Zenon DEF PolicyEngine, Begin, Types, Down
    <3>3. policy_path \in HomeFile /\ Rego("default") \in Content /\ FALSE \in BOOLEAN
      BY <3>2 DEF HomeFile, PolicyFile, Content, PolicyName, StageInv
    <3> QED BY <3>1, <3>3, OneWrite, <1>5, Zenon DEF Types, PolicyEngine
  <2> QED BY <2>1, <2>2, Zenon
<1> QED BY <1>1, <1>2, <1>3, <1>4, <1>5, Zenon

\* Every step leads from a stage to a stage.
LEMMA StageStep ==
    ASSUME RunInv, RunStep
    PROVE  stage' \in Stage
<1> USE DEF RunInv, Stage, AfterAuth, AfterHttps, AfterCert, AfterAdmin, AfterTls
<1>0. stage \in Stage
  BY Zenon DEF Types
<1>1. ASSUME NEW c \in Config, Start(c) PROVE stage' \in Stage
  BY <1>1, StagesForm, Zenon DEF Start
<1>2. CASE EnsureAuthKeyPair \/ EnsureHttpsKeyPair \/ EnsureHttpsCert \/ SetPolicyPath
  BY <1>2, <1>0, Where, Follows, ZenonT(40) DEF EnsureAuthKeyPair, EnsureHttpsKeyPair, EnsureHttpsCert, SetPolicyPath,
     Begin, Done, Fail
<1>3. CASE PolicyEngine \/ AdminAuth \/ Serve
  BY <1>3, <1>0, Where, Follows, Zenon DEF PolicyEngine, AdminAuth, Serve, Begin, Done, Fail
<1>9. CASE Bind \/ Connect("token") \/ Connect("attestation")
  BY <1>9, <1>0, Where, Follows, Zenon DEF Bind, Connect, Begin, Done, Fail
<1>4. CASE PluginStep
  BY <1>4, <1>0, Where, Follows, Zenon DEF PluginStep, Begin, Done, Fail
<1>5. ASSUME NEW p \in Process, Create(p) \/ Fill(p) \/ Kill(p) PROVE stage' \in Stage
  BY <1>5, <1>0, Zenon DEF Create, Fill, Kill
<1>6. ASSUME NEW p \in Policy, SetPolicy(p) PROVE stage' \in Stage
  BY <1>6, <1>0, Zenon DEF SetPolicy
<1>7. CASE Keygen \/ UNCHANGED runVars
  BY <1>7, <1>0, Zenon DEF Keygen, runVars
<1>8. "run" \in Process /\ "keygen" \in Process
  BY Zenon DEF Process
<1> HIDE DEF Stage
<1> QED BY <1>1, <1>2, <1>3, <1>4, <1>5, <1>6, <1>7, <1>8, <1>9, Zenon DEF RunStep, RunNext

\* The file that a write concerns is marked as begun, or has its content.
LEMMA FileStep ==
    ASSUME RunInv, RunStep
    PROVE  \/ UNCHANGED file
           \/ \E p \in Process :
                /\ writes[p] # <<>> /\ ~writes[p][1].open /\ Create(p)
                /\ writes[p][1].new => file[writes[p][1].file] = Missing
                /\ file' = [file EXCEPT ![writes[p][1].file] = Partial]
                /\ writes' = [writes EXCEPT ![p][1].open = TRUE]
                /\ UNCHANGED <<setup, stage, keys, starts, acked>>
           \/ \E p \in Process :
                /\ writes[p] # <<>> /\ writes[p][1].open /\ Fill(p)
                /\ file' = [file EXCEPT ![writes[p][1].file] = writes[p][1].content]
                /\ writes' = [writes EXCEPT ![p] = Tail(writes[p])]
                /\ UNCHANGED <<setup, stage, keys, starts>>
<1>1. ASSUME NEW p \in Process, Create(p), ~UNCHANGED file
      PROVE  /\ writes[p] # <<>> /\ ~writes[p][1].open /\ Create(p)
             /\ writes[p][1].new => file[writes[p][1].file] = Missing
             /\ file' = [file EXCEPT ![writes[p][1].file] = Partial]
             /\ writes' = [writes EXCEPT ![p][1].open = TRUE]
             /\ UNCHANGED <<setup, stage, keys, starts, acked>>
  BY <1>1, First, Zenon DEF Create, RunInv, Types
<1>2. ASSUME NEW p \in Process, Fill(p)
      PROVE  /\ writes[p] # <<>> /\ writes[p][1].open /\ Fill(p)
             /\ file' = [file EXCEPT ![writes[p][1].file] = writes[p][1].content]
             /\ writes' = [writes EXCEPT ![p] = Tail(writes[p])]
             /\ UNCHANGED <<setup, stage, keys, starts>>
  BY <1>2, First, Zenon DEF Fill, RunInv, Types
<1>3. CASE \/ \E c \in Config : Start(c)
           \/ \E q \in Policy : SetPolicy(q)
           \/ Keygen \/ Kill("keygen") \/ Kill("run") \/ UNCHANGED runVars \/ PluginStep
           \/ EnsureAuthKeyPair \/ EnsureHttpsKeyPair \/ EnsureHttpsCert
           \/ SetPolicyPath \/ PolicyEngine \/ AdminAuth \/ Serve \/ Bind \/ Connect("token") \/ Connect("attestation")
  BY <1>3, Zenon DEF Start, SetPolicy, Keygen, Kill, runVars, PluginStep, EnsureAuthKeyPair, EnsureHttpsKeyPair,
     EnsureHttpsCert, SetPolicyPath, PolicyEngine, AdminAuth, Serve, Bind, Connect
<1> QED BY <1>1, <1>2, <1>3, Zenon DEF RunStep, RunNext

\* The configurations that the server was up with grow when it comes up.
LEMMA RanKept ==
    ASSUME RunStep
    PROVE  UNCHANGED ran \/ Bind
  BY Zenon DEF RunStep, RunNext, PluginStep, runVars, Create, Fill, Keygen, Kill, Start, EnsureAuthKeyPair,
     EnsureHttpsKeyPair, EnsureHttpsCert, SetPolicyPath, PolicyEngine, AdminAuth, Serve, Connect, SetPolicy

\* Every step keeps the types: a write puts into a file what fits it.
LEMMA TypesStep ==
    ASSUME RunInv, RunStep
    PROVE  Types'
<1> USE DEF RunInv
<1> DEFINE FileTypes ==
        /\ file' \in [HomeFile -> Content]
        /\ \A f \in HomeFile : file'[f] \notin {Missing, Partial} => Fits(f, file'[f])
        /\ file'["own_key"] = Private(OwnKey) /\ file'["own_pub"] = Public(OwnKey)
        /\ file'["own_cert"] = Cert(OwnKey, "own_key")
<1>1. FileTypes
  <2>1. CASE UNCHANGED file
    BY <2>1, Zenon DEF Types
  <2>2. ASSUME NEW p \in Process, writes[p] # <<>>, NEW c, c = Partial \/ c = writes[p][1].content,
               file' = [file EXCEPT ![writes[p][1].file] = c]
        PROVE  FileTypes
    <3>1. writes[p][1] \in Write /\ FirstWrite(p, writes[p][1])
      BY <2>2, First, Zenon DEF Types, Queues
    <3>2. /\ writes[p][1].file \in HomeFile \ {"own_key", "own_pub", "own_cert"}
          /\ Fits(writes[p][1].file, writes[p][1].content)
          /\ c \in Content
      BY <2>2, <3>1 DEF FirstWrite, Write, Content
    <3> QED BY <2>2, <3>2, Zenon DEF Types, HomeFile
  <2> HIDE DEF FileTypes
  <2>3. ASSUME NEW p \in Process, writes[p] # <<>>,
               \/ file' = [file EXCEPT ![writes[p][1].file] = Partial]
               \/ file' = [file EXCEPT ![writes[p][1].file] = writes[p][1].content]
        PROVE  FileTypes
    BY <2>2, <2>3, Zenon
  <2> QED BY <2>1, <2>3, FileStep, Zenon
<1> DEFINE WritesTypes == writes' \in [Process -> Seq(Write)] /\ keys' \in Nat
<1>2. WritesTypes
  <2>1. ASSUME NEW p \in Process, Create(p) \/ Fill(p) \/ Kill(p) PROVE WritesTypes
    <3>1. CASE writes' = [writes EXCEPT ![p] = <<>>] /\ UNCHANGED keys
      BY <3>1 DEF Types
    <3>2. CASE writes[p] # <<>> /\ writes' = [writes EXCEPT ![p][1].open = TRUE] /\ UNCHANGED keys
      BY <3>2, Opened, Zenon DEF Types
    <3>3. CASE writes[p] # <<>> /\ writes' = [writes EXCEPT ![p] = Tail(writes[p])] /\ UNCHANGED keys
      <4>1. Tail(writes[p]) \in Seq(Write)
        BY <3>3, First, Zenon DEF Types
      <4> QED BY <3>3, <4>1, Zenon DEF Types
    <3> QED BY <2>1, <3>1, <3>2, <3>3, Zenon DEF Create, Fill, Kill
  <2>2. CASE Keygen
    <3>1. <<"auth_key", "auth_key.pub">> \in KeyFiles /\ "keygen" \in Process
      BY Zenon DEF KeyFiles, Process
    <3> QED BY <2>2, <3>1, Generated, Zenon DEF Keygen
  <2>3. ASSUME NEW q \in Policy, SetPolicy(q) PROVE WritesTypes
    <3>1. policy_path \in HomeFile /\ Rego(q) \in Content /\ FALSE \in BOOLEAN
      BY <2>3, Heads DEF SetPolicy, StageInv, Content, PolicyName, PolicyFile, HomeFile, Up, Down
    <3> QED BY <2>3, <3>1, OneWrite, Zenon DEF SetPolicy, Types
  <2>4. CASE \/ \E c \in Config : Start(c)
             \/ UNCHANGED runVars \/ PluginStep \/ AdminAuth \/ Serve \/ Bind \/ Connect("token") \/ Connect("attestation")
    BY <2>4, Zenon DEF Start, runVars, PluginStep, AdminAuth, Serve, Bind, Connect, Types
  <2>5. "run" \in Process /\ "keygen" \in Process
    BY Zenon DEF Process
  <2> QED BY <2>1, <2>2, <2>3, <2>4, <2>5, StageWrites, Zenon DEF RunStep, RunNext
<1>3. cfg' \in Config /\ starts' \in Nat
  <2>1. cfg \in Config /\ starts \in Nat
    BY Zenon DEF Types
  <2>2. CASE \E c \in Config : Start(c)
    BY <2>1, <2>2 DEF Start
  <2>3. CASE UNCHANGED <<cfg, starts>>
    BY <2>1, <2>3, Zenon
  <2> QED BY <2>2, <2>3, Zenon DEF RunStep, RunNext, PluginStep, runVars, setup, Create, Fill, Keygen, Kill,
             EnsureAuthKeyPair, EnsureHttpsKeyPair, EnsureHttpsCert, SetPolicyPath, PolicyEngine, AdminAuth,
             Serve, Bind, Connect, SetPolicy
<1> DEFINE AckedTypes == acked' \in [PolicyFile -> (PolicyName \X Nat) \cup {None}]
<1>4. AckedTypes
  <2>1. ASSUME NEW p \in Process, Fill(p) PROVE AckedTypes
    <3>1. CASE UNCHANGED acked
      BY <3>1, Zenon DEF Types
    <3>2. CASE ~UNCHANGED acked
      <4>1. /\ p = "run" /\ Up /\ writes[p] # <<>>
            /\ acked' = [acked EXCEPT ![policy_path] = <<writes[p][1].content[2], starts>>]
        BY <2>1, <3>2, First, Zenon DEF Fill, Types
      <4>2. writes[p][1] \in Write /\ FirstWrite(p, writes[p][1]) /\ writes[p][1].file \in PolicyFile
        BY <4>1, First, Zenon DEF Types, Queues, StageInv
      <4>3. writes[p][1].content[2] \in PolicyName
        BY <4>2, Kinds, Zenon DEF FirstWrite, Fits, Write
      <4>4. <<writes[p][1].content[2], starts>> \in PolicyName \X Nat
        BY <4>3, Zenon DEF Types
      <4> QED BY <4>1, <4>4, Zenon DEF Types
    <3> QED BY <3>1, <3>2, Zenon
  <2>2. CASE UNCHANGED acked
    BY <2>2, Zenon DEF Types
  <2>3. CASE \E q \in Policy : SetPolicy(q)
    BY <2>3, Zenon DEF SetPolicy, Types
  <2> QED BY <2>1, <2>2, <2>3, Zenon DEF RunStep, RunNext, PluginStep, runVars, Create, Keygen, Kill, Start,
             EnsureAuthKeyPair, EnsureHttpsKeyPair, EnsureHttpsCert, SetPolicyPath, PolicyEngine, AdminAuth, Serve,
             Bind, Connect
<1>5. ran' \subseteq Config
  <2>1. ran' = ran \/ ran' = ran \cup {cfg}
    BY RanKept, Zenon DEF Bind
  <2> QED BY <2>1, Zenon DEF Types
<1> QED BY <1>1, <1>2, <1>3, <1>4, <1>5, StageStep, Zenon DEF Types

\* A key or a certificate once written stays, and a file is never removed.
LEMMA Stable ==
    ASSUME RunInv, RunStep
    PROVE  /\ \A f \in HomeFile \ PolicyFile : file[f] \notin {Missing, Partial} => file'[f] = file[f]
           /\ \A f \in HomeFile : file[f] # Missing => file'[f] # Missing
<1> USE DEF RunInv
<1> DEFINE Same == /\ \A f \in HomeFile \ PolicyFile : file[f] \notin {Missing, Partial} => file'[f] = file[f]
                   /\ \A f \in HomeFile : file[f] # Missing => file'[f] # Missing
<1>0. file \in [HomeFile -> Content] /\ Partial # Missing
  BY Parts, Zenon DEF Types
<1>1. ASSUME NEW p \in Process, writes[p] # <<>>, NEW w, w = writes[p][1]
      PROVE  /\ w.file \in HomeFile /\ w.content \in Content /\ w.content # Missing
             /\ w.file \notin PolicyFile => w.new
             /\ w.open => file[w.file] = Partial
  <2>1. w \in Write /\ FirstWrite(p, w)
    BY <1>1, First, Zenon DEF Types, Queues
  <2>2. w.content # Missing
    BY <2>1, Parts, Zenon DEF FirstWrite, Fits, Write, HomeFile, PrivateFile, PublicFile, CertFile, PolicyFile
  <2> QED BY <2>1, <2>2, Zenon DEF FirstWrite, Write
<1>2. ASSUME NEW p \in Process, writes[p] # <<>>, NEW w, w = writes[p][1],
             w.new => file[w.file] = Missing,
             file' = [file EXCEPT ![w.file] = Partial]
      PROVE  Same
  BY <1>0, <1>1, <1>2, Zenon
<1>3. ASSUME NEW p \in Process, writes[p] # <<>>, NEW w, w = writes[p][1], w.open,
             file' = [file EXCEPT ![w.file] = w.content]
      PROVE  Same
  BY <1>0, <1>1, <1>3, Zenon
<1>4. ASSUME UNCHANGED file PROVE Same
  BY <1>4, Zenon
<1> HIDE DEF Same
<1>5. ASSUME NEW p \in Process, writes[p] # <<>>, writes[p][1].new => file[writes[p][1].file] = Missing,
             file' = [file EXCEPT ![writes[p][1].file] = Partial]
      PROVE  Same
  BY <1>2, <1>5, Zenon
<1>6. ASSUME NEW p \in Process, writes[p] # <<>>, writes[p][1].open,
             file' = [file EXCEPT ![writes[p][1].file] = writes[p][1].content]
      PROVE  Same
  BY <1>3, <1>6, Zenon
<1>7. Same
  BY <1>4, <1>5, <1>6, FileStep, Zenon
<1> QED BY <1>7, Zenon DEF Same

\* Every step keeps the pairs: a public key or a certificate is written behind
\* its private key, and files of keys are created once (create_new).
LEMMA PairsStep ==
    ASSUME RunInv, RunStep
    PROVE  Pairs'
<1> USE DEF RunInv
<1>0. /\ file \in [HomeFile -> Content] /\ file' \in [HomeFile -> Content]
      /\ \A f \in HomeFile : file[f] \notin {Missing, Partial} => Fits(f, file[f])
  BY TypesStep, Zenon DEF Types
\* Who creates and who fills a file.
<1>1. ASSUME NEW f \in HomeFile, file'[f] # file[f]
      PROVE  \E p \in Process : /\ writes[p] # <<>> /\ writes[p][1].file = f
                                 /\ \/ ~writes[p][1].open /\ file'[f] = Partial
                                    \/ writes[p][1].open /\ file'[f] = writes[p][1].content
  BY <1>0, <1>1, FileStep, Zenon
<1>2. ASSUME NEW p \in Process, writes[p] # <<>> PROVE FirstWrite(p, writes[p][1]) /\ writes[p][1] \in Write
  BY <1>2, First, Zenon DEF Queues, Types
<1>3. ASSUME NEW f \in KeyFiles
      PROVE  /\ f[1] \in HomeFile \ PolicyFile /\ f[2] \in HomeFile \ PolicyFile
             /\ f[1] \in PrivateFile /\ f[2] \in PublicFile
  BY DEF KeyFiles, HomeFile, PolicyFile, PrivateFile, PublicFile
<1>4. ASSUME NEW f \in KeyFiles, file[f[1]][1] = "private"
      PROVE  file'[f[1]] = file[f[1]]
  BY <1>3, <1>4, Stable, Parts, Zenon
<1>5. ASSUME NEW f \in KeyFiles, file'[f[2]] # Missing PROVE file'[f[1]][1] = "private"
  <2>1. CASE file[f[2]] # Missing
    BY <2>1, <1>4, Zenon DEF Pairs
  <2>2. CASE file[f[2]] = Missing
    <3>1. PICK p \in Process : writes[p] # <<>> /\ writes[p][1].file = f[2]
      BY <1>1, <1>3, <1>5, <2>2, Zenon
    <3>2. file[f[1]] = Private(writes[p][1].content[2])
      BY <1>2, <3>1, Zenon DEF FirstWrite, KeyWrite
    <3> QED BY <1>4, <3>2, Parts
  <2> QED BY <2>1, <2>2, Zenon
<1>6. ASSUME NEW f \in KeyFiles, file'[f[2]][1] = "public" PROVE file'[f[1]] = Private(file'[f[2]][2])
  <2>1. CASE file'[f[2]] = file[f[2]]
    BY <2>1, <1>4, <1>6, Parts DEF Pairs
  <2>2. CASE file'[f[2]] # file[f[2]]
    <3>1. PICK p \in Process : writes[p] # <<>> /\ writes[p][1].file = f[2] /\ file'[f[2]] = writes[p][1].content
      BY <1>1, <1>3, <1>6, <2>2, Parts, SMTT(30)
    <3>2. file[f[1]] = Private(writes[p][1].content[2])
      BY <1>2, <3>1, Zenon DEF FirstWrite, KeyWrite
    <3> QED BY <1>4, <3>1, <3>2, Parts
  <2> QED BY <2>1, <2>2, Zenon
<1>7. ASSUME file'["https_cert.pem"][1] = "cert"
      PROVE  file'[file'["https_cert.pem"][3]] = Private(file'["https_cert.pem"][2])
  <2> DEFINE h == "https_cert.pem"
             k == file'[h][3]
  <2>0. h \in HomeFile \ PolicyFile /\ k \in {"own_key", "https_key"} /\ k \in HomeFile \ PolicyFile
    BY <1>0, <1>7, Kinds, Zenon DEF HomeFile, PolicyFile
  <2>1. file[k] = Private(file'[h][2])
    <3>1. CASE file'[h] = file[h]
      BY <3>1, <1>7, Zenon DEF Pairs
    <3>2. CASE file'[h] # file[h]
      <4>1. PICK p \in Process : writes[p] # <<>> /\ writes[p][1].file = h /\ file'[h] = writes[p][1].content
        BY <1>1, <1>7, <2>0, <3>2, Parts, Zenon
      <4> QED BY <1>2, <4>1, Zenon DEF FirstWrite, CertWrite
    <3> QED BY <3>1, <3>2, Zenon
  <2>2. file[k] \notin {Missing, Partial}
    BY <2>1, Parts
  <2> QED BY <2>0, <2>1, <2>2, Stable, Zenon
<1> QED BY <1>5, <1>6, <1>7, Zenon DEF Pairs

\* A file changes by the first write of a process, which then is another one.
LEMMA Changed ==
    ASSUME RunInv, RunStep, NEW f \in HomeFile, file'[f] # file[f]
    PROVE  \E p \in Process :
             /\ writes[p] # <<>> /\ writes[p][1].file = f /\ writes'[p] # writes[p]
             /\ \/ ~writes[p][1].open /\ file'[f] = Partial /\ (writes[p][1].new => file[f] = Missing)
                \/ writes[p][1].open /\ file'[f] = writes[p][1].content
<1>0. file \in [HomeFile -> Content] /\ writes \in [Process -> Seq(Write)]
  BY Zenon DEF RunInv, Types
<1>1. ASSUME NEW p \in Process, writes[p] # <<>>, ~writes[p][1].open,
             writes' = [writes EXCEPT ![p][1].open = TRUE]
      PROVE  writes'[p] # writes[p]
  BY <1>0, <1>1, Opened, Zenon
<1>2. ASSUME NEW p \in Process, writes[p] # <<>>, writes' = [writes EXCEPT ![p] = Tail(writes[p])]
      PROVE  writes'[p] # writes[p]
  <2>1. Len(Tail(writes[p])) = Len(writes[p]) - 1 /\ Len(writes[p]) \in Nat
    BY <1>0, <1>2, First, Zenon
  <2>2. \A n \in Nat : n - 1 # n
    OBVIOUS
  <2>3. Tail(writes[p]) # writes[p]
    BY <2>1, <2>2, Zenon
  <2> QED BY <1>0, <1>2, <2>3, Zenon
<1> QED BY <1>0, <1>1, <1>2, FileStep, ZenonT(40)

\* Keys are counted.
LEMMA KeysGrow ==
    ASSUME RunInv, RunStep
    PROVE  keys \in Nat /\ keys' \in Nat /\ keys <= keys'
<1>1. keys \in Nat
  BY Zenon DEF RunInv, Types
<1>2. keys' = keys \/ keys' = keys + 1
  BY ZenonT(40) DEF RunStep, RunNext, PluginStep, runVars, Create, Fill, Keygen, Kill, Start, EnsureAuthKeyPair,
     EnsureHttpsKeyPair, EnsureHttpsCert, SetPolicyPath, PolicyEngine, AdminAuth, Serve, Bind, Connect, SetPolicy, Generate
<1> QED BY <1>1, <1>2

\* A queue that the step leaves alone.
LEMMA FirstKept ==
    ASSUME RunInv, RunStep, NEW p \in Process, writes[p] # <<>>, writes'[p] = writes[p],
           NEW w, w = writes[p][1],
           w.file \in PolicyFile =>
             policy_path' = policy_path /\ starts' = starts /\ acked'[w.file] = acked[w.file]
    PROVE  FirstWrite(p, w)'
<1> USE DEF RunInv
<1>0. w \in Write /\ FirstWrite(p, w) /\ w.file \in HomeFile
  BY First, ZenonT(40) DEF Types, Queues, Write
<1>1. w.open \/ w.file # "auth_key" => file'[w.file] = file[w.file]
  <2> SUFFICES ASSUME w.open \/ w.file # "auth_key", file'[w.file] # file[w.file] PROVE FALSE
    BY Zenon
  <2>1. PICK q \in Process :
             /\ writes[q] # <<>> /\ writes[q][1].file = w.file /\ writes'[q] # writes[q]
             /\ \/ ~writes[q][1].open /\ (writes[q][1].new => file[w.file] = Missing)
                \/ writes[q][1].open
    BY <1>0, Changed, Zenon
  <2>2. p # q
    BY <2>1, Zenon
  <2>3. FirstWrite(q, writes[q][1])
    BY <2>1, Zenon DEF Queues
  <2>4. w.file \in {"auth_key", "auth_key.pub"} /\ w.file \notin PolicyFile
    BY <1>0, <2>1, <2>2, <2>3, ZenonT(40) DEF FirstWrite, Process, PolicyFile
  <2>5. writes[q][1].new
    BY <2>1, <2>3, <2>4, Zenon DEF FirstWrite
  <2>6. CASE w.file = "auth_key"
    <3>1. w.open
      BY <2>6, Zenon
    <3>2. file[w.file] # Missing
      BY <1>0, <3>1, Parts, SMTT(30) DEF FirstWrite
    <3>3. writes[q][1].open
      BY <2>1, <2>5, <3>2, Zenon
    <3> QED BY <2>1, <2>2, <3>1, <3>3, Zenon DEF Rivals, Process
  <2>7. CASE w.file = "auth_key.pub"
    <3>1. <<"auth_key", "auth_key.pub">> \in KeyFiles
      BY Zenon DEF KeyFiles
    <3>2. file["auth_key"] = Private(w.content[2]) /\ file["auth_key"] = Private(writes[q][1].content[2])
      BY <1>0, <2>1, <2>3, <2>7, <3>1, ZenonT(40) DEF FirstWrite, KeyWrite
    <3>3. w.content[2] = writes[q][1].content[2]
      BY <3>2, SamePrivate, ZenonT(40)
    <3>4. w.file \in PrivateFile \cup PublicFile
      BY <2>7, Zenon DEF PublicFile
    <3> QED BY <2>1, <2>2, <3>3, <3>4, Zenon DEF Rivals, Process
  <2> QED BY <2>4, <2>6, <2>7, Zenon
<1>2. (w.open => file[w.file] = Partial)' /\ (~w.open /\ w.new /\ w.file # "auth_key" => file[w.file] = Missing)'
  BY <1>0, <1>1, Zenon DEF FirstWrite
<1>3. ASSUME NEW f \in HomeFile \ PolicyFile, NEW k, file[f] = Private(k) PROVE file'[f] = Private(k)
  BY <1>3, Stable, Parts, SMTT(30)
<1>4. KeyWrite(p, w)'
  <2>1. \A f \in KeyFiles : f[1] \in HomeFile \ PolicyFile
    BY SMTT(30) DEF KeyFiles, HomeFile, PolicyFile
  <2> QED BY <1>0, <1>3, <2>1, Zenon DEF FirstWrite, KeyWrite
<1>5. CertWrite(p, w)'
  <2>1. w.file = "https_cert.pem" => w.content[3] \in HomeFile \ PolicyFile
    BY <1>0, Kinds, ZenonT(40) DEF FirstWrite, Fits, CertFile, Write, HomeFile, PolicyFile
  <2> QED BY <1>0, <1>3, <2>1, Zenon DEF FirstWrite, CertWrite
<1>6. PolicyWrite(p, w)'
  BY <1>0, ZenonT(40) DEF FirstWrite, PolicyWrite, Binding
<1>7. w.file \in PrivateFile \cup PublicFile => w.content[2] <= keys'
  <2>1. w.file \in PrivateFile \cup PublicFile => w.content[2] \in Nat /\ w.content[2] <= keys
    BY <1>0, Kinds, ZenonT(40) DEF FirstWrite, Fits, Write
  <2>2. \A i, m, n \in Nat : i <= m /\ m <= n => i <= n
    OBVIOUS
  <2>3. keys \in Nat /\ keys' \in Nat /\ keys <= keys'
    BY KeysGrow, Zenon
  <2> QED BY <2>1, <2>2, <2>3, Zenon
<1> QED BY <1>0, <1>2, <1>4, <1>5, <1>6, <1>7, Zenon DEF FirstWrite

\* A queue whose first write is begun.
LEMMA FirstOpened ==
    ASSUME RunInv, RunStep, NEW p \in Process, writes[p] # <<>>, ~writes[p][1].open,
           writes[p][1].new => file[writes[p][1].file] = Missing,
           file' = [file EXCEPT ![writes[p][1].file] = Partial],
           writes' = [writes EXCEPT ![p][1].open = TRUE],
           UNCHANGED <<setup, acked, keys, starts>>
    PROVE  FirstWrite(p, writes[p][1])'
<1> USE DEF RunInv
<1>0. /\ writes[p][1] \in Write /\ FirstWrite(p, writes[p][1]) /\ writes[p][1].file \in HomeFile
      /\ file \in [HomeFile -> Content] /\ writes \in [Process -> Seq(Write)]
  BY First, Zenon DEF Types, Queues, Write
<1>1. /\ writes'[p] # <<>> /\ Len(writes'[p]) = Len(writes[p])
      /\ writes'[p][1] \in Write /\ writes'[p][1].open
      /\ writes'[p][1].file = writes[p][1].file
      /\ writes'[p][1].content = writes[p][1].content
      /\ writes'[p][1].new = writes[p][1].new
      /\ Len(writes[p]) = 2 => writes'[p][2] = writes[p][2]
  BY <1>0, Opened, Zenon
<1>2. file'[writes[p][1].file] = Partial
  BY <1>0, Zenon
<1>3. ASSUME NEW f \in HomeFile \ PolicyFile, NEW k, file[f] = Private(k) PROVE file'[f] = Private(k)
  BY <1>3, Stable, Parts
<1>4. KeyWrite(p, writes[p][1])'
  <2>1. \A f \in KeyFiles : f[1] \in HomeFile \ PolicyFile
    BY DEF KeyFiles, HomeFile, PolicyFile
  <2>2. ASSUME NEW f \in KeyFiles, writes'[p][1].file = f[1]
        PROVE  Len(writes'[p]) = 2 /\ writes'[p][2] = Put(f[2], Public(writes'[p][1].content[2]), TRUE)
    <3>1. Len(writes[p]) = 2 /\ writes[p][2] = Put(f[2], Public(writes[p][1].content[2]), TRUE)
      BY <1>0, <1>1, <2>2, Zenon DEF FirstWrite, KeyWrite
    <3> QED BY <1>1, <3>1, Zenon
  <2>3. ASSUME NEW f \in KeyFiles, writes'[p][1].file = f[2]
        PROVE  Len(writes'[p]) = 1 /\ file'[f[1]] = Private(writes'[p][1].content[2])
    <3>1. Len(writes[p]) = 1 /\ file[f[1]] = Private(writes[p][1].content[2])
      BY <1>0, <1>1, <2>3, Zenon DEF FirstWrite, KeyWrite
    <3> QED BY <1>1, <1>3, <2>1, <3>1
  <2> QED BY <2>2, <2>3, Zenon DEF KeyWrite
<1>5. CertWrite(p, writes[p][1])'
  <2>1. writes[p][1].file = "https_cert.pem" => writes[p][1].content[3] \in HomeFile \ PolicyFile
    BY <1>0, Kinds, Zenon DEF FirstWrite, Fits, CertFile, Write, HomeFile, PolicyFile
  <2> QED BY <1>0, <1>1, <1>3, <2>1 DEF FirstWrite, CertWrite
<1>6. PolicyWrite(p, writes[p][1])'
  BY <1>0, <1>1, Zenon DEF FirstWrite, PolicyWrite, Binding, setup
<1> QED BY <1>0, <1>1, <1>2, <1>4, <1>5, <1>6, Zenon DEF FirstWrite

\* A queue whose first write is done: the public key follows the private key.
LEMMA FirstDone ==
    ASSUME RunInv, RunStep, NEW p \in Process, writes[p] # <<>>, writes[p][1].open,
           file' = [file EXCEPT ![writes[p][1].file] = writes[p][1].content],
           writes' = [writes EXCEPT ![p] = Tail(writes[p])], UNCHANGED keys, writes'[p] # <<>>
    PROVE  /\ FirstWrite(p, writes[p][1])' /\ ~writes'[p][1].open
           /\ writes'[p][1].content[2] = writes[p][1].content[2]
           /\ writes[p][1].file \in PrivateFile /\ writes'[p][1].file \in PublicFile
<1> USE DEF RunInv
<1>0. /\ writes[p][1] \in Write /\ FirstWrite(p, writes[p][1]) /\ writes[p][1].file \in HomeFile
      /\ file \in [HomeFile -> Content] /\ writes \in [Process -> Seq(Write)]
      /\ writes[p][1].content \in Content /\ keys \in Nat
      /\ Len(writes[p]) = 2 => Tail(writes[p]) = <<writes[p][2]>>
      /\ Len(writes[p]) = 1 => Tail(writes[p]) = <<>>
  BY First, Zenon DEF Types, Queues, Write
<1>1. writes'[p] = Tail(writes[p])
  BY <1>0, Zenon
<1>2. Len(writes[p]) # 1
  BY <1>0, <1>1, Zenon
<1>3. PICK f \in KeyFiles : writes[p][1].file = f[1]
  <2>1. writes[p][1].file \in {"auth_key", "https_key"}
    <3>1. writes[p][1].file \notin PolicyFile \cup {"https_cert.pem", "own_key", "own_pub", "own_cert"}
      BY <1>0, <1>2, Zenon DEF FirstWrite, PolicyWrite, CertWrite
    <3>2. writes[p][1].file \notin {"auth_key.pub", "https_key.pub"}
      BY <1>0, <1>2, Zenon DEF FirstWrite, KeyWrite, KeyFiles
    <3> QED BY <1>0, <3>1, <3>2, Zenon DEF HomeFile, PolicyFile
  <2> QED BY <2>1, Zenon DEF KeyFiles
<1>4. /\ f[1] \in PrivateFile /\ f[2] \in PublicFile /\ f[2] \in HomeFile \ PolicyFile /\ f[1] # f[2]
      /\ f[2] \notin {"own_key", "own_pub", "own_cert", "https_cert.pem"}
      /\ f[1] = "auth_key" => f[2] = "auth_key.pub"
  BY SMTT(30) DEF KeyFiles, PrivateFile, PublicFile, HomeFile, PolicyFile
<1> DEFINE k == writes[p][1].content[2]
<1>5. Len(writes[p]) = 2 /\ writes[p][2] = Put(f[2], Public(k), TRUE) /\ writes[p][1].content = Private(k) /\ k \in Nat
  BY <1>0, <1>3, <1>4, Kinds, Zenon DEF FirstWrite, KeyWrite, Fits
<1> DEFINE v == Put(f[2], Public(k), TRUE)
<1>6. v \in Write /\ v.file = f[2] /\ v.content = Public(k) /\ v.new /\ ~v.open
  <2>1. Public(k) \in Content /\ TRUE \in BOOLEAN
    BY <1>5 DEF Content
  <2>2. v \in Write
    BY <1>4, <2>1, PutWrite, Zenon
  <2>3. v.file = f[2] /\ v.content = Public(k) /\ v.new /\ ~v.open
    BY Zenon DEF Put
  <2> QED BY <2>2, <2>3, Zenon
<1>7. writes'[p] = <<v>> /\ Len(writes'[p]) = 1 /\ writes'[p][1] = v
  <2>1. writes'[p] = <<writes[p][2]>> /\ writes[p][2] = v
    BY <1>0, <1>1, <1>5, Zenon
  <2> HIDE DEF v
  <2>2. Len(<<v>>) = 1 /\ <<v>>[1] = v
    BY <1>6, Short, Zenon
  <2> QED BY <2>1, <2>2, Zenon
<1>8. file'[f[1]] = Private(k) /\ file'[f[2]] = Missing
  <2>1. file[f[1]] = Partial
    BY <1>0, <1>3, Zenon DEF FirstWrite
  <2>2. file[f[2]] = Missing
    BY <2>1, Parts, Zenon DEF Pairs
  <2> QED BY <1>0, <1>3, <1>4, <1>5, <2>2, Zenon DEF PrivateFile
<1> HIDE DEF v, k
<1>9. Fits(f[2], Public(k))
  BY <1>4, Parts, Zenon DEF Fits, PrivateFile, PublicFile, CertFile, PolicyFile
<1>10. KeyWrite(p, writes[p][1])'
  <2>1. ASSUME NEW g \in KeyFiles PROVE g[1] # f[2] /\ (g[2] = f[2] => g[1] = f[1])
    BY DEF KeyFiles
  <2>2. writes'[p][1].file = f[2] /\ writes'[p][1].content[2] = k
    BY <1>6, <1>7, Parts
  <2> QED BY <1>7, <1>8, <2>1, <2>2, Zenon DEF KeyWrite
<1>11. CertWrite(p, writes[p][1])' /\ PolicyWrite(p, writes[p][1])'
  BY <1>4, <1>6, <1>7, Zenon DEF CertWrite, PolicyWrite
<1>12. Public(k)[2] = k /\ k <= keys' /\ (p = "keygen" => f[2] = "auth_key.pub")
  <2>1. p = "keygen" => f[2] = "auth_key.pub"
    BY <1>0, <1>3, <1>4, SMTT(30) DEF FirstWrite, KeyFiles
  <2>2. k <= keys
    BY <1>0, <1>3, <1>4, Zenon DEF FirstWrite, k
  <2> QED BY <2>1, <2>2, Parts, Zenon
<1>13. FirstWrite(p, writes[p][1])'
  BY <1>4, <1>6, <1>7, <1>8, <1>9, <1>10, <1>11, <1>12, ZenonT(40) DEF FirstWrite
<1> QED BY <1>3, <1>4, <1>6, <1>7, <1>12, <1>13, Zenon DEF k

\* A queue with a new key pair.
LEMMA FirstGenerated ==
    ASSUME RunInv, NEW p \in Process, NEW f \in KeyFiles, Generate(p, f[1], f[2]), UNCHANGED file,
           p = "keygen" => f[1] = "auth_key",
           f[1] # "auth_key" => file[f[1]] = Missing
    PROVE  /\ FirstWrite(p, writes[p][1])' /\ ~writes'[p][1].open
           /\ writes'[p][1].content[2] = keys + 1 /\ writes'[p][1].file = f[1]
           /\ \A q \in Process \ {p} : writes'[q] = writes[q]
           /\ writes'[p] # <<>>
<1> DEFINE v == Put(f[1], Private(keys'), TRUE)
           w == Put(f[2], Public(keys'), TRUE)
<1>0. /\ keys \in Nat /\ keys' = keys + 1 /\ keys' \in Nat /\ writes \in [Process -> Seq(Write)]
      /\ writes' = [writes EXCEPT ![p] = <<v, w>>]
  BY Generated, ZenonT(40) DEF RunInv, Types
<1>1. v.file = f[1] /\ v.content = Private(keys') /\ v.new /\ ~v.open
  BY Zenon DEF Put
<1>2. Len(<<v, w>>) = 2 /\ <<v, w>>[1] = v /\ <<v, w>>[2] = w /\ <<v, w>> # <<>>
  BY Zenon
<1>3. w = Put(f[2], Public(keys'), TRUE)
  BY Zenon
<1> HIDE DEF v, w
<1>4. writes'[p] = <<v, w>> /\ \A q \in Process \ {p} : writes'[q] = writes[q]
  BY <1>0, Zenon
<1>5. Len(writes'[p]) = 2 /\ writes'[p][1] = v /\ writes'[p][2] = w /\ writes'[p] # <<>>
  BY <1>2, <1>4, Zenon
<1>6. Private(keys')[2] = keys'
  BY Parts, Zenon
<1>7. /\ f[1] \in PrivateFile /\ f[1] \notin PublicFile \cup CertFile \cup PolicyFile
      /\ f[1] \notin {"own_key", "own_pub", "own_cert", "https_cert.pem"}
      /\ \A g \in KeyFiles : g[2] # f[1] /\ (g[1] = f[1] => g[2] = f[2])
  BY DEF KeyFiles, PrivateFile, PublicFile, CertFile, PolicyFile
<1>8. Fits(f[1], Private(keys'))
  BY <1>7, Parts, Zenon DEF Fits
<1>9. KeyWrite(p, writes[p][1])'
  BY <1>1, <1>3, <1>5, <1>6, <1>7, ZenonT(40) DEF KeyWrite
<1>10. CertWrite(p, writes[p][1])' /\ PolicyWrite(p, writes[p][1])'
  BY <1>1, <1>5, <1>7, Zenon DEF CertWrite, PolicyWrite
<1>11. keys' <= keys'
  BY <1>0
<1>12. FirstWrite(p, writes[p][1])'
  BY <1>1, <1>5, <1>6, <1>7, <1>8, <1>9, <1>10, <1>11, ZenonT(40) DEF FirstWrite
<1> QED BY <1>0, <1>1, <1>4, <1>5, <1>6, <1>12, Zenon

\* A queue with one file, a certificate or a policy.
LEMMA FirstOne ==
    ASSUME RunInv, NEW f \in PolicyFile \cup {"https_cert.pem"}, NEW c \in Content, NEW new \in BOOLEAN,
           writes' = [writes EXCEPT !["run"] = <<Put(f, c, new)>>], Fits(f, c),
           new <=> f = "https_cert.pem",
           new => file'[f] = Missing /\ file'[c[3]] = Private(c[2]),
           f \in PolicyFile => f = policy_path' /\ ~Binding(f)'
    PROVE  /\ FirstWrite("run", writes["run"][1])' /\ ~writes'["run"][1].open
           /\ writes'["run"][1].file = f /\ writes'["run"] # <<>>
           /\ writes'["keygen"] = writes["keygen"]
<1> DEFINE v == Put(f, c, new)
<1>0. f \in HomeFile
  BY Zenon DEF HomeFile, PolicyFile
<1>1. /\ writes'["keygen"] = writes["keygen"]
      /\ writes'["run"] # <<>> /\ Len(writes'["run"]) = 1 /\ writes'["run"][1] = v
  BY <1>0, OneWrite, ZenonT(40) DEF RunInv, Types
<1>2. v.file = f /\ v.content = c /\ (v.new <=> new) /\ ~v.open
  BY Zenon DEF Put
<1> HIDE DEF v
<1>3. /\ f \notin PrivateFile \cup PublicFile /\ f \notin {"own_key", "own_pub", "own_cert"}
      /\ \A g \in KeyFiles : g[1] # f /\ g[2] # f
      /\ f = "https_cert.pem" <=> f \notin PolicyFile
  BY DEF PrivateFile, PublicFile, PolicyFile, KeyFiles
<1>4. KeyWrite("run", writes["run"][1])'
  BY <1>1, <1>2, <1>3, ZenonT(40) DEF KeyWrite
<1>5. CertWrite("run", writes["run"][1])' /\ PolicyWrite("run", writes["run"][1])'
  BY <1>1, <1>2, <1>3, Zenon DEF CertWrite, PolicyWrite, Binding
<1>6. FirstWrite("run", writes["run"][1])'
  BY <1>1, <1>2, <1>3, <1>4, <1>5, ZenonT(40) DEF FirstWrite
<1> QED BY <1>1, <1>2, <1>6, Zenon

\* How a queue comes to be what it is: it is left alone, its first write is begun,
\* or it starts with another write.
Kept(p) == writes[p] # <<>> /\ writes'[p] = writes[p]

\* A write is begun that finds its new file missing.
Begun(p) ==
    /\ writes[p] # <<>> /\ writes'[p][1].file = writes[p][1].file
    /\ writes'[p][1].content = writes[p][1].content
    /\ writes[p][1].new => file[writes[p][1].file] = Missing
    /\ \A q \in Process \ {p} : writes'[q] = writes[q]

\* Another write: a key in it is new, or the public part of the private key before it.
Fresh(p) ==
    /\ ~writes'[p][1].open
    /\ \A q \in Process \ {p} : writes'[q] = writes[q]
    /\ writes'[p][1].file \in PrivateFile \cup PublicFile =>
         \/ writes'[p][1].content[2] = keys + 1
         \/ /\ writes[p] # <<>> /\ writes[p][1].file \in PrivateFile
            /\ writes'[p][1].content[2] = writes[p][1].content[2]

\* What is proved of every queue that is not empty.
QueueMoves(p) == FirstWrite(p, writes[p][1])' /\ (Kept(p) \/ Begun(p) \/ Fresh(p))

\* A queue that is left alone.
LEMMA Quiet ==
    ASSUME RunInv, RunStep, NEW p \in Process, writes'[p] # <<>>, writes'[p] = writes[p],
           writes[p][1].file \in PolicyFile =>
             policy_path' = policy_path /\ starts' = starts /\ acked'[writes[p][1].file] = acked[writes[p][1].file]
    PROVE  QueueMoves(p)
<1>1. PICK w : w = writes[p][1]
  BY Zenon
<1>2. FirstWrite(p, w)'
  BY <1>1, FirstKept, Zenon
<1>3. w = writes'[p][1]
  BY <1>1, Zenon
<1>4. FirstWrite(p, writes[p][1])'
  BY <1>2, <1>3, ZenonT(40) DEF FirstWrite, KeyWrite, CertWrite, PolicyWrite, Binding
<1> QED BY <1>4, Zenon DEF QueueMoves, Kept

\* A process that writes.
LEMMA WriterMoves ==
    ASSUME RunInv, RunStep, NEW p \in Process, writes'[p] # <<>>,
           NEW q \in Process, Create(q) \/ Fill(q) \/ Kill(q)
    PROVE  QueueMoves(p)
<1> USE DEF RunInv
<1>0. writes \in [Process -> Seq(Write)]
  BY Zenon DEF Types
<1>1. CASE p # q
  <2>1. writes'[p] = writes[p] /\ UNCHANGED <<policy_path, starts>>
    BY <1>0, <1>1, Zenon DEF Create, Fill, Kill, setup
  <2>2. FirstWrite(p, writes[p][1])
    BY <2>1, Zenon DEF Queues
  <2>3. UNCHANGED acked \/ (q = "run" /\ Fill(q))
    BY Zenon DEF Create, Fill, Kill
  <2>4. q = "run" => writes[p][1].file \notin PolicyFile
    BY <1>1, <2>2, Zenon DEF FirstWrite, Process, PolicyFile
  <2> QED BY <2>1, <2>3, <2>4, Quiet, Zenon
<1>2. CASE p = q /\ Kill(q)
  BY <1>0, <1>2, Zenon DEF Kill
<1>3. CASE p = q /\ Create(q)
  <2>1. /\ writes[p] # <<>> /\ ~writes[p][1].open
        /\ writes[p][1].new => file[writes[p][1].file] = Missing
        /\ file' = [file EXCEPT ![writes[p][1].file] = Partial]
        /\ writes' = [writes EXCEPT ![p][1].open = TRUE]
        /\ UNCHANGED <<setup, keys, acked, starts>>
    BY <1>0, <1>3, First, Zenon DEF Create
  <2>2. FirstWrite(p, writes[p][1])'
    BY <2>1, FirstOpened, Zenon
  <2>3. Begun(p)
    BY <1>0, <2>1, Opened, Zenon DEF Begun
  <2> QED BY <2>2, <2>3, Zenon DEF QueueMoves
<1>4. CASE p = q /\ Fill(q)
  <2>1. /\ writes[p] # <<>> /\ writes[p][1].open
        /\ file' = [file EXCEPT ![writes[p][1].file] = writes[p][1].content]
        /\ writes' = [writes EXCEPT ![p] = Tail(writes[p])]
        /\ UNCHANGED keys
    BY <1>0, <1>4, First, Zenon DEF Fill
  <2>2. /\ FirstWrite(p, writes[p][1])' /\ ~writes'[p][1].open
        /\ writes'[p][1].content[2] = writes[p][1].content[2]
        /\ writes[p][1].file \in PrivateFile
    BY <2>1, FirstDone, ZenonT(40)
  <2>3. Fresh(p)
    BY <1>0, <2>1, <2>2, Zenon DEF Fresh
  <2> QED BY <2>2, <2>3, Zenon DEF QueueMoves
<1> QED BY <1>1, <1>2, <1>3, <1>4, Zenon

\* The process that generates a key pair, and the other one.
LEMMA GenerateMoves ==
    ASSUME RunInv, RunStep, NEW p \in Process, writes'[p] # <<>>,
           NEW q \in Process, NEW f \in KeyFiles, Generate(q, f[1], f[2]), UNCHANGED <<file, policy_path, acked, starts>>,
           q = "keygen" => f[1] = "auth_key",
           f[1] # "auth_key" => file[f[1]] = Missing
    PROVE  QueueMoves(p)
<1>1. /\ FirstWrite(q, writes[q][1])' /\ ~writes'[q][1].open
      /\ writes'[q][1].content[2] = keys + 1
      /\ \A o \in Process \ {q} : writes'[o] = writes[o]
  BY FirstGenerated, ZenonT(40)
<1>2. CASE p = q
  BY <1>1, <1>2, Zenon DEF QueueMoves, Fresh
<1>3. CASE p # q
  BY <1>1, <1>3, Quiet, Zenon
<1> QED BY <1>2, <1>3, Zenon

\* The server with one file to write, and the other process.
LEMMA OneMoves ==
    ASSUME RunInv, RunStep, NEW p \in Process, writes'[p] # <<>>,
           FirstWrite("run", writes["run"][1])', ~writes'["run"][1].open,
           writes'["run"][1].file \notin PrivateFile \cup PublicFile,
           writes'["keygen"] = writes["keygen"]
    PROVE  QueueMoves(p)
<1>1. CASE p = "run"
  BY <1>1, Zenon DEF QueueMoves, Fresh, Process
<1>2. CASE p = "keygen"
  <2>1. FirstWrite(p, writes[p][1])
    BY <1>2, Zenon DEF RunInv, Queues
  <2>2. writes[p][1].file \notin PolicyFile
    BY <1>2, <2>1, ZenonT(40) DEF FirstWrite, PolicyFile
  <2> QED BY <1>2, <2>2, Quiet, Zenon
<1> QED BY <1>1, <1>2, Zenon DEF Process

\* Every step moves the queues so.
LEMMA QueuesMove ==
    ASSUME RunInv, RunStep, NEW p \in Process, writes'[p] # <<>>
    PROVE  QueueMoves(p)
<1> USE DEF RunInv
<1>0. /\ writes \in [Process -> Seq(Write)] /\ "run" \in Process /\ "keygen" \in Process
      /\ <<"auth_key", "auth_key.pub">> \in KeyFiles /\ <<"https_key", "https_key.pub">> \in KeyFiles
  BY Zenon DEF Types, Process, KeyFiles
<1>1. ASSUME NEW q \in Process, Create(q) \/ Fill(q) \/ Kill(q) PROVE QueueMoves(p)
  BY <1>1, WriterMoves, Zenon
<1>2. CASE Keygen
  BY <1>0, <1>2, GenerateMoves, Zenon DEF Keygen, setup
<1>3. ASSUME writes' = writes, UNCHANGED <<policy_path, acked, starts>> PROVE QueueMoves(p)
  BY <1>3, Quiet, Zenon
<1>4. CASE EnsureAuthKeyPair
  BY <1>0, <1>3, <1>4, GenerateMoves, Zenon DEF EnsureAuthKeyPair, setup
<1>5. CASE EnsureHttpsKeyPair
  BY <1>0, <1>3, <1>5, GenerateMoves, Zenon DEF EnsureHttpsKeyPair, setup
<1>6. CASE UNCHANGED runVars \/ PluginStep \/ AdminAuth \/ Serve \/ Bind \/ Connect("token") \/ Connect("attestation")
  BY <1>3, <1>6, Zenon DEF runVars, setup, PluginStep, AdminAuth, Serve, Bind, Connect
<1>7. ASSUME NEW c \in Config, Start(c) PROVE QueueMoves(p)
  <2>1. p = "keygen" /\ writes' = writes /\ UNCHANGED acked
    BY <1>7, Zenon DEF Start, StageInv, Process
  <2>2. FirstWrite(p, writes[p][1])
    BY <2>1, Zenon DEF Queues
  <2>3. writes[p][1].file \notin PolicyFile
    BY <2>1, <2>2, ZenonT(40) DEF FirstWrite, PolicyFile
  <2> QED BY <2>1, <2>3, Quiet, Zenon
<1>8. CASE EnsureHttpsCert
  <2>1. ASSUME ~UNCHANGED writes PROVE QueueMoves(p)
    <3>1. /\ file[private_key][1] = "private" /\ cfg.trustee /\ file["https_cert.pem"] = Missing /\ file' = file
          /\ writes' = [writes EXCEPT !["run"] = <<Put("https_cert.pem", Cert(file[private_key][2], private_key), TRUE)>>]
      BY <1>8, <2>1, Where, Zenon DEF EnsureHttpsCert, StageInv, Types, Begin
    <3>2. private_key \in {"own_key", "https_key"}
      BY <3>1, Configured, Zenon DEF private_key, Types
    <3>3. PICK c : c = Cert(file[private_key][2], private_key)
      BY Zenon
    <3>4. c \in Content /\ c[1] = "cert" /\ c[2] = file[private_key][2] /\ c[3] = private_key
      BY <3>1, <3>2, <3>3, Kinds, Parts, SMTT(30) DEF Types, HomeFile, Content
    <3>5. file'[c[3]] = Private(c[2])
      BY <3>1, <3>2, <3>4, Kinds DEF Types, HomeFile
    <3>6. Fits("https_cert.pem", c)
      BY <3>4, Zenon DEF Fits, PrivateFile, PublicFile, PolicyFile
    <3>7. /\ FirstWrite("run", writes["run"][1])' /\ ~writes'["run"][1].open
          /\ writes'["run"][1].file = "https_cert.pem" /\ writes'["keygen"] = writes["keygen"]
      <4>1. TRUE \in BOOLEAN /\ "https_cert.pem" \notin PolicyFile
        BY Zenon DEF PolicyFile
      <4>2. writes' = [writes EXCEPT !["run"] = <<Put("https_cert.pem", c, TRUE)>>]
        BY <3>1, <3>3, Zenon
      <4> QED BY <3>1, <3>4, <3>5, <3>6, <4>1, <4>2, FirstOne, Zenon
    <3> QED BY <3>7, OneMoves, Zenon DEF PrivateFile, PublicFile
  <2> QED BY <1>3, <1>8, <2>1, ZenonT(40) DEF EnsureHttpsCert, setup
<1>9. ASSUME NEW f \in PolicyFile, NEW c \in Content, c[1] = "policy",
             c[2] = "allow_all" => f = "allow_all.rego",
             writes' = [writes EXCEPT !["run"] = <<Put(f, c, FALSE)>>],
             f = policy_path', ~Binding(f)'
      PROVE  QueueMoves(p)
  <2>1. Fits(f, c) /\ FALSE \in BOOLEAN /\ f # "https_cert.pem" /\ f \notin PrivateFile \cup PublicFile
    BY <1>9, Zenon DEF Fits, PrivateFile, PublicFile, CertFile, PolicyFile
  <2>2. /\ FirstWrite("run", writes["run"][1])' /\ ~writes'["run"][1].open
        /\ writes'["run"][1].file = f /\ writes'["keygen"] = writes["keygen"]
    BY <1>9, <2>1, FirstOne, Zenon
  <2> QED BY <2>1, <2>2, OneMoves, Zenon
<1>10. CASE SetPolicyPath
  <2>0. stage = FromPolicy /\ UNCHANGED <<acked, starts>>
    BY <1>10, Where, Zenon DEF SetPolicyPath, Begin, Types
  <2>1. ASSUME ~UNCHANGED <<writes, policy_path>> PROVE QueueMoves(p)
    <3>1. PICK f \in PolicyFile \ {"policy.rego"}, q \in {"allow_all", "deny_all"} :
             /\ q = "allow_all" => f = "allow_all.rego"
             /\ writes' = [writes EXCEPT !["run"] = <<Put(f, Rego(q), FALSE)>>]
             /\ policy_path' = f
      BY <1>10, <2>1, RunAssumption, Zenon DEF SetPolicyPath, PolicyFile, HomeFile
    <3>2. Rego(q) \in Content /\ Rego(q)[1] = "policy" /\ Rego(q)[2] = q
      BY Parts DEF Content, PolicyName
    <3>3. ~Binding(f)'
      <4>1. ~Up /\ ~Down
        BY <2>0, Heads, Zenon DEF Up, Down
      <4>2. acked[f] # None => acked[f][2] \in Nat /\ acked[f][2] < starts
        BY <4>1, Zenon DEF AckedInv, Types
      <4>3. \A i, n \in Nat : i < n => i # n
        OBVIOUS
      <4>4. starts \in Nat
        BY Zenon DEF Types
      <4> QED BY <2>0, <3>1, <4>2, <4>3, <4>4, Zenon DEF Binding
    <3> QED BY <1>9, <3>1, <3>2, <3>3, Zenon
  <2> QED BY <1>3, <2>0, <2>1, Zenon
<1>11. CASE PolicyEngine
  <2>1. ASSUME ~UNCHANGED writes PROVE QueueMoves(p)
    <3>1. /\ file[policy_path] = Missing /\ UNCHANGED <<policy_path, acked, starts>>
          /\ writes' = [writes EXCEPT !["run"] = <<Put(policy_path, Rego("default"), FALSE)>>]
      BY <1>11, <2>1, Zenon DEF PolicyEngine, setup
    <3>2. ~Down
      BY <1>11, Where, Heads, Zenon DEF PolicyEngine, Begin, Types, Down
    <3>3. policy_path \in PolicyFile
      BY <3>2, Zenon DEF StageInv
    <3>4. PICK f \in PolicyFile : f = policy_path
      BY <3>3, Zenon
    <3>6. ~Binding(f)'
      BY <3>1, <3>4, Parts, Zenon DEF AckedInv, Binding
    <3>5. Rego("default") \in Content /\ Rego("default")[1] = "policy" /\ Rego("default")[2] # "allow_all"
      BY Parts DEF Content, PolicyName
    <3> QED BY <1>9, <3>1, <3>4, <3>5, <3>6, Zenon
  <2> QED BY <1>3, <1>11, <2>1, Zenon DEF PolicyEngine, setup
<1>12. ASSUME NEW q \in Policy, SetPolicy(q) PROVE QueueMoves(p)
  <2>1. PICK f \in PolicyFile : f = policy_path
    BY <1>12, Heads, Zenon DEF SetPolicy, StageInv, Up, Down
  <2>2. /\ writes' = [writes EXCEPT !["run"] = <<Put(f, Rego(q), FALSE)>>]
        /\ policy_path' = f /\ ~Binding(f)'
    BY <1>12, <2>1, Zenon DEF SetPolicy, setup, Types, Binding
  <2>3. Rego(q) \in Content /\ Rego(q)[1] = "policy" /\ Rego(q)[2] # "allow_all"
    BY Parts, RunAssumption DEF Content, PolicyName
  <2> QED BY <1>9, <2>1, <2>2, <2>3, Zenon
<1> QED
  BY <1>0, <1>1, <1>2, <1>4, <1>5, <1>6, <1>7, <1>8, <1>10, <1>11, <1>12, ZenonT(40) DEF RunStep, RunNext

\* The first write of every queue stays as described.
LEMMA QueuesStep ==
    ASSUME RunInv, RunStep
    PROVE  Queues'
  BY QueuesMove, Zenon DEF Queues, QueueMoves

\* Every step keeps the two processes apart.
LEMMA RivalsStep ==
    ASSUME RunInv, RunStep
    PROVE  Rivals'
<1> USE DEF RunInv
<1> SUFFICES ASSUME writes'["run"] # <<>>, writes'["keygen"] # <<>>
             PROVE  /\ writes'["run"][1].open /\ writes'["keygen"][1].open =>
                         writes'["run"][1].file # writes'["keygen"][1].file
                    /\ writes'["run"][1].file \in PrivateFile \cup PublicFile =>
                         writes'["run"][1].content[2] # writes'["keygen"][1].content[2]
  BY Zenon DEF Rivals
<1>1. "run" \in Process /\ "keygen" \in Process /\ keys \in Nat
  BY Zenon DEF Process, Types
<1>2. QueueMoves("run") /\ QueueMoves("keygen")
  BY <1>1, QueuesMove, Zenon
<1> DEFINE Id(p) == writes[p] # <<>> => FirstWrite(p, writes[p][1]) /\ writes[p][1] \in Write
<1>3. Id("run") /\ Id("keygen")
  BY <1>1, First, Zenon DEF Queues, Types
<1>4. ASSUME NEW p \in Process, writes[p] # <<>>, writes[p][1].file \in PrivateFile \cup PublicFile
      PROVE  writes[p][1].content[2] # keys + 1
  <2>1. writes[p][1].content[2] \in Nat /\ writes[p][1].content[2] <= keys
    BY <1>1, <1>3, <1>4, Kinds, Zenon DEF FirstWrite, Fits, Write, Process
  <2>2. \A i, n \in Nat : i <= n => i # n + 1
    BY SMTT(30)
  <2> QED BY <1>1, <2>1, <2>2, Zenon
<1>5. ASSUME writes'["run"][1].open, writes'["keygen"][1].open, writes'["run"][1].file = writes'["keygen"][1].file
      PROVE  FALSE
  <2>1. CASE Kept("run") /\ Kept("keygen")
    BY <1>5, <2>1, Zenon DEF Kept, Rivals
  <2>2. ASSUME NEW p \in Process, NEW q \in Process \ {p}, Begun(p) PROVE FALSE
    <3>1. writes[p] # <<>> /\ writes'[q] = writes[q] /\ writes[q] # <<>> /\ writes[q][1].open
          /\ writes[p][1].file = writes[q][1].file
      BY <1>5, <2>2, Zenon DEF Begun, Process
    <3>2. FirstWrite(p, writes[p][1]) /\ FirstWrite(q, writes[q][1])
      BY <3>1, Zenon DEF Queues
    <3>3. writes[p][1].file \in {"auth_key", "auth_key.pub"}
      BY <2>2, <3>1, <3>2, ZenonT(40) DEF FirstWrite, Process
    <3>4. writes[p][1].new
      BY <3>2, <3>3, ZenonT(40) DEF FirstWrite, PolicyFile
    <3>5. file[writes[p][1].file] = Missing /\ file[writes[p][1].file] = Partial
      BY <2>2, <3>1, <3>2, <3>4, ZenonT(40) DEF Begun, FirstWrite
    <3> QED BY <3>5, Parts, Zenon
  <2> QED BY <1>1, <1>2, <1>5, <2>1, <2>2, Zenon DEF QueueMoves, Fresh
<1> DEFINE Old(p) == /\ writes[p] # <<>> /\ writes[p][1].file \in PrivateFile \cup PublicFile
                     /\ writes'[p][1].content[2] = writes[p][1].content[2]
           New(p) == /\ writes'[p][1].content[2] = keys + 1
                     /\ \A q \in Process \ {p} : writes'[q] = writes[q]
<1>6. ASSUME NEW p \in Process, writes'[p][1].file \in PrivateFile \cup PublicFile PROVE Old(p) \/ New(p)
  BY <1>1, <1>2, <1>6, ZenonT(40) DEF QueueMoves, Kept, Begun, Fresh, Process
<1>7. writes'["keygen"][1].file \in PrivateFile \cup PublicFile
  BY <1>2, ZenonT(40) DEF QueueMoves, FirstWrite, PrivateFile, PublicFile
<1>8. ASSUME writes'["run"][1].file \in PrivateFile \cup PublicFile,
             writes'["run"][1].content[2] = writes'["keygen"][1].content[2]
      PROVE  FALSE
  <2>1. CASE Old("run") /\ Old("keygen")
    BY <1>8, <2>1, Zenon DEF Rivals
  <2>2. CASE Old("run") /\ New("keygen")
    BY <1>1, <1>4, <1>8, <2>2, Zenon
  <2>3. CASE Old("keygen") /\ New("run")
    BY <1>1, <1>4, <1>8, <2>3, Zenon
  <2>4. CASE New("run") /\ New("keygen")
    <3>1. writes'["keygen"] = writes["keygen"]
      BY <1>1, <2>4, Zenon
    <3> QED BY <1>1, <1>4, <1>7, <2>4, <3>1, Zenon
  <2> QED BY <1>1, <1>6, <1>7, <1>8, <2>1, <2>2, <2>3, <2>4, ZenonT(40)
<1> QED BY <1>5, <1>8, Zenon

-----------------------------------------------------------------------------
(* The stages, the policies and the keys that were read.                   *)

\* A server that is down or up, or starts its plugins, is at no other stage.
LEMMA NotAt ==
    ASSUME stage \in Stage, 
           NEW s \in {"auth_key", "https_key", "https_cert", "policy", "plugins", "token", "engine", "admin",
                      "attestation", "tls", "bind"},
           At(s)
    PROVE  ~Down /\ ~Up /\ ~At("plugin")
  BY Where, Heads, ZenonT(40) DEF Down, Up

\* The stages that follow.
LEMMA Moved ==
    ASSUME RunInv, RunStep
    PROVE  \/ UNCHANGED stage
           \/ \E c \in Config : Start(c)
           \/ Kill("run")
           \/ stage' = <<"failed">> /\ writes'["run"] = <<>>
           \/ stage = FromAuth /\ stage' = FromHttps /\ EnsureAuthKeyPair
           \/ stage = FromHttps /\ stage' = FromCert /\ EnsureHttpsKeyPair
           \/ stage = FromCert /\ stage' = FromPolicy /\ EnsureHttpsCert
           \/ stage = FromPolicy /\ stage' = FromPlugins /\ SetPolicyPath
           \/ stage = FromPlugins /\ stage' = FromPlugin /\ Begin("plugins") /\ PluginStep
           \/ stage = FromPlugin /\ stage' = FromToken /\ PluginStep
           \/ stage = FromToken /\ stage' = FromEngine /\ Connect("token")
           \/ stage = FromEngine /\ stage' = FromAdmin /\ PolicyEngine
           \/ stage = FromAdmin /\ stage' = FromAttest /\ AdminAuth
           \/ stage = FromAttest /\ stage' = FromTls /\ Connect("attestation")
           \/ stage = FromTls /\ stage' = FromBind /\ Serve
           \/ stage = FromBind /\ stage' = <<"up">> /\ Bind
<1> USE DEF RunInv
<1>0. stage \in Stage /\ writes \in [Process -> Seq(Write)] /\ "run" \in Process /\ "keygen" \in Process
  BY Zenon DEF Types, Process
<1>1. CASE EnsureAuthKeyPair \/ EnsureHttpsKeyPair \/ SetPolicyPath \/ PolicyEngine
  BY <1>0, <1>1, Where, Follows, ZenonT(40) DEF EnsureAuthKeyPair, EnsureHttpsKeyPair, SetPolicyPath, PolicyEngine, Begin, Done
<1>2. CASE EnsureHttpsCert
  BY <1>0, <1>2, Where, Follows, Zenon DEF EnsureHttpsCert, Begin, Done, Fail
<1>3. CASE AdminAuth
  BY <1>0, <1>3, Where, Follows, ZenonT(40) DEF AdminAuth, Begin, Done, Fail
<1>4. CASE Serve
  BY <1>0, <1>4, Where, Follows, Zenon DEF Serve, Begin, Done, Fail
<1>9. CASE Connect("token") \/ Connect("attestation")
  BY <1>0, <1>9, Where, Follows, Zenon DEF Connect, Begin, Done, Fail
<1>10. CASE Bind
  BY <1>0, <1>10, Where, Follows, Zenon DEF Bind, Begin, Done, Fail
<1>5. CASE PluginStep
  BY <1>0, <1>5, Where, Follows, Zenon DEF PluginStep, Begin, Done, Fail, StageInv
<1>6. ASSUME NEW p \in Process, Create(p)
      PROVE  UNCHANGED stage \/ (stage' = <<"failed">> /\ writes'["run"] = <<>>)
  BY <1>0, <1>6, Zenon DEF Create
<1>7. ASSUME NEW p \in Process, Fill(p) PROVE UNCHANGED stage
  BY <1>7, Zenon DEF Fill
<1>8. CASE Kill("keygen") \/ Keygen \/ UNCHANGED runVars \/ \E q \in Policy : SetPolicy(q)
  BY <1>8, Zenon DEF Kill, Keygen, runVars, SetPolicy
<1> QED BY <1>1, <1>2, <1>3, <1>4, <1>5, <1>6, <1>7, <1>8, <1>9, <1>10, Zenon DEF RunStep, RunNext

\* The actions that may happen at any stage of the server.
LEMMA AnyStage ==
    ASSUME RunInv, RunStep, Down \/ Up \/ At("plugin")
    PROVE  \/ \E c \in Config : Start(c)
           \/ \E p \in Process : Create(p) \/ Fill(p) \/ Kill(p)
           \/ \E q \in Policy : SetPolicy(q)
           \/ Keygen \/ PluginStep \/ UNCHANGED runVars
<1>1. stage \in Stage /\ "run" \in Process /\ "keygen" \in Process
  BY Zenon DEF RunInv, Types, Process
<1>2. ~(\/ EnsureAuthKeyPair \/ EnsureHttpsKeyPair \/ EnsureHttpsCert
        \/ SetPolicyPath \/ PolicyEngine \/ AdminAuth \/ Serve \/ Bind \/ Connect("token") \/ Connect("attestation"))
  BY <1>1, NotAt, ZenonT(40) DEF EnsureAuthKeyPair, EnsureHttpsKeyPair, EnsureHttpsCert, SetPolicyPath, PolicyEngine,
     AdminAuth, Serve, Bind, Connect, Begin
<1> QED BY <1>1, <1>2, Zenon DEF RunStep, RunNext

\* The queue of the server when it is down, starts its plugins, or is up.
LEMMA ServerQueue ==
    ASSUME RunInv, RunStep
    PROVE  /\ Down' \/ At("plugin")' => writes'["run"] = <<>>
           /\ Up' /\ writes'["run"] # <<>> => writes'["run"][1].file \in PolicyFile
<1> USE DEF RunInv
<1>0. /\ stage \in Stage /\ stage' \in Stage /\ writes \in [Process -> Seq(Write)]
      /\ "run" \in Process /\ "keygen" \in Process
  BY StageStep, Zenon DEF Types, Process
<1>1. ASSUME Down \/ At("plugin"), UNCHANGED stage PROVE writes'["run"] = <<>>
  <2>1. writes["run"] = <<>> /\ ~Up
    BY <1>0, <1>1, Where, Heads, Zenon DEF StageInv, Down, Up
  <2>2. ASSUME NEW p \in Process, Create(p) \/ Fill(p) \/ Kill(p) PROVE writes'["run"] = <<>>
    BY <1>0, <2>1, <2>2, Zenon DEF Create, Fill, Kill, Process
  <2>3. CASE Keygen
    BY <1>0, <2>1, <2>3, Zenon DEF Keygen, Generate
  <2>4. CASE PluginStep \/ UNCHANGED runVars \/ \E c \in Config : Start(c)
    BY <2>1, <2>4, Zenon DEF PluginStep, runVars, Start
  <2>5. ~\E q \in Policy : SetPolicy(q)
    BY <2>1, Zenon DEF SetPolicy
  <2> QED BY <1>1, <2>2, <2>3, <2>4, <2>5, AnyStage, Zenon
<1>2. ASSUME Up, UNCHANGED stage, writes'["run"] # <<>> PROVE writes'["run"][1].file \in PolicyFile
  <2>0. writes["run"] # <<>> => writes["run"][1].file \in PolicyFile
    BY <1>2, Zenon DEF StageInv
  <2>1. CASE writes'["run"] = writes["run"]
    BY <1>2, <2>0, <2>1, Zenon
  <2>2. CASE Create("run") /\ writes[ "run"] # <<>> /\ writes' = [writes EXCEPT !["run"][1].open = TRUE]
    BY <1>0, <2>0, <2>2, Opened, Zenon
  <2>3. CASE Fill("run")
    <3>1. /\ writes["run"] # <<>> /\ writes["run"][1].open
          /\ file' = [file EXCEPT ![writes["run"][1].file] = writes["run"][1].content]
          /\ writes' = [writes EXCEPT !["run"] = Tail(writes["run"])] /\ UNCHANGED keys
      BY <1>0, <2>3, First, Zenon DEF Fill
    <3>2. writes["run"][1].file \in PrivateFile
      BY <1>0, <1>2, <3>1, FirstDone, Zenon
    <3> QED BY <2>0, <3>1, <3>2, Zenon DEF PrivateFile, PolicyFile
  <2>4. ASSUME NEW q \in Policy, SetPolicy(q) PROVE writes'["run"][1].file \in PolicyFile
    <3>1. policy_path \in PolicyFile
      BY <1>2, Heads, Zenon DEF StageInv, Up, Down
    <3>2. policy_path \in HomeFile /\ Rego(q) \in Content /\ FALSE \in BOOLEAN
      BY <3>1 DEF HomeFile, PolicyFile, Content, PolicyName
    <3>3. writes'["run"][1] = Put(policy_path, Rego(q), FALSE)
      BY <1>0, <2>4, <3>2, OneWrite, Zenon DEF SetPolicy
    <3> QED BY <3>1, <3>3 DEF Put
  <2>5. ASSUME NEW p \in Process, Create(p) \/ Fill(p) \/ Kill(p) PROVE writes'["run"][1].file \in PolicyFile
    <3>1. CASE p = "keygen"
      <4>1. writes'["run"] = writes["run"]
        BY <1>0, <2>5, <3>1, Zenon DEF Create, Fill, Kill
      <4> QED BY <2>1, <4>1, Zenon
    <3>2. CASE p = "run"
      BY <1>0, <1>2, <2>2, <2>3, <2>5, <3>2, Zenon DEF Create, Kill
    <3> QED BY <3>1, <3>2, Zenon DEF Process
  <2>6. CASE Keygen
    BY <1>0, <2>1, <2>6, Zenon DEF Keygen, Generate
  <2>7. CASE PluginStep \/ UNCHANGED runVars \/ \E c \in Config : Start(c)
    BY <2>1, <2>7, Zenon DEF PluginStep, runVars, Start
  <2> QED BY <1>2, <2>4, <2>5, <2>6, <2>7, AnyStage, Zenon
<1>3. ASSUME Down' \/ At("plugin")' PROVE writes'["run"] = <<>>
  <2>1. stage' \in {<<"down">>, <<"failed">>, FromPlugin}
    BY <1>0, <1>3, Heads DEF Down, At, Stage, AfterAuth, AfterHttps, AfterCert, AfterAdmin, AfterTls
  <2>2. CASE UNCHANGED stage
    BY <1>1, <1>3, <2>2, Zenon DEF Down, At
  <2>3. CASE Kill("run")
    BY <1>0, <2>3, Zenon DEF Kill
  <2>4. ~\E c \in Config : Start(c)
    BY <2>1, StagesForm, Heads, Zenon DEF Start
  <2> QED BY <2>1, <2>2, <2>3, <2>4, Moved, Heads, Zenon DEF Begin, PluginStep
<1>4. ASSUME Up', writes'["run"] # <<>> PROVE writes'["run"][1].file \in PolicyFile
  <2>1. stage' = <<"up">>
    BY <1>4, Zenon DEF Up
  <2>2. CASE UNCHANGED stage
    BY <1>2, <1>4, <2>1, <2>2, Zenon DEF Up
  <2>3. ~Kill("run") /\ ~\E c \in Config : Start(c)
    BY <2>1, StagesForm, Heads, Zenon DEF Start, Kill
  <2>4. ~Bind
    BY <1>4, Zenon DEF Bind, Begin
  <2> QED BY <1>4, <2>1, <2>2, <2>3, <2>4, Moved, Heads, Zenon
<1> QED BY <1>3, <1>4, Zenon

\* What only some of the actions change.
LEMMA SetupKept ==
    ASSUME RunStep, ~\E c \in Config : Start(c)
    PROVE  /\ UNCHANGED <<cfg, starts>>
           /\ AdminAuth \/ UNCHANGED admin
           /\ Serve \/ UNCHANGED tls
           /\ SetPolicyPath \/ UNCHANGED policy_path
  BY Zenon DEF RunStep, RunNext, PluginStep, runVars, setup, Create, Fill, Keygen, Kill, EnsureAuthKeyPair,
     EnsureHttpsKeyPair, EnsureHttpsCert, SetPolicyPath, PolicyEngine, AdminAuth, Serve, Bind, Connect, SetPolicy

\* Every step keeps what the stages say.
LEMMA StageInvStep ==
    ASSUME RunInv, RunStep
    PROVE  StageInv'
<1> USE DEF RunInv
<1>0. stage \in Stage /\ stage' \in Stage /\ cfg \in Config
  BY StageStep, Zenon DEF Types
<1>1. CASE \E c \in Config : Start(c)
  <2>1. PICK c \in Config : Start(c)
    BY <1>1, Zenon
  <2>2. policy_path' = "policy.rego" /\ cfg' = c /\ stage' = IF c.trustee THEN FromAuth ELSE FromPlugins
    BY <2>1, StagesForm, Configured, Zenon DEF Start
  <2>3. stage' \in {FromAuth, FromHttps, FromCert, FromPolicy} => cfg'.trustee
    BY <2>2, Heads, Zenon
  <2> QED BY <2>2, <2>3, ServerQueue, Zenon DEF StageInv, PolicyFile
<1>2. CASE ~\E c \in Config : Start(c)
  <2>1. UNCHANGED cfg /\ (SetPolicyPath \/ UNCHANGED policy_path)
    BY <1>2, SetupKept, Zenon
  <2>2. /\ (policy_path \in PolicyFile \/ (Down /\ policy_path = None))'
        /\ (policy_path = "allow_all.rego" => cfg.allow_all)'
    <3>1. CASE SetPolicyPath
      <4>1. policy_path \in PolicyFile
        BY <1>0, <3>1, NotAt, Zenon DEF SetPolicyPath, Begin, StageInv
      <4> QED BY <2>1, <3>1, <4>1, RunAssumption, Zenon DEF SetPolicyPath, StageInv, PolicyFile, HomeFile
    <3>2. CASE UNCHANGED policy_path
      <4>1. Down => Down'
        <5>1. ASSUME Down, ~Down' PROVE FALSE
          <6>1. stage \in {<<"down">>, <<"failed">>}
            BY <5>1, Zenon DEF Down
          <6>2. ~Kill("run") /\ stage' # <<"failed">> /\ ~UNCHANGED stage
            BY <5>1, Zenon DEF Kill, Down
          <6> QED BY <1>2, <6>1, <6>2, Moved, Heads, Zenon
        <5> QED BY <5>1, Zenon
      <4> QED BY <2>1, <3>2, <4>1, Zenon DEF StageInv
    <3> QED BY <2>1, <3>1, <3>2, Zenon
  <2>3. stage' \in {FromAuth, FromHttps, FromCert, FromPolicy} => cfg'.trustee
    BY <1>2, <2>1, Moved, Heads, ZenonT(40) DEF StageInv, Kill
  <2> QED BY <2>2, <2>3, ServerQueue, Zenon DEF StageInv
<1> QED BY <1>1, <1>2, Zenon

\* A policy is acknowledged when it is in the file.
LEMMA AckedMoves ==
    ASSUME RunInv, RunStep, NEW f \in PolicyFile, acked'[f] # acked[f], acked'[f] # None
    PROVE  /\ Up /\ UNCHANGED <<stage, starts>>
           /\ acked'[f][2] = starts /\ file'[f] = Rego(acked'[f][1])
<1> USE DEF RunInv
<1> DEFINE w == writes["run"][1]
           Acks == Fill("run") /\ Up /\ acked' = [acked EXCEPT ![policy_path] = <<Head(writes["run"]).content[2], starts>>]
<1>0. file \in [HomeFile -> Content] /\ acked \in [PolicyFile -> (PolicyName \X Nat) \cup {None}] /\ f \in HomeFile
  BY Zenon DEF Types, HomeFile, PolicyFile
<1>1. Acks
  <2>1. ASSUME NEW p \in Process, Fill(p) PROVE Acks
    BY <2>1, Zenon DEF Fill
  <2>2. ~\E q \in Policy : SetPolicy(q)
    BY <1>0, ZenonT(40) DEF SetPolicy
  <2>3. ~UNCHANGED acked
    BY Zenon
  <2> QED BY <2>1, <2>2, <2>3, Zenon DEF RunStep, RunNext, PluginStep, runVars, Create, Keygen, Kill, Start,
             EnsureAuthKeyPair, EnsureHttpsKeyPair, EnsureHttpsCert, SetPolicyPath, PolicyEngine, AdminAuth, Serve,
             Bind, Connect
<1>2. "run" \in Process
  BY Zenon DEF Process
<1>3. /\ writes["run"] # <<>> /\ Head(writes["run"]) = w /\ w \in Write
      /\ FirstWrite("run", w) /\ w.file \in PolicyFile
      /\ file' = [file EXCEPT ![w.file] = w.content]
      /\ UNCHANGED <<stage, starts>>
  BY <1>1, <1>2, First, Zenon DEF Fill, Types, Queues, StageInv
<1>4. f = policy_path /\ w.file = f
  BY <1>0, <1>1, <1>3, ZenonT(40) DEF FirstWrite, PolicyWrite
<1>5. w.content = Rego(w.content[2])
  BY <1>3, Kinds, ZenonT(40) DEF FirstWrite, Fits, Write
<1>6. acked'[f] = <<w.content[2], starts>> /\ file'[f] = w.content
  BY <1>0, <1>1, <1>3, <1>4, Zenon
<1> HIDE DEF w
<1>7. acked'[f][1] = w.content[2] /\ acked'[f][2] = starts
  BY <1>6
<1> QED BY <1>1, <1>3, <1>5, <1>6, <1>7, Zenon

\* Every step keeps an acknowledged policy in its file.
LEMMA AckedStep ==
    ASSUME RunInv, RunStep
    PROVE  AckedInv'
<1> USE DEF RunInv
<1>0. /\ acked \in [PolicyFile -> (PolicyName \X Nat) \cup {None}] /\ starts \in Nat
      /\ \A f \in PolicyFile : f \in HomeFile
  BY Zenon DEF Types, HomeFile, PolicyFile
<1>1. ASSUME NEW f \in PolicyFile, acked[f] # None PROVE acked[f][2] \in Nat /\ acked[f][2] <= starts
  BY <1>0, <1>1, Zenon DEF AckedInv
<1>2. CASE \E c \in Config : Start(c)
  <2>1. UNCHANGED <<file, acked>> /\ starts' = starts + 1
    BY <1>2, Zenon DEF Start
  <2>2. ASSUME NEW f \in PolicyFile, acked[f] # None
        PROVE  acked[f][2] <= starts' /\ acked[f][2] < starts' /\ acked[f][2] # starts'
    <3>1. \A i, n \in Nat : i <= n => i <= n + 1 /\ i < n + 1 /\ i # n + 1
      OBVIOUS
    <3> QED BY <1>0, <1>1, <2>1, <2>2, <3>1, Zenon
  <2> QED BY <2>1, <2>2, Zenon DEF AckedInv, Binding
<1>3. CASE ~\E c \in Config : Start(c)
  <2>1. UNCHANGED starts
    BY <1>3, SetupKept, Zenon
  <2>2. ASSUME ~Up', ~Down' PROVE ~Up /\ ~Down
    <3>1. ~Kill("run") /\ stage' # <<"failed">> /\ stage' # <<"up">> /\ stage' # <<"down">>
      BY <2>2, Zenon DEF Kill, Up, Down
    <3> QED BY <1>3, <2>2, <3>1, Moved, Heads, ZenonT(40) DEF Up, Down
  <2>3. ASSUME NEW f \in PolicyFile, acked'[f] = acked[f]
        PROVE  /\ acked'[f] # None => acked'[f][2] <= starts' /\ (~Up' /\ ~Down' => acked'[f][2] < starts')
               /\ Binding(f)' => file'[f] = Rego(acked'[f][1])
    <3>1. ASSUME Binding(f) PROVE file'[f] = file[f]
      <4> SUFFICES ASSUME file'[f] # file[f] PROVE FALSE
        BY Zenon
      <4>1. PICK p \in Process : writes[p] # <<>> /\ writes[p][1].file = f
        BY <1>0, Changed, Zenon
      <4> QED BY <3>1, <4>1, ZenonT(40) DEF Queues, FirstWrite, PolicyWrite
    <3>2. Binding(f)' => Binding(f)
      BY <2>1, <2>3, Zenon DEF Binding
    <3> QED BY <2>1, <2>2, <2>3, <3>1, <3>2, Zenon DEF AckedInv
  <2>4. ASSUME NEW f \in PolicyFile, acked'[f] # acked[f], acked'[f] # None
        PROVE  /\ acked'[f][2] <= starts' /\ (~Up' /\ ~Down' => acked'[f][2] < starts')
               /\ file'[f] = Rego(acked'[f][1])
    <3>1. Up /\ UNCHANGED stage /\ acked'[f][2] = starts /\ file'[f] = Rego(acked'[f][1])
      BY <2>4, AckedMoves, Zenon
    <3>2. starts <= starts /\ Up'
      BY <1>0, <3>1 DEF Up
    <3> QED BY <2>1, <3>1, <3>2, Zenon
  <2> QED BY <2>3, <2>4, ZenonT(40) DEF AckedInv, Binding
<1> QED BY <1>2, <1>3, Zenon

\* Every step keeps what a server that is up has read.
LEMMA KeysReadStep ==
    ASSUME RunInv, RunStep
    PROVE  KeysRead'
<1> USE DEF RunInv
<1>0. /\ stage \in Stage /\ stage' \in Stage /\ cfg \in Config
      /\ file \in [HomeFile -> Content] /\ file["own_key"] = Private(OwnKey)
      /\ <<"auth_key", "auth_key.pub">> \in KeyFiles
  BY StageStep, Zenon DEF Types, KeyFiles
<1>1. ASSUME NEW f \in HomeFile \ PolicyFile, file[f][1] \in {"private", "public", "cert"} PROVE file'[f] = file[f]
  BY <1>1, Stable, Parts, Zenon
<1>2. ASSUME stage' \in AfterAdmin
      PROVE  /\ ~\E c \in Config : Start(c)
             /\ \/ UNCHANGED stage
                \/ stage = FromAdmin /\ stage' = FromAttest /\ AdminAuth
                \/ stage = FromAttest /\ stage' = FromTls
                \/ stage = FromTls /\ stage' = FromBind /\ Serve
                \/ stage = FromBind /\ stage' = <<"up">>
  <2>1. ~Kill("run") /\ ~\E c \in Config : Start(c)
    BY <1>2, StagesForm, Heads, Zenon DEF Start, Kill, AfterAdmin, AfterTls
  <2> QED BY <1>2, <2>1, Moved, Heads, Zenon DEF AfterAdmin, AfterTls
<1>3. ASSUME stage' \in AfterAdmin
      PROVE  Signs' /\ (~cfg'.insecure_api => (auth_public_key \in PublicFile /\ file[auth_public_key][1] = "public")')
  <2>1. UNCHANGED <<cfg, auth_public_key>>
    BY <1>2, <1>3, SetupKept, Zenon DEF auth_public_key
  <2>2. ASSUME Signs, UNCHANGED admin PROVE Signs'
    BY <1>1, <2>1, <2>2, Parts DEF Signs, HomeFile, PolicyFile
  <2>3. CASE ~(stage' = FromAttest /\ AdminAuth)
    <3>1. stage \in AfterAdmin
      BY <1>2, <1>3, <2>3, Zenon DEF AfterAdmin, AfterTls
    <3>2. UNCHANGED admin
      <4>1. ~At("admin")
        BY <1>0, <3>1, Where, Heads, Zenon DEF AfterAdmin, AfterTls
      <4> QED BY <1>2, <1>3, <4>1, SetupKept, Zenon DEF AdminAuth, Begin
    <3>3. Signs'
      BY <2>2, <3>1, <3>2, Zenon DEF KeysRead
    <3>4. ASSUME ~cfg.insecure_api PROVE auth_public_key \in PublicFile /\ file'[auth_public_key][1] = "public"
      <4>1. auth_public_key \in PublicFile /\ file[auth_public_key][1] = "public"
        BY <3>1, <3>4, Zenon DEF KeysRead
      <4>2. PICK f \in HomeFile \ PolicyFile : f = auth_public_key
        BY <4>1, Zenon DEF PublicFile, HomeFile, PolicyFile
      <4>3. file'[f] = file[f]
        BY <1>1, <4>1, <4>2, Zenon
      <4> QED BY <4>1, <4>2, <4>3, Zenon
    <3> QED BY <2>1, <3>3, <3>4, Zenon
  <2>4. CASE stage' = FromAttest /\ AdminAuth
    <3>1. \/ cfg.insecure_api
          \/ /\ auth_public_key # None /\ file[auth_public_key][1] = "public"
             /\ admin' = file[auth_public_key][2]
      BY <2>4, Heads, Zenon DEF AdminAuth, Fail
    <3>0. ~cfg.insecure_api => auth_public_key \in PublicFile /\ file'[auth_public_key][1] = "public"
      <4>1. auth_public_key # None => auth_public_key \in PublicFile
        BY <1>0, Configured, Zenon DEF auth_public_key, PublicFile
      <4> QED BY <2>4, <3>1, <4>1, Zenon DEF AdminAuth
    <3>2. CASE cfg.insecure_api \/ cfg.auth_public_key # None
      BY <2>1, <3>0, <3>2, Zenon DEF Signs
    <3>3. CASE ~cfg.insecure_api /\ cfg.auth_public_key = None
      <4>1. auth_public_key = "auth_key.pub"
        BY <3>1, <3>3, Zenon DEF auth_public_key
      <4>2. file["auth_key"] = Private(file["auth_key.pub"][2])
        BY <1>0, <3>1, <3>3, <4>1, Zenon DEF Pairs
      <4>3. file' = file /\ admin' = file["auth_key.pub"][2]
        BY <2>4, <3>1, <3>3, <4>1, Zenon DEF AdminAuth
      <4> QED BY <2>1, <3>0, <4>2, <4>3, Zenon DEF Signs
    <3> QED BY <3>2, <3>3, Zenon
  <2> QED BY <2>3, <2>4, Zenon
<1> DEFINE Loaded ==
        /\ private_key \in {"own_key", "https_key"} /\ certificate \in CertFile
        /\ file[private_key][1] = "private" /\ file[certificate][1] = "cert"
        /\ tls = IF file[certificate][2] = file[private_key][2] THEN file[private_key][2] ELSE None
<1>4. ASSUME stage' \in AfterTls, ~cfg'.insecure_http PROVE Loaded'
  <2>1. stage' \in AfterAdmin /\ UNCHANGED cfg
    BY <1>2, <1>4, SetupKept, Zenon DEF AfterAdmin
  <2>2. UNCHANGED <<private_key, certificate>>
    BY <2>1, Zenon DEF private_key, certificate
  <2>3. CASE ~(stage' = FromBind /\ Serve)
    <3>1. stage \in AfterTls /\ ~At("tls")
      <4>1. stage \in AfterTls
        BY <1>2, <1>4, <2>1, <2>3, Heads, Zenon DEF AfterTls
      <4> QED BY <1>0, <4>1, Where, Heads, Zenon DEF AfterTls
    <3>2. Loaded
      BY <1>4, <2>1, <3>1, Zenon DEF KeysRead
    <3>3. UNCHANGED tls
      BY <1>2, <2>1, <3>1, SetupKept, Zenon DEF Serve, Begin
    <3>4. private_key \in HomeFile \ PolicyFile /\ certificate \in HomeFile \ PolicyFile
      BY <3>2, Zenon DEF HomeFile, PolicyFile, CertFile
    <3>5. file'[private_key] = file[private_key] /\ file'[certificate] = file[certificate]
      <4>1. file[private_key][1] \in {"private", "cert"} /\ file[certificate][1] \in {"private", "cert"}
        BY <3>2, Zenon
      <4> QED BY <1>1, <3>4, <4>1, Zenon
    <3> QED BY <2>2, <3>2, <3>3, <3>5, Zenon
  <2>4. CASE stage' = FromBind /\ Serve
    <3>1. /\ private_key # None /\ certificate # None /\ file' = file
          /\ file[private_key][1] = "private" /\ file[certificate][1] = "cert"
          /\ tls' = IF file[certificate][2] = file[private_key][2] THEN file[private_key][2] ELSE None
      BY <1>4, <2>1, <2>4, Heads, ZenonT(40) DEF Serve, Fail
    <3>2. private_key \in {"own_key", "https_key"} /\ certificate \in CertFile
      BY <1>0, <3>1, Configured, Zenon DEF private_key, certificate, CertFile
    <3> QED BY <2>2, <3>1, <3>2, Zenon
  <2> QED BY <2>3, <2>4, Zenon
<1> QED BY <1>3, <1>4, Zenon DEF KeysRead

\* A file that a start makes is made, unless the start ends.
LEMMA MadeKept ==
    ASSUME RunInv, RunStep, NEW f \in HomeFile, Made(f), ~Kill("run"), stage' # <<"failed">>
    PROVE  Made(f)'
<1> USE DEF RunInv
<1>0. writes \in [Process -> Seq(Write)] /\ "run" \in Process /\ "keygen" \in Process
  BY Zenon DEF Types, Process
<1>1. CASE file[f] # Missing
  BY <1>1, Stable, Zenon DEF Made
<1>2. CASE file[f] = Missing
  <2>1. /\ writes["run"] # <<>> /\ writes["run"][1].file = f
        /\ FirstWrite("run", writes["run"][1]) /\ Head(writes["run"]) = writes["run"][1]
    BY <1>0, <1>2, First, Zenon DEF Made, Queues
  <2>2. ~writes["run"][1].open
    BY <1>2, <2>1, Parts, ZenonT(40) DEF FirstWrite
  <2>3. CASE writes'["run"] = writes["run"]
    BY <2>1, <2>3, Zenon DEF Made
  <2>4. CASE Create("run")
    <3>1. writes' = [writes EXCEPT !["run"][1].open = TRUE]
      BY <1>0, <2>1, <2>4, Zenon DEF Create
    <3> QED BY <1>0, <2>1, <3>1, Opened, Zenon DEF Made
  <2>5. ~Fill("run")
    BY <2>1, <2>2, Zenon DEF Fill
  <2>6. CASE Create("keygen") \/ Fill("keygen") \/ Kill("keygen") \/ Keygen
    BY <1>0, <2>3, <2>6, Zenon DEF Create, Fill, Kill, Keygen, Generate
  <2>7. CASE UNCHANGED runVars \/ PluginStep \/ AdminAuth \/ Serve \/ Bind \/ Connect("token") \/ Connect("attestation") \/ \E c \in Config : Start(c)
    BY <2>3, <2>7, Zenon DEF runVars, PluginStep, AdminAuth, Serve, Bind, Connect, Start
  <2>8. ~(\/ EnsureAuthKeyPair \/ EnsureHttpsKeyPair \/ EnsureHttpsCert \/ SetPolicyPath \/ PolicyEngine
          \/ \E q \in Policy : SetPolicy(q))
    BY <2>1, Zenon DEF EnsureAuthKeyPair, EnsureHttpsKeyPair, EnsureHttpsCert, SetPolicyPath, PolicyEngine, SetPolicy, Begin
  <2> QED BY <2>4, <2>5, <2>6, <2>7, <2>8, Zenon DEF RunStep, RunNext, Process
<1> QED BY <1>1, <1>2, Zenon

\* Every step keeps what the first stage has made.
LEMMA ProgressStep ==
    ASSUME RunInv, RunStep
    PROVE  Progress'
<1> USE DEF RunInv
<1>0. /\ stage \in Stage /\ "auth_key" \in HomeFile /\ "run" \in Process
      /\ <<"auth_key", "auth_key.pub">> \in KeyFiles
  BY Zenon DEF Types, HomeFile, Process, KeyFiles
<1>1. CASE \E c \in Config : Start(c)
  <2>1. PICK c \in Config : Start(c)
    BY <1>1, Zenon
  <2>2. cfg' = c /\ stage' = IF c.trustee THEN FromAuth ELSE FromPlugins
    BY <2>1, StagesForm, Zenon DEF Start
  <2>3. FromAuth \notin AfterAuth
    BY Heads, Zenon DEF AfterAuth, AfterHttps, AfterCert, AfterAdmin, AfterTls
  <2> QED BY <2>2, <2>3, Zenon DEF Progress
<1>2. CASE ~\E c \in Config : Start(c)
  <2> SUFFICES ASSUME stage' \in AfterAuth, cfg'.trustee, cfg'.auth_public_key = None PROVE Made("auth_key")'
    BY Zenon DEF Progress
  <2>1. UNCHANGED cfg /\ ~Kill("run") /\ stage' # <<"failed">>
    BY <1>2, SetupKept, Heads, ZenonT(40) DEF Kill, AfterAuth, AfterHttps, AfterCert, AfterAdmin, AfterTls
  <2>2. stage \in AfterAuth \/ EnsureAuthKeyPair
    BY <1>2, <2>1, Moved, ZenonT(40) DEF AfterAuth, AfterHttps, AfterCert, AfterAdmin, AfterTls
  <2>3. CASE stage \in AfterAuth
    BY <1>0, <2>1, <2>3, MadeKept, Zenon DEF Progress
  <2>4. CASE EnsureAuthKeyPair /\ file["auth_key"] # Missing
    BY <2>4, Zenon DEF EnsureAuthKeyPair, Made
  <2>5. CASE EnsureAuthKeyPair /\ file["auth_key"] = Missing
    BY <1>0, <2>1, <2>5, FirstGenerated, Zenon DEF EnsureAuthKeyPair, Made
  <2> QED BY <2>2, <2>3, <2>4, <2>5, Zenon
<1> QED BY <1>1, <1>2, Zenon

\* Keys and certificates that a start has found stay usable.
LEMMA UsableKept ==
    ASSUME RunInv, RunStep, NEW c, Usable(c)
    PROVE  Usable(c)'
<1>1. /\ {"auth_key", "auth_key.pub", "https_key", "https_cert.pem"} \subseteq HomeFile \ PolicyFile
      /\ "auth_key" \in HomeFile
  BY Zenon DEF HomeFile, PolicyFile
<1>2. ASSUME NEW f \in HomeFile \ PolicyFile, file[f][1] \in {"private", "public", "cert"} PROVE file'[f] = file[f]
  BY <1>2, Stable, Parts, Zenon
<1>3. file["auth_key"] # Missing => file'["auth_key"] # Missing
  BY <1>1, Stable, Zenon
<1>4. file["auth_key.pub"][1] = "public" => file'["auth_key.pub"][1] = "public"
  BY <1>1, <1>2, Zenon
<1>5. file["https_key"][1] = "private" => file'["https_key"][1] = "private"
  BY <1>1, <1>2, Zenon
<1>6. file["https_cert.pem"][1] = "cert" => file'["https_cert.pem"][1] = "cert"
  BY <1>1, <1>2, Zenon
<1> QED BY <1>3, <1>4, <1>5, <1>6, Zenon DEF Usable

\* A server that comes up has found what its configuration asks for.
LEMMA BindUsable ==
    ASSUME RunInv, Bind
    PROVE  Usable(cfg)
<1> USE DEF RunInv
<1>0. stage = FromBind /\ writes["run"] = <<>> /\ cfg \in Config
  BY Where, Zenon DEF Bind, Begin, Types
<1>1. stage \in AfterTls /\ stage \in AfterAdmin /\ stage \in AfterAuth
  BY <1>0, Zenon DEF AfterTls, AfterAdmin, AfterCert, AfterHttps, AfterAuth
<1>2. cfg.trustee /\ cfg.auth_public_key = None => file["auth_key"] # Missing
  BY <1>0, <1>1, Zenon DEF Progress, Made
<1>3. /\ None \notin PublicFile /\ None \notin CertFile /\ None \notin {"own_key", "https_key"}
  BY RunAssumption, Zenon DEF PublicFile, CertFile, HomeFile
<1>4. ~cfg.insecure_api => cfg.auth_public_key # None \/ (cfg.trustee /\ file["auth_key.pub"][1] = "public")
  BY <1>1, <1>3, Zenon DEF KeysRead, auth_public_key
<1>5. ASSUME ~cfg.insecure_http
      PROVE  /\ cfg.private_key # None \/ (cfg.trustee /\ file["https_key"][1] = "private")
             /\ cfg.certificate # None \/ (cfg.trustee /\ file["https_cert.pem"][1] = "cert")
  BY <1>1, <1>3, <1>5, Zenon DEF KeysRead, private_key, certificate
<1> QED BY <1>2, <1>4, <1>5, Zenon DEF Usable

\* Every step keeps what is known of the configurations that the server was up with.
LEMMA RanStep ==
    ASSUME RunInv, RunStep
    PROVE  RanInv'
<1> USE DEF RunInv
<1>0. /\ writes \in [Process -> Seq(Write)] /\ "run" \in Process /\ "keygen" \in Process
      /\ <<"https_key", "https_key.pub">> \in KeyFiles /\ stage \in Stage
  BY Zenon DEF Types, Process, KeyFiles
<1>1. \A c \in ran' : Usable(c)'
  <2>1. \A c \in ran' : Usable(c)
    BY RanKept, BindUsable, Zenon DEF RanInv, Bind
  <2> QED BY <2>1, UsableKept, Zenon
<1>2. ASSUME writes'["run"] # <<>>, writes'["run"][1].file = "auth_key" PROVE cfg' \notin ran'
  <2>1. ~Bind /\ ~\E c \in Config : Start(c)
    BY <1>2, Zenon DEF Bind, Begin, Start, StageInv
  <2>2. UNCHANGED <<cfg, ran>>
    BY <2>1, RanKept, SetupKept, Zenon
  <2>3. QueueMoves("run")
    BY <1>0, <1>2, QueuesMove, Zenon
  <2>4. CASE writes["run"] # <<>> /\ writes["run"][1].file = "auth_key"
    BY <2>2, <2>4, Zenon DEF RanInv
  <2>5. CASE ~(writes["run"] # <<>> /\ writes["run"][1].file = "auth_key")
    <3>1. Fresh("run") /\ ~writes'["run"][1].open /\ writes'["run"] # writes["run"]
      BY <1>2, <2>3, <2>5, Zenon DEF QueueMoves, Kept, Begun, Fresh
    <3>2. CASE EnsureAuthKeyPair
      <4>1. stage = FromAuth
        BY <1>0, <3>2, Where, Zenon DEF EnsureAuthKeyPair, Begin
      <4>2. cfg.trustee
        BY <4>1, Zenon DEF StageInv
      <4>3. cfg.auth_public_key = None /\ file["auth_key"] = Missing
        BY <3>1, <3>2, Zenon DEF EnsureAuthKeyPair
      <4> QED BY <2>2, <4>2, <4>3, Zenon DEF RanInv, Usable
    <3>3. ~EnsureHttpsKeyPair
      <4>1. ASSUME EnsureHttpsKeyPair PROVE writes'["run"][1].file = "https_key"
        BY <1>0, <3>1, <4>1, FirstGenerated, Zenon DEF EnsureHttpsKeyPair
      <4> QED BY <1>2, <4>1, Zenon
    <3>4. ASSUME NEW f, NEW c, NEW new, writes' = [writes EXCEPT !["run"] = <<Put(f, c, new)>>] PROVE f = "auth_key"
      <4>1. PICK w : w = Put(f, c, new)
        BY Zenon
      <4>2. w.file = f
        BY <4>1, Zenon DEF Put
      <4>3. writes'["run"][1] = w
        BY <1>0, <3>4, <4>1, Zenon
      <4> QED BY <1>2, <4>2, <4>3, Zenon
    <3>5. ~EnsureHttpsCert
      <4>1. ASSUME EnsureHttpsCert
            PROVE  writes' = [writes EXCEPT !["run"] =
                     <<Put("https_cert.pem", Cert(file[private_key][2], private_key), TRUE)>>]
        BY <3>1, <4>1, Zenon DEF EnsureHttpsCert
      <4>2. ASSUME EnsureHttpsCert PROVE "https_cert.pem" = "auth_key"
        BY <3>4, <4>1, <4>2
      <4> QED BY <4>2, Zenon
    <3>6. ~SetPolicyPath
      <4>1. ASSUME SetPolicyPath
            PROVE  \E f \in {"allow_all.rego", "deny_all.rego"}, q \in {"allow_all", "deny_all"} :
                     writes' = [writes EXCEPT !["run"] = <<Put(f, Rego(q), FALSE)>>]
        BY <3>1, <4>1, Zenon DEF SetPolicyPath
      <4> QED BY <3>4, <4>1, Zenon
    <3>7. ~PolicyEngine
      <4>1. ASSUME PolicyEngine PROVE policy_path # "auth_key"
        BY <1>0, <4>1, NotAt, Zenon DEF PolicyEngine, Begin, StageInv, PolicyFile
      <4> QED BY <3>1, <3>4, <4>1, Zenon DEF PolicyEngine
    <3>8. ~\E q \in Policy : SetPolicy(q)
      <4>1. Up => policy_path # "auth_key"
        BY Heads, Zenon DEF Up, Down, StageInv, PolicyFile
      <4> QED BY <3>4, <4>1, Zenon DEF SetPolicy
    <3>9. ~(Create("run") \/ Fill("run") \/ Kill("run"))
      <4>1. ~Kill("run")
        BY <1>0, <1>2, Zenon DEF Kill
      <4>2. ~Fill("run")
        <5> SUFFICES ASSUME Fill("run") PROVE FALSE
          BY Zenon
        <5>1. /\ writes["run"] # <<>> /\ writes["run"][1].open
              /\ file' = [file EXCEPT ![writes["run"][1].file] = writes["run"][1].content]
              /\ writes' = [writes EXCEPT !["run"] = Tail(writes["run"])] /\ UNCHANGED keys
          BY <1>0, First, Zenon DEF Fill
        <5>2. writes'["run"][1].file \in PublicFile
          BY <1>0, <1>2, <5>1, FirstDone, Zenon
        <5> QED BY <1>2, <5>2, Zenon DEF PublicFile
      <4>3. ~Create("run")
        BY <1>0, <1>2, <3>1, Opened, Zenon DEF Create
      <4> QED BY <4>1, <4>2, <4>3, Zenon
    <3>10. ~(Create("keygen") \/ Fill("keygen") \/ Kill("keygen") \/ Keygen)
      BY <1>0, <3>1, Zenon DEF Create, Fill, Kill, Keygen, Generate
    <3>11. ~(UNCHANGED runVars \/ PluginStep \/ AdminAuth \/ Serve \/ Connect("token") \/ Connect("attestation"))
      BY <3>1, Zenon DEF runVars, PluginStep, AdminAuth, Serve, Connect
    <3> QED BY <2>1, <3>2, <3>3, <3>5, <3>6, <3>7, <3>8, <3>9, <3>10, <3>11, Zenon DEF RunStep, RunNext, Process
  <2> QED BY <2>4, <2>5, Zenon
<1> QED BY <1>1, <1>2, Zenon DEF RanInv

\* Every step keeps the invariant.
LEMMA RunInvStep ==
    ASSUME RunInv, RunStep
    PROVE  RunInv'
BY TypesStep, PairsStep, QueuesStep, RivalsStep, StageInvStep, AckedStep, KeysReadStep, ProgressStep, RanStep, Zenon
   DEF RunInv

-----------------------------------------------------------------------------
(* What the invariant implies.                                             *)

\* Keys, certificates and signatures belong together.
LEMMA PairsHold ==
    ASSUME RunInv
    PROVE  KeyPairsMatch
<1>1. Up => Signs
  BY Zenon DEF RunInv, KeysRead, Up, AfterAdmin, AfterTls
<1>2. ASSUME Up, ~cfg.insecure_http, file[certificate][3] = private_key
      PROVE  tls # None /\ tls = file[private_key][2]
  <2>1. /\ private_key \in {"own_key", "https_key"} /\ certificate \in CertFile
        /\ file[private_key][1] = "private" /\ file[certificate][1] = "cert"
        /\ tls = IF file[certificate][2] = file[private_key][2] THEN file[private_key][2] ELSE None
    BY <1>2, Zenon DEF RunInv, KeysRead, Up, AfterTls
  <2>2. PICK k \in HomeFile : k = private_key
    BY <2>1, Zenon DEF HomeFile
  <2>3. PICK c \in {"https_cert.pem", "own_cert"} : c = certificate
    BY <2>1, Zenon DEF CertFile
  <2>4. file[c][2] = file[k][2]
    <3>1. CASE c = "own_cert"
      BY <1>2, <2>2, <2>3, <3>1, Parts, SMTT(30) DEF RunInv, Types
    <3>2. CASE c = "https_cert.pem"
      <4>1. file[c][1] = "cert" /\ file[c][3] = k
        BY <1>2, <2>1, <2>2, <2>3, Zenon
      <4>2. file[k] = Private(file[c][2])
        BY <3>2, <4>1, Zenon DEF RunInv, Pairs
      <4> QED BY <4>2, Parts, Zenon
    <3> QED BY <3>1, <3>2, Zenon
  <2>5. file[k][2] \in Nat /\ None \notin Nat
    BY <2>1, <2>2, Kinds, RunAssumption, Zenon DEF RunInv, Types
  <2> QED BY <2>1, <2>2, <2>3, <2>4, <2>5, Zenon
<1> QED BY <1>1, <1>2, Zenon DEF RunInv, Pairs, KeyPairsMatch

\* What was acknowledged is in its file.
LEMMA PolicyHolds ==
    ASSUME RunInv
    PROVE  AcknowledgedPolicySurvives
<1>1. ASSUME Up, ~cfg.allow_all, file[policy_path] = Rego("allow_all") PROVE FALSE
  <2>1. policy_path \in PolicyFile /\ policy_path # "allow_all.rego"
    BY <1>1, Heads, Zenon DEF RunInv, StageInv, Up, Down
  <2>2. PICK f \in HomeFile : f = policy_path
    BY <2>1, Zenon DEF PolicyFile, HomeFile
  <2>3. file[f] \notin {Missing, Partial} /\ file[f][2] = "allow_all"
    BY <1>1, <2>2, Parts, SMTT(30)
  <2> QED BY <2>1, <2>2, <2>3, Zenon DEF RunInv, Types, Fits
<1> QED BY <1>1, Zenon DEF RunInv, AckedInv, AcknowledgedPolicySurvives

\* A start that fails with a configuration that the server was up with fails
\* for more than the home directory.
LEMMA FailureCause ==
    ASSUME RunInv, RunStep, stage' = <<"failed">>, stage # <<"failed">>, cfg \in ran
    PROVE  Outside
<1> USE DEF RunInv
<1>0. /\ stage \in Stage /\ "run" \in Process /\ writes \in [Process -> Seq(Write)]
      /\ cfg \in Config /\ Usable(cfg)
  BY Zenon DEF Types, Process, RanInv
<1>1. CASE Create("run")
  <2>1. /\ writes["run"] # <<>> /\ ~Head(writes["run"]).open
        /\ Head(writes["run"]).new /\ file[Head(writes["run"]).file] # Missing
    BY <1>1, Zenon DEF Create
  <2>2. Head(writes["run"]) = writes["run"][1] /\ FirstWrite("run", writes["run"][1])
    BY <1>0, <2>1, First, Zenon DEF Queues
  <2>3. writes["run"][1].file = "auth_key"
    BY <2>1, <2>2, Zenon DEF FirstWrite
  <2> QED BY <2>1, <2>3, Zenon DEF RanInv
<1>2. CASE EnsureHttpsCert
  <2>1. stage = FromCert
    BY <1>0, <1>2, Where, Zenon DEF EnsureHttpsCert, Begin
  <2>2. stage' # Tail(stage)
    BY <2>1, Follows, Heads, Zenon
  <2>3. ~cfg.insecure_http /\ cfg.certificate = None /\ file["https_cert.pem"] = Missing
    BY <1>2, <2>2, Zenon DEF EnsureHttpsCert, Done
  <2> QED BY <1>0, <2>3, Parts, SMTT(30) DEF Usable
<1>3. CASE AdminAuth
  <2>1. stage = FromAdmin
    BY <1>0, <1>3, Where, Zenon DEF AdminAuth, Begin
  <2>2. stage' # Tail(stage)
    BY <2>1, Follows, Heads, ZenonT(40)
  <2>3. ~cfg.insecure_api /\ (auth_public_key = None \/ file[auth_public_key][1] # "public")
    BY <1>3, <2>2, Zenon DEF AdminAuth, Done
  <2>4. CASE cfg.auth_public_key # None
    <3>1. auth_public_key = "own_pub" /\ auth_public_key # None
      BY <1>0, <2>4, Configured, Zenon DEF auth_public_key
    <3>2. file["own_pub"][1] = "public"
      BY Parts, SMTT(30) DEF Types
    <3> QED BY <2>3, <3>1, <3>2, Zenon
  <2>5. CASE cfg.auth_public_key = None
    <3>1. cfg.trustee /\ file["auth_key.pub"][1] = "public"
      BY <1>0, <2>3, <2>5, Zenon DEF Usable
    <3>2. auth_public_key = "auth_key.pub" /\ auth_public_key # None
      BY <2>5, <3>1, RunAssumption, Zenon DEF auth_public_key, HomeFile
    <3> QED BY <2>3, <3>1, <3>2, Zenon
  <2> QED BY <2>4, <2>5, Zenon
<1>4. CASE Serve
  <2>1. stage = FromTls
    BY <1>0, <1>4, Where, Zenon DEF Serve, Begin
  <2>2. stage' # Tail(stage)
    BY <2>1, Follows, Heads, ZenonT(40)
  <2>3. ~cfg.insecure_http /\ (\/ private_key = None \/ certificate = None
                              \/ file[private_key][1] # "private" \/ file[certificate][1] # "cert")
    BY <1>4, <2>2, Zenon DEF Serve, Done
  <2>4. private_key # None /\ file[private_key][1] = "private"
    <3>1. CASE cfg.private_key # None
      <4>1. private_key = "own_key" /\ private_key # None
        BY <1>0, <3>1, Configured, Zenon DEF private_key
      <4>2. file["own_key"][1] = "private"
        BY Parts, SMTT(30) DEF Types
      <4> QED BY <4>1, <4>2, Zenon
    <3>2. CASE cfg.private_key = None
      <4>1. cfg.trustee /\ file["https_key"][1] = "private"
        BY <1>0, <2>3, <3>2, Zenon DEF Usable
      <4> QED BY <3>2, <4>1, RunAssumption, Zenon DEF private_key, HomeFile
    <3> QED BY <3>1, <3>2, Zenon
  <2>5. certificate # None /\ file[certificate][1] = "cert"
    <3>1. CASE cfg.certificate # None
      <4>1. certificate = "own_cert" /\ certificate # None
        BY <1>0, <3>1, Configured, Zenon DEF certificate
      <4>2. file["own_cert"][1] = "cert"
        BY Parts, SMTT(30) DEF Types
      <4> QED BY <4>1, <4>2, Zenon
    <3>2. CASE cfg.certificate = None
      <4>1. cfg.trustee /\ file["https_cert.pem"][1] = "cert"
        BY <1>0, <2>3, <3>2, Zenon DEF Usable
      <4> QED BY <3>2, <4>1, RunAssumption, Zenon DEF certificate, HomeFile
    <3> QED BY <3>1, <3>2, Zenon
  <2> QED BY <2>3, <2>4, <2>5, Zenon
<1>5. CASE \E c \in Config : Start(c)
  BY <1>5, StagesForm, Heads, Zenon DEF Start
<1>6. CASE EnsureAuthKeyPair \/ EnsureHttpsKeyPair \/ SetPolicyPath \/ PolicyEngine
  <2>1. stage' = Tail(stage) /\ (At("auth_key") \/ At("https_key") \/ At("policy") \/ At("engine"))
    BY <1>6, Zenon DEF EnsureAuthKeyPair, EnsureHttpsKeyPair, SetPolicyPath, PolicyEngine, Begin, Done
  <2>2. stage' \in {FromHttps, FromCert, FromPlugins, FromAdmin}
    BY <1>0, <2>1, Where, Follows, Zenon
  <2>3. stage'[1] \in {"https_key", "https_cert", "plugins", "admin"}
    BY <2>2, Heads, Zenon
  <2> QED BY <2>3, Heads, Zenon
<1>7. CASE PluginStep
  BY <1>0, <1>7, Where, Follows, Heads DEF PluginStep, Begin, Outside
<1>8. CASE Kill("run")
  BY <1>8, Heads, Zenon DEF Kill
<1>9. CASE Create("keygen") \/ Kill("keygen") \/ Keygen \/ (\E p \in Process : Fill(p))
           \/ (\E p \in Policy : SetPolicy(p)) \/ UNCHANGED runVars
  BY <1>9, Zenon DEF Create, Kill, Keygen, Fill, SetPolicy, runVars
<1>10. CASE Bind \/ Connect("token") \/ Connect("attestation")
  BY <1>10, Zenon DEF Bind, Connect, Begin, Outside
<1> QED BY <1>0, <1>1, <1>2, <1>3, <1>4, <1>5, <1>6, <1>7, <1>8, <1>9, <1>10, Zenon DEF RunStep, RunNext, Process
=============================================================================
