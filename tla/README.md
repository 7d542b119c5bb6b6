# Trustee: TLA+ models, model-checking runs and proofs

This directory holds a verification development for Trustee, the attestation and
key broker services of Confidential Containers: TLA+ modules translated from the
Rust sources, TLC configurations that check them on small instances, and proofs
checked by TLAPS. `PROJECT.json` maps every definition to the lines it models and
lists components, runs, mutants, findings, hazards and theorems.

## The system

| Part | Where | What it does |
|------|-------|--------------|
| Key Broker Service (KBS) | `kbs/` | HTTP API on actix. Runs the RCAR handshake (`auth`, `attest`), keeps a session per handshake, releases resources through plugins to clients with an attestation token, under a resource policy. Administrators set policies, resources and reference values. |
| Attestation Service (AS) | `attestation-service/` | Verifies evidence with the verifiers, compares it to reference values under attestation policies, and signs the result as a token. Built into the KBS, or behind gRPC or REST. |
| Reference Value Provider Service (RVPS) | `rvps/` | Extracts reference values from provenance and stores them. Built into the AS, or behind gRPC. |
| Verifiers, event logs | `deps/verifier/`, `deps/eventlog/` | One verifier per TEE; parsers of event logs. |
| Tools | `tools/` | `kbs-client`, `trustee`. |

A client posts `auth` and gets a challenge and a session cookie, posts `attest`
with evidence bound to the challenge, and gets a token. The KBS hands the evidence
to the AS, which asks the RVPS for reference values. With the cookie or the token
the client gets resources: the KBS verifies the token, evaluates the resource
policy, calls the plugin, and encrypts the answer for the key in the token.

### Inventory

State, the operations that change it, and what runs concurrently:

- **Session map** (`kbs/src/attestation/session.rs`, `backend.rs`). Ids to
  `Authed` or `Attested` sessions, in memory. Changed by `auth` (insert), `attest`
  (to `Attested`) and a background task that removes expired sessions. Handlers
  are futures pinned to actix workers; entries keep a bucket of the map locked,
  across an await in `attest`.
- **Metrics** (`kbs/src/prometheus/mod.rs`): counters changed by the middleware and
  the handlers.
- **Resource policy** (`kbs/src/policy_engine/`): one file behind a tokio `Mutex`.
- **Resources** (`kbs/src/plugins/implementations/resource/`): files without a lock,
  or a remote service.
- **Attestation policies** (`attestation-service/src/policy_engine/`): files, behind
  the read-write lock around the AS.
- **Reference values** (`rvps/src/storage/`): a JSON file or a sled database, behind
  the read-write lock around the RVPS or the AS.
- **Keys and certificates** of the token brokers and of the token verifier: generated,
  read or downloaded at a start; constant until the next one.
- **Files of a start** (`tools/trustee/`, `kbs/src/api_server.rs`): key pairs, the
  certificate and the default policy, written one after the other.
- **Plugins** (`kbs/src/plugins/`): secrets in Vault, objects in an HSM, the files of
  the Nebula CA, a temporary directory per credential.
- **Connections** (`kbs/src/attestation/coco/grpc.rs`,
  `attestation-service/src/rvps/grpc.rs`): a pool of connections to the AS, one client
  of a remote RVPS behind a Mutex.
- Token verification, verifiers, extractors, event log parsers, response
  encryption: functions without state.

### Plan

Modules in the order they are built, done (x) or left ( ):

- [x] `RcarSession`, `KbsSession`, `KbsSession_proofs`: handshake, abstract and
  detailed, and the metrics; refinement and safety proved.
- [x] `ReferenceValues`, `RvpsStore`, `Extractors`, `RvpsStore_proofs`: register and
  query calls on both storage backends, what messages of each type are turned into;
  refinement and safety proved.
- [x] `ResourcePolicy`, `KbsResource`, `KbsResource_proofs`: resource requests, resource
  policy and repository; refinement and safety proved.
- [x] `AttestationService`, `AttestationService_proofs`: evaluations under the read-write
  lock while policies and reference values change.
- [x] `TrusteeRun`, `KbsPlugins`, `TrusteeRun_proofs`, `KbsPlugins_proofs`: starts of the
  server and the files they leave, plugins and what they leave in remote services.
- [x] `TokenBrokers`, `TokenVerifier`, `Jwe`, `TokenTrust`, `TokenTrust_proofs`: what is in
  a token, who accepts it, and for whom the answer is encrypted.
- [x] `AsClients`, `AsClients_proofs`: composition of the KBS, its connection pool, the
  attestation service and a remote RVPS.
- [ ] Verifiers (order of checks, claims), event log replay and parser bounds.

## Modules

### `KbsSession`: the handshake

One action is the code of a handler between two awaits; a handler is a future
pinned to a worker (`WorkerOf`), and a worker parked in the blocking insert of the
map polls nobody (`Running`). `sessions` is `SessionMap::sessions`; `Locked` is the
bucket lock kept by the entry that `__attest` holds while it awaits `verify`.

| Action | Code |
|--------|------|
| `AuthReject`, `AuthStart`, `ChallengeFails`, `ChallengeOk`, `Insert` | `auth`, `__auth` and `SessionMap::insert` |
| `AttestReject`, `AttestStart`, `LookupMisses`, `LookupRefuses`, `LookupFindsToken`, `EvidenceRejected`, `LookupOk` | `__attest` up to the end of its first lookup |
| `RelockMisses`, `RelockPanics`, `RelockOk` | the second lookup; the accessors of `SessionStatus` panic in the wrong state |
| `Issue`, `VerifyFails`, `VerifyOk` | the answer of the AS, and the rest of `__attest` |
| `GetStart`, `GetToken`, `GetNoToken` | `get_attest_token_from_session` |
| `Reap` | one pass of the background task over a session |
| `Drop`, `Restart`, `Tick` | a reset connection, a restart of the process, the clock |

Evidence is abstracted to the nonce and the key it is bound to; a token to the
request it was issued for, its nonce, key and expiry. The attestation service
issues a token exactly when the runtime data it is handed matches the evidence. `m`
holds the counters of the handlers and of the middleware: a middleware whose future is
dropped is not resumed, and whether a refused attest was counted as an error depends on
where it was refused.

`RcarSession` is the handshake without handlers, locks and threads: a session is
new, authenticated, attested, closed, in that order.

### `RvpsStore`: reference values

`register` and `query` calls wait for the read-write lock of the service
(`LockForWrite`, `LockForRead`). A register call stores the values of its message
one by one. The initial state chooses the backend. With `"LocalJson"`, a value is stored by reading and parsing
the file (`JsonRead`) and by a write that a thread of the blocking pool does in two
steps, `JsonTruncate` and `JsonFill`; `JsonWriteFails` is a file that cannot be
opened or a full disk. With `"LocalFs"`, sled's insert (`FsInsert`) is visible at
once and durable after `FsFlush`. `Drop` drops a call at an await: the lock is
released, the job in the blocking pool goes on. `Crash` ends all calls and jobs; it
may take unflushed inserts away. A value stands for a reference value with its
expiration; `Digests` leaves out the expired ones. `ReferenceValues` is the abstract
map.

What a message says comes from `Extractors`: one operator per extractor (sample, SWID
manifests, in-toto) returns the set of its possible outcomes, because the order of a
`HashMap` is not determined. Documents are records of what they say once decoded.

### `KbsResource`: resources under the resource policy

Requests to read a resource (`Get`, `GetRefused`; `Approve`, `Deny`,
`EvaluateFails`; `Answer`), to write one (`Put`), to set (`SetPolicy`,
`SetLocked`) and to read the policy (`GetPolicy`, `ShowLocked`, `Shown`), and the
writes in the blocking pool (`Truncate`, `Fill`, `Written`, `WriteFails`), as in
`RvpsStore`. `EngineHeld` is the Mutex of the policy engine. What a policy says of
a token and a path, which tokens the verifier accepts and which key their claims
hold are constants. A policy file that is torn may not load, or may be a policy that says
anything (`Says`). The variables `decided`, `last`, `settled` and `doubt` are history:
`doubt` marks the writes of resources that no later write has made good, and whether they
met another one. `ResourcePolicy` is the abstract policy engine.

When three writes of one file overlap, a mix of the first two is overwritten by the
third in the model; in the code a part of the mix could stay.

### `AttestationService`: evaluations, policies and reference values

Calls wait for the read-write lock that each front end puts around the service
(`LockForRead`; `Free` in the calls that write). `Verify` verifies one piece of
evidence and collects the devices it speaks for, `GetDigests` fetches the reference
values, `ReadPolicy` reads and evaluates one policy file, `Answer` signs the token or
returns policies. `SetLocked`, `Truncate`, `Fill` and `WriteFails` are `set_policy`,
`Register` is `register_reference_value`, `Drop` and `Crash` are as above; `Started`
is the start of a broker, which writes its default policies where no file exists.
What a policy says given reference values, and what a verifier finds in evidence,
are constants. `before` is history. A torn policy file may parse or not.

The store of reference values changes in one step; the steps inside it are those of
`RvpsStore`. Left out are register calls dropped halfway and other clients of a remote
RVPS, which `RvpsStore` and `AsClients` have. The properties assume that no
`set_policy` call was dropped, for the reason that `resource_dropped` shows.

### `TrusteeRun` and `KbsPlugins`: starts, files and plugins

`TrusteeRun` is the start of the server by `trustee run` or by the `kbs` binary, and
`trustee keygen`. A process works through a queue of files, each created empty and then
filled (`Create`, `Fill` in the two processes), and can be killed in between. `stage` is
what is left of the start: the files of `get_config` (`EnsureAuthKeyPair`,
`EnsureHttpsKeyPair`, `EnsureHttpsCert`, `SetPolicyPath`), then `ApiServer::new` and
`ApiServer::server` in their order (plugins, token verifier, `PolicyEngine`, `AdminAuth`,
attestation service, `Serve`, `Bind`). Keys are numbers, so that a key pair either matches
or does not. The built-in policies have files of their own, which every start that uses
them writes anew: what an administrator sets while one is in force is lost at the next
start. Errors of the file system are left out, except a key file that exists.

`KbsPlugins` extends it with the start of the plugins (one action per plugin) and with
requests to them. `Handle` is a request after the dispatcher has checked the
administrator or the token: one disjunct per plugin and method, in several steps where
the code awaits (Vault's write, `nebula-cert`). Vault, Aliyun KMS, the HSM and
`nebula-cert` are external: they keep what they are told to keep, and any call may
fail. A write that was sent to Vault may arrive after its request has ended (`flight`,
`VaultLate`). Objects that the PKCS#11 plugin creates are session objects: they are gone
after a restart, and each start makes a wrapping key of its own, so that a blob wrapped
before does not unwrap. (`kbs/docs/plugins/pkcs11.md:7` says that the plugin stores
resources in the HSM.)

### `TokenTrust`: tokens, certificates and keys

Three modules of operators, each translated function by function, and one state
machine that uses them:

| Module | Code |
|--------|------|
| `TokenBrokers` | `attestation-service/src/token/`: submodules and their index, where a token has the key of the guest |
| `TokenVerifier` | `kbs/src/token/`: choice of the key, endorsement by certificates or key sets, expiry, the search for the key of the TEE; `kbs/src/attestation/intel_trust_authority/`: request and verification |
| `Jwe` | `kbs/src/jwe.rs`, symbolically: a ciphertext is a tuple with the key that opens it |
| `TokenTrust` | starts of the AS and of the KBS with other configurations, attestation with either backend, key rotation, the clock |

A KBS starts in two steps: the token verifier loads its certificates and keys
(`LoadVerifier`), and later the backend of Intel Trust Authority loads keys of its own
(`LoadBackend`); the keys may rotate in between. Keys come from the service or from a file
that the operator saved earlier (`SaveKeys`). `StopKbs` is also a start that ends because
a source cannot be read. The EAR broker loads any key that is not RSA and signs with P-256
only. `user_data` is what the guest adds to its evidence, and `extra` a configured place
to look for the key. Left out are the flattening of claims by the simple broker and the
challenge of Intel Trust Authority.

### `AsClients`: from the KBS to the RVPS and back

A call of the `Attest` trait is a task in the KBS (`pc`) and one in the AS (`at`). It
waits for a connection of the pool (`PoolGet`, `PoolTimeout`), for the fair read-write
lock of the AS (`Acquire`), for its verifier (`Verifier`) and for the Mutex around the
client of a remote RVPS (`LockClient`, `RvpsAnswers`), holding everything it got
before. A connection is good, or stale since the service restarted; the pool hands out
either, and one that is known to be broken is opened again when it is used
(`Reconnected`). `Drop` ends the task of the KBS; with the gRPC backend the other one goes
on until `Cancel`. `Crash` ends all tasks and threads of the AS; `Broken` is how the KBS
learns of it.

`set_policy` gives its write to a thread (`WritePolicy`, `job`), which truncates the file
and fills it (`Truncate`, `Fill`), also when the call has been dropped; each can fail.
Policies are numbered, and a file is whole or not. Reference values are a set of numbers,
so that what is missing can be seen. A registration whose caller is gone goes on in the
RVPS (`GoesOn`), and when it ends (`Land`) it may put back what was stored before it, as
in `RvpsStore`. `cut` remembers which kinds of changes were left by their callers. The
model allows more than the RVPS does: any call may fail, and a registration that lands
late may undo any later ones.

## Runs

| Run | Instance | Shows |
|-----|----------|-------|
| `session` | 3 requests on workers of their own, 2 sessions in one bucket, 2 keys, clock to 1, fair | `TokenBinding`, `OneTokenPerSession`, `VerifyIsExclusive`, `CookieGivesAccess` (with sessions no longer than tokens), `MetricsAddUp`, refinement of `RcarSession`; every request ends, expired sessions are removed |
| `rvps_store` | 2 register calls out of 6 messages and a query, both backends, dropped calls, failures, crashes, expiry, fair | `AcknowledgedIsStored`, `UnreadableIsLost`, `AnswersAreWhole`, `ManifestIsExtracted`, refinement of `ReferenceValues`, every call ends |
| `resource_safety` | 3 requests, a legal and an illegal path, 2 policies, 4 tokens, failures, dropped requests and crashes, fair | `ReleasedAsPermitted`, `AcknowledgedPolicyGoverns`, `TornHasCause`, refinement of `ResourcePolicy`, every request ends |
| `as_safety` | 3 calls out of 14 requests, both brokers, 4 policy files, failures, drops and crashes | `OnePolicyPerToken`, `AcknowledgedGoverns`, `EveryDeviceAppraised` |
| `kbs_restart` | 2 starts out of 7 configurations, kills, `keygen`, 2 requests at a time, late writes to Vault | `KeyPairsMatch`, `AcknowledgedPolicySurvives`, `ComesUpAgain`, `ReadsReturnUploads`, `CredentialDirsRemoved`, `CredentialsKeepVerifying` |
| `token_trust` | 7 configurations of the AS, 5 of the KBS, 5 lists of devices and 7 of evidence, 3 keys, clock to 3 | `AcceptedIsEndorsed`, `TrustedIsAccepted`, `ResponseIsForTheGuest` |
| `as_clients` | a guest and two administrators whose calls repeat for ever, a pool of 2, both backends and both kinds of RVPS, 2 changes, 1 crash, fair | `GuardsMatchTasks`, `AppliedAtMostOnce`, `AcknowledgedIsSeen`, every call ends |

Runs that find the code to differ from its documents or comments:

| Run | Finds |
|-----|-------|
| `session_panic` | two attests race on a session and the second one panics instead of returning the old token |
| `session_shared_worker` | the blocking insert parks a worker that a suspended attest needs to release the bucket |
| `session_gauge` | the gauge of active connections counts a request whose connection was reset for good (`ActiveIsCurrent`) |
| `resource_dropped` | the late write of a dropped set-policy request replaces an acknowledged policy |
| `as_default_id` | with the EAR broker, a policy set under the id `default` is never used |

`token_trust` passes, and yet shows a statement of a document to be wrong:
`kbs/quickstart.md:265` says that without `trusted_certs_paths` the KBS skips the
verification of the certificate; by `AcceptedIsEndorsed` it then accepts no token that
brings its own key (`kbs/src/token/jwk.rs:195`), unless `insecure_key` is set.
(`kbs/quickstart.md:252` also calls the scheme of a local key set `path://`; the code
takes `file` and `https`.)

What the properties say, and what they leave open:

- `MetricsAddUp`: every auth and attest is counted once, but for those that still run,
  were cut off, or returned an old token; a refused attest may be missing among the
  errors. The sizes of responses are observed in the histogram of request sizes
  (`kbs/src/api_server.rs:373`), and that of response sizes is never filled.
- `CookieGivesAccess` depends on the configuration: with a session timeout above the
  token duration, a valid cookie can give an expired token.
- What `rvps_store` says of stored values and answers is stated for behaviours in which
  no client left while the JSON file was being written for it (`NoStray`): the late
  write of `resource_dropped` is possible there too, and loses the values of a later
  registration that was acknowledged.
- `ManifestIsExtracted` leaves out measurements with a hash of zeros in front of others.
  There `rvps/src/extractors/swid/mod.rs:94` says that such a hash ends the resource, and
  the code goes on with the next hash.
- `AcknowledgedPolicySurvives`: in the configured file for ever, in the file of a
  built-in policy until the next start.
- `ComesUpAgain` is about configurations that the server was up with. A first start that
  is killed between the two files of a key pair is not one of them: every later start
  finds the private key, makes no public key and fails, although
  `tools/trustee/src/run.rs:131` says that missing key files are created.
- `ReadsReturnUploads` is about Vault, with uploads that overlap or arrive late.
- `AcknowledgedIsSeen` speaks of policies until the caller of a `set_policy` leaves while
  its policy is being written, and of reference values until that happens to a
  registration: what goes on without its caller can undo a later change, as
  `resource_dropped` shows for the KBS.

**Bounds.** Each race above needs at most two conflicting requests and a third that
observes them: three requests let two writers race under the eyes of a reader, or
two attests under those of a resource request. Two sessions in one bucket are needed
for a session to be locked by another; two names, with a message that writes both,
for torn messages. Two GPUs in one piece of evidence, next to a CPU, make the EAR broker read one policy twice and count within a
class; the simple broker meets that with an id given twice. `IndexMod`, 2^8 in the
code, is 4. One tick more than the timeout makes sessions expire before,
between and after the steps of a handler. Symmetry is used where no liveness is checked
and requests or names are interchangeable. In `KbsSession`,
`RvpsStore`, `KbsResource` and `AttestationService` requests and calls are used once,
so all behaviours are finite; deadlock is not checked because a system whose requests
have all been answered stops. In `AsClients` they repeat, and deadlock is checked.

Two starts of the server are enough for one to find what the other left behind, and
four keys let each of them, and `keygen`, make new ones; the requests of the second
start meet the secrets, objects and credentials of the first. To bound the
interleavings, the plugins of a behaviour stay the same, and `keygen` runs only while the
configuration relies on its file. In `token_trust` one
token is held at a time: the properties relate a token to the configurations, keys
and certificates around it, of which there are three generations, and not to another
token. One tick more than duration and leeway separates "valid", "within the leeway"
and "expired"; the leaf certificate expires in between. `IndexRange`, 2^8 in the code,
is 2, so that three GPUs wrap. `MaxChain`, the longest chain of certificates that
OpenSSL follows, is 4: a leaf, an intermediate certificate and a root fit below it. A pool
of two connections for three calls makes a call wait for a connection while another holds
the lock and a third waits for it. Two changes let one policy overtake another, or a
registration go on behind a later one; the evaluation or query that looks at them may
begin before, between or after them.

**Fairness** is weak fairness of the steps of each handler, call or write: actix and
tokio poll a future that has been woken, and the blocking pool runs what is queued.
No fairness is assumed for arrivals, drops, failures, crashes, the clock, or
answers that never come from a remote service, except that in `KbsSession` the
attestation service answers, and in `AsClients` the verifiers and the RVPS answer or
fail. The code sets no timeout for them: a verifier that never answers holds the read
lock for ever, and a waiting `set_policy` call then blocks everyone. The bucket lock, the read-write lock and the Mutex queue their
waiters; with finitely many requests weak fairness is enough to model that. In
`AsClients`, where calls keep coming, the queues are modelled: without them
`EveryCallEnds` fails. mobc does not queue, but gives up after 30 seconds.

## Proofs

Every safety invariant, action property and refinement that a run checks is also
proved for every value of the constants that satisfies the named `ASSUME`s of its
module; only liveness is left to TLC. A theorem about a component is in the module
`<component>_proofs`, which extends the component.

All follow one pattern: an invariant about what a request or a call carries from one
await to the next (types, and what its place in the code says of it) is proved first;
the invariant of the lock comes next; the property is then inductive together with a
statement about the steps halfway through. There is one lemma per conjunct of the
inductive invariant (`...Step`), with a case per action, and lemmas that say once what
groups of actions leave alone.

### `KbsSession_proofs`

For every number of requests, sessions, keys, workers and buckets, every placement of
them and every timeout:

| Theorem | States |
|---------|--------|
| `TypeCorrect` | `TypeOK` |
| `VerifyExclusive` | `VerifyIsExclusive` |
| `TokensAreBound` | `TokenBinding` |
| `OneToken` | `OneTokenPerSession` |
| `CookieSuffices` | `CookieGivesAccess`, if `Timeout <= TokenDuration` |
| `CountersAddUp` | `MetricsAddUp` |
| `HandshakeRefined` | `ImplementsRcar` |

`TypeOK` is not inductive: a handler writes to the map what it carries over an
await, so `Carries` says that the cookie, the body and the token of a handler have
their types where the handler will use them. `VerifyIsExclusive` is inductive with
it, because relocking requires a free bucket and only a verifying handler changes
its session. `TokenBinding` needs `Bound`: what a handler checked at its first
lookup (nonce of the session, evidence bound to nonce and key) still holds at the
second, since a body never changes and a nonce is the session id. `OneTokenPerSession`
needs `Fresh` (the id of a session that is being inserted was never given out) and
`Given` (every token given out for a live session is the token in the map, and a
session that was closed stays closed). `CookieGivesAccess` needs `Outlives`: an
attested session expires no later than its token. The refinement shows each action
to be a step of `RcarSession` or a stutter, using `Cleared` (a session that is not in
the map has left no state behind).

`MetricsAddUp` compares counters with sizes of sets of requests. `MetricsInv` adds that
finitely many requests have begun, so that the sizes are numbers (`Req` itself may be
infinite). `Moves` says that an action changes the difference of the counters by as
much as it moves its own request into or out of those sets; `ActionMoves` shows it for
each action, and `Balance` carries it over to the sums. That no session is
counted as attested twice comes from `Given` and `VerifyIsExclusive`.

Assumptions: the functions that place requests and sessions are total, the
timeouts are integers, and the values that stand for "none" are not among the others.
Uniqueness of session ids is built in: `Uuid::new_v4` returns an id once.

### `RvpsStore_proofs`

For every number of calls and all sets of names, values and messages, on both backends,
with any lifetime of values:

| Theorem | States |
|---------|--------|
| `AcknowledgedStored` | `AcknowledgedIsStored` |
| `UnreadableLost` | `UnreadableIsLost` |
| `AnswersWhole` | `AnswersAreWhole` |
| `StoreRefined` | `ImplementsStore` |
| `ManifestExtracted` | `ManifestIsExtracted` |

`InOrder` says that what a call has still to store is the end of the list of its
message. `StoreInv` speaks of a content of the storage relative to how far each call
has come (`Good`): the names stored so far are there, with the latest value where no
other message names them, and nothing else is. It says so of the file, of what sled has
flushed, and, while the file is truncated, of the content that the writer is about to
put into it; a write that is queued was computed from the file as it still is. That
holds as long as no writer left (`NoStray`), as in the properties. The refinement, which
is about the JSON file, maps a file that is truncated to the content that its writer
will put into it.

`ManifestIsExtracted` is about two nested loops over lists of any length. `Induction`
derives induction up to a bound for a set of numbers from the least element of its
complement, since the library's theorems, which take a predicate, cannot be used. With
it, `FromEnds` shows that the recursive functions of `Hashes` and `SwidExtractor` exist,
and `FromCollects` what they collect: the entries from the first to the one before the
loop stops. `MessageInv` carries that from the extraction to the registered values.

The assumptions on messages are that extractors return lists of names and values, or
refuse, and that a SWID manifest holds a list of resources, each with a list of hashes.

### `KbsResource_proofs`

For every finite set of requests and all sets of paths, contents, policies and tokens,
and whatever policies decide:

| Theorem | States |
|---------|--------|
| `ReleasesPermitted` | `ReleasedAsPermitted` |
| `TornCaused` | `TornHasCause` |
| `PolicyGoverns` | `AcknowledgedPolicyGoverns`, if `[][SetterWaits]_vars` |
| `PolicyRefined` | `ImplementsPolicy`, if `[][SetterWaits]_vars` |

`LossInv` says that, until a request to set the policy fails or is cut off, the file is
torn just while one is between truncation and write, so that nobody evaluates it;
`PermitInv` carries the decision over the await between the policy engine and the
repository. `TornInv` adds to `TornHasCause` that every write under way is in doubt, and
that one which met no other has the file for itself until it is acknowledged. `EngineInv` says that one request has the policy file, and what the
file holds at each point of its write. `SetterWaits`, that no client leaves while the
policy it sets is written, is a hypothesis on the behaviour and not on the model: the
run `resource_dropped` shows that the two statements are wrong without it.

### `AttestationService_proofs`

For every number of calls and all sets of requests, devices, policy files and policies,
with both brokers:

| Theorem | States |
|---------|--------|
| `OnePolicy` | `OnePolicyPerToken` |
| `AcknowledgedRules` | `AcknowledgedGoverns` |
| `DevicesAppraised` | `EveryDeviceAppraised` |

`LockInv` is the exclusion of the read-write lock. `FilesInv` says that what a reader
has read so far is still what the files hold, and that the file of an acknowledged
policy holds that policy or one of a call that was not over before it; `RefsInv` says
the same of the reference values. Both properties are then kept when a call returns.
They suppose, as in the run, that no `set_policy` call was dropped.

`EveryDeviceAppraised` needs `PlanInv`: from the moment the broker names the policy files
to the token, the files read followed by those to be read are the policies of the
devices in turn. What the loop of `issue` makes of the devices is shown by induction
(`Induction`, as in `RvpsStore_proofs`): `SubmodsForm` shows that the recursive function
exists, and `LoopInv` says that after `n` devices the index of a class is one less than
the devices of that class, and that each of the `n` has its own submodule. The step uses
that `new % IndexMod` is `new` as long as the index fits, which the property supposes.

### `TrusteeRun_proofs`, `KbsPlugins_proofs`

`TrusteeRun_proofs` proves the inductive invariant `RunInv` of the starts, with what
plugins do in a start reduced to the stages they pass. `KbsPlugins_proofs` extends it
and proves, for all sets of configurations, policies, requests, names and data, and any
number of starts and keys:

| Theorem | States |
|---------|--------|
| `PairsMatch` | `KeyPairsMatch` |
| `PolicySurvives` | `AcknowledgedPolicySurvives` |
| `UpAgain` | `ComesUpAgain` (an action property) |
| `DirsRemoved` | `CredentialDirsRemoved` |
| `CredentialsVerify` | `CredentialsKeepVerifying` |
| `ReadsAreUploads` | `ReadsReturnUploads` (an action property) |

`RunInv` says of each process what its first pending write is and what the writes
before it have left (`Queues`): a public key is written only behind its private key, a
certificate only for the key that is in its file, the built-in policy only where none
was acknowledged. `Rivals` says that a start and `keygen` never have one file open and
never make one key. With `create_new` for key files this keeps `Pairs`.
`AckedInv` adds to the policies in the files in which start they were acknowledged: a
start writes the file of a built-in policy only before it is up, so what it overwrites is
of an earlier one. `RanInv` says that the files which a start needs are there and whole
for every configuration that the server was up with, and that such a start makes no key
for the administrator: nothing ever replaces a key file or a certificate. `VaultInv` says
what uploads know of each other: those in progress and those still on their way to Vault
are in `meets` of each of them, so what Vault holds once an upload is acknowledged is its
data or that of one that it met. That the CA of Nebula is complete whenever a credential
exists gives `CredentialsKeepVerifying`. The assumptions are that the keys and files that
a configuration names are the operator's own, and that an administrator's policy is not
the built-in allow-all.

### `TokenTrust_proofs`

For all sets of configurations, certificates, devices and evidence, any
bound on the length of chains, any leeway, duration and range of indices, and any number of tokens:

| Theorem | States |
|---------|--------|
| `AcceptedEndorsed` | `AcceptedIsEndorsed` |
| `TrustedAccepted` | `TrustedIsAccepted` |
| `ResponseForGuest` | `ResponseIsForTheGuest` |

The invariant `TrustInv` says of a token how it was made: who signed it, with which
key, for which devices, with which claims; and of the keys that a KBS has loaded, from
the service or from the file, that each is filed under its number (`PublishedKeys`,
`LoadedKeys`). The rest is about the operators: which certificates the verifier accepts
(`ChainParts`, `ChainVerifies`), where the search for the key of the TEE ends
(`Extracted`, `ItaKeyFound`), and that devices of one class get different indices below
the range (by the sizes of the sets of devices before them, `Fewer`), so that the
appraisal of the first CPU is not replaced by another. The assumptions are that a guest has
a device and that the KBS puts its key into the runtime data of all of its evidence.

### `AsClients_proofs`

For every number of calls, whatever each of them asks for, every pool size, number of
writes and number of crashes:

| Theorem | States |
|---------|--------|
| `GuardsAlwaysMatch` | `GuardsMatchTasks` |
| `AppliedOnce` | `AppliedAtMostOnce` |
| `AcknowledgedAlwaysSeen` | `AcknowledgedIsSeen` |

`GuardsMatchTasks` is inductive with the types of what it speaks of (`Tasks`): each
action changes the place of one task and the guards together, and `ReleaseKeepsGuards`
says once that dropping any set of futures gives back exactly what they hold.
`AcknowledgedIsSeen` is about answers only; `SeenInv` says how they come to be right.
No call has to see what was not acknowledged (`Data`). As long as no `set_policy` was
cut, `PolicyInv` says that the thread which writes works for the call that holds the lock
(`PolicyOf`), so there is one (`OnlyJob`), and it writes the newest policy over an older
one; the file therefore has the policy acknowledged last or what a later change left of
it (`Covers`). As long as no registration was cut, `RefsInv` says that nothing is on its
way to the RVPS, that what is acknowledged is stored, and that a call which has come to
the policy (`"issue"`) has read the values that it must see. `KbsSees`, `ReplySees`,
`WorkSees`, `ReleaseSees` and `ThreadSees` are the shapes of a step; `PolicyStep` and
`RefsStep` reduce each to the call that takes it. `AppliedAtMostOnce` needs `OnceInv`: the
changes made or going on without their callers (`Made`) and the calls whose change is
still due (`Due`) are together no more than were asked for. The assumptions are that `None`
is not a call and that `Asks` lists calls of the service. The order of the queues
matters for liveness only.

### Only model-checked

`EveryRequestEnds`, `ExpiredSessionsReaped` and `EveryCallEnds`: liveness under fairness
is out of reach of the prover.

### Running the proofs

`tlapm <module>_proofs.tla` takes a few minutes for each module. Most leaves name the
prover `Zenon`. It is not only faster: each attempt of tlapm's SMT backend slows down
the later ones in the same module, so proofs of this size fail when the backend is
tried on leaves that do not need it.

## Not modelled

`PROJECT.json` lists every component with the reason. In short:

- Verifiers of hardware evidence and the event log parser are functions without state
  made of cryptography and binary layouts. What a verifier finds in a piece of
  evidence is a constant, and that it may fail or take long is an action.
- Cryptography is symbolic or external, and so is Rego: what a policy computes is a
  constant. Vault, Aliyun KMS, HSMs, `nebula-cert`, sled, mobc, tonic and actix are
  modelled from how the code uses them.
- Parsing of configuration files is left out; configurations are constants or are
  chosen at a start.
- `kbs-client`, generated code and the integration tests have no state of their own.
- Durations and sizes in the metrics, and the format of their export.
