---------------------------- MODULE KbsSession ----------------------------
(***************************************************************************)
(* The RCAR handshake of the Key Broker Service: the session map of        *)
(* kbs/src/attestation/session.rs, the auth and attest handlers of         *)
(* kbs/src/attestation/backend.rs, the lookup of a session's token that    *)
(* precedes a resource request, the task that removes expired sessions,    *)
(* and the metrics that the handlers and the HTTP middleware keep.         *)
(*                                                                         *)
(* A handler is a future pinned to one actix worker thread.  One action is *)
(* the code between two of its await points.  The session map is a         *)
(* concurrent hash map with one lock per bucket: an entry obtained with    *)
(* get_async keeps its bucket locked until it is dropped, and the plain    *)
(* insert parks the calling thread until the bucket is free.               *)
(***************************************************************************)
EXTENDS Integers, FiniteSets

CONSTANTS
    Req,            \* HTTP requests, each served by one handler
    Sid,            \* session ids; the nonce of a session is named by its id
    Key,            \* TEE public keys
    Body,           \* the Attestations that clients send
    Worker,         \* actix worker threads
    WorkerOf,       \* the worker that a request is pinned to
    Bucket,         \* buckets of the session map
    BucketOf,       \* the bucket that a session id hashes to
    Timeout,        \* AttestationConfig::timeout (an i64, no range is checked)
    TokenDuration,  \* duration_min of the token broker (an i64)
    MaxClock,       \* bound on the clock, for TLC
    NoSid, NoToken, NoAtt

ASSUME SessionAssumption ==
    /\ WorkerOf \in [Req -> Worker]
    /\ BucketOf \in [Sid -> Bucket]
    /\ Timeout \in Int
    /\ TokenDuration \in Int
    /\ MaxClock \in Nat
    /\ NoSid \notin Sid

VARIABLES
    clock,      \* wall clock
    sessions,   \* SessionMap::sessions
    used,       \* the ids that Uuid::new_v4 has returned so far
    pc,         \* where each handler is
    cookie,     \* the session id a request carries, or was given by auth
    due,        \* the timeout of the session that an auth handler has built
    att,        \* the Attestation body of a request
    tok,        \* the token a handler got from the attestation service, or replied
    out,        \* how a request ended
    m,          \* the Prometheus metrics
    old         \* requests served by an earlier life of the process

vars == <<clock, sessions, used, pc, cookie, due, att, tok, out, m, old>>

\* A token, by the request it was issued for: the runtime data it attests and
\* its expiry.
Token == [by : Req, nonce : Sid, key : Key, exp : Int]

\* The runtime data of an Attestation and the runtime data that the hardware
\* evidence in it is bound to.
Attestation == [nonce : Sid, key : Key, evNonce : Sid, evKey : Key]

ASSUME AbsentAssumption == NoToken \notin Token /\ NoAtt \notin Attestation

ASSUME BodyAssumption == Body \subseteq Attestation

\* SessionStatus; "none" is an id that is not in the map.
SessionStatus ==
    [st : {"none", "Authed", "Attested"}, timeout : Int, token : Token \cup {NoToken}]

NoSession == [st |-> "none", timeout |-> 0, token |-> NoToken]

Waiting == {"challenge", "lookup", "checked", "verify", "issued", "token"}

Outcome == {"none", "auth_error", "challenge", "att_error", "att_refused",
            "att_failed", "token", "old_token", "get_token", "get_none",
            "panic", "dropped"}

Metric == {"total", "active", "reqSizes",
           "authReq", "authOk", "authErr",
           "attReq", "attOk", "attFail", "attErr"}

NoMetrics == [n \in Metric |-> 0]

TypeOK ==
    /\ clock \in Nat
    /\ sessions \in [Sid -> SessionStatus]
    /\ used \in SUBSET Sid
    /\ pc \in [Req -> Waiting \cup {"idle", "insert", "done"}]
    /\ cookie \in [Req -> Sid \cup {NoSid}]
    /\ due \in [Req -> Int]
    /\ att \in [Req -> Attestation \cup {NoAtt}]
    /\ tok \in [Req -> Token \cup {NoToken}]
    /\ out \in [Req -> Outcome]
    /\ m \in [Metric -> Int]
    /\ old \in SUBSET Req

Init ==
    /\ clock = 0
    /\ sessions = [s \in Sid |-> NoSession]
    /\ used = {}
    /\ pc = [r \in Req |-> "idle"]
    /\ cookie = [r \in Req |-> NoSid]
    /\ due = [r \in Req |-> 0]
    /\ att = [r \in Req |-> NoAtt]
    /\ tok = [r \in Req |-> NoToken]
    /\ out = [r \in Req |-> "none"]
    /\ m = NoMetrics
    /\ old = {}

-----------------------------------------------------------------------------
(* Threads, locks, expiry and the middleware.                              *)

\* A worker thread parked in the blocking insert polls no other handler.
Running(r) ==
    \A q \in Req : WorkerOf[q] = WorkerOf[r] /\ pc[q] = "insert" => q = r

\* Mutant: an entry is leaked when verify fails.
LockedLeaks(b) ==
    \E q \in Req : /\ pc[q] \in {"verify", "issued"} \/ out[q] = "att_failed"
                  /\ BucketOf[cookie[q]] = b

\* The bucket is locked by the entry that a handler keeps across verify.
Locked(b) ==
    \E q \in Req : pc[q] \in {"verify", "issued"} /\ BucketOf[cookie[q]] = b

Free(s) == ~Locked(BucketOf[s])

IsExpired(s) == sessions[s].timeout < clock

\* What the middleware counts when a request comes in and when its response
\* goes out: the size of the response is observed in the request histogram.
Inc(mm, n) == [mm EXCEPT ![n] = @ + 1]
Enter(mm) == Inc(Inc(Inc(mm, "active"), "total"), "reqSizes")
Leave(mm) == Inc([mm EXCEPT !["active"] = @ - 1], "reqSizes")

\* The handler of r starts and suspends at its first await.
Start(r, p, mm) ==
    /\ pc[r] = "idle"
    /\ Running(r)
    /\ pc' = [pc EXCEPT ![r] = p]
    /\ m' = mm

\* The handler of r, suspended at p, resumes and moves on to await at q.
Step(r, p, q) ==
    /\ pc[r] = p
    /\ Running(r)
    /\ pc' = [pc EXCEPT ![r] = q]

\* The handler of r, suspended at p, resumes and returns.
Finish(r, p, o, mm) ==
    /\ Step(r, p, "done")
    /\ out' = [out EXCEPT ![r] = o]
    /\ m' = Leave(mm)

-----------------------------------------------------------------------------
(* POST /auth                                                              *)

\* The body or the version does not parse, or the version does not match.
AuthReject(r) ==
    /\ Finish(r, "idle", "auth_error",
              Inc(Inc(Enter(m), "authReq"), "authErr"))
    /\ UNCHANGED <<clock, sessions, used, cookie, due, att, tok, old>>

AuthStart(r) ==
    /\ Start(r, "challenge", Inc(Enter(m), "authReq"))
    /\ UNCHANGED <<clock, sessions, used, cookie, due, att, tok, out, old>>

ChallengeFails(r) ==
    /\ Finish(r, "challenge", "auth_error", Inc(m, "authErr"))
    /\ UNCHANGED <<clock, sessions, used, cookie, due, att, tok, old>>

\* SessionStatus::auth with a fresh id; the thread goes on to the insert.
ChallengeOk(r, s) ==
    /\ s \notin used
    /\ Step(r, "challenge", "insert")
    /\ used' = used \cup {s}
    /\ cookie' = [cookie EXCEPT ![r] = s]
    /\ due' = [due EXCEPT ![r] = clock + Timeout]
    /\ m' = Inc(m, "authOk")
    /\ UNCHANGED <<clock, sessions, att, tok, out, old>>

\* SessionMap::insert returns once the bucket is free.
Insert(r) ==
    /\ Finish(r, "insert", "challenge", m)
    /\ Free(cookie[r])
    /\ sessions' = [sessions EXCEPT ![cookie[r]] =
                        [st |-> "Authed", timeout |-> due[r], token |-> NoToken]]
    /\ UNCHANGED <<clock, used, cookie, due, att, tok, old>>

-----------------------------------------------------------------------------
(* POST /attest                                                            *)

\* There is no session cookie, or the body is not an Attestation.
AttestReject(r) ==
    /\ Finish(r, "idle", "att_error",
              Inc(Inc(Enter(m), "attReq"), "attErr"))
    /\ UNCHANGED <<clock, sessions, used, cookie, due, att, tok, old>>

AttestStart(r, s, a) ==
    /\ Start(r, "lookup", Inc(Enter(m), "attReq"))
    /\ cookie' = [cookie EXCEPT ![r] = s]
    /\ att' = [att EXCEPT ![r] = a]
    /\ UNCHANGED <<clock, sessions, used, due, tok, out, old>>

\* Mutant: a missing session is not counted as an error.
LookupMissesUncounted(r) ==
    /\ Finish(r, "lookup", "att_error", m)
    /\ Free(cookie[r])
    /\ sessions[cookie[r]].st = "none"
    /\ UNCHANGED <<clock, sessions, used, cookie, due, att, tok, old>>

\* The first get_async: no session has the id of the cookie.
LookupMisses(r) ==
    /\ Finish(r, "lookup", "att_error", Inc(m, "attErr"))
    /\ Free(cookie[r])
    /\ sessions[cookie[r]].st = "none"
    /\ UNCHANGED <<clock, sessions, used, cookie, due, att, tok, old>>

\* The session is expired, or it expects another nonce: no metric counts it.
LookupRefuses(r) ==
    /\ Finish(r, "lookup", "att_refused", m)
    /\ Free(cookie[r])
    /\ \/ sessions[cookie[r]].st # "none" /\ IsExpired(cookie[r])
       \/ sessions[cookie[r]].st = "Authed" /\ att[r].nonce # cookie[r]
    /\ UNCHANGED <<clock, sessions, used, cookie, due, att, tok, old>>

\* The session is attested already: the old token is returned.
LookupFindsToken(r) ==
    /\ Finish(r, "lookup", "old_token", m)
    /\ Free(cookie[r])
    /\ sessions[cookie[r]].st = "Attested"
    /\ ~IsExpired(cookie[r])
    /\ tok' = [tok EXCEPT ![r] = sessions[cookie[r]].token]
    /\ UNCHANGED <<clock, sessions, used, cookie, due, att, old>>

\* What the handler requires of the session before it builds the evidence.
Admissible(r) ==
    /\ sessions[cookie[r]].st = "Authed"
    /\ ~IsExpired(cookie[r])
    /\ att[r].nonce = cookie[r]

\* The additional evidence does not parse.
EvidenceRejected(r) ==
    /\ Finish(r, "lookup", "att_error", Inc(m, "attErr"))
    /\ Free(cookie[r])
    /\ Admissible(r)
    /\ UNCHANGED <<clock, sessions, used, cookie, due, att, tok, old>>

\* The entry is dropped, and its bucket unlocked, before the second get_async.
LookupOk(r) ==
    /\ Step(r, "lookup", "checked")
    /\ Free(cookie[r])
    /\ Admissible(r)
    /\ UNCHANGED <<clock, sessions, used, cookie, due, att, tok, out, m, old>>

\* The second get_async: the session was removed in between.
RelockMisses(r) ==
    /\ Finish(r, "checked", "att_error", Inc(m, "attErr"))
    /\ Free(cookie[r])
    /\ sessions[cookie[r]].st = "none"
    /\ UNCHANGED <<clock, sessions, used, cookie, due, att, tok, old>>

\* Another request attested the session in between: session.request() panics,
\* which ends the connection, drops the entry and never reaches the middleware.
RelockPanics(r) ==
    /\ Step(r, "checked", "done")
    /\ Free(cookie[r])
    /\ sessions[cookie[r]].st = "Attested"
    /\ out' = [out EXCEPT ![r] = "panic"]
    /\ UNCHANGED <<clock, sessions, used, cookie, due, att, tok, m, old>>

\* Mutant: the second lookup does not look at the status.
RelockAny(r) ==
    /\ Step(r, "checked", "verify")
    /\ Free(cookie[r])
    /\ sessions[cookie[r]].st # "none"
    /\ UNCHANGED <<clock, sessions, used, cookie, due, att, tok, out, m, old>>

\* The entry is kept, and its bucket locked, while verify is awaited.
RelockOk(r) ==
    /\ Step(r, "checked", "verify")
    /\ Free(cookie[r])
    /\ sessions[cookie[r]].st = "Authed"
    /\ UNCHANGED <<clock, sessions, used, cookie, due, att, tok, out, m, old>>

\* Mutant: the nonce is taken from the client instead of from the session.
RuntimeDataFromEvidence(r) == [nonce |-> att[r].evNonce, key |-> att[r].key]

\* The runtime data that the handler builds for the evidence of r: the nonce of
\* the session it looked up, and the key of the request.
RuntimeData(r) == [nonce |-> cookie[r], key |-> att[r].key]

\* The attestation service issues a token: it accepts evidence only when it is
\* bound to the runtime data it is given.
Issue(r) ==
    LET d == RuntimeData(r) IN
    /\ pc[r] = "verify"
    /\ d.nonce = att[r].evNonce /\ d.key = att[r].evKey
    /\ pc' = [pc EXCEPT ![r] = "issued"]
    /\ tok' = [tok EXCEPT ![r] = [by |-> r, nonce |-> d.nonce, key |-> d.key,
                                  exp |-> clock + TokenDuration]]
    /\ UNCHANGED <<clock, sessions, used, cookie, due, att, out, m, old>>

\* verify returns an error: the evidence is refused, or the answer is lost.
VerifyFails(r) ==
    /\ \/ Finish(r, "verify", "att_failed", Inc(m, "attFail"))
       \/ Finish(r, "issued", "att_failed", Inc(m, "attFail"))
    /\ UNCHANGED <<clock, sessions, used, cookie, due, att, tok, old>>

\* Mutant: attesting renews the deadline of the session.
VerifyOkRenews(r) ==
    /\ Finish(r, "issued", "token", Inc(m, "attOk"))
    /\ sessions' = [sessions EXCEPT ![cookie[r]] =
            [st |-> "Attested", timeout |-> clock + Timeout, token |-> tok[r]]]
    /\ UNCHANGED <<clock, used, cookie, due, att, tok, old>>

\* Mutant: the deadline of the session is lost.
VerifyOkForgets(r) ==
    /\ Finish(r, "issued", "token", Inc(m, "attOk"))
    /\ sessions' = [sessions EXCEPT ![cookie[r]] =
                        [st |-> "Attested", token |-> tok[r]]]
    /\ UNCHANGED <<clock, used, cookie, due, att, tok, old>>

\* verify returns a token: SessionStatus::attest, which keeps the timeout.
VerifyOk(r) ==
    /\ Finish(r, "issued", "token", Inc(m, "attOk"))
    /\ sessions' = [sessions EXCEPT ![cookie[r]] =
                        [@ EXCEPT !.st = "Attested", !.token = tok[r]]]
    /\ UNCHANGED <<clock, used, cookie, due, att, tok, old>>

-----------------------------------------------------------------------------
(* get_attest_token_from_session, the first step of a resource request.    *)

GetStart(r, s) ==
    /\ Start(r, "token", Enter(m))
    /\ cookie' = [cookie EXCEPT ![r] = s]
    /\ UNCHANGED <<clock, sessions, used, due, att, tok, out, old>>

HasToken(s) == sessions[s].st = "Attested" /\ ~IsExpired(s)

GetToken(r) ==
    /\ Finish(r, "token", "get_token", m)
    /\ Free(cookie[r])
    /\ HasToken(cookie[r])
    /\ tok' = [tok EXCEPT ![r] = sessions[cookie[r]].token]
    /\ UNCHANGED <<clock, sessions, used, cookie, due, att, old>>

GetNoToken(r) ==
    /\ Finish(r, "token", "get_none", m)
    /\ Free(cookie[r])
    /\ ~HasToken(cookie[r])
    /\ UNCHANGED <<clock, sessions, used, cookie, due, att, tok, old>>

-----------------------------------------------------------------------------
(* The environment of the handlers.                                        *)

\* The connection is reset while the handler awaits: its future is dropped,
\* with the entry it may hold, and the middleware is never resumed.
Drop(r) ==
    /\ pc[r] \in Waiting
    /\ Running(r)
    /\ pc' = [pc EXCEPT ![r] = "done"]
    /\ out' = [out EXCEPT ![r] = "dropped"]
    /\ UNCHANGED <<clock, sessions, used, cookie, due, att, tok, m, old>>

\* Mutant: the background task does not wait for the bucket.
ReapUnlocked(s) ==
    /\ sessions[s].st # "none"
    /\ IsExpired(s)
    /\ sessions' = [sessions EXCEPT ![s] = NoSession]
    /\ UNCHANGED <<clock, used, pc, cookie, due, att, tok, out, m, old>>

\* Mutant: the background task forgets attested sessions.
ReapAuthed(s) ==
    /\ Free(s)
    /\ sessions[s].st = "Authed"
    /\ IsExpired(s)
    /\ sessions' = [sessions EXCEPT ![s] = NoSession]
    /\ UNCHANGED <<clock, used, pc, cookie, due, att, tok, out, m, old>>

\* The background task of AttestationService::new, one entry at a time.
Reap(s) ==
    /\ Free(s)
    /\ sessions[s].st # "none"
    /\ IsExpired(s)
    /\ sessions' = [sessions EXCEPT ![s] = NoSession]
    /\ UNCHANGED <<clock, used, pc, cookie, due, att, tok, out, m, old>>

\* The process is restarted: the sessions and the metrics live in memory only.
Restart ==
    /\ sessions' = [s \in Sid |-> NoSession]
    /\ pc' = [r \in Req |-> IF pc[r] = "idle" THEN "idle" ELSE "done"]
    /\ out' = [r \in Req |-> IF pc[r] \in {"idle", "done"} THEN out[r] ELSE "dropped"]
    /\ m' = NoMetrics
    /\ old' = {r \in Req : pc[r] # "idle"}
    /\ UNCHANGED <<clock, used, cookie, due, att, tok>>

Tick ==
    /\ clock < MaxClock
    /\ clock' = clock + 1
    /\ UNCHANGED <<sessions, used, pc, cookie, due, att, tok, out, m, old>>

\* What a client may start, and what happens to a handler from then on.
Arrive(r) ==
    \/ AuthReject(r)
    \/ AuthStart(r)
    \/ AttestReject(r)
    \/ \E s \in Sid, a \in Body : AttestStart(r, s, a)
    \/ \E s \in Sid : GetStart(r, s)

\* The steps of a handler that depend on nothing but the server.
Handle(r) ==
    \/ Insert(r)
    \/ LookupMisses(r)
    \/ LookupRefuses(r)
    \/ LookupFindsToken(r)
    \/ EvidenceRejected(r)
    \/ LookupOk(r)
    \/ RelockMisses(r)
    \/ RelockPanics(r)
    \/ RelockOk(r)
    \/ GetToken(r)
    \/ GetNoToken(r)

\* The answers of the attestation service.
Answer(r) ==
    \/ ChallengeFails(r)
    \/ \E s \in Sid : ChallengeOk(r, s)
    \/ VerifyFails(r)
    \/ VerifyOk(r)

Next ==
    \/ \E r \in Req : Arrive(r) \/ Handle(r) \/ Issue(r) \/ Answer(r) \/ Drop(r)
    \/ \E s \in Sid : Reap(s)
    \/ Tick
    \/ Restart

Spec == Init /\ [][Next]_vars

\* The runtime polls a handler that is ready, the attestation service answers
\* every call, and the background task runs every minute.
Fairness ==
    /\ \A r \in Req : WF_vars(Handle(r)) /\ WF_vars(Answer(r))
    /\ \A s \in Sid : WF_vars(Reap(s))

FairSpec == Spec /\ Fairness

-----------------------------------------------------------------------------
(* Properties.                                                             *)

GaveToken(r) == out[r] \in {"token", "old_token", "get_token"}

\* The token kept in a session attests that very session: it was issued for
\* hardware evidence bound to the nonce of the session's own challenge and to
\* the key that the token carries, whatever nonces and keys other requests mix
\* in between the two lookups of __attest.
TokenBinding ==
    \A s \in Sid : sessions[s].st = "Attested" =>
        LET t == sessions[s].token IN
        /\ t # NoToken
        /\ t.nonce = s
        /\ att[t.by].evNonce = s
        /\ att[t.by].evKey = t.key

\* All the replies that give a client a token for one session give the same
\* token: attests that race on a session, repeated attests and resource
\* requests agree, also after the session is gone.
OneTokenPerSession ==
    \A r, q \in Req : GaveToken(r) /\ GaveToken(q) /\ cookie[r] = cookie[q]
                        => tok[r] = tok[q]

\* While a handler awaits the attestation service with the entry of a session
\* in its hands, that session is neither removed nor attested by anyone else,
\* and no other handler verifies a session of the same bucket.
VerifyIsExclusive ==
    \A r \in Req : pc[r] \in {"verify", "issued"} =>
        /\ sessions[cookie[r]].st = "Authed"
        /\ \A q \in Req \ {r} : pc[q] \in {"verify", "issued"} =>
                BucketOf[cookie[q]] # BucketOf[cookie[r]]

\* As long as the cookie of an attested session is valid, the token kept in the
\* session is valid too: a resource request that finds the session does not
\* fail on an expired token.
CookieGivesAccess ==
    \A s \in Sid : HasToken(s) => clock <= sessions[s].token.exp

\* The requests of this life of the process: those that began, the auths that
\* wait for a challenge or were dropped while waiting, the attests that run or
\* ended with an old token or without an answer, those that were refused; and the
\* sessions that became attested.
Began == {r \in Req \ old : pc[r] # "idle"}
AuthOpen ==
    {r \in Req \ old : pc[r] = "challenge" \/ (out[r] = "dropped" /\ cookie[r] = NoSid)}
AttestOpen ==
    {r \in Req \ old :
        /\ att[r] # NoAtt
        /\ pc[r] # "done" \/ out[r] \in {"old_token", "panic", "dropped"}}
AttestRefused == {r \in Req \ old : att[r] # NoAtt /\ out[r] = "att_refused"}
AttestedSids == {s \in Sid : \E r \in Req \ old : out[r] = "token" /\ cookie[r] = s}

\* ATTESTATION_SUCCESSES counts sessions: no session is attested twice, and a
\* success is counted exactly when the session became attested.  Every auth and
\* every attest is counted once, as a success, a failure or an error, but for the
\* handlers that still run, were cut off by a reset connection or a panic, or
\* returned an old token; a refusal may or may not count as an error.
MetricsAddUp ==
    /\ m["total"] = Cardinality(Began)
    /\ m["attOk"] = Cardinality(AttestedSids)
    /\ m["authReq"] = m["authOk"] + m["authErr"] + Cardinality(AuthOpen)
    /\ LET counted == m["attOk"] + m["attFail"] + m["attErr"] + Cardinality(AttestOpen)
       IN  m["attReq"] \in counted .. counted + Cardinality(AttestRefused)

\* The gauge of active connections counts the connections being processed at the
\* moment (ACTIVE_CONNECTIONS, prometheus_metrics_middleware).
ActiveIsCurrent ==
    m["active"] = Cardinality({r \in Req \ old : pc[r] \notin {"idle", "done"}})

\* An attest that finds its session attested by another request returns the old
\* token or an error; it does not bring its connection down.
AttestNeverPanics == \A r \in Req : out[r] # "panic"

\* Every request that is accepted is answered or dropped: no handler waits for
\* a bucket for ever.  (One formula for all requests: a request is made once, and
\* stays done.)
EveryRequestEnds == []<>(\A r \in Req : pc[r] \in {"idle", "done"})

\* Expired sessions are eventually removed from the map.  (One formula for all
\* sessions: an id is used once, and a session that has expired stays so.)
ExpiredSessionsReaped ==
    []<>(\A s \in Sid : sessions[s].st # "none" => ~IsExpired(s))

-----------------------------------------------------------------------------
(* The sessions implement the abstract handshake.                          *)

\* An id is new until its session is in the map.
Pending(s) == s \notin used \/ \E r \in Req : pc[r] = "insert" /\ cookie[r] = s

StatusOf(s) ==
    CASE sessions[s].st = "Authed" -> "authed"
      [] sessions[s].st = "Attested" -> "attested"
      [] OTHER -> IF Pending(s) THEN "new" ELSE "closed"

Rcar == INSTANCE RcarSession WITH
            status <- [s \in Sid |-> StatusOf(s)],
            deadline <- [s \in Sid |-> sessions[s].timeout],
            token <- [s \in Sid |-> sessions[s].token]

\* The concurrent handlers, the background task and restarts together do to
\* every session only what the abstract handshake allows.
ImplementsRcar == Rcar!Spec
====
