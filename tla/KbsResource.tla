----------------------------- MODULE KbsResource -----------------------------
(***************************************************************************)
(* The requests of the KBS API that reach the resource plugin and the      *)
(* resource policy (kbs/src/api_server.rs, api): reading a resource with   *)
(* an attestation token under the policy, writing a resource, and setting  *)
(* and reading the policy as the administrator.                            *)
(*                                                                         *)
(* The policy engine is behind a tokio Mutex that is held across the read  *)
(* or the write of the policy file; the repository has no lock.  Both      *)
(* write with tokio::fs::write: a thread of the blocking pool truncates    *)
(* the file and fills it, also when the request that waits for it has been *)
(* dropped.  Torn stands for a file that is empty or a mix of two writes.  *)
(***************************************************************************)
EXTENDS Integers

CONSTANTS
    Request,
    Path,           \* resource paths
    Desc,           \* the paths that parse as repository/type/tag
    Data,           \* contents of resources
    Policy,         \* contents of the policy file that parse as a policy
    DefaultPolicy,
    BadPolicy,      \* one that does not
    Token,          \* attestation tokens
    Trusted,        \* the tokens that the verifier accepts
    Key,            \* the TEE public key in the claims of a token, or NoKey
    Verdict,        \* what a policy says of a token and a path
    AdminJwt,       \* an Authorization header signed by the administrator
    InsecureApi,    \* whether admin requests are checked at all
    DropAt,         \* where a client may disconnect during a request
    MayFail,        \* whether the process may crash and writes may fail
    None, NoKey, NoPolicy, Missing, Torn

ASSUME ResourceAssumption ==
    /\ Desc \subseteq Path
    /\ Trusted \subseteq Token
    /\ DefaultPolicy \in Policy
    /\ Verdict \in [Policy \X Token \X Path -> {"allow", "deny", "error"}]
    /\ InsecureApi \in BOOLEAN /\ MayFail \in BOOLEAN
    /\ DropAt \subseteq {"policy", "read", "write", "set", "show", "showing"}
    /\ None \notin Token /\ AdminJwt \notin Token
    /\ BadPolicy \notin Policy /\ Torn \notin Policy /\ NoPolicy \notin Policy
    /\ Torn \notin Data \cup {Missing}

VARIABLES
    repo,       \* the content of each file of the repository
    policy,     \* the content of the policy file
    pc, kind,   \* where each request is, and what it is
    path, val,  \* the path it names, and the content that it sends
    tok,        \* the attestation token that it carries
    job,        \* the write that it left to the blocking pool
    out,        \* how it ended
    sent,       \* the content that it was answered with, and the key for it
    decided,    \* the policy that decided it
    m,          \* the counters of policy decisions and resource accesses
    last,       \* the policy of the last successful request to set one
    settled,    \* the requests that had ended by then
    doubt       \* the writes of resources that no later one has made good

files == <<repo, policy>>
args == <<kind, path, val, tok>>
answers == <<out, sent, decided>>
history == <<last, settled, doubt>>
vars == <<files, pc, args, job, answers, m, history>>

Metric == {"evals", "approvals", "violations", "errors", "reads", "writes"}
NoMetrics == [n \in Metric |-> 0]
Inc(mm, n) == [mm EXCEPT ![n] = @ + 1]

Contents == Data \cup {Missing, Torn}

Init ==
    /\ repo = [x \in Path |-> Missing]
    /\ policy = DefaultPolicy
    /\ pc = [r \in Request |-> "idle"]
    /\ kind = [r \in Request |-> "none"]
    /\ path = [r \in Request |-> None]
    /\ val = [r \in Request |-> None]
    /\ tok = [r \in Request |-> None]
    /\ job = [r \in Request |-> "none"]
    /\ out = [r \in Request |-> "none"]
    /\ sent = [r \in Request |-> None]
    /\ decided = [r \in Request |-> NoPolicy]
    /\ m = NoMetrics
    /\ last = DefaultPolicy
    /\ settled = {}
    /\ doubt = [r \in Request |-> "none"]

-----------------------------------------------------------------------------
(* Requests arrive.                                                        *)

Start(r, k, x, v, t) ==
    /\ pc[r] = "idle"
    /\ kind' = [kind EXCEPT ![r] = k]
    /\ path' = [path EXCEPT ![r] = x]
    /\ val' = [val EXCEPT ![r] = v]
    /\ tok' = [tok EXCEPT ![r] = t]

Goto(r, l) ==
    /\ pc' = [pc EXCEPT ![r] = l]
    /\ UNCHANGED out

End(r, o) ==
    /\ pc' = [pc EXCEPT ![r] = "done"]
    /\ out' = [out EXCEPT ![r] = o]

\* get_attestation_token: the token of the session, else the Authorization header.
TokenOf(session, bearer) == IF session # None THEN session ELSE bearer

\* The verifier accepts the token; the evaluation is counted before it begins.
Get(r, x, session, bearer) ==
    /\ TokenOf(session, bearer) \in Trusted
    /\ Start(r, "get", x, None, TokenOf(session, bearer))
    /\ Goto(r, "policy")
    /\ m' = Inc(m, "evals")
    /\ UNCHANGED <<files, job, sent, decided, history>>

GetRefused(r, x, session, bearer) ==
    /\ TokenOf(session, bearer) \notin Trusted
    /\ Start(r, "get", x, None, TokenOf(session, bearer))
    /\ End(r, "refused")
    /\ UNCHANGED <<files, job, sent, decided, m, history>>

\* Admin::validate_auth
IsAdmin(bearer) == InsecureApi \/ bearer = AdminJwt

\* The writes of x under way.
Writers(x) == {s \in Request : kind[s] = "put" /\ path[s] = x /\ job[s] # "none"}

Put(r, x, d, bearer) ==
    /\ Start(r, "put", x, d, None)
    /\ IF ~IsAdmin(bearer)
         THEN End(r, "refused") /\ UNCHANGED <<m, job, doubt>>
         ELSE IF x \notin Desc
           THEN End(r, "failed") /\ UNCHANGED <<m, job, doubt>>
           ELSE /\ Goto(r, "write")
                /\ job' = [job EXCEPT ![r] = "queued"]
                /\ m' = Inc(m, "writes")
                /\ doubt' = IF Writers(x) = {}
                              THEN [doubt EXCEPT ![r] = "alone"]
                              ELSE [s \in Request |-> IF s \in Writers(x) \cup {r} THEN "met" ELSE doubt[s]]
    /\ UNCHANGED <<files, sent, decided, last, settled>>

SetPolicy(r, p, bearer) ==
    /\ Start(r, "set", None, p, None)
    /\ IF IsAdmin(bearer) THEN Goto(r, "set") ELSE End(r, "refused")
    /\ UNCHANGED <<files, job, sent, decided, m, history>>

GetPolicy(r, bearer) ==
    /\ Start(r, "show", None, None, None)
    /\ IF IsAdmin(bearer) THEN Goto(r, "show") ELSE End(r, "refused")
    /\ UNCHANGED <<files, job, sent, decided, m, history>>

-----------------------------------------------------------------------------
(* The policy decides, under the Mutex of the engine.                      *)

EngineHeld == \E r \in Request : pc[r] = "showing" \/ (kind[r] = "set" /\ pc[r] = "write")

\* Mutant: the engine is not locked to evaluate.
EvaluatesUnlocked(r) ==
    /\ pc[r] = "policy"
    /\ decided' = [decided EXCEPT ![r] = policy]
    /\ UNCHANGED <<files, args, job, sent, history>>

\* Opa::evaluate, which reads the policy file anew; it has no await.
Evaluates(r) ==
    /\ pc[r] = "policy"
    /\ ~EngineHeld
    /\ decided' = [decided EXCEPT ![r] = policy]
    /\ UNCHANGED <<files, args, job, sent, history>>

\* A torn file is parsed like any other: it may not load, and the beginning of a
\* policy, or a mix of two, may also be a policy that says anything.
Says(r, v) == policy # Torn => Verdict[<<policy, tok[r], path[r]>>] = v

\* The plugin then looks at the path and counts and queues the read.
Approve(r) ==
    /\ Evaluates(r)
    /\ Says(r, "allow")
    /\ IF path[r] \in Desc
         THEN Goto(r, "read") /\ m' = Inc(Inc(m, "approvals"), "reads")
         ELSE End(r, "failed") /\ m' = Inc(m, "approvals")

Deny(r) ==
    /\ Evaluates(r)
    /\ Says(r, "deny")
    /\ m' = Inc(m, "violations")
    /\ End(r, "denied")

EvaluateFails(r) ==
    /\ Evaluates(r)
    /\ Says(r, "error")
    /\ m' = Inc(m, "errors")
    /\ End(r, "failed")

\* The plugin's read returns; the answer is encrypted for the key in the claims.
Answer(r) ==
    /\ pc[r] = "read"
    /\ LET c == repo[path[r]]
           k == Key[tok[r]]
       IN  IF c = Missing \/ k = NoKey
             THEN End(r, "failed") /\ UNCHANGED sent
             ELSE End(r, "ok") /\ sent' = [sent EXCEPT ![r] = <<c, k>>]
    /\ UNCHANGED <<files, args, job, decided, m, history>>

\* PolicyEngine::set_policy has the Mutex; the policy is decoded and parsed.
SetLocked(r) ==
    /\ pc[r] = "set"
    /\ ~EngineHeld
    /\ IF val[r] = BadPolicy
         THEN End(r, "failed") /\ UNCHANGED job
         ELSE Goto(r, "write") /\ job' = [job EXCEPT ![r] = "queued"]
    /\ UNCHANGED <<files, args, sent, decided, m, history>>

\* PolicyEngine::get_policy has the Mutex, and then the file.
ShowLocked(r) ==
    /\ pc[r] = "show"
    /\ ~EngineHeld
    /\ Goto(r, "showing")
    /\ UNCHANGED <<files, args, job, sent, decided, m, history>>

\* Mutant: reading the policy locks the engine once more.
ShownRelocks(r) ==
    /\ pc[r] = "showing"
    /\ ~EngineHeld
    /\ End(r, "ok")
    /\ UNCHANGED <<files, args, job, sent, decided, m, history>>

Shown(r) ==
    /\ pc[r] = "showing"
    /\ End(r, "ok")
    /\ UNCHANGED <<files, args, job, sent, decided, m, history>>

-----------------------------------------------------------------------------
(* The blocking pool writes.                                               *)

Content(r) == IF kind[r] = "put" THEN repo[path[r]] ELSE policy

Write(r, c) ==
    IF kind[r] = "put"
      THEN repo' = [repo EXCEPT ![path[r]] = c] /\ UNCHANGED policy
      ELSE policy' = c /\ UNCHANGED repo

Truncate(r) ==
    /\ job[r] = "queued"
    /\ Write(r, Torn)
    /\ job' = [job EXCEPT ![r] = "truncated"]
    /\ UNCHANGED <<pc, args, answers, m, history>>

\* When another write filled the file since, the end of the longer one may stay.
Fill(r) ==
    /\ job[r] = "truncated"
    /\ \E c \in {val[r]} \cup (IF Content(r) = Torn THEN {} ELSE {Torn}) : Write(r, c)
    /\ job' = [job EXCEPT ![r] = "filled"]
    /\ UNCHANGED <<pc, args, answers, m, history>>

\* A write that no other one met makes good whatever was written there before.
Acknowledge(r) ==
    IF kind[r] = "set"
      THEN /\ last' = val[r]
           /\ settled' = {s \in Request : pc[s] = "done"}
           /\ UNCHANGED doubt
      ELSE /\ doubt' = [s \in Request |-> IF doubt[r] = "alone" /\ path[s] = path[r] THEN "none" ELSE doubt[s]]
           /\ UNCHANGED <<last, settled>>

\* The request, if it still waits, is answered, and the Mutex released.
Written(r) ==
    /\ job[r] = "filled"
    /\ job' = [job EXCEPT ![r] = "none"]
    /\ IF pc[r] = "write" THEN End(r, "ok") /\ Acknowledge(r) ELSE UNCHANGED <<pc, out, history>>
    /\ UNCHANGED <<files, args, sent, decided, m>>

\* Mutant: the result of the write is not looked at.
WriteFailsIgnored(r) ==
    /\ MayFail
    /\ job[r] \in {"queued", "truncated"}
    /\ job' = [job EXCEPT ![r] = "none"]
    /\ IF pc[r] = "write" THEN End(r, "ok") /\ Acknowledge(r) ELSE UNCHANGED <<pc, out, history>>
    /\ UNCHANGED <<files, args, sent, decided, m>>

\* The file cannot be opened, or the disk is full.
WriteFails(r) ==
    /\ MayFail
    /\ job[r] \in {"queued", "truncated"}
    /\ job' = [job EXCEPT ![r] = "none"]
    /\ IF pc[r] = "write" THEN End(r, "failed") ELSE UNCHANGED <<pc, out>>
    /\ UNCHANGED <<files, args, sent, decided, m, history>>

-----------------------------------------------------------------------------

\* The client disconnects: the handler is dropped at an await.
Drop(r) ==
    /\ pc[r] \in DropAt
    /\ End(r, "dropped")
    /\ UNCHANGED <<files, args, job, sent, decided, m, history>>

\* A crash and the restart.  Opa::new keeps the policy file that it finds.
Crash ==
    /\ MayFail
    /\ pc' = [r \in Request |-> IF pc[r] = "idle" THEN "idle" ELSE "done"]
    /\ out' = [r \in Request |-> IF pc[r] \in {"idle", "done"} THEN out[r] ELSE "dropped"]
    /\ job' = [r \in Request |-> "none"]
    /\ m' = NoMetrics
    /\ UNCHANGED <<files, args, sent, decided, history>>

Arrive(r) ==
    \/ \E x \in Path, s \in Token \cup {None}, b \in Token \cup {AdminJwt, None} :
            Get(r, x, s, b) \/ GetRefused(r, x, s, b)
    \/ \E x \in Path, d \in Data, b \in {AdminJwt, None} : Put(r, x, d, b)
    \/ \E p \in Policy \cup {BadPolicy}, b \in {AdminJwt, None} : SetPolicy(r, p, b)
    \/ \E b \in {AdminJwt, None} : GetPolicy(r, b)

Proceed(r) ==
    \/ Approve(r)
    \/ Deny(r)
    \/ EvaluateFails(r)
    \/ Answer(r)
    \/ SetLocked(r)
    \/ ShowLocked(r)
    \/ Shown(r)
    \/ Truncate(r)
    \/ Fill(r)
    \/ Written(r)

Next ==
    \/ \E r \in Request : Arrive(r) \/ Proceed(r) \/ WriteFails(r) \/ Drop(r)
    \/ Crash

Spec == Init /\ [][Next]_vars

\* The workers poll the handlers and the blocking pool runs the writes.
FairSpec == Spec /\ \A r \in Request : WF_vars(Proceed(r))

-----------------------------------------------------------------------------
(* Properties.                                                             *)

\* A request to set the policy that ended before its file was known to be whole.
CutOff(r) ==
    /\ kind[r] = "set" /\ val[r] # BadPolicy
    /\ out[r] \in {"failed", "dropped"}

\* A resource leaves the KBS only for a token that the verifier accepted, when
\* a whole policy allowed this token this path, and encrypted for the key of
\* that token, whatever happens to the policy file and the repository meanwhile.
\* Half a policy decides only after a request to set one failed or was cut off,
\* never because the policy is being set: the Mutex keeps evaluations away.
ReleasedAsPermitted ==
    \A r \in Request : sent[r] # None =>
        /\ tok[r] \in Trusted
        /\ sent[r][2] = Key[tok[r]]
        /\ \/ decided[r] \in Policy /\ Verdict[<<decided[r], tok[r], path[r]>>] = "allow"
           \/ decided[r] = Torn /\ \E s \in Request : CutOff(s)

Pending(r) ==
    /\ kind[r] = "set" /\ val[r] # BadPolicy
    /\ out[r] \in {"none", "failed", "dropped"}
    /\ r \notin settled

\* The policy in force is the one of the last request to set a policy that
\* succeeded, unless another one is under way, or has failed or was cut off since.
AcknowledgedPolicyGoverns ==
    \/ policy = last
    \/ \E r \in Request : Pending(r) /\ policy \in {val[r], Torn}

\* A resource reads as empty or mixed only for a write that has not finished, has
\* failed or was cut off, or for two that were under way together, and only until
\* a write that met no other one is acknowledged: writes one after the other, each
\* acknowledged, never leave it so.
TornHasCause ==
    \A x \in Path : repo[x] = Torn =>
        \E r \in Request : kind[r] = "put" /\ path[r] = x /\ doubt[r] # "none"

\* Every request is answered: nobody waits for the policy engine for ever.  (One
\* formula for all requests: a request is made once, and stays done.)
EveryRequestEnds == []<>(\A r \in Request : pc[r] \in {"idle", "done"})

\* The policy that readers are to see: while one is written, the new one.
InForce ==
    IF \E r \in Request : kind[r] = "set" /\ job[r] = "truncated"
      THEN val[CHOOSE r \in Request : kind[r] = "set" /\ job[r] = "truncated"]
      ELSE policy

Abstract == INSTANCE ResourcePolicy WITH policy <- InForce

\* The file, the Mutex and the blocking pool implement a policy that changes at
\* once: no request is decided by a policy that is half written.
ImplementsPolicy == Abstract!Spec
====
