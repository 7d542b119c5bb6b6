----------------------------- MODULE AsClients -----------------------------
(***************************************************************************)
(* The way of a call from the KBS through the attestation service to its   *)
(* verifiers and the RVPS, and everything that it can wait for: a          *)
(* connection from the pool of the gRPC backend, the read-write lock that  *)
(* every front end puts around the attestation service, a verifier that    *)
(* asks a remote service, and the Mutex around the client of a remote RVPS.*)
(*                                                                         *)
(* A call is a task of the KBS and, with the gRPC backend, a second task in*)
(* the attestation service, which goes on for a while when the first one is*)
(* gone.  With the built-in backend there is one task; the REST front end  *)
(* is like it, as a handler is dropped with its connection.                *)
(*                                                                         *)
(* A policy is a number, and its file is truncated and filled by a thread  *)
(* that nothing stops but the end of the service.  The RVPS is the set of  *)
(* the values that it stores, which have distinct names: RvpsStore is about*)
(* its own steps, and the reason for what a dropped registration does here.*)
(***************************************************************************)
EXTENDS Integers, FiniteSets, Sequences

CONSTANTS
    Call,
    Asks,       \* what each call may ask for
    Backends,   \* configurations: "grpc", "builtin"
    Rvps,       \* configurations: "grpc", "builtin"
    PoolSize,   \* values of pool_size; 0 is no limit
    MaxWrites, MaxCrashes,  \* bounds for TLC
    None

ASSUME NoneAssumption == None \notin Call

VARIABLES
    cfg,        \* backend, rvps and pool_size
    op,         \* what a call asks for
    pc,         \* where the task of the KBS is
    at,         \* where the task in the attestation service is
    res,        \* how a call ended
    lock,       \* the calls that hold the read-write lock
    queue,      \* the calls that wait for it
    mutex,      \* the call that holds the client of the remote RVPS, or None
    mqueue,     \* the calls that wait for it
    link,       \* the connection of a call: "good", or "stale" if the service has restarted since, or None
    idle,       \* how many connections of each kind are in the pool
    job,        \* the write of a policy that a call left to the blocking pool, or None
    policy,     \* the file of the policy: who wrote it last, and whether all of it
    version,    \* counts the policies that were given to the blocking pool
    sent,       \* the number of registrations that still go on although their caller is gone
    refs,       \* the values in the RVPS
    registered, \* counts them
    cut,        \* the changes whose caller left while they were made
    acked,      \* policy and refs that were acknowledged
    floor,      \* what was acknowledged when a call began
    got,        \* what an evaluation or a query read
    up, crashes, writes

calls == <<cfg, op, pc, acked, floor, up, crashes, writes>>
tasks == <<at, res, got, lock, queue, mutex, mqueue>>
pool == <<link, idle>>
disk == <<job, policy, version>>
store == <<sent, refs, registered>>

vars == <<calls, tasks, pool, disk, store, cut>>

\* Which lock a call takes: the service's calls that change it take &mut self.
Reads == {"verify", "challenge", "query_reference_values"}
Writes == {"set_policy", "register_reference_value"}

ASSUME AsksAssumption == Asks \in [Call -> SUBSET (Reads \cup Writes)]

Nothing == [policy |-> [version |-> 0, whole |-> TRUE], refs |-> {}]
NoneAcked == [policy |-> 0, refs |-> {}]

Init ==
    /\ cfg \in [backend : Backends, rvps : Rvps, pool_size : PoolSize]
    /\ cfg.backend = "builtin" => cfg.pool_size = CHOOSE n \in PoolSize : TRUE   \* it has no pool
    /\ op = [c \in Call |-> None]
    /\ pc = [c \in Call |-> "idle"] /\ at = [c \in Call |-> "none"]
    /\ res = [c \in Call |-> None]
    /\ lock = {} /\ queue = <<>>
    /\ mutex = None /\ mqueue = <<>>
    /\ link = [c \in Call |-> None] /\ idle = [k \in {"good", "stale"} |-> 0]
    /\ job = [c \in Call |-> None]
    /\ policy = [version |-> 0, whole |-> TRUE] /\ version = 0
    /\ sent = 0 /\ refs = {} /\ registered = 0
    /\ cut = {}
    /\ acked = NoneAcked
    /\ floor = [c \in Call |-> NoneAcked] /\ got = [c \in Call |-> Nothing]
    /\ up = TRUE /\ crashes = 0 /\ writes = 0

-----------------------------------------------------------------------------
(* The KBS.                                                                *)

\* The calls of the Attest trait; a challenge is asked for when the TEE is Se.
\* Requests that are refused before they come to the backend change nothing, and
\* so does evidence whose init data is not in TOML.  A name is not used again
\* before all that went on under it is over.
Request(c, o) ==
    /\ pc[c] = "idle" /\ at[c] = "none" /\ job[c] = None
    /\ o \in Writes => writes < MaxWrites
    /\ writes' = IF o \in Writes THEN writes + 1 ELSE writes
    /\ op' = [op EXCEPT ![c] = o]
    /\ floor' = [floor EXCEPT ![c] = IF o \in Writes \cup {"challenge"} THEN NoneAcked ELSE acked]
    /\ pc' = [pc EXCEPT ![c] = IF cfg.backend = "grpc" THEN "pool" ELSE "call"]
    /\ UNCHANGED <<cfg, acked, up, crashes, tasks, pool, disk, store, cut>>

\* A call ends, and its connection goes back to the pool.
Forget(c) ==
    /\ pc' = [pc EXCEPT ![c] = "idle"]
    /\ op' = [op EXCEPT ![c] = IF at'[c] = "none" THEN None ELSE @]
    /\ floor' = [floor EXCEPT ![c] = NoneAcked]
    /\ link' = [link EXCEPT ![c] = None]
    /\ idle' = [k \in {"good", "stale"} |-> IF link[c] = k THEN idle[k] + 1 ELSE idle[k]]

InUse == {c \in Call : link[c] # None}

\* External, mobc: any of the calls that wait is given an idle connection, whatever
\* its state, as check accepts all, or a new one if there is none.  Connecting fails
\* if the service is down.
PoolGet(c) ==
    /\ pc[c] = "pool"
    /\ cfg.pool_size = 0 \/ Cardinality(InUse) < cfg.pool_size
    /\ \/ \E k \in {"good", "stale"} :
             /\ idle[k] > 0
             /\ idle' = [idle EXCEPT ![k] = @ - 1]
             /\ link' = [link EXCEPT ![c] = k]
             /\ pc' = [pc EXCEPT ![c] = "call"] /\ UNCHANGED <<op, floor>>
       \/ /\ \A k \in {"good", "stale"} : idle[k] = 0
          /\ up
          /\ link' = [link EXCEPT ![c] = "good"] /\ UNCHANGED idle
          /\ pc' = [pc EXCEPT ![c] = "call"] /\ UNCHANGED <<op, floor>>
       \/ /\ \A k \in {"good", "stale"} : idle[k] = 0
          /\ ~up
          /\ UNCHANGED at /\ Forget(c)
    /\ UNCHANGED <<cfg, acked, up, crashes, writes, tasks, disk, store, cut>>

\* External, mobc: pool.get gives up after 30 seconds.
PoolTimeout(c) ==
    /\ pc[c] = "pool"
    /\ UNCHANGED at /\ Forget(c)
    /\ UNCHANGED <<cfg, acked, up, crashes, writes, tasks, disk, store, cut>>

\* A stale connection is opened again when it is used, if it is known to be broken.
Reconnected(c) == link' = [link EXCEPT ![c] = IF @ = None THEN None ELSE "good"]

\* The call comes to the service and waits for its lock.
Send(c) ==
    /\ pc[c] = "call" /\ up
    /\ pc' = [pc EXCEPT ![c] = "sent"]
    /\ at' = [at EXCEPT ![c] = "queue"]
    /\ queue' = Append(queue, c)
    /\ Reconnected(c)
    /\ UNCHANGED <<cfg, op, acked, floor, up, crashes, writes, res, got, lock, mutex, mqueue, idle, disk, store, cut>>

\* The gRPC front end refuses evidence that it cannot decode, before it takes the
\* lock.
Refuse(c) ==
    /\ pc[c] = "call" /\ up /\ cfg.backend = "grpc" /\ op[c] = "verify"
    /\ pc' = [pc EXCEPT ![c] = "sent"]
    /\ at' = [at EXCEPT ![c] = "replied"]
    /\ res' = [res EXCEPT ![c] = "error"]
    /\ Reconnected(c)
    /\ UNCHANGED <<cfg, op, acked, floor, up, crashes, writes, got, lock, queue, mutex, mqueue, idle, disk, store, cut>>

\* The KBS answers its client with success.
Acknowledge(c) ==
    acked' = IF res[c] = "ok" /\ op[c] = "set_policy"
               THEN [acked EXCEPT !.policy = IF got[c].policy.version > @ THEN got[c].policy.version ELSE @]
             ELSE IF res[c] = "ok" /\ op[c] = "register_reference_value"
               THEN [acked EXCEPT !.refs = @ \cup got[c].refs]
             ELSE acked

\* The answer comes to the KBS.
Return(c) ==
    /\ pc[c] = "sent" /\ at[c] = "replied"
    /\ Acknowledge(c)
    /\ at' = [at EXCEPT ![c] = "none"]
    /\ res' = [res EXCEPT ![c] = None]
    /\ got' = [got EXCEPT ![c] = Nothing]
    /\ Forget(c)
    /\ UNCHANGED <<cfg, up, crashes, writes, lock, queue, mutex, mqueue, disk, store, cut>>

\* Mutant: the call is sent again.
BrokenRetries(c) ==
    /\ pc[c] \in {"call", "sent"} /\ at[c] = "none"
    /\ pc[c] = "call" => ~up \/ link[c] = "stale"
    /\ pc' = [pc EXCEPT ![c] = "call"]
    /\ UNCHANGED <<cfg, op, floor, acked, up, crashes, writes, tasks, pool, disk, store, cut>>

\* The connection is gone, although the service may be up again: the call fails.
Broken(c) ==
    /\ pc[c] \in {"call", "sent"} /\ at[c] = "none"
    /\ pc[c] = "call" => ~up \/ link[c] = "stale"
    /\ UNCHANGED at /\ Forget(c)
    /\ UNCHANGED <<cfg, acked, up, crashes, writes, tasks, disk, store, cut>>

-----------------------------------------------------------------------------
(* The attestation service.                                                *)

\* A task ends, and its guards are dropped.  Nobody waits for the answer of a task
\* whose caller is gone.
Reply(c, r) ==
    /\ lock' = lock \ {c}
    /\ at' = [at EXCEPT ![c] = IF pc[c] = "sent" THEN "replied" ELSE "none"]
    /\ res' = [res EXCEPT ![c] = IF pc[c] = "sent" THEN r ELSE None]
    /\ op' = [op EXCEPT ![c] = IF pc[c] = "sent" THEN @ ELSE None]

Reached(c, g) == got' = [got EXCEPT ![c] = IF pc[c] = "sent" THEN g ELSE Nothing]

kbsside == <<cfg, pc, acked, floor, up, crashes, writes, pool>>

\* The calls that ask the RVPS queue up for its client, if it is remote.
EnterRvps(c) ==
    /\ at' = [at EXCEPT ![c] = "rvps"]
    /\ mqueue' = IF cfg.rvps = "grpc" THEN Append(mqueue, c) ELSE mqueue

Writer(c) == op[c] \in Writes

\* Mutant: the lock is given to any reader while no writer holds it.
AcquireUnfair(c) ==
    /\ at[c] = "queue"
    /\ IF Writer(c) THEN lock = {} /\ c = Head(queue) ELSE \A h \in lock : ~Writer(h)
    /\ lock' = lock \cup {c}
    /\ queue' = SelectSeq(queue, LAMBDA d : d # c)
    /\ IF op[c] \in {"register_reference_value", "query_reference_values"}
         THEN EnterRvps(c)
         ELSE /\ at' = [at EXCEPT ![c] = IF Writer(c) THEN "write" ELSE "verifier"]
              /\ UNCHANGED mqueue
    /\ UNCHANGED <<kbsside, op, res, got, mutex, disk, store, cut>>

\* tokio's RwLock is fair: the first in the queue is the next to get it.
Acquire(c) ==
    /\ at[c] = "queue" /\ c = Head(queue)
    /\ IF Writer(c) THEN lock = {} ELSE \A h \in lock : ~Writer(h)
    /\ lock' = lock \cup {c}
    /\ queue' = Tail(queue)
    /\ IF op[c] \in {"register_reference_value", "query_reference_values"}
         THEN EnterRvps(c)
         ELSE /\ at' = [at EXCEPT ![c] = IF Writer(c) THEN "write" ELSE "verifier"]
              /\ UNCHANGED mqueue
    /\ UNCHANGED <<kbsside, op, res, got, mutex, disk, store, cut>>

\* The verifier answers, after what it asked of remote services.
Verifier(c) ==
    /\ at[c] = "verifier"
    /\ \/ op[c] = "verify" /\ EnterRvps(c) /\ UNCHANGED <<op, res, lock>>
       \/ op[c] = "challenge" /\ Reply(c, "ok") /\ UNCHANGED mqueue
       \/ Reply(c, "error") /\ UNCHANGED mqueue
    /\ UNCHANGED <<kbsside, got, queue, mutex, disk, store, cut>>

\* Agent: self.client.lock().await, also fair.
LockClient(c) ==
    /\ at[c] = "rvps" /\ mutex = None /\ mqueue # <<>> /\ c = Head(mqueue)
    /\ mutex' = c /\ mqueue' = Tail(mqueue)
    /\ at' = [at EXCEPT ![c] = "remote"]
    /\ UNCHANGED <<kbsside, op, res, got, lock, queue, disk, store, cut>>

NewRef == registered + 1
Store == refs' = refs \cup {NewRef} /\ registered' = NewRef /\ UNCHANGED <<sent, cut>>

\* A registration goes on in the RVPS although nobody waits for it any more.
GoesOn ==
    /\ sent' = sent + 1 /\ cut' = cut \cup {"register_reference_value"}
    /\ UNCHANGED <<refs, registered>>

\* verify_and_extract and get_digests: built in, or of the remote RVPS, after which
\* the client is unlocked.  When the connection to a remote RVPS breaks, it may
\* have registered the value all the same, or still do so.
RvpsAnswers(c) ==
    /\ at[c] = "remote" \/ (at[c] = "rvps" /\ cfg.rvps = "builtin")
    /\ mutex' = IF mutex = c THEN None ELSE mutex
    /\ \/ /\ op[c] = "register_reference_value"
          /\ Store
          /\ Reply(c, "ok") /\ Reached(c, [Nothing EXCEPT !.refs = {NewRef}])
       \/ /\ op[c] = "query_reference_values"
          /\ Reply(c, "ok") /\ Reached(c, [Nothing EXCEPT !.refs = refs])
          /\ UNCHANGED <<store, cut>>
       \/ /\ op[c] = "verify"
          /\ at' = [at EXCEPT ![c] = "issue"]
          /\ got' = [got EXCEPT ![c] = [Nothing EXCEPT !.refs = refs]]
          /\ UNCHANGED <<op, res, lock, store, cut>>
       \/ /\ Reply(c, "error") /\ UNCHANGED got
          /\ \/ UNCHANGED <<store, cut>>
             \/ at[c] = "remote" /\ op[c] = "register_reference_value" /\ (Store \/ GoesOn)
    /\ UNCHANGED <<kbsside, queue, mqueue, disk>>

\* The token broker reads the policy, which accepts or does not.
Issue(c) ==
    /\ at[c] = "issue"
    /\ \/ Reply(c, "ok") /\ Reached(c, [got[c] EXCEPT !.policy = policy])
       \/ Reply(c, "error") /\ Reached(c, Nothing)
    /\ UNCHANGED <<kbsside, queue, mutex, mqueue, disk, store, cut>>

\* set_policy refuses the policy, or gives the write to the blocking pool.
WritePolicy(c) ==
    /\ at[c] = "write"
    /\ \/ /\ version' = version + 1
          /\ job' = [job EXCEPT ![c] = [stage |-> "open", version |-> version + 1]]
          /\ at' = [at EXCEPT ![c] = "writing"]
          /\ UNCHANGED <<op, res, lock>>
       \/ Reply(c, "error") /\ UNCHANGED <<job, version>>
    /\ UNCHANGED <<kbsside, got, queue, mutex, mqueue, policy, store, cut>>

\* The thread ends, and the call that waits for it does.
Finish(c, r) ==
    /\ job' = [job EXCEPT ![c] = None]
    /\ IF at[c] = "writing"
         THEN /\ Reply(c, r)
              /\ Reached(c, IF r = "ok" THEN [Nothing EXCEPT !.policy.version = job[c].version] ELSE Nothing)
         ELSE UNCHANGED <<op, at, res, got, lock>>

\* Mutant: a file that cannot be opened is not reported.
TruncateUnchecked(c) ==
    /\ job[c] # None /\ job[c].stage = "open"
    /\ \/ /\ policy' = [version |-> job[c].version, whole |-> FALSE]
          /\ job' = [job EXCEPT ![c].stage = "fill"]
          /\ UNCHANGED <<op, at, res, got, lock>>
       \/ Finish(c, "ok") /\ UNCHANGED policy
    /\ UNCHANGED <<kbsside, queue, mutex, mqueue, version, store, cut>>

\* The file is opened and truncated, or it cannot be.
Truncate(c) ==
    /\ job[c] # None /\ job[c].stage = "open"
    /\ \/ /\ policy' = [version |-> job[c].version, whole |-> FALSE]
          /\ job' = [job EXCEPT ![c].stage = "fill"]
          /\ UNCHANGED <<op, at, res, got, lock>>
       \/ Finish(c, "error") /\ UNCHANGED policy
    /\ UNCHANGED <<kbsside, queue, mutex, mqueue, version, store, cut>>

\* It is filled, which fails if the disk is full.  If another thread has filled it
\* in the meantime, the rest of a longer policy may stay behind this one.
Fill(c) ==
    /\ job[c] # None /\ job[c].stage = "fill"
    /\ \/ /\ \E w \in {TRUE, ~policy.whole} : policy' = [version |-> job[c].version, whole |-> w]
          /\ Finish(c, "ok")
       \/ policy' = [version |-> job[c].version, whole |-> FALSE] /\ Finish(c, "error")
    /\ UNCHANGED <<kbsside, queue, mutex, mqueue, version, store, cut>>

-----------------------------------------------------------------------------
(* Tasks that are dropped, and crashes.                                    *)

\* Mutant: the guard of the lock is not dropped with the future.
ReleaseAllButLock(cs) ==
    /\ mutex' = IF mutex \in cs THEN None ELSE mutex
    /\ mqueue' = SelectSeq(mqueue, LAMBDA c : c \notin cs)
    /\ at' = [c \in Call |-> IF c \in cs THEN "none" ELSE at[c]]
    /\ res' = [c \in Call |-> IF c \in cs THEN None ELSE res[c]]
    /\ got' = [c \in Call |-> IF c \in cs THEN Nothing ELSE got[c]]
    /\ queue' = SelectSeq(queue, LAMBDA c : c \notin cs)
    /\ UNCHANGED lock

\* The futures of these calls in the service are dropped: they give back what they
\* hold and leave the queues.
Release(cs) ==
    /\ lock' = lock \ cs
    /\ mutex' = IF mutex \in cs THEN None ELSE mutex
    /\ mqueue' = SelectSeq(mqueue, LAMBDA c : c \notin cs)
    /\ at' = [c \in Call |-> IF c \in cs THEN "none" ELSE at[c]]
    /\ res' = [c \in Call |-> IF c \in cs THEN None ELSE res[c]]
    /\ got' = [c \in Call |-> IF c \in cs THEN Nothing ELSE got[c]]
    /\ queue' = SelectSeq(queue, LAMBDA c : c \notin cs)

\* What a dropped call was changing: the RVPS or the thread goes on.
Registering(c) == Writer(c) /\ (at[c] = "remote" \/ (at[c] = "rvps" /\ cfg.rvps = "builtin"))
LeaveBehind(c) ==
    IF Registering(c) THEN GoesOn
    ELSE cut' = (IF job[c] # None THEN cut \cup {"set_policy"} ELSE cut) /\ UNCHANGED store

\* The client of the KBS disconnects, and its handler is dropped: with the
\* built-in service all of the call, with the gRPC backend the half in the KBS.
Drop(c) ==
    /\ pc[c] # "idle"
    /\ IF cfg.backend = "builtin" \/ at[c] = "replied"
         THEN Release({c}) /\ LeaveBehind(c)
         ELSE UNCHANGED <<tasks, store, cut>>
    /\ Forget(c)
    /\ UNCHANGED <<cfg, acked, up, crashes, writes, disk>>

\* The service hears that the caller is gone, and drops the other half.
Cancel(c) ==
    /\ pc[c] = "idle" /\ at[c] # "none"
    /\ Release({c}) /\ LeaveBehind(c)
    /\ op' = [op EXCEPT ![c] = None]
    /\ UNCHANGED <<kbsside, disk>>

\* The service ends with its threads, and the policy stays as far as it is written.
\* A built-in RVPS has stored the value, or has not.  (A crash of the KBS with a
\* built-in service ends all calls: KbsPlugins.)
Crash ==
    /\ cfg.backend = "grpc" /\ up /\ crashes < MaxCrashes
    /\ up' = FALSE /\ crashes' = crashes + 1
    /\ Release(Call)
    /\ \/ (\A c \in Call : ~(at[c] = "remote" /\ Writer(c))) /\ UNCHANGED <<store, cut>>
       \/ (\E c \in Call : at[c] = "rvps" /\ Registering(c)) /\ Store
       \/ (\E c \in Call : at[c] = "remote" /\ Writer(c)) /\ GoesOn
    /\ job' = [c \in Call |-> None]
    /\ link' = [c \in Call |-> IF link[c] = None THEN None ELSE "stale"]
    /\ idle' = [k \in {"good", "stale"} |-> IF k = "good" THEN 0 ELSE idle["good"] + idle["stale"]]
    /\ op' = [c \in Call |-> IF pc[c] = "idle" THEN None ELSE op[c]]
    /\ UNCHANGED <<cfg, pc, acked, floor, writes, policy, version>>

\* Policies and reference values are in files; the default policy is not written
\* over what is there.
Restart ==
    /\ ~up /\ up' = TRUE
    /\ UNCHANGED <<cfg, op, pc, acked, floor, crashes, writes, tasks, pool, disk, store, cut>>

\* A registration ends when nobody waits for it any more: the RVPS stores the value,
\* and may put back what else it had stored before, or it does not store it.
Land ==
    /\ sent > 0 /\ sent' = sent - 1
    /\ \/ UNCHANGED <<refs, registered>>
       \/ \E kept \in SUBSET refs : refs' = kept \cup {NewRef} /\ registered' = NewRef
    /\ UNCHANGED <<calls, tasks, pool, disk, cut>>

\* What goes on by itself.
Step(c) ==
    \/ PoolGet(c) \/ PoolTimeout(c) \/ Send(c) \/ Refuse(c) \/ Return(c) \/ Broken(c)
    \/ Acquire(c) \/ Verifier(c) \/ LockClient(c)
    \/ RvpsAnswers(c) \/ Issue(c) \/ WritePolicy(c) \/ Truncate(c) \/ Fill(c)

Next ==
    \/ \E c \in Call :
          \/ \E o \in Asks[c] : Request(c, o)
          \/ Step(c) \/ Drop(c) \/ Cancel(c)
    \/ Crash \/ Restart \/ Land

\* Tasks run, timers fire, and verifiers and the RVPS answer or fail: the code
\* sets no timeout for them.
Fairness == \A c \in Call : WF_vars(Step(c))

Spec == Init /\ [][Next]_vars /\ Fairness

-----------------------------------------------------------------------------
(* Properties.                                                             *)

Working == {"verifier", "rvps", "remote", "issue", "write", "writing"}

\* No guard outlives its task, and no task works without it: the holders of the
\* lock are the calls that are at work, a writer is alone among them, and the
\* client of the remote RVPS is locked by the call that talks to it; however calls
\* were dropped, cancelled or cut off.
GuardsMatchTasks ==
    /\ lock = {c \in Call : at[c] \in Working}
    /\ \A c \in lock : Writer(c) => lock = {c}
    /\ {c \in Call : at[c] = "remote"} = {mutex} \ {None}

\* A change that was asked for once is made at most once, although connections
\* break, services restart, pools time out and changes go on behind a caller that is
\* gone: nobody on the way repeats a call.
AppliedAtMostOnce == version + registered + sent <= writes

\* An evaluation that began after a policy or a reference value was acknowledged is
\* made with it, or with what a later change of the policy has left, and a query
\* reports it: whichever connections they took, with crashes in the middle of a write,
\* writes that fail and calls of all kinds that are dropped; only a policy, or a
\* registration, whose caller left while it was being written can undo a later one.
AcknowledgedIsSeen ==
    \A c \in Call : at[c] = "replied" /\ res[c] = "ok" =>
        /\ op[c] = "verify" /\ "set_policy" \notin cut =>
             \/ got[c].policy.version > floor[c].policy
             \/ got[c].policy = [version |-> floor[c].policy, whole |-> TRUE]
        /\ op[c] \in {"verify", "query_reference_values"} /\ "register_reference_value" \notin cut =>
             floor[c].refs \subseteq got[c].refs

\* Every call ends, in the KBS and in the service, although new evaluations keep
\* coming: a change of a policy that waits for the lock is not overtaken for ever,
\* evaluations that come behind it get their turn, and lock, client and
\* connections are never waited for in a circle.
EveryCallEnds == \A c \in Call : []<>(pc[c] = "idle" /\ at[c] = "none")
=============================================================================
