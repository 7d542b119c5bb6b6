-------------------------- MODULE AsClients_proofs --------------------------
(***************************************************************************)
(* Proofs about AsClients, for every number of calls, connections, writes  *)
(* and crashes.                                                            *)
(***************************************************************************)
EXTENDS AsClients, TLAPS, FiniteSetTheorems

-----------------------------------------------------------------------------
(* The guards of the lock and of the client of the remote RVPS.            *)

\* A call that has not been sent has no task in the service: without this, sending
\* it could take a task away from under the lock that it holds.
Tasks ==
    /\ pc \in [Call -> {"idle", "pool", "call", "sent"}]
    /\ at \in [Call -> Working \cup {"none", "queue", "replied"}]
    /\ op \in [Call -> Reads \cup Writes \cup {None}]
    /\ mutex \in Call \cup {None}
    /\ \A c \in Call : pc[c] \in {"pool", "call"} => at[c] = "none"

\* The inductive invariant of the guards.
GuardInv == Tasks /\ GuardsMatchTasks

\* What dropping futures does to the guards.
LEMMA ReleaseGuards ==
    ASSUME NEW cs, Release(cs)
    PROVE  /\ lock' = lock \ cs
           /\ mutex' = IF mutex \in cs THEN None ELSE mutex
           /\ at' = [c \in Call |-> IF c \in cs THEN "none" ELSE at[c]]
BY Zenon DEF Release

\* Tasks that are dropped take their guards with them.
LEMMA ReleaseKeepsGuards ==
    ASSUME GuardInv, NEW cs \in SUBSET Call, Release(cs),
           op' \in [Call -> Reads \cup Writes \cup {None}],
           \A c \in Call \ cs : op'[c] = op[c]
    PROVE  GuardsMatchTasks' /\ mutex' \in Call \cup {None}
           /\ at' \in [Call -> Working \cup {"none", "queue", "replied"}]
<1>1. /\ lock' = lock \ cs
      /\ mutex' = IF mutex \in cs THEN None ELSE mutex
      /\ at' = [c \in Call |-> IF c \in cs THEN "none" ELSE at[c]]
  BY ReleaseGuards, Zenon
<1>2. at' \in [Call -> Working \cup {"none", "queue", "replied"}]
  BY <1>1, Zenon DEF GuardInv, Tasks
<1>3. lock' = {c \in Call : at'[c] \in Working}
  BY <1>1, Zenon DEF GuardInv, Tasks, GuardsMatchTasks, Working
<1>4. \A c \in lock' : Writer(c)' => lock' = {c}
  BY <1>1 DEF GuardInv, Tasks, GuardsMatchTasks, Writer
<1>5. {c \in Call : at'[c] = "remote"} = {mutex'} \ {None}
  BY <1>1, NoneAssumption DEF GuardInv, Tasks, GuardsMatchTasks
<1>6. mutex' \in Call \cup {None}
  BY <1>1, Zenon DEF GuardInv, Tasks
<1> QED
  BY <1>2, <1>3, <1>4, <1>5, <1>6, Zenon DEF GuardsMatchTasks

\* Nobody holds anything at first.
LEMMA GuardInit == Init => GuardInv
BY NoneAssumption DEF Init, GuardInv, Tasks, GuardsMatchTasks, Working

\* A step that ends in Reply drops the guard of the call.
LEMMA ReplyKeepsGuards ==
    ASSUME GuardInv, NEW c \in Call, NEW r, Reply(c, r),
           at[c] \in Working, UNCHANGED pc,
           mutex' = IF mutex = c THEN None ELSE mutex
    PROVE  GuardInv'
<1>1. Tasks'
  BY Zenon DEF GuardInv, Tasks, Reply, Working
<1>2. lock' = {d \in Call : at'[d] \in Working}
  BY Zenon DEF GuardInv, Tasks, GuardsMatchTasks, Reply, Working
<1>3. \A d \in lock' : Writer(d)' => lock' = {d}
  BY ZenonT(40) DEF GuardInv, Tasks, GuardsMatchTasks, Reply, Writer
<1>4. {d \in Call : at'[d] = "remote"} = {mutex'} \ {None}
  BY NoneAssumption, Zenon DEF GuardInv, Tasks, GuardsMatchTasks, Reply
<1> QED
  BY <1>1, <1>2, <1>3, <1>4, Zenon DEF GuardInv, GuardsMatchTasks

\* A step of the KBS alone leaves the guards and the tasks of the service as they
\* are, and changes what a call asks for only if it has no task.
LEMMA KbsKeepsGuards ==
    ASSUME GuardInv, NEW c \in Call,
           UNCHANGED <<at, lock, mutex>>,
           \E p \in {"idle", "pool", "call", "sent"} : pc' = [pc EXCEPT ![c] = p],
           pc'[c] \in {"pool", "call"} => at[c] = "none",
           \E o \in Reads \cup Writes \cup {None} :
              op' = [op EXCEPT ![c] = IF at[c] = "none" THEN o ELSE @]
    PROVE  GuardInv'
<1>1. Tasks'
  BY DEF GuardInv, Tasks
<1>2. \A d \in lock : op'[d] = op[d]
  BY DEF GuardInv, Tasks, GuardsMatchTasks, Working
<1> QED
  BY <1>1, <1>2, Zenon DEF GuardInv, GuardsMatchTasks, Writer

\* Every step keeps the guards with their tasks.
LEMMA GuardStep == GuardInv /\ [Next]_vars => GuardInv'
<1> SUFFICES ASSUME GuardInv, [Next]_vars PROVE GuardInv'
  BY Zenon
<1>1. ASSUME NEW c \in Call, NEW o \in Asks[c], Request(c, o) PROVE GuardInv'
  <2>1. o \in Reads \cup Writes
    BY AsksAssumption, Zenon
  <2> QED
    BY <1>1, <2>1, KbsKeepsGuards, Zenon DEF Request, tasks, GuardInv, Tasks
<1>2. ASSUME NEW c \in Call, PoolGet(c) PROVE GuardInv'
  <2>1. at[c] = "none" /\ UNCHANGED <<at, lock, mutex>>
    BY <1>2, Zenon DEF PoolGet, tasks, GuardInv, Tasks
  <2>2. CASE pc' = [pc EXCEPT ![c] = "call"] /\ UNCHANGED op
    BY <2>1, <2>2, KbsKeepsGuards DEF GuardInv, Tasks
  <2>3. CASE Forget(c)
    BY <2>1, <2>3, KbsKeepsGuards, Zenon DEF Forget, GuardInv, Tasks
  <2> QED
    BY <1>2, <2>2, <2>3, Zenon DEF PoolGet
<1>3. ASSUME NEW c \in Call, PoolTimeout(c) PROVE GuardInv'
  BY <1>3, KbsKeepsGuards, Zenon DEF PoolTimeout, Forget, tasks, GuardInv, Tasks
<1>4. ASSUME NEW c \in Call, Send(c) PROVE GuardInv'
  <2>1. Tasks'
    BY <1>4, Zenon DEF Send, GuardInv, Tasks
  <2>2. at[c] = "none" /\ at' = [at EXCEPT ![c] = "queue"]
    BY <1>4, Zenon DEF Send, GuardInv, Tasks
  <2>3. lock' = {d \in Call : at'[d] \in Working}
    BY <1>4, <2>2, Zenon DEF Send, GuardInv, Tasks, GuardsMatchTasks, Working
  <2> QED
    BY <1>4, <2>1, <2>2, <2>3 DEF Send, GuardInv, Tasks, GuardsMatchTasks, Writer
<1>5. ASSUME NEW c \in Call, Refuse(c) PROVE GuardInv'
  <2>1. Tasks'
    BY <1>5, Zenon DEF Refuse, GuardInv, Tasks
  <2>2. at[c] = "none" /\ at' = [at EXCEPT ![c] = "replied"]
    BY <1>5, Zenon DEF Refuse, GuardInv, Tasks
  <2>3. lock' = {d \in Call : at'[d] \in Working}
    BY <1>5, <2>2, Zenon DEF Refuse, GuardInv, Tasks, GuardsMatchTasks, Working
  <2> QED
    BY <1>5, <2>1, <2>2, <2>3 DEF Refuse, GuardInv, Tasks, GuardsMatchTasks, Writer
<1>6. ASSUME NEW c \in Call, Return(c) PROVE GuardInv'
  <2>1. Tasks' /\ at' = [at EXCEPT ![c] = "none"] /\ op' = [op EXCEPT ![c] = None]
    BY <1>6, Zenon DEF Return, Forget, GuardInv, Tasks
  <2>2. lock' = {d \in Call : at'[d] \in Working} /\ c \notin lock
    BY <1>6, <2>1 DEF Return, GuardInv, Tasks, GuardsMatchTasks, Working
  <2> QED
    BY <1>6, <2>1, <2>2 DEF Return, GuardInv, Tasks, GuardsMatchTasks, Writer
<1>7. ASSUME NEW c \in Call, Broken(c) PROVE GuardInv'
  BY <1>7, KbsKeepsGuards, Zenon DEF Broken, Forget, tasks, GuardInv, Tasks
<1>8. ASSUME NEW c \in Call, Acquire(c) PROVE GuardInv'
  <2>1. PICK w \in {"rvps", "write", "verifier"} : at' = [at EXCEPT ![c] = w]
    BY <1>8, Zenon DEF Acquire, EnterRvps
  <2>2. Tasks'
    BY <1>8, <2>1, Zenon DEF Acquire, kbsside, GuardInv, Tasks, Working
  <2>3. lock' = {d \in Call : at'[d] \in Working}
    BY <1>8, <2>1 DEF Acquire, GuardInv, Tasks, GuardsMatchTasks, Working
  <2>4. \A d \in lock' : Writer(d)' => lock' = {d}
    BY <1>8, Zenon DEF Acquire, GuardInv, GuardsMatchTasks, Writer
  <2> QED
    BY <1>8, <2>1, <2>2, <2>3, <2>4 DEF Acquire, GuardInv, Tasks, GuardsMatchTasks
<1>9. ASSUME NEW c \in Call, Verifier(c) PROVE GuardInv'
  <2>1. mutex # c
    BY <1>9, NoneAssumption, Zenon DEF Verifier, GuardInv, Tasks, GuardsMatchTasks
  <2>2. ASSUME NEW r, Reply(c, r) PROVE GuardInv'
    BY <1>9, <2>1, <2>2, ReplyKeepsGuards, Zenon DEF Verifier, kbsside, Working
  <2>3. CASE EnterRvps(c) /\ UNCHANGED <<op, res, lock>>
    BY <1>9, <2>3, ZenonT(40) DEF Verifier, EnterRvps, kbsside, GuardInv, Tasks, GuardsMatchTasks, Working, Writer
  <2> QED
    BY <1>9, <2>2, <2>3, Zenon DEF Verifier
<1>10. ASSUME NEW c \in Call, LockClient(c) PROVE GuardInv'
  <2>1. Tasks'
    BY <1>10, Zenon DEF LockClient, kbsside, GuardInv, Tasks, Working
  <2>2. lock' = {d \in Call : at'[d] \in Working}
    BY <1>10, Zenon DEF LockClient, GuardInv, Tasks, GuardsMatchTasks, Working
  <2>3. {d \in Call : at'[d] = "remote"} = {mutex'} \ {None}
    BY <1>10, NoneAssumption DEF LockClient, GuardInv, Tasks, GuardsMatchTasks
  <2> QED
    BY <1>10, <2>1, <2>2, <2>3, Zenon DEF LockClient, GuardInv, GuardsMatchTasks, Writer
<1>11. ASSUME NEW c \in Call, RvpsAnswers(c) PROVE GuardInv'
  <2>1. at[c] \in {"remote", "rvps"} /\ UNCHANGED pc /\ mutex' = IF mutex = c THEN None ELSE mutex
    BY <1>11, Zenon DEF RvpsAnswers, kbsside
  <2>2. ASSUME NEW r, Reply(c, r) PROVE GuardInv'
    BY <2>1, <2>2, ReplyKeepsGuards, Zenon DEF Working
  <2>3. CASE at' = [at EXCEPT ![c] = "issue"] /\ UNCHANGED <<op, lock>>
    <3>1. Tasks'
      BY <2>1, <2>3, Zenon DEF GuardInv, Tasks, Working
    <3>2. lock' = {d \in Call : at'[d] \in Working}
      BY <2>1, <2>3, Zenon DEF GuardInv, Tasks, GuardsMatchTasks, Working
    <3>3. {d \in Call : at'[d] = "remote"} = {mutex'} \ {None}
      BY <2>1, <2>3, NoneAssumption, Zenon DEF GuardInv, Tasks, GuardsMatchTasks
    <3> QED
      BY <2>3, <3>1, <3>2, <3>3, Zenon DEF GuardInv, GuardsMatchTasks, Writer
  <2> QED
    BY <1>11, <2>2, <2>3, Zenon DEF RvpsAnswers
<1>12. ASSUME NEW c \in Call, Issue(c) PROVE GuardInv'
  <2>1. mutex # c
    BY <1>12, NoneAssumption, Zenon DEF Issue, GuardInv, Tasks, GuardsMatchTasks
  <2> QED
    BY <1>12, <2>1, ReplyKeepsGuards, Zenon DEF Issue, kbsside, Working
<1>13. ASSUME NEW c \in Call, WritePolicy(c) PROVE GuardInv'
  <2>1. mutex # c
    BY <1>13, NoneAssumption, Zenon DEF WritePolicy, GuardInv, Tasks, GuardsMatchTasks
  <2>2. at[c] = "write" /\ UNCHANGED <<pc, mutex>>
    BY <1>13, Zenon DEF WritePolicy, kbsside
  <2>3. CASE Reply(c, "error")
    BY <2>1, <2>2, <2>3, ReplyKeepsGuards, Zenon DEF Working
  <2>4. CASE at' = [at EXCEPT ![c] = "writing"] /\ UNCHANGED <<op, lock>>
    BY <2>2, <2>4, ZenonT(40) DEF GuardInv, Tasks, GuardsMatchTasks, Working, Writer
  <2> QED
    BY <1>13, <2>3, <2>4, Zenon DEF WritePolicy
<1>18. ASSUME NEW c \in Call, Truncate(c) \/ Fill(c) PROVE GuardInv'
  <2>1. UNCHANGED <<pc, mutex>>
    BY <1>18, Zenon DEF Truncate, Fill, kbsside
  <2>2. CASE UNCHANGED <<op, at, res, got, lock>>
    BY <2>1, <2>2, Zenon DEF GuardInv, Tasks, GuardsMatchTasks, Writer
  <2>3. CASE at[c] = "writing" /\ \E r \in {"ok", "error"} : Reply(c, r)
    <3>1. mutex # c
      BY <2>3, NoneAssumption, Zenon DEF GuardInv, Tasks, GuardsMatchTasks
    <3> QED BY <2>1, <2>3, <3>1, ReplyKeepsGuards, Zenon DEF Working
  <2> QED
    BY <1>18, <2>2, <2>3, Zenon DEF Truncate, Fill, Finish
<1>14. ASSUME NEW c \in Call, Drop(c) PROVE GuardInv'
  <2>1. CASE cfg.backend = "builtin" \/ at[c] = "replied"
    <3>1. Release({c}) /\ Forget(c)
      BY <1>14, <2>1, Zenon DEF Drop
    <3>2. at'[c] = "none"
      BY <3>1, ReleaseGuards DEF GuardInv, Tasks
    <3>3. op' \in [Call -> Reads \cup Writes \cup {None}] /\ \A d \in Call \ {c} : op'[d] = op[d]
      BY <3>1, Zenon DEF Forget, GuardInv, Tasks
    <3>4. /\ GuardsMatchTasks' /\ mutex' \in Call \cup {None}
          /\ at' \in [Call -> Working \cup {"none", "queue", "replied"}]
      BY <3>1, <3>3, ReleaseKeepsGuards, Zenon
    <3>5. at' = [d \in Call |-> IF d \in {c} THEN "none" ELSE at[d]]
      BY <3>1, ReleaseGuards, Zenon
    <3>6. Tasks'
      BY <3>1, <3>3, <3>4, <3>5, Zenon DEF Forget, GuardInv, Tasks
    <3> QED
      BY <3>4, <3>6, Zenon DEF GuardInv
  <2>2. CASE ~(cfg.backend = "builtin" \/ at[c] = "replied")
    BY <1>14, <2>2, KbsKeepsGuards, Zenon DEF Drop, Forget, tasks, GuardInv, Tasks
  <2> QED
    BY <2>1, <2>2, Zenon
<1>15. ASSUME NEW c \in Call, Cancel(c) PROVE GuardInv'
  <2>1. Release({c}) /\ op' = [op EXCEPT ![c] = None] /\ UNCHANGED pc
    BY <1>15, Zenon DEF Cancel, kbsside
  <2>2. op' \in [Call -> Reads \cup Writes \cup {None}] /\ \A d \in Call \ {c} : op'[d] = op[d]
    BY <2>1, Zenon DEF GuardInv, Tasks
  <2>3. /\ GuardsMatchTasks' /\ mutex' \in Call \cup {None}
        /\ at' \in [Call -> Working \cup {"none", "queue", "replied"}]
    BY <2>1, <2>2, ReleaseKeepsGuards, Zenon
  <2>4. at' = [d \in Call |-> IF d \in {c} THEN "none" ELSE at[d]]
    BY <2>1, ReleaseGuards, Zenon
  <2> QED
    BY <2>1, <2>2, <2>3, <2>4, Zenon DEF GuardInv, Tasks
<1>16. CASE Crash
  <2>1. Release(Call) /\ op' = [c \in Call |-> IF pc[c] = "idle" THEN None ELSE op[c]] /\ UNCHANGED pc
    BY <1>16, Zenon DEF Crash
  <2>2. op' \in [Call -> Reads \cup Writes \cup {None}]
    BY <2>1, Zenon DEF GuardInv, Tasks
  <2>3. /\ GuardsMatchTasks' /\ mutex' \in Call \cup {None}
        /\ at' \in [Call -> Working \cup {"none", "queue", "replied"}]
    BY <2>1, <2>2, ReleaseKeepsGuards, Zenon
  <2>4. at' = [d \in Call |-> IF d \in Call THEN "none" ELSE at[d]]
    BY <2>1, ReleaseGuards, Zenon
  <2> QED
    BY <2>1, <2>2, <2>3, <2>4, Zenon DEF GuardInv, Tasks
<1>17. CASE Restart \/ Land \/ UNCHANGED vars
  BY <1>17 DEF Restart, Land, vars, calls, tasks, GuardInv, Tasks, GuardsMatchTasks, Writer
<1> QED
  BY <1>1, <1>2, <1>3, <1>4, <1>5, <1>6, <1>7, <1>8, <1>9, <1>10, <1>11, <1>12,
     <1>13, <1>14, <1>15, <1>16, <1>17, <1>18, ZenonT(40) DEF Next, Step

\* However many calls there are, and however they are dropped, cancelled or cut
\* off, the lock and the client are held by exactly the tasks that use them, and a
\* writer is alone.
THEOREM GuardsAlwaysMatch == Spec => []GuardsMatchTasks
<1>1. GuardInv => GuardsMatchTasks
  BY Zenon DEF GuardInv
<1> QED
  BY <1>1, GuardInit, GuardStep, PTL DEF Spec

-----------------------------------------------------------------------------
(* What was acknowledged is seen.                                          *)

File == [version : Nat, whole : BOOLEAN]
Acked == [policy : Nat, refs : SUBSET Nat]
Answer == [policy : File, refs : SUBSET Nat]

\* The types, and that no call has to see what was not acknowledged.
Data ==
    /\ policy \in File /\ version \in Nat
    /\ job \in [Call -> [stage : {"open", "fill"}, version : Nat] \cup {None}]
    /\ refs \in SUBSET Nat /\ registered \in Nat /\ sent \in Nat
    /\ acked \in Acked /\ floor \in [Call -> Acked] /\ got \in [Call -> Answer]
    /\ res \in [Call -> {"ok", "error", None}]
    /\ \A c \in Call : floor[c].policy <= acked.policy /\ floor[c].refs \subseteq acked.refs

\* Where a call can be.
PlaceOf(c) ==
    /\ at[c] \in {"write", "writing"} => op[c] = "set_policy"
    /\ at[c] = "issue" => op[c] = "verify"

\* A file has this policy, or what a later change has left.
Covers(f, n) == n < f.version \/ (n = f.version /\ f.whole)

\* The thread that writes works for the call that holds the lock, so it writes the
\* newest policy over an older one; and answers are as they should be.
PolicyOf(c) ==
    /\ job[c] # None =>
         /\ at[c] = "writing" /\ job[c].version = version
         /\ job[c].stage = "open" => policy.version < version
         /\ job[c].stage = "fill" => policy = [version |-> version, whole |-> FALSE]
    /\ at[c] = "replied" /\ res[c] = "ok" =>
         /\ op[c] = "set_policy" => Covers(policy, got[c].policy.version)
         /\ op[c] = "verify" => Covers(got[c].policy, floor[c].policy)

PolicyInv ==
    /\ policy.version <= version
    /\ Covers(policy, acked.policy)
    /\ \A c \in Call : PolicyOf(c)

\* An evaluation has the reference values that it must see when it comes to the
\* policy; and answers are as they should be.
RefsOf(c) ==
    /\ at[c] = "issue" => floor[c].refs \subseteq got[c].refs
    /\ at[c] = "replied" /\ res[c] = "ok" =>
         /\ op[c] = "register_reference_value" => got[c].refs \subseteq refs
         /\ op[c] \in {"verify", "query_reference_values"} => floor[c].refs \subseteq got[c].refs

RefsInv ==
    /\ sent = 0 /\ acked.refs \subseteq refs
    /\ \A c \in Call : RefsOf(c)

Register == "register_reference_value"

\* The inductive invariant of what is seen: for policies until the caller of one
\* leaves while it is being written, and likewise for registrations.
SeenInv ==
    /\ Data
    /\ \A c \in Call : PlaceOf(c)
    /\ "set_policy" \notin cut => PolicyInv
    /\ Register \notin cut => RefsInv

\* What a call has seen before it sees anything.
LEMMA NothingIsAnswer ==
    /\ Nothing \in Answer /\ Nothing.policy = [version |-> 0, whole |-> TRUE] /\ Nothing.refs = {}
    /\ NoneAcked \in Acked /\ NoneAcked.policy = 0 /\ NoneAcked.refs = {}
BY DEF Nothing, NoneAcked, Answer, Acked, File

\* Nothing was acknowledged at first.
LEMMA SeenInit == Init => SeenInv
<1> SUFFICES ASSUME Init PROVE SeenInv
  BY Zenon
<1>1. Data
  BY NothingIsAnswer DEF Init, Data, File, Acked
<1>2. \A c \in Call : PlaceOf(c)
  BY Zenon DEF Init, PlaceOf
<1>3. PolicyInv
  <2>1. policy.version = 0 /\ policy.whole = TRUE /\ version = 0 /\ acked.policy = 0
    BY NothingIsAnswer DEF Init
  <2>2. \A c \in Call : job[c] = None /\ at[c] = "none"
    BY Zenon DEF Init
  <2>3. \A c \in Call : PolicyOf(c)
    BY <2>2, Zenon DEF PolicyOf
  <2> QED BY <2>1, <2>3 DEF PolicyInv, Covers
<1>4. RefsInv
  BY NothingIsAnswer, Zenon DEF Init, RefsInv, RefsOf
<1> QED
  BY <1>1, <1>2, <1>3, <1>4, Zenon DEF SeenInv

\* What a step leaves alone of the other calls.
Same(d) ==
    /\ at'[d] = at[d] /\ op'[d] = op[d] /\ res'[d] = res[d] /\ floor'[d] = floor[d]
    /\ got'[d] = got[d] /\ job'[d] = job[d]

\* It is enough to look at the call that takes the step, and to see that no policy
\* is lost.
LEMMA PolicyStep ==
    ASSUME Data, PolicyInv, NEW c \in Call, \A d \in Call \ {c} : Same(d),
           policy'.version <= version', Covers(policy', acked'.policy), PolicyOf(c)',
           UNCHANGED <<policy, version>> \/ \A d \in Call \ {c} : job[d] = None,
           \A n \in Nat : Covers(policy, n) => Covers(policy', n)
    PROVE  PolicyInv'
<1>1. ASSUME NEW d \in Call \ {c} PROVE PolicyOf(d)'
  <2>1. PolicyOf(d) /\ Same(d)
    BY Zenon DEF PolicyInv
  <2>2. got[d].policy.version \in Nat
    BY DEF Data, Answer, File
  <2>3. ASSUME at[d] = "replied", res[d] = "ok", op[d] = "set_policy"
        PROVE  Covers(policy', got[d].policy.version)
    BY <2>1, <2>2, <2>3, Zenon DEF PolicyOf
  <2>4. CASE job[d] = None
    BY <2>1, <2>3, <2>4, Zenon DEF PolicyOf, Same, Covers
  <2>5. CASE UNCHANGED <<policy, version>>
    BY <2>1, <2>3, <2>5, Zenon DEF PolicyOf, Same, Covers
  <2> QED BY <2>4, <2>5, Zenon
<1> QED BY <1>1, Zenon DEF PolicyInv

LEMMA RefsStep ==
    ASSUME RefsInv, NEW c \in Call, \A d \in Call \ {c} : Same(d),
           sent' = 0, refs \subseteq refs', acked'.refs \subseteq refs', RefsOf(c)'
    PROVE  RefsInv'
<1>1. ASSUME NEW d \in Call \ {c} PROVE RefsOf(d)'
  <2>1. RefsOf(d) /\ Same(d)
    BY Zenon DEF RefsInv
  <2> QED BY <2>1, Zenon DEF RefsOf, Same
<1> QED BY <1>1, Zenon DEF RefsInv

\* A step that does not touch the policy or what is acknowledged.
LEMMA QuietStep ==
    ASSUME SeenInv, NEW c \in Call, \A d \in Call \ {c} : Same(d),
           Data', UNCHANGED <<policy, version, acked>>, cut \subseteq cut',
           PlaceOf(c)',
           "set_policy" \notin cut' => PolicyOf(c)',
           Register \notin cut' => sent' = sent /\ refs \subseteq refs' /\ RefsOf(c)'
    PROVE  SeenInv'
<1>1. \A d \in Call : PlaceOf(d)'
  BY Zenon DEF SeenInv, PlaceOf, Same
<1>2. ASSUME "set_policy" \notin cut' PROVE PolicyInv'
  <2>1. PolicyInv
    BY <1>2, Zenon DEF SeenInv
  <2>2. policy'.version <= version' /\ Covers(policy', acked'.policy) /\ \A n \in Nat : Covers(policy, n) => Covers(policy', n)
    BY <2>1, Zenon DEF PolicyInv
  <2> QED BY <1>2, <2>1, <2>2, PolicyStep, Zenon DEF SeenInv
<1>3. ASSUME Register \notin cut' PROVE RefsInv'
  <2>1. RefsInv
    BY <1>3, Zenon DEF SeenInv
  <2> QED BY <1>3, <2>1, RefsStep, Zenon DEF RefsInv
<1> QED BY <1>1, <1>2, <1>3, Zenon DEF SeenInv

\* No thread writes for a call that is not waiting for it.
LEMMA NoJob ==
    ASSUME SeenInv, "set_policy" \notin cut, NEW c \in Call, at[c] # "writing"
    PROVE  job[c] = None
BY Zenon DEF SeenInv, PolicyInv, PolicyOf

\* A step of the KBS alone: what the call must see is what was acknowledged, or
\* nothing, and it gets no answer by it.
LEMMA KbsSees ==
    ASSUME Tasks, SeenInv, NEW c \in Call,
           UNCHANGED <<at, res, got, disk, store, cut, acked>>,
           \E f \in {acked, NoneAcked, floor[c]} :
              /\ floor' = [floor EXCEPT ![c] = f]
              /\ at[c] = "none" \/ f \in {NoneAcked, floor[c]},
           \E o : op' = [op EXCEPT ![c] = IF at[c] = "none" THEN o ELSE @]
    PROVE  SeenInv'
<1>1. PICK f \in {acked, NoneAcked, floor[c]} :
         floor' = [floor EXCEPT ![c] = f] /\ (at[c] = "none" \/ f \in {NoneAcked, floor[c]})
  BY Zenon
<1>0. Data /\ UNCHANGED <<policy, version, job, sent, refs, registered>>
  BY Zenon DEF SeenInv, disk, store
<1>2. f \in Acked /\ f.policy <= acked.policy /\ f.refs \subseteq acked.refs
  BY <1>0, NothingIsAnswer DEF Data, Acked
<1>3. floor' \in [Call -> Acked] /\ \A d \in Call : floor'[d].policy <= acked.policy /\ floor'[d].refs \subseteq acked.refs
  BY <1>0, <1>1, <1>2, Zenon DEF Data
<1>4. Data'
  BY <1>0, <1>3, Zenon DEF Data
<1>5. \A d \in Call \ {c} : Same(d)
  BY <1>0, <1>1, Zenon DEF Data, Tasks, Same
<1>6. floor'[c] = f /\ (at[c] # "none" => op'[c] = op[c])
  BY <1>0, <1>1, Zenon DEF Data, Tasks
<1>7. PlaceOf(c)'
  BY <1>6, Zenon DEF SeenInv, PlaceOf
<1>8. ASSUME "set_policy" \notin cut PROVE PolicyOf(c)'
  <2>1. PolicyOf(c)
    BY <1>8, Zenon DEF SeenInv, PolicyInv
  <2>2. CASE at[c] = "none"
    BY <1>0, <2>1, <2>2, Zenon DEF PolicyOf
  <2>3. CASE f = floor[c] /\ at[c] # "none"
    BY <1>0, <1>6, <2>1, <2>3, Zenon DEF PolicyOf, Covers
  <2>4. CASE f = NoneAcked /\ at[c] # "none"
    <3>1. got[c].policy.version \in Nat /\ floor[c].policy \in Nat
      BY <1>0 DEF Data, Answer, File, Acked
    <3>2. Covers(got[c].policy, floor[c].policy) => Covers(got[c].policy, 0)
      BY <3>1 DEF Covers
    <3> QED BY <1>0, <1>6, <2>1, <2>4, <3>2, NothingIsAnswer, Zenon DEF PolicyOf, Covers
  <2> QED BY <1>1, <2>2, <2>3, <2>4, Zenon
<1>9. ASSUME Register \notin cut PROVE RefsOf(c)'
  <2>1. RefsOf(c)
    BY <1>9, Zenon DEF SeenInv, RefsInv
  <2> QED BY <1>0, <1>1, <1>6, <2>1, NothingIsAnswer, Zenon DEF RefsOf
<1> QED BY <1>0, <1>4, <1>5, <1>7, <1>8, <1>9, QuietStep, Zenon

\* What a reply does.
LEMMA ReplyEffect ==
    ASSUME Tasks, SeenInv, NEW c \in Call, NEW r \in {"ok", "error"}, Reply(c, r)
    PROVE  /\ \A d \in Call \ {c} : at'[d] = at[d] /\ op'[d] = op[d] /\ res'[d] = res[d]
           /\ res' \in [Call -> {"ok", "error", None}]
           /\ \/ at'[c] = "none"
              \/ at'[c] = "replied" /\ res'[c] = r /\ op'[c] = op[c] /\ pc[c] = "sent"
<1>1. res \in [Call -> {"ok", "error", None}]
  BY Zenon DEF SeenInv, Data
<1>2. \A d \in Call \ {c} : at'[d] = at[d] /\ op'[d] = op[d] /\ res'[d] = res[d]
  BY <1>1, Zenon DEF Reply, Tasks
<1>3. res' \in [Call -> {"ok", "error", None}]
  BY <1>1, Zenon DEF Reply
<1>4. \/ at'[c] = "none"
      \/ at'[c] = "replied" /\ res'[c] = r /\ op'[c] = op[c] /\ pc[c] = "sent"
  BY <1>1, Zenon DEF Reply, Tasks
<1> QED BY <1>2, <1>3, <1>4, Zenon

\* What the reply may carry: with success, everything that the call must see.
GoodPolicy(c, g) ==
    /\ op[c] = "set_policy" => Covers(policy', g.policy.version)
    /\ op[c] = "verify" => Covers(g.policy, floor[c].policy)
GoodRefs(c, g) ==
    /\ op[c] = Register => g.refs \subseteq refs'
    /\ op[c] \in {"verify", "query_reference_values"} => floor[c].refs \subseteq g.refs

\* The call that is answered is as it should be.
LEMMA ReplyOf ==
    ASSUME Tasks, SeenInv, NEW c \in Call, NEW r \in {"ok", "error"}, Reply(c, r),
           UNCHANGED floor, NEW g \in Answer, got' = [got EXCEPT ![c] = g]
    PROVE  /\ PlaceOf(c)'
           /\ job'[c] = None /\ (r = "ok" /\ pc[c] = "sent" => GoodPolicy(c, g)) => PolicyOf(c)'
           /\ (r = "ok" /\ pc[c] = "sent" => GoodRefs(c, g)) => RefsOf(c)'
<1>1. got'[c] = g
  BY Zenon DEF SeenInv, Data
<1>2. \/ at'[c] = "none"
      \/ at'[c] = "replied" /\ res'[c] = r /\ op'[c] = op[c] /\ pc[c] = "sent"
  BY ReplyEffect, Zenon
<1>3. PlaceOf(c)'
  BY <1>2, Zenon DEF PlaceOf
<1>4. ASSUME job'[c] = None, r = "ok" /\ pc[c] = "sent" => GoodPolicy(c, g) PROVE PolicyOf(c)'
  BY <1>1, <1>2, <1>4, Zenon DEF PolicyOf, GoodPolicy, Covers
<1>5. ASSUME r = "ok" /\ pc[c] = "sent" => GoodRefs(c, g) PROVE RefsOf(c)'
  BY <1>1, <1>2, <1>5, Zenon DEF RefsOf, GoodRefs, Register
<1> QED BY <1>3, <1>4, <1>5, Zenon

\* A step of the service that ends in Reply and leaves the policies alone.
LEMMA ReplySees ==
    ASSUME Tasks, SeenInv, NEW c \in Call, NEW r \in {"ok", "error"}, Reply(c, r), at[c] # "writing",
           UNCHANGED <<policy, version, job, acked, floor>>, cut \subseteq cut',
           refs' \in SUBSET Nat, registered' \in Nat, sent' \in Nat,
           Register \notin cut' => sent' = sent /\ refs \subseteq refs',
           NEW g \in Answer, got' = [got EXCEPT ![c] = g],
           r = "ok" /\ pc[c] = "sent" /\ "set_policy" \notin cut => GoodPolicy(c, g),
           r = "ok" /\ pc[c] = "sent" /\ Register \notin cut => GoodRefs(c, g)
    PROVE  SeenInv'
<1>1. /\ \A d \in Call \ {c} : at'[d] = at[d] /\ op'[d] = op[d] /\ res'[d] = res[d]
      /\ res' \in [Call -> {"ok", "error", None}]
  BY ReplyEffect, Zenon
<1>2. \A d \in Call \ {c} : Same(d)
  BY <1>1, Zenon DEF SeenInv, Data, Same
<1>3. Data'
  BY <1>1, Zenon DEF SeenInv, Data
<1>4. PlaceOf(c)'
  BY ReplyOf, Zenon
<1>5. ASSUME "set_policy" \notin cut' PROVE PolicyOf(c)'
  <2>1. job'[c] = None
    BY <1>5, NoJob, Zenon
  <2> QED BY <1>5, <2>1, ReplyOf, Zenon
<1>6. ASSUME Register \notin cut' PROVE RefsOf(c)'
  BY <1>6, ReplyOf, Zenon
<1> QED BY <1>2, <1>3, <1>4, <1>5, <1>6, QuietStep, Zenon

\* An answer that is an error says nothing.
LEMMA ErrorSees ==
    ASSUME Tasks, SeenInv, NEW c \in Call, Reply(c, "error"), at[c] # "writing",
           UNCHANGED <<policy, version, job, acked, floor>>, cut \subseteq cut',
           refs' \in SUBSET Nat, registered' \in Nat, sent' \in Nat,
           Register \notin cut' => sent' = sent /\ refs \subseteq refs',
           \E g \in Answer : got' = [got EXCEPT ![c] = g]
    PROVE  SeenInv'
BY ReplySees, Zenon

\* What Reached leaves.
LEMMA ReachedAnswer ==
    ASSUME NEW c \in Call, NEW g \in Answer, Reached(c, g)
    PROVE  \E h \in Answer : got' = [got EXCEPT ![c] = h] /\ (pc[c] = "sent" => h = g)
<1>1. CASE pc[c] = "sent"
  BY <1>1, Zenon DEF Reached
<1>2. CASE pc[c] # "sent"
  BY <1>2, NothingIsAnswer, Zenon DEF Reached
<1> QED BY <1>1, <1>2, Zenon

\* Got stays as it is.
LEMMA SameAnswer ==
    ASSUME SeenInv, NEW c \in Call, UNCHANGED got
    PROVE  \E g \in Answer : got' = [got EXCEPT ![c] = g]
<1>1. got[c] \in Answer /\ got = [got EXCEPT ![c] = got[c]]
  BY Zenon DEF SeenInv, Data
<1> QED BY <1>1, Zenon

\* A step of the service that is not its last: the call has read what it needs when
\* it comes to the policy.
LEMMA WorkSees ==
    ASSUME Tasks, SeenInv, NEW c \in Call, at[c] # "writing",
           NEW a \in {"queue", "verifier", "rvps", "remote", "write", "issue"},
           at' = [at EXCEPT ![c] = a],
           UNCHANGED <<op, res, disk, store, cut, acked, floor>>,
           a = "write" => op[c] = "set_policy",
           \/ UNCHANGED got /\ a # "issue"
           \/ got' = [got EXCEPT ![c] = [Nothing EXCEPT !.refs = refs]] /\ op[c] = "verify"
    PROVE  SeenInv'
<1>0. UNCHANGED <<policy, version, job, sent, refs, registered>> /\ Data
  BY Zenon DEF SeenInv, disk, store
<1>1. [Nothing EXCEPT !.refs = refs] \in Answer /\ [Nothing EXCEPT !.refs = refs].refs = refs
  BY <1>0, NothingIsAnswer DEF Data, Answer
<1>2. Data'
  BY <1>0, <1>1, Zenon DEF Data
<1>3. \A d \in Call \ {c} : Same(d)
  BY <1>0, Zenon DEF Tasks, Data, Same
<1>4. at'[c] = a /\ a # "replied"
  BY Zenon DEF Tasks
<1>5. PlaceOf(c)'
  BY <1>4, Zenon DEF PlaceOf
<1>6. ASSUME "set_policy" \notin cut PROVE PolicyOf(c)'
  BY <1>0, <1>4, <1>6, NoJob, Zenon DEF PolicyOf
<1>7. ASSUME Register \notin cut PROVE RefsOf(c)'
  <2>1. acked.refs \subseteq refs
    BY <1>7, Zenon DEF SeenInv, RefsInv
  <2>2. a = "issue" => got'[c] = [Nothing EXCEPT !.refs = refs]
    BY <1>0, Zenon DEF Data
  <2>3. a = "issue" => floor'[c].refs \subseteq got'[c].refs
    BY <1>0, <1>1, <2>1, <2>2, Zenon DEF Data
  <2> QED BY <1>4, <2>3, Zenon DEF RefsOf
<1> QED BY <1>0, <1>2, <1>3, <1>5, <1>6, <1>7, QuietStep, Zenon

\* What dropping futures does to what calls have read.
LEMMA ReleaseReads ==
    ASSUME NEW cs, Release(cs)
    PROVE  /\ at' = [c \in Call |-> IF c \in cs THEN "none" ELSE at[c]]
           /\ res' = [c \in Call |-> IF c \in cs THEN None ELSE res[c]]
           /\ got' = [c \in Call |-> IF c \in cs THEN Nothing ELSE got[c]]
BY Zenon DEF Release

\* What it leaves behind is written down in cut.
LEMMA LeftBehind ==
    ASSUME SeenInv, NEW c \in Call, LeaveBehind(c)
    PROVE  /\ cut \subseteq cut' /\ refs' = refs /\ registered' = registered /\ sent' \in Nat
           /\ Register \notin cut' => sent' = sent
           /\ "set_policy" \notin cut' => job[c] = None \/ Registering(c)
<1>1. sent \in Nat
  BY Zenon DEF SeenInv, Data
<1>2. CASE Registering(c)
  BY <1>1, <1>2 DEF LeaveBehind, GoesOn, Register
<1>3. CASE ~Registering(c)
  <2>1. cut' = (IF job[c] # None THEN cut \cup {"set_policy"} ELSE cut) /\ UNCHANGED <<sent, refs, registered>>
    BY <1>3, Zenon DEF LeaveBehind, store
  <2> QED BY <1>1, <2>1, Zenon
<1> QED BY <1>2, <1>3, Zenon

\* A task that is dropped has read nothing.
LEMMA ReleaseSees ==
    ASSUME Tasks, SeenInv, NEW c \in Call, Release({c}), LeaveBehind(c),
           UNCHANGED <<disk, acked>>,
           floor' \in [Call -> Acked], floor'[c] \in {floor[c], NoneAcked},
           \A d \in Call \ {c} : op'[d] = op[d] /\ floor'[d] = floor[d]
    PROVE  SeenInv'
<1>0. UNCHANGED <<policy, version, job>> /\ Data
  BY Zenon DEF SeenInv, disk
<1>1. /\ at' = [d \in Call |-> IF d \in {c} THEN "none" ELSE at[d]]
      /\ res' = [d \in Call |-> IF d \in {c} THEN None ELSE res[d]]
      /\ got' = [d \in Call |-> IF d \in {c} THEN Nothing ELSE got[d]]
  BY ReleaseReads, Zenon
<1>2. /\ cut \subseteq cut' /\ refs' = refs /\ registered' = registered /\ sent' \in Nat
      /\ Register \notin cut' => sent' = sent
      /\ "set_policy" \notin cut' => job[c] = None \/ Registering(c)
  BY LeftBehind, Zenon
<1>3. got' \in [Call -> Answer] /\ res' \in [Call -> {"ok", "error", None}]
  BY <1>0, <1>1, NothingIsAnswer, Zenon DEF Data
<1>4. \A d \in Call : floor'[d].policy <= acked.policy /\ floor'[d].refs \subseteq acked.refs
  <2>1. NoneAcked.policy <= acked.policy /\ NoneAcked.refs \subseteq acked.refs
    BY <1>0, NothingIsAnswer DEF Data, Acked
  <2> QED BY <1>0, <2>1, Zenon DEF Data
<1>5. Data'
  BY <1>0, <1>2, <1>3, <1>4, Zenon DEF Data
<1>6. \A d \in Call \ {c} : Same(d)
  BY <1>0, <1>1, Zenon DEF Same
<1>7. at'[c] = "none"
  BY <1>1, Zenon
<1>8. PlaceOf(c)' /\ RefsOf(c)'
  BY <1>7, Zenon DEF PlaceOf, RefsOf
<1>9. ASSUME "set_policy" \notin cut' PROVE PolicyOf(c)'
  <2>1. CASE job[c] = None
    BY <1>0, <1>7, <2>1, Zenon DEF PolicyOf
  <2>2. CASE Registering(c)
    <3>1. at[c] # "writing"
      BY <2>2, Zenon DEF Registering
    <3> QED BY <1>0, <1>2, <1>7, <1>9, <3>1, NoJob, Zenon DEF PolicyOf
  <2> QED BY <1>2, <1>9, <2>1, <2>2, Zenon
<1> QED BY <1>0, <1>2, <1>5, <1>6, <1>8, <1>9, QuietStep, Zenon

\* A policy is written while no other thread writes one.
LEMMA OnlyJob ==
    ASSUME GuardInv, SeenInv, "set_policy" \notin cut, NEW c \in Call, at[c] \in {"write", "writing"}
    PROVE  \A d \in Call \ {c} : job[d] = None
<1>1. op[c] = "set_policy"
  BY Zenon DEF SeenInv, PlaceOf
<1>2. Writer(c) /\ c \in lock
  BY <1>1, Zenon DEF Writer, Writes, GuardInv, GuardsMatchTasks, Working
<1>3. \A d \in Call \ {c} : at[d] # "writing"
  BY <1>2, Zenon DEF GuardInv, GuardsMatchTasks, Working
<1> QED BY <1>3, NoJob, Zenon

\* What the end of the thread does.
LEMMA FinishOf ==
    ASSUME Tasks, SeenInv, NEW c \in Call, NEW r \in {"ok", "error"}, Finish(c, r),
           UNCHANGED <<floor, refs>>, job[c] # None
    PROVE  /\ \A d \in Call \ {c} : Same(d)
           /\ job' \in [Call -> [stage : {"open", "fill"}, version : Nat] \cup {None}] /\ job'[c] = None
           /\ got' \in [Call -> Answer] /\ res' \in [Call -> {"ok", "error", None}]
           /\ PlaceOf(c)'
           /\ RefsOf(c) => RefsOf(c)'
           /\ at[c] = "writing" /\ (r = "ok" => Covers(policy', job[c].version)) => PolicyOf(c)'
<1> DEFINE g == IF r = "ok" THEN [Nothing EXCEPT !.policy.version = job[c].version] ELSE Nothing
<1>0. Data
  BY Zenon DEF SeenInv
<1>1. job' = [job EXCEPT ![c] = None]
  BY Zenon DEF Finish
<1>2. job' \in [Call -> [stage : {"open", "fill"}, version : Nat] \cup {None}] /\ job'[c] = None
      /\ \A d \in Call \ {c} : job'[d] = job[d]
  BY <1>0, <1>1, Zenon DEF Data
<1>3. CASE at[c] # "writing"
  <2>1. UNCHANGED <<op, at, res, got>>
    BY <1>3, Zenon DEF Finish
  <2>2. PlaceOf(c)' /\ (RefsOf(c) => RefsOf(c)')
    BY <2>1, Zenon DEF SeenInv, PlaceOf, RefsOf
  <2> QED BY <1>0, <1>2, <1>3, <2>1, <2>2, Zenon DEF Same, Data
<1>4. CASE at[c] = "writing"
  <2>1. Reply(c, r) /\ Reached(c, g)
    BY <1>4, Zenon DEF Finish
  <2>2. job[c].version \in Nat
    BY <1>0 DEF Data
  <2>3. g \in Answer /\ (r = "ok" => g.policy.version = job[c].version)
    BY <2>2, NothingIsAnswer DEF Answer, File
  <2> HIDE DEF g
  <2>4. PICK h \in Answer : got' = [got EXCEPT ![c] = h] /\ (pc[c] = "sent" => h = g)
    BY <2>1, <2>3, ReachedAnswer, Zenon
  <2>5. /\ \A d \in Call \ {c} : at'[d] = at[d] /\ op'[d] = op[d] /\ res'[d] = res[d]
        /\ res' \in [Call -> {"ok", "error", None}]
    BY <2>1, ReplyEffect, Zenon
  <2>6. op[c] = "set_policy"
    BY <1>4, Zenon DEF SeenInv, PlaceOf
  <2>7. GoodRefs(c, h)
    BY <2>6, Zenon DEF GoodRefs, Register
  <2>8. ASSUME r = "ok" => Covers(policy', job[c].version), r = "ok", pc[c] = "sent" PROVE GoodPolicy(c, h)
    BY <2>3, <2>4, <2>6, <2>8, Zenon DEF GoodPolicy
  <2>9. PlaceOf(c)' /\ RefsOf(c)' /\ ((r = "ok" => Covers(policy', job[c].version)) => PolicyOf(c)')
    BY <1>2, <2>1, <2>4, <2>7, <2>8, ReplyOf, Zenon
  <2>10. \A d \in Call \ {c} : Same(d)
    BY <1>0, <1>2, <2>4, <2>5, Zenon DEF Same, Data
  <2> QED BY <1>0, <1>2, <2>4, <2>5, <2>9, <2>10, Zenon DEF Data
<1> QED BY <1>3, <1>4, Zenon

\* A step of the thread: it writes over an older policy, and the newest is whole when
\* it says so.
LEMMA ThreadSees ==
    ASSUME GuardInv, SeenInv, NEW c \in Call, Truncate(c) \/ Fill(c)
    PROVE  SeenInv'
<1>0. Data /\ Tasks
  BY Zenon DEF SeenInv, GuardInv
<1>1. job[c] # None /\ UNCHANGED <<floor, acked, version, sent, refs, registered, cut>>
  BY Zenon DEF Truncate, Fill, kbsside, store
<1>2. /\ policy \in File /\ version \in Nat /\ job[c].version \in Nat /\ acked.policy \in Nat
      /\ DOMAIN job[c] = {"stage", "version"}
  BY <1>0, <1>1 DEF Data, Acked
<1>3. ASSUME "set_policy" \notin cut
      PROVE  /\ at[c] = "writing" /\ job[c].version = version
             /\ job[c].stage = "open" => policy.version < version
             /\ job[c].stage = "fill" => policy = [version |-> version, whole |-> FALSE]
             /\ PolicyInv /\ Covers(policy, acked.policy)
             /\ \A d \in Call \ {c} : job[d] = None
  <2>1. PolicyInv /\ PolicyOf(c)
    BY <1>3, Zenon DEF SeenInv, PolicyInv
  <2>2. at[c] = "writing"
    BY <1>1, <2>1, Zenon DEF PolicyOf
  <2> QED BY <1>1, <1>3, <2>1, <2>2, OnlyJob, Zenon DEF PolicyOf, PolicyInv
<1>4. ASSUME policy' \in File, job' \in [Call -> [stage : {"open", "fill"}, version : Nat] \cup {None}],
             got' \in [Call -> Answer], res' \in [Call -> {"ok", "error", None}],
             \A d \in Call \ {c} : Same(d), PlaceOf(c)', RefsOf(c) => RefsOf(c)',
             "set_policy" \notin cut =>
                /\ policy'.version <= version /\ PolicyOf(c)'
                /\ \A n \in Nat : Covers(policy, n) => Covers(policy', n)
      PROVE  SeenInv'
  <2>1. Data'
    BY <1>0, <1>1, <1>4, Zenon DEF Data
  <2>2. \A d \in Call : PlaceOf(d)'
    BY <1>4, Zenon DEF SeenInv, PlaceOf, Same
  <2>3. ASSUME "set_policy" \notin cut PROVE PolicyInv'
    <3>1. policy'.version <= version' /\ Covers(policy', acked'.policy)
      BY <1>1, <1>2, <1>3, <1>4, <2>3, Zenon
    <3> QED BY <1>0, <1>3, <1>4, <2>3, <3>1, PolicyStep, Zenon
  <2>4. ASSUME Register \notin cut PROVE RefsInv'
    BY <1>1, <1>4, <2>4, RefsStep, Zenon DEF SeenInv, RefsInv
  <2> QED BY <1>1, <2>1, <2>2, <2>3, <2>4, Zenon DEF SeenInv
<1>5. ASSUME NEW r \in {"ok", "error"}, Finish(c, r), policy' \in File,
             "set_policy" \notin cut =>
                /\ policy'.version <= version
                /\ \A n \in Nat : Covers(policy, n) => Covers(policy', n)
                /\ r = "ok" => Covers(policy', job[c].version)
      PROVE  SeenInv'
  <2>1. /\ \A d \in Call \ {c} : Same(d)
        /\ job' \in [Call -> [stage : {"open", "fill"}, version : Nat] \cup {None}]
        /\ got' \in [Call -> Answer] /\ res' \in [Call -> {"ok", "error", None}]
        /\ PlaceOf(c)' /\ (RefsOf(c) => RefsOf(c)')
        /\ at[c] = "writing" /\ (r = "ok" => Covers(policy', job[c].version)) => PolicyOf(c)'
    BY <1>0, <1>1, <1>5, FinishOf, Zenon
  <2>2. "set_policy" \notin cut => PolicyOf(c)'
    BY <1>3, <1>5, <2>1, Zenon
  <2> QED BY <1>4, <1>5, <2>1, <2>2, Zenon
<1>6. CASE Truncate(c) /\ policy' = [version |-> job[c].version, whole |-> FALSE]
           /\ job' = [job EXCEPT ![c].stage = "fill"] /\ UNCHANGED <<op, at, res, got, lock>>
  <2>1. policy' \in File /\ policy'.version = job[c].version /\ policy'.whole = FALSE
    BY <1>2, <1>6 DEF File
  <2>2. /\ job' \in [Call -> [stage : {"open", "fill"}, version : Nat] \cup {None}]
        /\ job'[c].stage = "fill" /\ job'[c].version = job[c].version
        /\ \A d \in Call \ {c} : job'[d] = job[d]
    <3>1. [job[c] EXCEPT !.stage = "fill"] \in [stage : {"open", "fill"}, version : Nat]
      BY <1>0, <1>1 DEF Data
    <3>2. [job[c] EXCEPT !.stage = "fill"].stage = "fill" /\ [job[c] EXCEPT !.stage = "fill"].version = job[c].version
      BY <1>0, <1>1 DEF Data
    <3>3. job' = [job EXCEPT ![c] = [job[c] EXCEPT !.stage = "fill"]]
      BY <1>6, Zenon
    <3> QED BY <1>0, <3>1, <3>2, <3>3, Zenon DEF Data
  <2>3. \A d \in Call \ {c} : Same(d)
    BY <1>1, <1>6, <2>2, Zenon DEF Same
  <2>4. PlaceOf(c)' /\ (RefsOf(c) => RefsOf(c)')
    BY <1>1, <1>6, Zenon DEF SeenInv, PlaceOf, RefsOf
  <2>5. ASSUME "set_policy" \notin cut
        PROVE  /\ policy'.version <= version /\ PolicyOf(c)'
               /\ \A n \in Nat : Covers(policy, n) => Covers(policy', n)
    <3>1. at[c] = "writing" /\ job[c].version = version /\ policy.version < version
      BY <1>3, <1>6, <2>5, Zenon DEF Truncate
    <3>2. policy' = [version |-> version, whole |-> FALSE]
      BY <1>6, <3>1, Zenon
    <3>3. PolicyOf(c)'
      BY <1>1, <1>6, <2>2, <3>1, <3>2, Zenon DEF PolicyOf
    <3>4. policy.version \in Nat /\ policy'.version = version
      BY <1>2, <3>2 DEF File
    <3>5. \A n \in Nat : Covers(policy, n) => Covers(policy', n)
      BY <1>2, <3>1, <3>4 DEF Covers
    <3> QED BY <1>2, <3>3, <3>4, <3>5
  <2> QED BY <1>0, <1>4, <1>6, <2>1, <2>2, <2>3, <2>4, <2>5, Zenon DEF Data
<1>7. CASE Finish(c, "error") /\ UNCHANGED policy
  BY <1>2, <1>3, <1>5, <1>7, Zenon DEF PolicyInv
<1>8. CASE Fill(c) /\ Finish(c, "ok")
           /\ \E w \in {TRUE, ~policy.whole} : policy' = [version |-> job[c].version, whole |-> w]
  <2>1. PICK w \in {TRUE, ~policy.whole} : policy' = [version |-> job[c].version, whole |-> w]
    BY <1>8, Zenon
  <2>2. policy' \in File
    BY <1>2, <2>1 DEF File
  <2>3. ASSUME "set_policy" \notin cut
        PROVE  /\ policy'.version <= version /\ Covers(policy', job[c].version)
               /\ \A n \in Nat : Covers(policy, n) => Covers(policy', n)
    <3>1. job[c].version = version /\ policy = [version |-> version, whole |-> FALSE]
      BY <1>3, <1>8, <2>3, Zenon DEF Fill
    <3>2. policy' = [version |-> version, whole |-> TRUE] /\ policy.version = version
      BY <2>1, <3>1
    <3> QED BY <1>2, <3>1, <3>2 DEF Covers
  <2> QED BY <1>5, <1>8, <2>2, <2>3, Zenon
<1>9. CASE Fill(c) /\ Finish(c, "error") /\ policy' = [version |-> job[c].version, whole |-> FALSE]
  <2>1. policy' \in File
    BY <1>2, <1>9 DEF File
  <2>2. "set_policy" \notin cut => policy' = policy
    BY <1>3, <1>9, Zenon DEF Fill
  <2> QED BY <1>3, <1>5, <1>9, <2>1, <2>2, Zenon DEF PolicyInv
<1> QED BY <1>6, <1>7, <1>8, <1>9, Zenon DEF Truncate, Fill

\* The crash of the service leaves the policy as it is, and the RVPS has at most one
\* value more or goes on.
LEMMA CrashSees ==
    ASSUME SeenInv, Crash
    PROVE  SeenInv'
<1>0. Data
  BY Zenon DEF SeenInv
<1>1. /\ Release(Call) /\ UNCHANGED <<policy, version, acked, floor>>
      /\ job' = [c \in Call |-> None]
  BY Zenon DEF Crash
<1>2. /\ cut \subseteq cut' /\ refs' \in SUBSET Nat /\ registered' \in Nat /\ sent' \in Nat /\ refs \subseteq refs'
      /\ Register \notin cut' => sent' = sent
  <2>1. CASE UNCHANGED <<store, cut>>
    BY <1>0, <2>1, Zenon DEF Data, store
  <2>2. CASE Store
    BY <1>0, <2>2 DEF Data, Store, NewRef
  <2>3. CASE GoesOn
    BY <1>0, <2>3 DEF Data, GoesOn, Register
  <2> QED BY <2>1, <2>2, <2>3, Zenon DEF Crash
<1>3. /\ at' = [c \in Call |-> IF c \in Call THEN "none" ELSE at[c]]
      /\ res' = [c \in Call |-> IF c \in Call THEN None ELSE res[c]]
      /\ got' = [c \in Call |-> IF c \in Call THEN Nothing ELSE got[c]]
  BY <1>1, ReleaseReads, Zenon
<1>4. \A c \in Call : at'[c] = "none" /\ job'[c] = None
  BY <1>1, <1>3, Zenon
<1>5. /\ got' \in [Call -> Answer] /\ res' \in [Call -> {"ok", "error", None}]
      /\ job' \in [Call -> [stage : {"open", "fill"}, version : Nat] \cup {None}]
  BY <1>1, <1>3, NothingIsAnswer, Zenon
<1>6. Data'
  BY <1>0, <1>1, <1>2, <1>5, Zenon DEF Data
<1>7. \A c \in Call : PlaceOf(c)' /\ PolicyOf(c)' /\ RefsOf(c)'
  BY <1>4, Zenon DEF PlaceOf, PolicyOf, RefsOf
<1>8. ASSUME "set_policy" \notin cut' PROVE PolicyInv'
  BY <1>1, <1>2, <1>7, <1>8, Zenon DEF SeenInv, PolicyInv, Covers
<1>9. ASSUME Register \notin cut' PROVE RefsInv'
  BY <1>1, <1>2, <1>7, <1>9, Zenon DEF SeenInv, RefsInv
<1> QED BY <1>6, <1>7, <1>8, <1>9, Zenon DEF SeenInv

\* The answer comes to the KBS, which acknowledges only what is stored.
LEMMA ReturnSees ==
    ASSUME Tasks, SeenInv, NEW c \in Call, Return(c)
    PROVE  SeenInv'
<1>0. Data /\ acked \in Acked /\ got[c] \in Answer
  BY Zenon DEF SeenInv, Data
<1>1. /\ at' = [at EXCEPT ![c] = "none"] /\ res' = [res EXCEPT ![c] = None]
      /\ got' = [got EXCEPT ![c] = Nothing] /\ floor' = [floor EXCEPT ![c] = NoneAcked]
      /\ UNCHANGED <<policy, version, job, sent, refs, registered, cut>> /\ Acknowledge(c)
      /\ \A d \in Call \ {c} : op'[d] = op[d]
      /\ at[c] = "replied"
  BY Zenon DEF Return, Forget, Tasks, disk, store
<1>2. got[c].policy.version \in Nat /\ got[c].refs \in SUBSET Nat /\ acked.policy \in Nat /\ acked.refs \in SUBSET Nat
  BY <1>0 DEF Answer, File, Acked
<1>3. /\ acked' \in Acked /\ acked.policy <= acked'.policy /\ acked.refs \subseteq acked'.refs
      /\ \/ acked'.policy = acked.policy
         \/ acked'.policy = got[c].policy.version /\ op[c] = "set_policy" /\ res[c] = "ok"
      /\ \/ acked'.refs = acked.refs
         \/ acked'.refs = acked.refs \cup got[c].refs /\ op[c] = Register /\ res[c] = "ok"
  BY <1>0, <1>1, <1>2 DEF Acknowledge, Acked, Register
<1>4. \A d \in Call : floor'[d] \in Acked /\ floor'[d].policy <= acked'.policy /\ floor'[d].refs \subseteq acked'.refs
  <2>1. floor'[c] = NoneAcked /\ 0 <= acked'.policy
    BY <1>0, <1>1, <1>3 DEF Data, Acked
  <2>2. ASSUME NEW d \in Call \ {c} PROVE floor'[d] \in Acked /\ floor'[d].policy <= acked'.policy /\ floor'[d].refs \subseteq acked'.refs
    <3>1. floor'[d] = floor[d] /\ floor[d] \in Acked /\ floor[d].policy <= acked.policy /\ floor[d].refs \subseteq acked.refs
      BY <1>0, <1>1, Zenon DEF Data
    <3>2. floor[d].policy \in Nat /\ acked'.policy \in Nat
      BY <1>3, <3>1 DEF Acked
    <3>3. floor[d].policy <= acked'.policy
      BY <1>2, <1>3, <3>1, <3>2
    <3> QED BY <1>3, <3>1, <3>3, Zenon
  <2> QED BY <2>1, <2>2, NothingIsAnswer, Zenon
<1>5. Data'
  BY <1>0, <1>1, <1>3, <1>4, NothingIsAnswer, Zenon DEF Data
<1>6. at'[c] = "none" /\ \A d \in Call \ {c} : Same(d)
  BY <1>0, <1>1, Zenon DEF Data, Tasks, Same
<1>7. \A d \in Call : PlaceOf(d)'
  BY <1>6, Zenon DEF SeenInv, PlaceOf, Same
<1>8. ASSUME "set_policy" \notin cut PROVE PolicyInv'
  <2>1. PolicyInv /\ PolicyOf(c) /\ job[c] = None
    BY <1>1, <1>8, NoJob, Zenon DEF SeenInv, PolicyInv
  <2>2. PolicyOf(c)'
    BY <1>1, <1>6, <2>1, Zenon DEF PolicyOf
  <2>3. Covers(policy, acked'.policy)
    BY <1>1, <1>3, <2>1, Zenon DEF PolicyInv, PolicyOf
  <2>4. policy'.version <= version' /\ Covers(policy', acked'.policy) /\ \A n \in Nat : Covers(policy, n) => Covers(policy', n)
    BY <1>1, <2>1, <2>3, Zenon DEF PolicyInv
  <2> QED BY <1>0, <1>1, <1>6, <2>1, <2>2, <2>4, PolicyStep, Zenon
<1>9. ASSUME Register \notin cut PROVE RefsInv'
  <2>1. RefsInv /\ RefsOf(c)
    BY <1>9, Zenon DEF SeenInv, RefsInv
  <2>2. RefsOf(c)'
    BY <1>6, Zenon DEF RefsOf
  <2>3. acked'.refs \subseteq refs
    BY <1>1, <1>3, <2>1, Zenon DEF RefsInv, RefsOf, Register
  <2>4. sent' = 0 /\ refs \subseteq refs' /\ acked'.refs \subseteq refs'
    BY <1>1, <2>1, <2>3, Zenon DEF RefsInv
  <2> QED BY <1>6, <2>1, <2>2, <2>4, RefsStep, Zenon
<1> QED BY <1>1, <1>5, <1>7, <1>8, <1>9, Zenon DEF SeenInv

\* The RVPS answers.
LEMMA RvpsSees ==
    ASSUME Tasks, SeenInv, NEW c \in Call, RvpsAnswers(c)
    PROVE  SeenInv'
<1>0. Data
  BY Zenon DEF SeenInv
<1>1. UNCHANGED <<policy, version, job, acked, floor>> /\ at[c] # "writing" /\ UNCHANGED disk
  BY Zenon DEF RvpsAnswers, kbsside, disk
<1>2. NewRef \in Nat /\ refs \in SUBSET Nat /\ registered \in Nat /\ sent \in Nat
  BY <1>0 DEF Data, NewRef
<1>3. \A s \in SUBSET Nat : [Nothing EXCEPT !.refs = s] \in Answer /\ [Nothing EXCEPT !.refs = s].refs = s
  BY NothingIsAnswer DEF Answer
<1>4. Store => /\ UNCHANGED <<sent, cut>> /\ refs' = refs \cup {NewRef}
               /\ refs' \in SUBSET Nat /\ registered' \in Nat /\ sent' \in Nat
  BY <1>2, Zenon DEF Store
<1>5. GoesOn => /\ cut \subseteq cut' /\ Register \in cut' /\ UNCHANGED <<refs, registered>> /\ sent' \in Nat
  BY <1>2 DEF GoesOn, Register
<1>6. CASE /\ op[c] = "register_reference_value" /\ Store
           /\ Reply(c, "ok") /\ Reached(c, [Nothing EXCEPT !.refs = {NewRef}])
  <2>1. PICK h \in Answer : got' = [got EXCEPT ![c] = h] /\ (pc[c] = "sent" => h = [Nothing EXCEPT !.refs = {NewRef}])
    BY <1>2, <1>3, <1>6, ReachedAnswer, Zenon
  <2>2. pc[c] = "sent" => GoodRefs(c, h) /\ GoodPolicy(c, h)
    BY <1>2, <1>3, <1>4, <1>6, <2>1, Zenon DEF GoodRefs, GoodPolicy, Register
  <2> QED BY <1>1, <1>4, <1>6, <2>1, <2>2, ReplySees, Zenon
<1>7. CASE /\ op[c] = "query_reference_values" /\ UNCHANGED <<store, cut>>
           /\ Reply(c, "ok") /\ Reached(c, [Nothing EXCEPT !.refs = refs])
  <2>0. UNCHANGED <<sent, refs, registered, cut>>
    BY <1>7, Zenon DEF store
  <2>1. PICK h \in Answer : got' = [got EXCEPT ![c] = h] /\ (pc[c] = "sent" => h = [Nothing EXCEPT !.refs = refs])
    BY <1>2, <1>3, <1>7, ReachedAnswer, Zenon
  <2>2. Register \notin cut => floor[c].refs \subseteq refs
    BY <1>0, Zenon DEF SeenInv, RefsInv, Data
  <2>3. pc[c] = "sent" => (Register \notin cut => GoodRefs(c, h)) /\ GoodPolicy(c, h)
    BY <1>2, <1>3, <1>7, <2>1, <2>2, Zenon DEF GoodRefs, GoodPolicy, Register
  <2> QED BY <1>1, <1>2, <1>7, <2>0, <2>1, <2>3, ReplySees, Zenon
<1>8. CASE /\ op[c] = "verify" /\ at' = [at EXCEPT ![c] = "issue"] /\ UNCHANGED <<op, res, store, cut>>
           /\ got' = [got EXCEPT ![c] = [Nothing EXCEPT !.refs = refs]]
  BY <1>1, <1>8, WorkSees, Zenon
<1>9. CASE Reply(c, "error") /\ UNCHANGED got /\ (UNCHANGED <<store, cut>> \/ Store \/ GoesOn)
  <2>1. \E g \in Answer : got' = [got EXCEPT ![c] = g]
    BY <1>9, SameAnswer, Zenon
  <2>2. /\ cut \subseteq cut' /\ refs' \in SUBSET Nat /\ registered' \in Nat /\ sent' \in Nat
        /\ Register \notin cut' => sent' = sent /\ refs \subseteq refs'
    BY <1>2, <1>4, <1>5, <1>9, Zenon DEF store
  <2> QED BY <1>1, <1>9, <2>1, <2>2, ErrorSees, Zenon
<1> QED BY <1>6, <1>7, <1>8, <1>9, Zenon DEF RvpsAnswers

\* The evaluation ends with the policy that is stored.
LEMMA IssueSees ==
    ASSUME Tasks, SeenInv, NEW c \in Call, Issue(c)
    PROVE  SeenInv'
<1>0. Data /\ PlaceOf(c)
  BY Zenon DEF SeenInv
<1>1. /\ at[c] = "issue" /\ UNCHANGED <<policy, version, job, acked, floor>>
      /\ UNCHANGED <<sent, refs, registered, cut>>
  BY Zenon DEF Issue, kbsside, disk, store
<1>2. op[c] = "verify" /\ got[c] \in Answer /\ policy \in File /\ floor[c] \in Acked /\ acked \in Acked
      /\ refs \in SUBSET Nat /\ registered \in Nat /\ sent \in Nat
  BY <1>0, <1>1, Zenon DEF PlaceOf, Data
<1>3. [got[c] EXCEPT !.policy = policy] \in Answer /\ [got[c] EXCEPT !.policy = policy].policy = policy
      /\ [got[c] EXCEPT !.policy = policy].refs = got[c].refs
  BY <1>2 DEF Answer
<1>4. CASE Reply(c, "ok") /\ Reached(c, [got[c] EXCEPT !.policy = policy])
  <2>1. PICK h \in Answer : got' = [got EXCEPT ![c] = h] /\ (pc[c] = "sent" => h = [got[c] EXCEPT !.policy = policy])
    BY <1>3, <1>4, ReachedAnswer, Zenon
  <2>2. ASSUME "set_policy" \notin cut PROVE Covers(policy, floor[c].policy)
    <3>1. Covers(policy, acked.policy) /\ floor[c].policy <= acked.policy
      BY <1>0, <2>2, Zenon DEF SeenInv, PolicyInv, Data
    <3>2. acked.policy \in Nat /\ floor[c].policy \in Nat /\ policy.version \in Nat
      BY <1>2 DEF Acked, File
    <3> QED BY <3>1, <3>2 DEF Covers
  <2>3. pc[c] = "sent" /\ "set_policy" \notin cut => GoodPolicy(c, h)
    BY <1>2, <1>3, <2>1, <2>2, Zenon DEF GoodPolicy
  <2>4. Register \notin cut => floor[c].refs \subseteq got[c].refs
    BY <1>1, Zenon DEF SeenInv, RefsInv, RefsOf
  <2>5. pc[c] = "sent" /\ Register \notin cut => GoodRefs(c, h)
    BY <1>2, <1>3, <2>1, <2>4, Zenon DEF GoodRefs, Register
  <2> QED BY <1>1, <1>2, <1>4, <2>1, <2>3, <2>5, ReplySees, Zenon
<1>5. CASE Reply(c, "error") /\ Reached(c, Nothing)
  <2>1. \E h \in Answer : got' = [got EXCEPT ![c] = h]
    BY <1>5, ReachedAnswer, NothingIsAnswer, Zenon
  <2> QED BY <1>1, <1>2, <1>5, <2>1, ErrorSees, Zenon
<1> QED BY <1>4, <1>5, Zenon DEF Issue

\* The call that holds the lock starts the only thread, with the newest policy.
LEMMA WriteSees ==
    ASSUME GuardInv, SeenInv, NEW c \in Call, WritePolicy(c)
    PROVE  SeenInv'
<1>0. Data /\ Tasks
  BY Zenon DEF SeenInv, GuardInv
<1>1. at[c] = "write" /\ UNCHANGED <<policy, acked, floor, got, sent, refs, registered, cut>>
  BY Zenon DEF WritePolicy, kbsside, store
<1>2. version \in Nat /\ policy.version \in Nat /\ refs \in SUBSET Nat /\ registered \in Nat /\ sent \in Nat
  BY <1>0 DEF Data, File
<1>3. CASE Reply(c, "error") /\ UNCHANGED <<job, version>>
  BY <1>0, <1>1, <1>2, <1>3, SameAnswer, ErrorSees, Zenon
<1>4. CASE /\ version' = version + 1
           /\ job' = [job EXCEPT ![c] = [stage |-> "open", version |-> version + 1]]
           /\ at' = [at EXCEPT ![c] = "writing"] /\ UNCHANGED <<op, res>>
  <2>1. /\ version' \in Nat
        /\ [stage |-> "open", version |-> version + 1] \in [stage : {"open", "fill"}, version : Nat]
    BY <1>2, <1>4
  <2>2. job' \in [Call -> [stage : {"open", "fill"}, version : Nat] \cup {None}]
    BY <1>0, <1>4, <2>1, Zenon DEF Data
  <2>3. Data'
    BY <1>0, <1>1, <1>4, <2>1, <2>2, Zenon DEF Data
  <2>4. at'[c] = "writing" /\ job'[c] = [stage |-> "open", version |-> version + 1] /\ op'[c] = "set_policy"
    BY <1>0, <1>1, <1>4, Zenon DEF Data, Tasks, SeenInv, PlaceOf
  <2>5. \A d \in Call \ {c} : Same(d)
    BY <1>0, <1>1, <1>4, Zenon DEF Same, Data, Tasks
  <2>6. \A d \in Call : PlaceOf(d)'
    BY <2>4, <2>5, Zenon DEF SeenInv, PlaceOf, Same
  <2>7. ASSUME "set_policy" \notin cut PROVE PolicyInv'
    <3>1. PolicyInv /\ policy.version <= version /\ Covers(policy, acked.policy)
      BY <2>7, Zenon DEF SeenInv, PolicyInv
    <3>2. \A d \in Call \ {c} : job[d] = None
      BY <1>1, <2>7, OnlyJob, Zenon
    <3>3. policy'.version <= version' /\ policy'.version < version'
      BY <1>1, <1>2, <1>4, <3>1
    <3>4. job'[c].stage = "open" /\ job'[c].version = version'
      BY <1>4, <2>4
    <3>5. PolicyOf(c)'
      BY <2>4, <3>3, <3>4 DEF PolicyOf
    <3>6. Covers(policy', acked'.policy) /\ \A n \in Nat : Covers(policy, n) => Covers(policy', n)
      BY <1>1, <3>1, Zenon
    <3> QED BY <1>0, <2>5, <3>1, <3>2, <3>3, <3>5, <3>6, PolicyStep, Zenon
  <2>8. ASSUME Register \notin cut PROVE RefsInv'
    <3>1. RefsInv
      BY <2>8, Zenon DEF SeenInv
    <3>2. RefsOf(c)'
      BY <2>4, Zenon DEF RefsOf
    <3>3. sent' = 0 /\ refs \subseteq refs' /\ acked'.refs \subseteq refs'
      BY <1>1, <3>1, Zenon DEF RefsInv
    <3> QED BY <2>5, <3>1, <3>2, <3>3, RefsStep, Zenon
  <2> QED BY <1>1, <2>3, <2>6, <2>7, <2>8, Zenon DEF SeenInv
<1> QED BY <1>3, <1>4, Zenon DEF WritePolicy

\* A stray registration ends, or nothing is changed.
LEMMA LandSees ==
    ASSUME SeenInv, Land \/ Restart \/ UNCHANGED vars
    PROVE  SeenInv'
<1>0. Data
  BY Zenon DEF SeenInv
<1>1. UNCHANGED <<op, acked, floor, at, res, got, policy, version, job, cut>>
  BY Zenon DEF Land, Restart, vars, calls, tasks, disk, store
<1>2. \/ UNCHANGED <<sent, refs, registered>>
      \/ /\ sent > 0 /\ sent' = sent - 1
         /\ \/ UNCHANGED <<refs, registered>>
            \/ \E kept \in SUBSET refs : refs' = kept \cup {NewRef} /\ registered' = NewRef
  BY Zenon DEF Land, Restart, vars, store
<1>3. sent' \in Nat /\ refs' \in SUBSET Nat /\ registered' \in Nat
  <2>1. sent \in Nat /\ refs \in SUBSET Nat /\ registered \in Nat
    BY <1>0, Zenon DEF Data
  <2>2. NewRef \in Nat /\ sent' \in Nat
    BY <1>2, <2>1 DEF NewRef
  <2>3. \A kept \in SUBSET refs : kept \cup {NewRef} \in SUBSET Nat
    BY <2>1, <2>2, Zenon
  <2> QED BY <1>2, <2>1, <2>2, <2>3, Zenon
<1>4. Data'
  BY <1>0, <1>1, <1>3, Zenon DEF Data
<1>5. \A c \in Call : PlaceOf(c)'
  BY <1>1, Zenon DEF SeenInv, PlaceOf
<1>6. ASSUME "set_policy" \notin cut PROVE PolicyInv'
  BY <1>1, <1>6, Zenon DEF SeenInv, PolicyInv, PolicyOf, Covers
<1>7. ASSUME Register \notin cut PROVE RefsInv'
  <2>1. RefsInv
    BY <1>7, Zenon DEF SeenInv
  <2>2. UNCHANGED <<sent, refs>>
    BY <1>2, <2>1 DEF RefsInv
  <2> QED BY <1>1, <2>1, <2>2, Zenon DEF RefsInv, RefsOf
<1> QED BY <1>1, <1>4, <1>5, <1>6, <1>7, Zenon DEF SeenInv

\* Every step keeps what calls must see within what they read.
LEMMA SeenStep == GuardInv /\ SeenInv /\ [Next]_vars => SeenInv'
<1> SUFFICES ASSUME GuardInv, SeenInv, [Next]_vars PROVE SeenInv'
  BY Zenon
<1>0. Tasks /\ Data
  BY Zenon DEF GuardInv, SeenInv
<1>1. ASSUME NEW c \in Call, NEW o \in Asks[c], Request(c, o) PROVE SeenInv'
  <2>1. /\ UNCHANGED <<at, res, got, disk, store, cut, acked>> /\ at[c] = "none"
        /\ floor' = [floor EXCEPT ![c] = IF o \in Writes \cup {"challenge"} THEN NoneAcked ELSE acked]
        /\ op' = [op EXCEPT ![c] = IF at[c] = "none" THEN o ELSE @]
    BY <1>1, Zenon DEF Request, tasks
  <2>2. \E f \in {acked, NoneAcked, floor[c]} :
           floor' = [floor EXCEPT ![c] = f] /\ (at[c] = "none" \/ f \in {NoneAcked, floor[c]})
    BY <2>1, Zenon
  <2> QED BY <1>0, <2>1, <2>2, KbsSees, Zenon
<1>2. ASSUME NEW c \in Call, UNCHANGED <<at, res, got, disk, store, cut, acked>>,
             UNCHANGED <<op, floor>> \/ Forget(c)
      PROVE  SeenInv'
  <2>1. CASE UNCHANGED <<op, floor>>
    <3>1. floor' = [floor EXCEPT ![c] = floor[c]] /\ op' = [op EXCEPT ![c] = IF at[c] = "none" THEN op[c] ELSE @]
      BY <1>0, <2>1, Zenon DEF Data, Tasks
    <3> QED BY <1>0, <1>2, <3>1, KbsSees, Zenon
  <2>2. CASE Forget(c)
    <3>1. floor' = [floor EXCEPT ![c] = NoneAcked] /\ op' = [op EXCEPT ![c] = IF at[c] = "none" THEN None ELSE @]
      BY <1>2, <2>2, Zenon DEF Forget
    <3> QED BY <1>0, <1>2, <3>1, KbsSees, Zenon
  <2> QED BY <1>2, <2>1, <2>2, Zenon
<1>3. ASSUME NEW c \in Call, PoolGet(c) \/ PoolTimeout(c) \/ Broken(c) PROVE SeenInv'
  BY <1>2, <1>3, Zenon DEF PoolGet, PoolTimeout, Broken, tasks
<1>4. ASSUME NEW c \in Call, Send(c) PROVE SeenInv'
  <2>1. at[c] # "writing"
    BY <1>0, <1>4, Zenon DEF Send, Tasks
  <2> QED BY <1>0, <1>4, <2>1, WorkSees, Zenon DEF Send
<1>5. ASSUME NEW c \in Call, Refuse(c) PROVE SeenInv'
  <2>1. /\ at' = [at EXCEPT ![c] = "replied"] /\ res' = [res EXCEPT ![c] = "error"] /\ at[c] = "none"
        /\ UNCHANGED <<op, policy, version, job, sent, refs, registered, cut, acked, floor, got>>
    BY <1>0, <1>5, Zenon DEF Refuse, disk, store, Tasks
  <2>2. Data' /\ at'[c] = "replied" /\ res'[c] = "error" /\ \A d \in Call \ {c} : Same(d)
    BY <1>0, <2>1, Zenon DEF Data, Tasks, Same
  <2>3. "set_policy" \notin cut => job'[c] = None
    BY <2>1, NoJob, Zenon
  <2>4. PlaceOf(c)' /\ RefsOf(c)' /\ ("set_policy" \notin cut' => PolicyOf(c)')
    BY <2>1, <2>2, <2>3, Zenon DEF PlaceOf, RefsOf, PolicyOf
  <2> QED BY <2>1, <2>2, <2>4, QuietStep, Zenon
<1>6. ASSUME NEW c \in Call, Return(c) PROVE SeenInv'
  BY <1>0, <1>6, ReturnSees, Zenon
<1>7. ASSUME NEW c \in Call, Acquire(c) PROVE SeenInv'
  <2>1. PICK a \in {"rvps", "write", "verifier"} :
           at' = [at EXCEPT ![c] = a] /\ (a = "write" => Writer(c) /\ op[c] # Register)
    BY <1>7, Zenon DEF Acquire, EnterRvps, Register
  <2>2. a = "write" => op[c] = "set_policy"
    BY <2>1, Zenon DEF Writer, Writes, Register
  <2>3. at[c] # "writing" /\ UNCHANGED <<op, res, disk, store, cut, acked, floor, got>>
    BY <1>7, Zenon DEF Acquire, kbsside
  <2> QED BY <1>0, <2>1, <2>2, <2>3, WorkSees, Zenon
<1>8. ASSUME NEW c \in Call, Verifier(c) PROVE SeenInv'
  <2>1. at[c] # "writing" /\ UNCHANGED <<disk, store, cut, acked, floor, got>>
    BY <1>8, Zenon DEF Verifier, kbsside
  <2>2. UNCHANGED <<policy, version, job, sent, refs, registered>> /\ refs \in SUBSET Nat /\ registered \in Nat /\ sent \in Nat
    BY <1>0, <2>1, Zenon DEF disk, store, Data
  <2>3. PICK g \in Answer : got' = [got EXCEPT ![c] = g]
    BY <2>1, SameAnswer, Zenon
  <2>4. CASE EnterRvps(c) /\ UNCHANGED <<op, res>>
    BY <1>0, <2>1, <2>4, WorkSees, Zenon DEF EnterRvps
  <2>5. CASE op[c] = "challenge" /\ Reply(c, "ok")
    BY <1>0, <2>1, <2>2, <2>3, <2>5, ReplySees, Zenon DEF GoodPolicy, GoodRefs, Register
  <2>6. CASE Reply(c, "error")
    BY <1>0, <2>1, <2>2, <2>3, <2>6, ErrorSees, Zenon
  <2> QED BY <1>8, <2>4, <2>5, <2>6, Zenon DEF Verifier
<1>9. ASSUME NEW c \in Call, LockClient(c) PROVE SeenInv'
  BY <1>0, <1>9, WorkSees, Zenon DEF LockClient, kbsside
<1>10. ASSUME NEW c \in Call, RvpsAnswers(c) PROVE SeenInv'
  BY <1>0, <1>10, RvpsSees, Zenon
<1>11. ASSUME NEW c \in Call, Issue(c) PROVE SeenInv'
  BY <1>0, <1>11, IssueSees, Zenon
<1>12. ASSUME NEW c \in Call, WritePolicy(c) PROVE SeenInv'
  BY <1>12, WriteSees, Zenon
<1>13. ASSUME NEW c \in Call, Truncate(c) \/ Fill(c) PROVE SeenInv'
  BY <1>13, ThreadSees, Zenon
<1>14. ASSUME NEW c \in Call, Drop(c) PROVE SeenInv'
  <2>1. UNCHANGED <<disk, acked>> /\ Forget(c)
    BY <1>14, Zenon DEF Drop
  <2>2. CASE Release({c}) /\ LeaveBehind(c)
    <3>1. /\ floor' \in [Call -> Acked] /\ floor'[c] = NoneAcked
          /\ \A d \in Call \ {c} : op'[d] = op[d] /\ floor'[d] = floor[d]
      BY <1>0, <2>1, NothingIsAnswer, Zenon DEF Forget, Data, Tasks
    <3> QED BY <1>0, <2>1, <2>2, <3>1, ReleaseSees, Zenon
  <2>3. CASE UNCHANGED <<tasks, store, cut>>
    BY <1>2, <2>1, <2>3, Zenon DEF tasks
  <2> QED BY <1>14, <2>2, <2>3, Zenon DEF Drop
<1>15. ASSUME NEW c \in Call, Cancel(c) PROVE SeenInv'
  <2>1. Release({c}) /\ LeaveBehind(c) /\ op' = [op EXCEPT ![c] = None] /\ UNCHANGED <<disk, acked, floor>>
    BY <1>15, Zenon DEF Cancel, kbsside
  <2>2. floor' \in [Call -> Acked] /\ \A d \in Call \ {c} : op'[d] = op[d]
    BY <1>0, <2>1, Zenon DEF Data, Tasks
  <2> QED BY <1>0, <2>1, <2>2, ReleaseSees, Zenon
<1>16. CASE Crash
  BY <1>16, CrashSees, Zenon
<1>17. CASE Land \/ Restart \/ UNCHANGED vars
  BY <1>17, LandSees, Zenon
<1> QED
  BY <1>1, <1>3, <1>4, <1>5, <1>6, <1>7, <1>8, <1>9, <1>10, <1>11, <1>12, <1>13, <1>14,
     <1>15, <1>16, <1>17, ZenonT(40) DEF Next, Step

\* However many calls, writes and crashes there are, an evaluation or a query that
\* succeeds has seen every policy and reference value that was acknowledged before
\* it began, or what a later change has left, until the caller of a change of that
\* kind leaves in the middle of it.
THEOREM AcknowledgedAlwaysSeen == Spec => []AcknowledgedIsSeen
<1>1. ASSUME SeenInv, NEW c \in Call, at[c] = "replied", res[c] = "ok", op[c] = "verify", "set_policy" \notin cut
      PROVE  \/ got[c].policy.version > floor[c].policy
             \/ got[c].policy = [version |-> floor[c].policy, whole |-> TRUE]
  <2>1. Covers(got[c].policy, floor[c].policy)
    BY <1>1, Zenon DEF SeenInv, PolicyInv, PolicyOf
  <2>2. got[c].policy \in File /\ floor[c].policy \in Nat
    BY <1>1 DEF SeenInv, Data, Answer, Acked
  <2> QED BY <2>1, <2>2 DEF Covers, File
<1>2. ASSUME SeenInv, NEW c \in Call, at[c] = "replied", res[c] = "ok",
             op[c] \in {"verify", "query_reference_values"}, Register \notin cut
      PROVE  floor[c].refs \subseteq got[c].refs
  BY <1>2, Zenon DEF SeenInv, RefsInv, RefsOf
<1>3. SeenInv => AcknowledgedIsSeen
  BY <1>1, <1>2, Zenon DEF AcknowledgedIsSeen, Register
<1> QED BY <1>3, GuardInit, GuardStep, SeenInit, SeenStep, PTL DEF Spec

-----------------------------------------------------------------------------
(* Nothing is applied twice.                                               *)

\* The changes that are still to be made: those on their way to the service, and
\* those of its tasks that have not come to their end.
Due == {c \in Call : Writer(c) /\ (pc[c] \in {"pool", "call"} \/ at[c] \in {"queue", "rvps", "remote", "write"})}

\* The changes that are made, or go on without their caller.
Made == version + registered + sent

\* Every change that was asked for is counted once: as due or as made.  It may also
\* have failed.
OnceInv ==
    /\ writes \in Nat /\ IsFiniteSet(Due)
    /\ Made + Cardinality(Due) <= writes

\* The terms of the sum are numbers.
LEMMA Counts ==
    ASSUME SeenInv, OnceInv
    PROVE  /\ version \in Nat /\ registered \in Nat /\ sent \in Nat /\ Made \in Nat
           /\ Cardinality(Due) \in Nat
<1>1. version \in Nat /\ registered \in Nat /\ sent \in Nat
  BY Zenon DEF SeenInv, Data
<1>2. Cardinality(Due) \in Nat
  BY FS_CardinalityType, Zenon DEF OnceInv
<1> QED BY <1>1, <1>2 DEF Made

\* A step that makes nothing due and changes nothing.
LEMMA NothingMade ==
    ASSUME SeenInv, OnceInv, Due' \in SUBSET Due, UNCHANGED <<version, registered, sent, writes>>
    PROVE  OnceInv'
<1>1. IsFiniteSet(Due') /\ Cardinality(Due') <= Cardinality(Due) /\ Cardinality(Due') \in Nat
  BY FS_Subset, FS_CardinalityType, Zenon DEF OnceInv
<1>2. Made' = Made
  BY Zenon DEF Made
<1> QED BY <1>1, <1>2, Counts DEF OnceInv

\* A task that makes its change, or leaves it to others, or fails, is not due any
\* more.
LEMMA OneMade ==
    ASSUME SeenInv, OnceInv, NEW c \in Due, Due' \in SUBSET (Due \ {c}), UNCHANGED writes,
           \/ version' = version + 1 /\ UNCHANGED <<registered, sent>>
           \/ registered' = registered + 1 /\ UNCHANGED <<version, sent>>
           \/ sent' = sent + 1 /\ UNCHANGED <<version, registered>>
    PROVE  OnceInv'
<1>1. IsFiniteSet(Due \ {c}) /\ Cardinality(Due \ {c}) = Cardinality(Due) - 1
  BY FS_RemoveElement, Zenon DEF OnceInv
<1>2. IsFiniteSet(Due') /\ Cardinality(Due') <= Cardinality(Due) - 1 /\ Cardinality(Due') \in Nat
  BY <1>1, FS_Subset, FS_CardinalityType
<1>3. Made' = Made + 1
  BY Counts DEF Made
<1> QED BY <1>2, <1>3, Counts DEF OnceInv

\* What Store and GoesOn add.
LEMMA AddsOne ==
    ASSUME UNCHANGED version, Store \/ GoesOn
    PROVE  \/ registered' = registered + 1 /\ UNCHANGED <<version, sent>>
           \/ sent' = sent + 1 /\ UNCHANGED <<version, registered>>
  BY Zenon DEF Store, GoesOn, NewRef

\* It is enough to look at the call that takes the step.
LEMMA DueElsewhere ==
    ASSUME NEW c \in Call, \A d \in Call \ {c} : pc'[d] = pc[d] /\ at'[d] = at[d] /\ op'[d] = op[d]
    PROVE  /\ (c \in Due' => c \in Due) => Due' \in SUBSET Due
           /\ c \notin Due' => Due' \in SUBSET (Due \ {c})
           /\ Due' \in SUBSET (Due \cup {c})
  BY Zenon DEF Due, Writer

\* A call that gets its answer, or whose caller is gone, is not due any more.
LEMMA RepliedNotDue ==
    ASSUME Tasks, NEW c \in Call, NEW r, Reply(c, r), UNCHANGED pc, at[c] # "none"
    PROVE  /\ \A d \in Call \ {c} : pc'[d] = pc[d] /\ at'[d] = at[d] /\ op'[d] = op[d]
           /\ c \notin Due'
<1>1. at'[c] \in {"replied", "none"} /\ pc'[c] \notin {"pool", "call"}
  BY Zenon DEF Tasks, Reply
<1>2. c \notin Due'
  BY <1>1, Zenon DEF Due
<1> QED BY <1>2, Zenon DEF Tasks, Reply

\* A task that is dropped leaves at most its own change to others.
LEMMA DroppedOnce ==
    ASSUME Tasks, SeenInv, OnceInv, NEW c \in Call, Release({c}), LeaveBehind(c),
           pc' = [pc EXCEPT ![c] = "idle"],
           \A d \in Call \ {c} : op'[d] = op[d], UNCHANGED <<disk, writes>>
    PROVE  OnceInv'
<1>1. at' = [d \in Call |-> IF d \in {c} THEN "none" ELSE at[d]]
  BY ReleaseGuards, Zenon
<1>2. c \notin Due'
  BY <1>1, Zenon DEF Due, Tasks
<1>3. Due' \in SUBSET Due /\ Due' \in SUBSET (Due \ {c})
  BY <1>1, <1>2, DueElsewhere, Zenon DEF Tasks
<1>4. UNCHANGED version
  BY Zenon DEF disk
<1>5. CASE Registering(c)
  <2>1. c \in Due
    BY <1>5, Zenon DEF Registering, Due
  <2>2. GoesOn
    BY <1>5, Zenon DEF LeaveBehind
  <2> QED BY <1>3, <1>4, <2>1, <2>2, AddsOne, OneMade, Zenon
<1>6. CASE ~Registering(c)
  <2>1. UNCHANGED <<registered, sent>>
    BY <1>6, Zenon DEF LeaveBehind, store
  <2> QED BY <1>3, <1>4, <2>1, NothingMade, Zenon
<1> QED BY <1>5, <1>6, Zenon

\* A crash takes all tasks, and one registration may go on.
LEMMA CrashOnce ==
    ASSUME Tasks, SeenInv, OnceInv, Crash
    PROVE  OnceInv'
<1>1. /\ Release(Call) /\ UNCHANGED <<pc, version, writes>>
      /\ op' = [c \in Call |-> IF pc[c] = "idle" THEN None ELSE op[c]]
  BY Zenon DEF Crash
<1>2. \A d \in Call : at'[d] = "none"
  BY <1>1, ReleaseGuards
<1>3. \A d \in Due' : pc[d] \in {"pool", "call"} /\ at[d] = "none" /\ op'[d] = op[d]
  BY <1>1, <1>2, Zenon DEF Due, Tasks
<1>4. Due' \in SUBSET Due
  BY <1>3, Zenon DEF Due, Writer
<1>5. CASE UNCHANGED <<store, cut>>
  BY <1>1, <1>4, <1>5, NothingMade, Zenon DEF store
<1>6. ASSUME NEW c \in Call, at[c] \in {"rvps", "remote"}, Writer(c), Store \/ GoesOn PROVE OnceInv'
  <2>1. c \in Due /\ c \notin Due'
    BY <1>3, <1>6, Zenon DEF Due
  <2>2. Due' \in SUBSET (Due \ {c})
    BY <1>4, <2>1, Zenon
  <2> QED BY <1>1, <1>6, <2>1, <2>2, AddsOne, OneMade, Zenon
<1> QED BY <1>5, <1>6, Zenon DEF Crash, Registering

\* Every change that was asked for stays counted once.
LEMMA OnceStep == GuardInv /\ SeenInv /\ OnceInv /\ [Next]_vars => OnceInv'
<1> SUFFICES ASSUME Tasks, SeenInv, OnceInv, [Next]_vars PROVE OnceInv'
  BY Zenon DEF GuardInv
<1>1. ASSUME NEW c \in Call, NEW o \in Asks[c], Request(c, o) PROVE OnceInv'
  <2>1. \A d \in Call \ {c} : pc'[d] = pc[d] /\ at'[d] = at[d] /\ op'[d] = op[d]
    BY <1>1, Zenon DEF Request, tasks, Tasks
  <2>2. UNCHANGED <<version, registered, sent>>
    BY <1>1, Zenon DEF Request, disk, store
  <2>3. CASE o \notin Writes
    <3>1. writes' = writes /\ op' = [op EXCEPT ![c] = o]
      BY <1>1, <2>3, Zenon DEF Request
    <3>2. c \notin Due'
      BY <2>3, <3>1, Zenon DEF Due, Writer, Tasks
    <3> QED BY <2>1, <2>2, <3>1, <3>2, DueElsewhere, NothingMade, Zenon
  <2>4. CASE o \in Writes
    <3>1. writes' = writes + 1
      BY <1>1, <2>4, Zenon DEF Request
    <3>2. IsFiniteSet(Due \cup {c}) /\ Cardinality(Due \cup {c}) <= Cardinality(Due) + 1
      <4>1. IsFiniteSet(Due) /\ Cardinality(Due) \in Nat
        BY Counts, Zenon DEF OnceInv
      <4>2. /\ IsFiniteSet(Due \cup {c})
            /\ Cardinality(Due \cup {c}) = IF c \in Due THEN Cardinality(Due) ELSE Cardinality(Due) + 1
        BY <4>1, FS_AddElement, Zenon
      <4> QED BY <4>1, <4>2
    <3>3. IsFiniteSet(Due') /\ Cardinality(Due') <= Cardinality(Due \cup {c})
      BY <2>1, <3>2, DueElsewhere, FS_Subset, Zenon
    <3>4. Cardinality(Due') \in Nat /\ Cardinality(Due \cup {c}) \in Nat
      BY <3>2, <3>3, FS_CardinalityType, Zenon
    <3>5. Made' = Made
      BY <2>2, Zenon DEF Made
    <3> QED BY <3>1, <3>2, <3>3, <3>4, <3>5, Counts DEF OnceInv
  <2> QED BY <2>3, <2>4, Zenon
<1>2. ASSUME NEW c \in Call, UNCHANGED <<at, version, registered, sent, writes>>,
             pc[c] \in {"pool", "call"} /\ pc' = [pc EXCEPT ![c] = "call"] /\ UNCHANGED op
      PROVE  OnceInv'
  <2>1. c \in Due' => c \in Due
    BY <1>2, Zenon DEF Due, Writer, Tasks
  <2> QED BY <1>2, <2>1, DueElsewhere, NothingMade, Zenon DEF Tasks
<1>3. ASSUME NEW c \in Call, UNCHANGED <<at, version, registered, sent, writes>>, Forget(c) PROVE OnceInv'
  <2>1. /\ pc' = [pc EXCEPT ![c] = "idle"]
        /\ op' = [op EXCEPT ![c] = IF at[c] = "none" THEN None ELSE @]
    BY <1>3, Zenon DEF Forget
  <2>2. c \in Due' => c \in Due
    BY <1>3, <2>1, Zenon DEF Due, Writer, Tasks
  <2> QED BY <1>3, <2>1, <2>2, DueElsewhere, NothingMade, Zenon DEF Tasks
<1>4. ASSUME NEW c \in Call, PoolGet(c) PROVE OnceInv'
  <2>1. UNCHANGED <<at, version, registered, sent, writes>> /\ pc[c] = "pool"
    BY <1>4, Zenon DEF PoolGet, tasks, disk, store
  <2>2. (pc' = [pc EXCEPT ![c] = "call"] /\ UNCHANGED op) \/ Forget(c)
    BY <1>4, Zenon DEF PoolGet
  <2> QED BY <1>2, <1>3, <2>1, <2>2, Zenon
<1>5. ASSUME NEW c \in Call, PoolTimeout(c) \/ Broken(c) PROVE OnceInv'
  BY <1>3, <1>5, Zenon DEF PoolTimeout, Broken, tasks, disk, store
<1>6. ASSUME NEW c \in Call, Send(c) \/ Refuse(c) PROVE OnceInv'
  <2>1. /\ pc[c] = "call" /\ pc' = [pc EXCEPT ![c] = "sent"] /\ UNCHANGED <<op, version, registered, sent, writes>>
        /\ \E w \in {"queue", "replied"} : at' = [at EXCEPT ![c] = w]
    BY <1>6, Zenon DEF Send, Refuse, disk, store
  <2>2. c \in Due' => c \in Due
    BY <2>1, Zenon DEF Due, Writer, Tasks
  <2> QED BY <2>1, <2>2, DueElsewhere, NothingMade DEF Tasks
<1>7. ASSUME NEW c \in Call, Return(c) PROVE OnceInv'
  <2>1. /\ pc' = [pc EXCEPT ![c] = "idle"] /\ at' = [at EXCEPT ![c] = "none"]
        /\ UNCHANGED <<version, registered, sent, writes>>
    BY <1>7, Zenon DEF Return, Forget, disk, store
  <2>2. c \notin Due'
    BY <2>1, Zenon DEF Due, Tasks
  <2>3. \A d \in Call \ {c} : pc'[d] = pc[d] /\ at'[d] = at[d] /\ op'[d] = op[d]
    BY <1>7, <2>1, Zenon DEF Return, Forget, Tasks
  <2> QED BY <2>1, <2>2, <2>3, DueElsewhere, NothingMade, Zenon
<1>8. ASSUME NEW c \in Call, Acquire(c) PROVE OnceInv'
  <2>1. PICK w \in {"rvps", "write", "verifier"} : at' = [at EXCEPT ![c] = w]
    BY <1>8, Zenon DEF Acquire, EnterRvps
  <2>2. at[c] = "queue" /\ UNCHANGED <<pc, op, version, registered, sent, writes>>
    BY <1>8, Zenon DEF Acquire, kbsside, disk, store
  <2>3. c \in Due' => c \in Due
    BY <2>1, <2>2, Zenon DEF Due, Writer, Tasks
  <2> QED BY <2>1, <2>2, <2>3, DueElsewhere, NothingMade, Zenon DEF Tasks
<1>9. ASSUME NEW c \in Call, NEW r, Reply(c, r), UNCHANGED <<pc, version, registered, sent, writes>>, at[c] # "none"
      PROVE  OnceInv'
  BY <1>9, RepliedNotDue, DueElsewhere, NothingMade, Zenon
<1>10. ASSUME NEW c \in Call, Verifier(c) PROVE OnceInv'
  <2>1. at[c] = "verifier" /\ UNCHANGED <<pc, version, registered, sent, writes>>
    BY <1>10, Zenon DEF Verifier, kbsside, disk, store
  <2>2. CASE op[c] = "verify" /\ EnterRvps(c) /\ UNCHANGED <<op, res, lock>>
    <3>1. at' = [at EXCEPT ![c] = "rvps"]
      BY <2>2, Zenon DEF EnterRvps
    <3>2. c \notin Due'
      BY <2>2, Zenon DEF Due, Writer, Writes
    <3> QED BY <2>1, <2>2, <3>1, <3>2, DueElsewhere, NothingMade, Zenon DEF Tasks
  <2>3. CASE \E r \in {"ok", "error"} : Reply(c, r)
    BY <1>9, <2>1, <2>3, Zenon
  <2> QED BY <1>10, <2>2, <2>3, Zenon DEF Verifier
<1>11. ASSUME NEW c \in Call, LockClient(c) PROVE OnceInv'
  <2>1. /\ at[c] = "rvps" /\ at' = [at EXCEPT ![c] = "remote"]
        /\ UNCHANGED <<pc, op, version, registered, sent, writes>>
    BY <1>11, Zenon DEF LockClient, kbsside, disk, store
  <2>2. c \in Due' => c \in Due
    BY <2>1, Zenon DEF Due, Writer
  <2> QED BY <2>1, <2>2, DueElsewhere, NothingMade, Zenon DEF Tasks
<1>12. ASSUME NEW c \in Call, RvpsAnswers(c) PROVE OnceInv'
  <2>1. at[c] \in {"remote", "rvps"} /\ UNCHANGED <<pc, version, writes>>
    BY <1>12, Zenon DEF RvpsAnswers, kbsside, disk
  <2>2. CASE op[c] = "register_reference_value" /\ (\E r \in {"ok", "error"} : Reply(c, r)) /\ (Store \/ GoesOn)
    <3>1. c \in Due
      BY <2>1, <2>2, Zenon DEF Due, Writer, Writes
    <3>2. Due' \in SUBSET (Due \ {c})
      BY <2>1, <2>2, RepliedNotDue, DueElsewhere, Zenon
    <3> QED BY <2>1, <2>2, <3>1, <3>2, AddsOne, OneMade, Zenon
  <2>3. CASE (\E r \in {"ok", "error"} : Reply(c, r)) /\ UNCHANGED <<store, cut>>
    BY <1>9, <2>1, <2>3, Zenon DEF store
  <2>4. CASE at' = [at EXCEPT ![c] = "issue"] /\ UNCHANGED <<op, store>>
    <3>1. c \in Due' => c \in Due
      BY <2>1, <2>4, Zenon DEF Due, Writer
    <3>2. UNCHANGED <<registered, sent>>
      BY <2>4, Zenon DEF store
    <3> QED BY <2>1, <2>4, <3>1, <3>2, DueElsewhere, NothingMade, Zenon DEF Tasks
  <2> QED BY <1>12, <2>2, <2>3, <2>4, Zenon DEF RvpsAnswers
<1>13. ASSUME NEW c \in Call, Issue(c) PROVE OnceInv'
  <2>1. at[c] = "issue" /\ UNCHANGED <<pc, version, registered, sent, writes>>
    BY <1>13, Zenon DEF Issue, kbsside, disk, store
  <2> QED BY <1>9, <1>13, <2>1, Zenon DEF Issue
<1>14. ASSUME NEW c \in Call, WritePolicy(c) PROVE OnceInv'
  <2>1. at[c] = "write" /\ UNCHANGED <<pc, registered, sent, writes>>
    BY <1>14, Zenon DEF WritePolicy, kbsside, store
  <2>2. c \in Due
    BY <2>1, Zenon DEF Due, SeenInv, PlaceOf, Writer, Writes
  <2>3. CASE version' = version + 1 /\ at' = [at EXCEPT ![c] = "writing"] /\ UNCHANGED op
    <3>1. c \notin Due'
      BY <2>1, <2>3, Zenon DEF Due, Tasks
    <3>2. Due' \in SUBSET (Due \ {c})
      BY <2>1, <2>3, <3>1, DueElsewhere, Zenon DEF Tasks
    <3> QED BY <2>1, <2>2, <2>3, <3>2, OneMade, Zenon
  <2>4. CASE Reply(c, "error") /\ UNCHANGED version
    BY <1>9, <2>1, <2>4, Zenon
  <2> QED BY <1>14, <2>3, <2>4, Zenon DEF WritePolicy
<1>15. ASSUME NEW c \in Call, Truncate(c) \/ Fill(c) PROVE OnceInv'
  <2>1. UNCHANGED <<pc, version, registered, sent, writes>>
    BY <1>15, Zenon DEF Truncate, Fill, kbsside, store
  <2>2. UNCHANGED <<op, at>> \/ (at[c] = "writing" /\ \E r \in {"ok", "error"} : Reply(c, r))
    BY <1>15, Zenon DEF Truncate, Fill, Finish
  <2>3. CASE UNCHANGED <<op, at>>
    <3>1. Due' = Due
      BY <2>1, <2>3, Zenon DEF Due, Writer
    <3> QED BY <2>1, <3>1, NothingMade, Zenon
  <2> QED BY <1>9, <2>1, <2>2, <2>3, Zenon
<1>16. ASSUME NEW c \in Call, Drop(c) PROVE OnceInv'
  <2>1. Forget(c) /\ UNCHANGED <<disk, writes>>
    BY <1>16, Zenon DEF Drop
  <2>2. CASE Release({c}) /\ LeaveBehind(c)
    <3>1. pc' = [pc EXCEPT ![c] = "idle"] /\ \A d \in Call \ {c} : op'[d] = op[d]
      BY <2>1, Zenon DEF Forget, Tasks
    <3> QED BY <2>1, <2>2, <3>1, DroppedOnce, Zenon
  <2>3. CASE UNCHANGED <<tasks, store, cut>>
    BY <1>3, <2>1, <2>3, Zenon DEF tasks, disk, store
  <2> QED BY <1>16, <2>2, <2>3, Zenon DEF Drop
<1>17. ASSUME NEW c \in Call, Cancel(c) PROVE OnceInv'
  <2>1. pc' = [pc EXCEPT ![c] = "idle"] /\ UNCHANGED <<disk, writes>>
    BY <1>17, Zenon DEF Cancel, Tasks, kbsside
  <2>2. \A d \in Call \ {c} : op'[d] = op[d]
    BY <1>17, Zenon DEF Cancel, Tasks
  <2> QED BY <1>17, <2>1, <2>2, DroppedOnce, Zenon DEF Cancel
<1>18. CASE Crash
  BY <1>18, CrashOnce, Zenon
<1>19. CASE Land
  <2>1. /\ sent > 0 /\ sent' = sent - 1 /\ registered' \in {registered, registered + 1}
        /\ UNCHANGED <<version, writes, op, pc, at>>
    BY <1>19, Zenon DEF Land, calls, tasks, disk, NewRef
  <2>2. Due' = Due
    BY <2>1, Zenon DEF Due, Writer
  <2>3. Made' <= Made /\ Made' \in Nat
    BY <2>1, Counts DEF Made
  <2> QED BY <2>1, <2>2, <2>3, Counts DEF OnceInv
<1>20. CASE Restart \/ UNCHANGED vars
  <2>1. UNCHANGED <<op, pc, at, version, registered, sent, writes>>
    BY <1>20, Zenon DEF Restart, vars, calls, tasks, disk, store
  <2>2. Due' = Due
    BY <2>1, Zenon DEF Due, Writer
  <2> QED BY <2>1, <2>2, NothingMade, Zenon
<1> QED
  BY <1>1, <1>4, <1>5, <1>6, <1>7, <1>8, <1>10, <1>11, <1>12, <1>13, <1>14, <1>15, <1>16, <1>17,
     <1>18, <1>19, <1>20, ZenonT(40) DEF Next, Step

\* Whatever breaks, restarts or times out, with any number of calls, connections
\* and crashes, no change is made more often than it was asked for.
THEOREM AppliedOnce == Spec => []AppliedAtMostOnce
<1>1. Init => OnceInv
  <2> SUFFICES ASSUME Init PROVE OnceInv
    BY Zenon
  <2>1. Due = {}
    BY Zenon DEF Init, Due
  <2>2. IsFiniteSet({}) /\ Cardinality({}) = 0
    BY FS_EmptySet, Zenon
  <2> QED BY <2>1, <2>2 DEF Init, OnceInv, Made
<1>2. SeenInv /\ OnceInv => AppliedAtMostOnce
  BY Counts DEF OnceInv, AppliedAtMostOnce, Made
<1> QED BY <1>1, <1>2, GuardInit, GuardStep, SeenInit, SeenStep, OnceStep, PTL DEF Spec
=============================================================================
