---------------------- MODULE AttestationService_proofs ----------------------
(***************************************************************************)
(* Proofs about AttestationService, for every number of calls, and every   *)
(* set of requests, devices, policy files and policies.                    *)
(***************************************************************************)
EXTENDS AttestationService, FiniteSetTheorems, WellFoundedInduction, TLAPS

-----------------------------------------------------------------------------
(* What calls carry.                                                       *)

\* The ways in which a call ends, and what reading a policy yields.
Result == {"none", "ok", "refused", "failed", "unreadable", "panic", "dropped", "crashed"}
ReadPolicies == [file : File, policy : Policy \cup {Torn}]

\* The types of the variables.
Types ==
    /\ files \in [File -> Policy \cup {Missing, Torn}]
    /\ pc \in [Call -> {"idle", "lock", "verify", "look", "read", "write", "done"}]
    /\ call \in [Call -> Requests \cup {NoCall}]
    /\ pieces \in [Call -> Seq(Evidence)]
    /\ devs \in [Call -> Seq(Device)]
    /\ DOMAIN refs = Call
    /\ todo \in [Call -> Seq(File)]
    /\ got \in [Call -> Seq(ReadPolicies)]
    /\ job \in [Call -> {"none", "queued", "truncated"}]
    /\ res \in [Call -> Result]
    /\ before \in [Call -> SUBSET Call]

\* Where a call is tells what it asked for; a write in the blocking pool belongs
\* to a call that sets a policy, also when the call is gone.
Coherent ==
    \A c \in Call :
        /\ pc[c] = "idle" => call[c] = NoCall /\ job[c] = "none"
        /\ pc[c] \notin {"idle", "done"} => call[c] \in Requests
        /\ pc[c] # "done" => res[c] = "none"
        /\ pc[c] = "done" => res[c] # "none"
        /\ (pc[c] = "verify" => Op(c) = "evaluate") /\ (pc[c] = "look" => Op(c) # "evaluate")
        /\ pc[c] \in {"verify", "look", "read"} => ~Writes(c)
        /\ pc[c] = "write" => Op(c) = "set" /\ call[c].policy \in Policy
        /\ pc[c] \notin {"read", "done"} => got[c] = <<>>
        /\ job[c] # "none" =>
             /\ pc[c] \in {"write", "done"} /\ res[c] # "ok"
             /\ call[c] \in Requests /\ Op(c) = "set" /\ call[c].policy \in Policy
        /\ \A w \in before[c] : pc[w] = "done"

\* What is known of a call from where it is.
CallInv == Types /\ Coherent

\* A function on 1 .. n is a sequence.
LEMMA FunctionIsSeq ==
    ASSUME NEW S, NEW n \in Nat, NEW f \in [1 .. n -> S]
    PROVE  f \in Seq(S)
  OBVIOUS

\* The files of a directory are listed in some order.
LEMMA ListType == Listing \in Seq(File)
<1> DEFINE S == {f \in File : files[f] # Missing}
<1>1. IsFiniteSet(S)
  BY AsAssumption, FS_Subset, Zenon
<1>2. Cardinality(S) \in Nat /\ ExistsBijection(1 .. Cardinality(S), S)
  BY <1>1, FS_CardinalityType, Zenon
<1>3. Injection(1 .. Cardinality(S), S) # {}
  BY <1>2, Zenon DEF ExistsBijection, Bijection
<1>4. Listing \in [1 .. Cardinality(S) -> S]
  BY <1>3, Zenon DEF Listing, Injection
<1>5. Listing \in Seq(S)
  BY <1>2, <1>4, FunctionIsSeq, Zenon
<1> QED
  BY <1>5

\* The brokers name policy files for the devices and the ids of an evaluation.
LEMMA PolicyFilesType ==
    ASSUME Types, NEW c \in Call, call[c] \in Requests, Op(c) = "evaluate"
    PROVE  PolicyFiles(c) \in Seq(File)
<1>1. call[c].ids \in Seq(PolicyId) /\ call[c].ids # <<>>
  BY AsAssumption, Zenon DEF Op
<1>2. devs[c] \in Seq(Device)
  BY Zenon DEF Types
<1>3. call[c].ids[1] \in PolicyId
  BY <1>1
<1> DEFINE id == call[c].ids[1]
           N(k) == <<id, Class[devs[c][k]]>>
<1>4. [k \in DOMAIN devs[c] |-> N(k)] \in Seq(File)
  <2>1. \A d \in Device : <<id, Class[d]>> \in File
    BY <1>3, AsAssumption, Zenon DEF Device
  <2>2. \A k \in DOMAIN devs[c] : N(k) \in File
    BY <1>2, <2>1
  <2>3. Len(devs[c]) \in Nat /\ DOMAIN devs[c] = 1 .. Len(devs[c])
    BY <1>2
  <2> HIDE DEF N
  <2> QED
    BY <2>2, <2>3
<1>5. [k \in DOMAIN call[c].ids |-> <<call[c].ids[k]>>] \in Seq(File)
  BY <1>1, AsAssumption
<1> QED
  BY <1>4, <1>5, Zenon DEF PolicyFiles

\* A call that ends.
LEMMA ReturnShape ==
    ASSUME Types, NEW c \in Call, NEW r \in Result \ {"none"}, Return(c, r)
    PROVE  /\ pc' = [pc EXCEPT ![c] = "done"] /\ res' = [res EXCEPT ![c] = r]
           /\ pieces' \in [Call -> Seq(Evidence)]
           /\ devs' \in [Call -> Seq(Device)]
           /\ todo' \in [Call -> Seq(File)]
           /\ got' \in [Call -> Seq(ReadPolicies)]
           /\ DOMAIN refs' = Call
           /\ \A d \in Call \ {c} : got'[d] = got[d] /\ refs'[d] = refs[d]
           /\ r = "ok" => got'[c] = got[c] /\ refs'[c] = refs[c]
           /\ r # "ok" => got'[c] = <<>>
BY DEF Types, Return, Goto

\* A call that ends in a step that leaves the files and the jobs alone.
LEMMA ReturnKeeps ==
    ASSUME CallInv, NEW c \in Call, NEW r \in Result \ {"none"}, Return(c, r),
           UNCHANGED <<files, call, job, before>>, job[c] = "none" \/ r # "ok"
    PROVE  CallInv'
<1>1. Types'
  <2>1. Types
    BY Zenon DEF CallInv
  <2>2. /\ pc' = [pc EXCEPT ![c] = "done"] /\ res' = [res EXCEPT ![c] = r]
        /\ pieces' \in [Call -> Seq(Evidence)] /\ devs' \in [Call -> Seq(Device)]
        /\ todo' \in [Call -> Seq(File)] /\ got' \in [Call -> Seq(ReadPolicies)]
        /\ DOMAIN refs' = Call
    BY <2>1, ReturnShape, Zenon
  <2> QED
    BY <2>1, <2>2, Zenon DEF Types
<1>2. \A d \in Call : /\ Op(d)' = Op(d) /\ Writes(d)' = Writes(d)
  BY Zenon DEF Op, Writes
<1>3. \A d \in Call \ {c} : pc'[d] = pc[d] /\ res'[d] = res[d] /\ got'[d] = got[d]
  BY ReturnShape DEF CallInv, Types
<1>4. pc'[c] = "done" /\ res'[c] = r
  BY ReturnShape DEF CallInv, Types
<1>5. \A d \in Call : pc[d] = "done" => pc'[d] = "done"
  BY <1>3, <1>4, Zenon
<1>6. pc[c] = "idle" => job[c] = "none"
  BY Zenon DEF CallInv, Coherent
<1>7. job[c] # "none" => /\ call[c] \in Requests /\ Op(c) = "set" /\ call[c].policy \in Policy
  BY Zenon DEF CallInv, Coherent
<1>8. Coherent'
  BY <1>2, <1>3, <1>4, <1>5, <1>7, SMTT(30) DEF CallInv, Coherent, Types
<1> QED
  BY <1>1, <1>8, Zenon DEF CallInv

\* The steps of a call that do not end it, seen from the call itself.
LEMMA CallStep == CallInv /\ [Next]_vars => CallInv'
<1> SUFFICES ASSUME CallInv, [Next]_vars PROVE CallInv'
  BY Zenon
<1> USE AsAssumption
<1>t. Types /\ Coherent
  BY Zenon DEF CallInv
<1>r. {"ok", "refused", "failed", "unreadable", "panic", "dropped", "crashed"}
        = Result \ {"none"}
  BY Zenon DEF Result
<1>1. ASSUME NEW c \in Call, NEW a \in Requests, Ask(c, a) PROVE CallInv'
  <2>1. Types'
    BY <1>t, <1>1, Zenon DEF Ask, Goto, Types
  <2>2. \A d \in Call : pc[d] = "done" => pc'[d] = "done"
    BY <1>t, <1>1, Zenon DEF Ask, Goto, Types
  <2> QED
    BY <1>t, <1>1, <2>1, <2>2 DEF Ask, Goto, Types, Coherent, CallInv, Op, Writes
<1>2. ASSUME NEW c \in Call, AskRefused(c) PROVE CallInv'
  BY <1>t, <1>r, <1>2, ReturnKeeps, Zenon DEF AskRefused, Coherent
<1>3. ASSUME NEW c \in Call, LockForRead(c) PROVE CallInv'
  <2>1. call[c] \in Requests /\ ~Writes(c) /\ pc[c] = "lock"
    BY <1>t, <1>3, Zenon DEF LockForRead, Coherent
  <2>2. /\ todo' \in [Call -> Seq(File)] /\ pieces' \in [Call -> Seq(Evidence)]
    <3>1. Listing \in Seq(File)
      BY ListType, Zenon
    <3>2. Op(c) = "get" => <<call[c].file>> \in Seq(File)
      BY <2>1 DEF Op
    <3>3. Op(c) = "evaluate" => call[c].batch \in Seq(Evidence)
      BY <2>1, Zenon DEF Op
    <3> QED
      BY <1>t, <1>3, <3>1, <3>2, <3>3 DEF LockForRead, Types
  <2>3. /\ pc' \in [Call -> {"idle", "lock", "verify", "look", "read", "write", "done"}]
        /\ pc'[c] \in {"verify", "look", "read"}
        /\ (pc'[c] = "verify" => Op(c) = "evaluate") /\ (pc'[c] = "look" => Op(c) # "evaluate")
        /\ \A d \in Call \ {c} : pc'[d] = pc[d]
    BY <1>t, <1>3, Zenon DEF LockForRead, Goto, Types
  <2> QED
    BY <1>t, <1>3, <2>1, <2>2, <2>3, SMTT(30) DEF LockForRead, Types, Coherent, CallInv, Op, Writes
<1>4. ASSUME NEW c \in Call, Verify(c) PROVE CallInv'
  <2>1. Head(pieces[c]) \in Evidence /\ Tail(pieces[c]) \in Seq(Evidence)
    BY <1>t, <1>4 DEF Verify, Types
  <2>2. devs[c] \o Devices[Head(pieces[c])] \in Seq(Device)
    BY <1>t, <2>1 DEF Types, Device
  <2>3. Types'
    BY <1>t, <1>4, <2>1, <2>2, Zenon DEF Verify, Types
  <2> QED
    BY <1>t, <1>4, <2>3 DEF Verify, Types, Coherent, CallInv, Op, Writes
<1>5. ASSUME NEW c \in Call, VerifyFails(c) \/ LookFails(c) PROVE CallInv'
  BY <1>t, <1>r, <1>5, ReturnKeeps, ZenonT(40) DEF VerifyFails, LookFails, Coherent
<1>6. ASSUME NEW c \in Call, GetDigests(c) PROVE CallInv'
  <2>1. PolicyFiles(c) \in Seq(File)
    BY <1>t, <1>6, PolicyFilesType, Zenon DEF GetDigests, Coherent
  <2>2. Types'
    BY <1>t, <1>6, <2>1, Zenon DEF GetDigests, Goto, Types
  <2> QED
    BY <1>t, <1>6, <2>2 DEF GetDigests, Goto, Types, Coherent, CallInv, Op, Writes
<1>7. ASSUME NEW c \in Call, Look(c) PROVE CallInv'
  <2>1. Types'
    BY <1>t, <1>7, Zenon DEF Look, Goto, Types
  <2> QED
    BY <1>t, <1>7, <2>1, SMTT(30) DEF Look, Goto, Types, Coherent, CallInv, Op, Writes
<1>8. ASSUME NEW c \in Call, ReadPolicy(c) PROVE CallInv'
  <2>1. Head(todo[c]) \in File /\ Tail(todo[c]) \in Seq(File)
    BY <1>t, <1>8 DEF ReadPolicy, Types
  <2>2. files[Head(todo[c])] \in Policy \cup {Torn}
    BY <1>t, <1>8, <2>1, Zenon DEF ReadPolicy, Types
  <2>3. [file |-> Head(todo[c]), policy |-> files[Head(todo[c])]] \in ReadPolicies
    BY <2>1, <2>2, Zenon DEF ReadPolicies
  <2>4. Append(got[c], [file |-> Head(todo[c]), policy |-> files[Head(todo[c])]]) \in Seq(ReadPolicies)
    BY <1>t, <2>3 DEF Types
  <2>5. Types'
    BY <1>t, <1>8, <2>1, <2>4, Zenon DEF ReadPolicy, Types
  <2> QED
    BY <1>t, <1>8, <2>5 DEF ReadPolicy, Types, Coherent, CallInv, Op, Writes
<1>9. ASSUME NEW c \in Call, ReadFails(c) \/ Answer(c) PROVE CallInv'
  <2>1. pc[c] = "read" /\ job[c] = "none"
    BY <1>t, <1>9, Zenon DEF ReadFails, Answer, Coherent
  <2> QED
    BY <1>t, <1>r, <1>9, <2>1, ReturnKeeps, Zenon DEF ReadFails, Answer
<1>10. ASSUME NEW c \in Call, Register(c) \/ SetRefused(c) PROVE CallInv'
  <2>1. pc[c] = "lock" /\ job[c] = "none"
    BY <1>t, <1>10, ZenonT(40) DEF Register, SetRefused, Coherent
  <2> QED
    BY <1>t, <1>r, <1>10, <2>1, ReturnKeeps, Zenon DEF Register, SetRefused
<1>11. ASSUME NEW c \in Call, SetLocked(c) PROVE CallInv'
  <2>1. call[c] \in Requests /\ call[c].policy \in Policy
    BY <1>t, <1>11, Zenon DEF SetLocked, Coherent, Op
  <2>2. Types'
    BY <1>t, <1>11, ZenonT(40) DEF SetLocked, Goto, Types
  <2> QED
    BY <1>t, <1>11, <2>1, <2>2 DEF SetLocked, Goto, Types, Coherent, CallInv, Op, Writes
<1>12. ASSUME NEW c \in Call, Truncate(c) PROVE CallInv'
  <2>1. call[c].file \in File
    BY <1>t, <1>12, Zenon DEF Truncate, Coherent, Op
  <2>2. Types'
    BY <1>t, <1>12, <2>1, Zenon DEF Truncate, Types
  <2> QED
    BY <1>t, <1>12, <2>2 DEF Truncate, Types, Coherent, CallInv, Op, Writes
<1>13. ASSUME NEW c \in Call, Fill(c) \/ WriteFails(c) PROVE CallInv'
  <2>1. job[c] # "none" /\ call[c].file \in File /\ call[c].policy \in Policy
    BY <1>t, <1>13, Zenon DEF Fill, WriteFails, Coherent, Op
  <2>2. /\ files' \in [File -> Policy \cup {Missing, Torn}]
        /\ job' = [job EXCEPT ![c] = "none"] /\ UNCHANGED <<call, before>>
    <3>1. /\ job' = [job EXCEPT ![c] = "none"] /\ UNCHANGED <<call, before>>
          /\ files' = files \/ \E p \in Policy \cup {Torn} : files' = [files EXCEPT ![call[c].file] = p]
      BY <1>13, <2>1, Zenon DEF Fill, WriteFails
    <3>2. files \in [File -> Policy \cup {Missing, Torn}]
      BY <1>t, Zenon DEF Types
    <3>3. files' \in [File -> Policy \cup {Missing, Torn}]
      BY <2>1, <3>1, <3>2, SMTT(30)
    <3> QED
      BY <3>1, <3>3, Zenon
  <2>3. CASE pc[c] = "write"
    <3>1. PICK r \in {"ok", "failed"} : Return(c, r)
      BY <1>13, <2>3, Zenon DEF Fill, WriteFails, Told
    <3>2. r \in Result \ {"none"}
      BY <1>r, Zenon
    <3>3. /\ pc' = [pc EXCEPT ![c] = "done"] /\ res' = [res EXCEPT ![c] = r]
          /\ pieces' \in [Call -> Seq(Evidence)] /\ devs' \in [Call -> Seq(Device)]
          /\ todo' \in [Call -> Seq(File)] /\ got' \in [Call -> Seq(ReadPolicies)]
          /\ DOMAIN refs' = Call
          /\ \A d \in Call \ {c} : got'[d] = got[d]
      BY <1>t, <3>1, <3>2, ReturnShape, ZenonT(40)
    <3>4. Types'
      BY <1>t, <2>2, <3>2, <3>3, ZenonT(40) DEF Types
    <3> QED
      BY <1>t, <2>2, <3>2, <3>3, <3>4, SMTT(30) DEF Types, Coherent, CallInv, Op, Writes
  <2>4. CASE pc[c] # "write"
    <3>1. UNCHANGED <<pc, res, pieces, devs, refs, todo, got>>
      BY <1>13, <2>4, Zenon DEF Fill, WriteFails, Told
    <3>2. Types'
      BY <1>t, <2>2, <3>1, Zenon DEF Types
    <3> QED
      BY <1>t, <2>2, <3>1, <3>2, SMTT(30) DEF Types, Coherent, CallInv, Op, Writes
  <2> QED
    BY <2>3, <2>4, Zenon
<1>14. ASSUME NEW c \in Call, Drop(c) PROVE CallInv'
  BY <1>t, <1>r, <1>14, ReturnKeeps, ZenonT(40) DEF Drop
<1>15. CASE Crash
  <2>1. Types'
    BY <1>t, <1>15, SMTT(30) DEF Crash, Started, Types, Result
  <2>2. UNCHANGED <<call, before>>
        /\ \A c \in Call : /\ pc'[c] = (IF pc[c] = "idle" THEN "idle" ELSE "done")
                           /\ res'[c] = (IF pc[c] \in {"idle", "done"} THEN res[c] ELSE "crashed")
                           /\ job'[c] = "none"
                           /\ got'[c] = IF res[c] = "ok" THEN got[c] ELSE <<>>
    BY <1>15, ZenonT(40) DEF Crash
  <2> QED
    BY <1>t, <2>1, <2>2, SMTT(30) DEF Types, Coherent, CallInv
<1>16. CASE UNCHANGED vars
  BY <1>t, <1>16 DEF vars, Types, Coherent, CallInv, Op, Writes
<1> QED
  BY <1>1, <1>2, <1>3, <1>4, <1>5, <1>6, <1>7, <1>8, <1>9, <1>10, <1>11, <1>12, <1>13, <1>14,
     <1>15, <1>16, Zenon DEF Next, Work

\* At first no call has been made.
LEMMA CallInit == Init => CallInv
BY AsAssumption DEF Init, Started, CallInv, Types, Coherent, Result

\* It always holds.
LEMMA CallInvariant == Spec => []CallInv
BY CallInit, CallStep, PTL DEF Spec

-----------------------------------------------------------------------------
(* The lock, and what a step leaves as it is.                              *)

\* A call that sets a policy holds the lock alone.
LockInv == \A c, d \in Call : Holds(c) /\ Holds(d) /\ Writes(c) => c = d

\* A step is a crash, or it moves one call, which holds the lock afterwards only
\* if it did before or if the lock was free.
LEMMA Moves ==
    ASSUME CallInv, Next, ~Crash
    PROVE  \E c \in Call :
             /\ \A d \in Call \ {c} : /\ pc'[d] = pc[d] /\ call'[d] = call[d] /\ res'[d] = res[d]
                                      /\ got'[d] = got[d] /\ refs'[d] = refs[d] /\ before'[d] = before[d]
             /\ call[c] # NoCall => call'[c] = call[c] /\ before'[c] = before[c]
             /\ pc[c] = "done" => /\ pc'[c] = "done" /\ call'[c] = call[c] /\ before'[c] = before[c]
                                  /\ res'[c] = res[c] /\ got'[c] = got[c] /\ refs'[c] = refs[c]
             /\ pc'[c] \in {"idle", "lock", "done"} \/ (call'[c] = call[c] /\ (Holds(c) \/ Free(c)))
<1>t. Types /\ Coherent
  BY Zenon DEF CallInv
<1> USE AsAssumption DEF Holds
<1>1. PICK c \in Call :
         \/ \E a \in Requests : Ask(c, a)
         \/ AskRefused(c) \/ Work(c) \/ LookFails(c) \/ WriteFails(c) \/ Drop(c)
  BY Zenon DEF Next
<1>2. ASSUME NEW r \in Result \ {"none"}, Return(c, r), UNCHANGED <<call, before>>, pc[c] # "done"
      PROVE  /\ \A d \in Call \ {c} : /\ pc'[d] = pc[d] /\ call'[d] = call[d] /\ res'[d] = res[d]
                                      /\ got'[d] = got[d] /\ refs'[d] = refs[d] /\ before'[d] = before[d]
             /\ pc'[c] = "done"
  <2>1. /\ pc' = [pc EXCEPT ![c] = "done"] /\ res' = [res EXCEPT ![c] = r]
        /\ \A d \in Call \ {c} : got'[d] = got[d] /\ refs'[d] = refs[d]
    BY <1>t, <1>2, ReturnShape, Zenon
  <2> QED
    BY <1>t, <1>2, <2>1, Zenon DEF Types
<1>r. {"ok", "refused", "failed", "unreadable", "panic", "dropped"} \subseteq Result \ {"none"}
  BY Zenon DEF Result
<1>3. CASE \E a \in Requests : Ask(c, a)
  <2>1. pc[c] = "idle" /\ call[c] = NoCall /\ pc'[c] = "lock"
    BY <1>t, <1>3, ZenonT(40) DEF Ask, Goto, Types, Coherent
  <2>2. /\ \A d \in Call \ {c} : pc'[d] = pc[d] /\ call'[d] = call[d] /\ before'[d] = before[d]
        /\ UNCHANGED <<res, got, refs>>
    BY <1>t, <1>3, ZenonT(40) DEF Ask, Goto, Types
  <2> QED
    BY <2>1, <2>2, Zenon
<1>4. CASE \/ AskRefused(c) \/ VerifyFails(c) \/ LookFails(c) \/ ReadFails(c) \/ Answer(c)
           \/ Register(c) \/ SetRefused(c) \/ Drop(c)
  <2>1. PICK r \in {"ok", "refused", "failed", "unreadable", "panic", "dropped"} : Return(c, r)
    BY <1>4, Zenon DEF AskRefused, VerifyFails, LookFails, ReadFails, Answer, Register, SetRefused, Drop
  <2>2. UNCHANGED <<call, before>> /\ pc[c] # "done"
    BY <1>4, Zenon DEF AskRefused, VerifyFails, LookFails, ReadFails, Answer, Register, SetRefused, Drop
  <2> QED
    BY <1>2, <1>r, <2>1, <2>2, Zenon
<1>5. CASE Fill(c) \/ WriteFails(c)
  <2>1. UNCHANGED <<call, before>>
    BY <1>5, Zenon DEF Fill, WriteFails
  <2>2. CASE pc[c] = "write"
    <3>1. PICK r \in {"ok", "failed"} : Return(c, r)
      BY <1>5, <2>2, Zenon DEF Fill, WriteFails, Told
    <3> QED
      BY <1>2, <1>r, <2>1, <2>2, <3>1, ZenonT(40)
  <2>3. CASE pc[c] # "write"
    <3>1. UNCHANGED <<pc, res, got, refs>>
      BY <1>5, <2>3, Zenon DEF Fill, WriteFails, Told
    <3> QED
      BY <2>1, <3>1, Zenon
  <2> QED
    BY <2>2, <2>3, Zenon
<1>6. CASE LockForRead(c) \/ SetLocked(c)
  <2>1. /\ \A d \in Call \ {c} : pc'[d] = pc[d]
        /\ UNCHANGED <<call, before, res, got, refs>> /\ Free(c) /\ pc[c] = "lock"
    BY <1>t, <1>6, Zenon DEF LockForRead, SetLocked, Goto, Types
  <2> QED
    BY <2>1, Zenon
<1>7. CASE Verify(c) \/ GetDigests(c) \/ Look(c) \/ ReadPolicy(c) \/ Truncate(c)
  <2>1. /\ \A d \in Call \ {c} : pc'[d] = pc[d] /\ got'[d] = got[d] /\ refs'[d] = refs[d]
        /\ UNCHANGED <<call, before, res>>
        /\ pc[c] \in {"verify", "look", "read"} \/ UNCHANGED <<pc, got, refs>>
    BY <1>t, <1>7, ZenonT(40) DEF Verify, GetDigests, Look, ReadPolicy, Truncate, Goto, Types
  <2> QED
    BY <2>1, Zenon
<1> QED
  BY <1>1, <1>3, <1>4, <1>5, <1>6, <1>7, Zenon DEF Work

\* Every step keeps the lock of the service.
LEMMA LockStep == CallInv /\ LockInv /\ [Next]_vars => LockInv'
<1> SUFFICES ASSUME CallInv, LockInv, [Next]_vars PROVE LockInv'
  BY Zenon
<1>1. CASE Next /\ ~Crash
  <2>1. PICK c \in Call :
             /\ \A d \in Call \ {c} : pc'[d] = pc[d] /\ call'[d] = call[d]
             /\ pc'[c] \in {"idle", "lock", "done"} \/ (call'[c] = call[c] /\ (Holds(c) \/ Free(c)))
    BY <1>1, Moves, Zenon
  <2> QED
    BY <2>1, ZenonT(40) DEF LockInv, Holds, Writes, Op, Free
<1>2. CASE Crash
  BY <1>2, Zenon DEF Crash, LockInv, Holds
<1>3. CASE UNCHANGED vars
  BY <1>3, Zenon DEF vars, LockInv, Holds, Writes, Op
<1> QED
  BY <1>1, <1>2, <1>3, Zenon

\* What a call asked for stays, and so does what a call that is done came to.
LEMMA Persists ==
    ASSUME CallInv, [Next]_vars
    PROVE  /\ \A w \in Call : call[w] # NoCall => call'[w] = call[w] /\ before'[w] = before[w]
           /\ \A w \in Call : pc[w] = "done" =>
                /\ pc'[w] = "done" /\ call'[w] = call[w] /\ before'[w] = before[w] /\ res'[w] = res[w]
                /\ res[w] = "ok" => got'[w] = got[w] /\ refs'[w] = refs[w]
<1>1. CASE Next /\ ~Crash
  BY <1>1, Moves, ZenonT(40)
<1>2. CASE Crash
  BY <1>2, Zenon DEF Crash
<1>3. CASE UNCHANGED vars
  BY <1>3, Zenon DEF vars
<1> QED
  BY <1>1, <1>2, <1>3, Zenon

\* A write that was left behind stays so.
LEMMA StrayPersists ==
    ASSUME CallInv, [Next]_vars, NoStrayWrite'
    PROVE  NoStrayWrite
<1> SUFFICES ASSUME NEW c \in Call, Asked(c, "set") PROVE res[c] # "dropped"
  BY Zenon DEF NoStrayWrite
<1>1. pc[c] = "done" => res'[c] = res[c]
  BY Persists, Zenon
<1>2. Asked(c, "set")'
  BY Persists, Zenon DEF Asked, Op
<1>3. pc[c] # "done" => res[c] = "none"
  BY Zenon DEF CallInv, Coherent
<1> QED
  BY <1>1, <1>2, <1>3, Zenon DEF NoStrayWrite

-----------------------------------------------------------------------------
(* The policy files and the reference values as the calls know them.       *)

\* Policy p was set by w, or by a call that had not ended when w was made, or that
\* call left it torn.
SetOrLater(w, p) ==
    \/ p = call[w].policy
    \/ \E v \in Call \ (before[w] \cup {w}) :
         /\ Asked(v, "set") /\ call[v].file = call[w].file
         /\ p \in {call[v].policy, Torn}

\* The reference values that a reader may find after the registration w: those of
\* w, or of one that was not over when w was made.
RefOrLater(w, r) ==
    \/ r = call[w].ref
    \/ \E v \in Call \ (before[w] \cup {w}) : Asked(v, "register") /\ r = call[v].ref

\* As long as no write is left behind: a write belongs to the call that holds the
\* lock, what a reader has read is still what the files hold, and the file of an
\* acknowledged policy holds it or a later one.
FilesInv ==
    NoStrayWrite =>
      \A c \in Call :
        /\ job[c] # "none" => pc[c] = "write"
        /\ job[c] = "truncated" => files[call[c].file] = Torn
        /\ pc[c] = "read" => \A k \in DOMAIN got[c] : got[c][k].policy = files[got[c][k].file]
        /\ Asked(c, "set") /\ res[c] = "ok" =>
             files[call[c].file] # Missing /\ SetOrLater(c, files[call[c].file])

\* The same for the reference values.
RefsInv ==
    \A c \in Call :
      /\ pc[c] = "read" /\ Op(c) \in {"evaluate", "query"} => refs[c] = store
      /\ Asked(c, "register") /\ res[c] = "ok" => RefOrLater(c, store)

\* A later call stays later.
LEMMA LaterPersists ==
    ASSUME CallInv, [Next]_vars, NEW w \in Call, call[w] # NoCall
    PROVE  /\ \A p : SetOrLater(w, p) => SetOrLater(w, p)'
           /\ \A r : RefOrLater(w, r) => RefOrLater(w, r)'
<1>1. call'[w] = call[w] /\ before'[w] = before[w]
  BY Persists, Zenon
<1>2. \A v \in Call : call[v] # NoCall => call'[v] = call[v]
  BY Persists, Zenon
<1> QED
  BY <1>1, <1>2 DEF SetOrLater, RefOrLater, Asked, Op

\* A call that is not done is later than every call that is.
LEMMA StillOpen ==
    ASSUME CallInv, NEW w \in Call, NEW c \in Call, pc[w] = "done", pc[c] # "done"
    PROVE  c \in Call \ (before[w] \cup {w})
BY Zenon DEF CallInv, Coherent

\* A step that leaves the files and the jobs alone, and acknowledges no policy.
LEMMA FilesKept ==
    ASSUME CallInv, FilesInv, [Next]_vars, UNCHANGED <<files, job>>,
           \A d \in Call :
             /\ pc[d] = "write" /\ NoStrayWrite' => pc'[d] = "write" \/ job[d] = "none"
             /\ pc'[d] = "read" => got'[d] = got[d] /\ (pc[d] = "read" \/ got[d] = <<>>)
             /\ Asked(d, "set")' /\ res'[d] = "ok" => Asked(d, "set") /\ res[d] = "ok"
    PROVE  FilesInv'
<1> SUFFICES ASSUME NoStrayWrite', NEW c \in Call
             PROVE  /\ job'[c] # "none" => pc'[c] = "write"
                    /\ job'[c] = "truncated" => files'[call'[c].file] = Torn
                    /\ pc'[c] = "read" => \A k \in DOMAIN got'[c] : got'[c][k].policy = files'[got'[c][k].file]
                    /\ Asked(c, "set")' /\ res'[c] = "ok" =>
                         files'[call'[c].file] # Missing /\ SetOrLater(c, files[call[c].file])'
  BY Zenon DEF FilesInv
<1>1. NoStrayWrite
  BY StrayPersists, ZenonT(40)
<1>2. /\ job[c] # "none" => pc[c] = "write" /\ call[c] # NoCall
      /\ job[c] = "truncated" => files[call[c].file] = Torn
      /\ pc[c] = "read" => \A k \in DOMAIN got[c] : got[c][k].policy = files[got[c][k].file]
      /\ Asked(c, "set") /\ res[c] = "ok" =>
            files[call[c].file] # Missing /\ SetOrLater(c, files[call[c].file])
  BY <1>1, AsAssumption DEF FilesInv, CallInv, Coherent
<1>3. call[c] # NoCall => call'[c] = call[c]
  BY Persists, Zenon
<1>4. Asked(c, "set") => (SetOrLater(c, files[call[c].file]) => SetOrLater(c, files[call[c].file])')
  <2> SUFFICES ASSUME Asked(c, "set"), SetOrLater(c, files[call[c].file])
               PROVE  SetOrLater(c, files[call[c].file])'
    BY Zenon
  <2>1. call[c] # NoCall
    BY Zenon DEF Asked
  <2>2. PICK p : p = files[call[c].file]
    BY Zenon
  <2>3. SetOrLater(c, p)'
    BY <2>1, <2>2, LaterPersists, ZenonT(40)
  <2>4. p = files'[call'[c].file]
    BY <1>3, <2>1, <2>2, Zenon
  <2> QED
    BY <2>3, <2>4, Zenon DEF SetOrLater
<1>5. Asked(c, "set")' /\ res'[c] = "ok" => call[c] # NoCall /\ Asked(c, "set") /\ res[c] = "ok"
  BY Zenon DEF Asked
<1>6. <<>> = <<>> /\ DOMAIN <<>> = {}
  BY SMTT(30)
<1> QED
  BY <1>2, <1>3, <1>4, <1>5, <1>6, ZenonT(40)

\* The steps of a write: it alone holds the lock, so nobody is reading, and the other
\* files stay; what it leaves in its file is later than what was acknowledged there.
LEMMA FilesWritten ==
    ASSUME CallInv, LockInv, FilesInv, NoStrayWrite, [Next]_vars, UNCHANGED call,
           NEW c \in Call, pc[c] = "write", job[c] # "none",
           NEW p \in {call[c].policy, Torn}, files' = [files EXCEPT ![call[c].file] = p],
           \A d \in Call \ {c} : pc'[d] = pc[d] /\ job'[d] = job[d] /\ res'[d] = res[d],
           job'[c] # "none" => pc'[c] = "write" /\ p = Torn,
           pc'[c] # "read", res'[c] = "ok" => p = call[c].policy
    PROVE  FilesInv'
<1> SUFFICES ASSUME NEW d \in Call
             PROVE  /\ job'[d] # "none" => pc'[d] = "write"
                    /\ job'[d] = "truncated" => files'[call'[d].file] = Torn
                    /\ pc'[d] = "read" => \A k \in DOMAIN got'[d] : got'[d][k].policy = files'[got'[d][k].file]
                    /\ Asked(d, "set")' /\ res'[d] = "ok" =>
                         files'[call'[d].file] # Missing /\ SetOrLater(d, files[call[d].file])'
  BY Zenon DEF FilesInv
<1>1. /\ call[c] \in Requests /\ call[c] # NoCall /\ Op(c) = "set" /\ call[c].policy \in Policy /\ call[c].file \in File
      /\ Asked(c, "set")
  BY AsAssumption, ZenonT(40) DEF CallInv, Coherent, Asked, Op
<1>2. Holds(c) /\ Writes(c)
  BY <1>1, Zenon DEF Holds, Writes
<1>3. \A e \in Call \ {c} : pc[e] \in {"idle", "lock", "done"}
  BY <1>2, Zenon DEF LockInv, Holds
<1>4. d # c => job[d] = "none"
  BY <1>3, Zenon DEF FilesInv
<1>5. files \in [File -> Policy \cup {Missing, Torn}]
  BY Zenon DEF CallInv, Types
<1>6. files'[call[c].file] = p /\ p # Missing
  BY <1>1, <1>5, AsAssumption, Zenon
<1>7. \A f \in File : f # call[c].file => files'[f] = files[f]
  BY <1>5, Zenon
<1>8. ASSUME Asked(d, "set")', res'[d] = "ok"
      PROVE  files'[call'[d].file] # Missing /\ SetOrLater(d, files[call[d].file])'
  <2>1. CASE d = c
    BY <1>6, <1>8, <2>1, Zenon DEF SetOrLater
  <2>2. CASE d # c
    <3>1. Asked(d, "set") /\ res[d] = "ok" /\ pc[d] = "done"
      BY <1>8, <2>2, ZenonT(40) DEF Asked, Op, CallInv, Coherent
    <3>2. call[d] \in Requests /\ call[d].file \in File
      BY <3>1, AsAssumption, ZenonT(40) DEF Asked, Op, CallInv, Types
    <3>3. CASE call[d].file = call[c].file
      <4>1. c \in Call \ (before[d] \cup {d})
        BY <3>1, StillOpen, Zenon
      <4>2. SetOrLater(d, p)
        BY <1>1, <3>3, <4>1, Zenon DEF SetOrLater
      <4>3. SetOrLater(d, p)'
        BY <3>1, <4>2, LaterPersists, Zenon DEF Asked
      <4> QED
        BY <1>6, <3>3, <4>3, ZenonT(40) DEF SetOrLater
    <3>4. CASE call[d].file # call[c].file
      <4>1. files[call[d].file] # Missing /\ SetOrLater(d, files[call[d].file])
        BY <3>1, Zenon DEF FilesInv
      <4>2. PICK q : q = files[call[d].file]
        BY Zenon
      <4>3. SetOrLater(d, q)'
        BY <3>1, <4>1, <4>2, LaterPersists, Zenon DEF Asked
      <4>4. files'[call[d].file] = q
        BY <1>7, <3>2, <3>4, <4>2, Zenon
      <4> QED
        BY <4>1, <4>2, <4>3, <4>4, Zenon DEF SetOrLater
    <3> QED
      BY <3>3, <3>4, Zenon
  <2> QED
    BY <2>1, <2>2, Zenon
<1>9. pc'[d] # "read"
  BY <1>3, Zenon
<1>10. /\ job'[d] # "none" => pc'[d] = "write"
       /\ job'[d] = "truncated" => files'[call'[d].file] = Torn
  BY <1>4, <1>6, Zenon
<1> QED
  BY <1>8, <1>9, <1>10, Zenon

\* Every step keeps what is known of the policy files.
LEMMA FilesStep == CallInv /\ LockInv /\ FilesInv /\ [Next]_vars => FilesInv'
<1> SUFFICES ASSUME CallInv, LockInv, FilesInv, [Next]_vars, NoStrayWrite' PROVE FilesInv'
  BY Zenon DEF FilesInv
<1>n. NoStrayWrite
  BY StrayPersists, Zenon
<1>t. Types /\ Coherent
  BY Zenon DEF CallInv
<1>r. {"ok", "refused", "failed", "unreadable", "panic", "dropped"} \subseteq Result \ {"none"}
  BY Zenon DEF Result
\* A call that ends without having set a policy.
<1>q. ASSUME NEW c \in Call, NEW r \in {"ok", "refused", "failed", "unreadable", "panic", "dropped"}, Return(c, r),
             UNCHANGED <<files, job, call>>,
             r = "ok" => ~Asked(c, "set"), job[c] = "none"
      PROVE  FilesInv'
  <2>0. /\ pc' = [pc EXCEPT ![c] = "done"] /\ res' = [res EXCEPT ![c] = r]
        /\ \A d \in Call \ {c} : got'[d] = got[d]
    BY <1>t, <1>r, <1>q, ReturnShape, Zenon
  <2>1. \A d \in Call \ {c} : pc'[d] = pc[d] /\ got'[d] = got[d] /\ res'[d] = res[d]
    BY <1>t, <2>0, Zenon DEF Types
  <2>2. pc'[c] = "done" /\ res'[c] = r
    BY <1>t, <2>0, Zenon DEF Types
  <2>3. \A d \in Call : Asked(d, "set")' <=> Asked(d, "set")
    BY <1>q, Zenon DEF Asked, Op
  <2> QED
    BY <1>q, <2>1, <2>2, <2>3, FilesKept, Zenon
<1>1. ASSUME NEW c \in Call, NEW a \in Requests, Ask(c, a) PROVE FilesInv'
  <2>1. \A d \in Call \ {c} : pc'[d] = pc[d] /\ call'[d] = call[d]
    BY <1>t, <1>1, Zenon DEF Ask, Goto, Types
  <2>2. pc'[c] = "lock" /\ pc[c] = "idle" /\ res[c] = "none" /\ UNCHANGED <<files, job, got, res>>
    BY <1>t, <1>1, Zenon DEF Ask, Goto, Types, Coherent
  <2>3. \A d \in Call \ {c} : Asked(d, "set")' <=> Asked(d, "set")
    BY <2>1, Zenon DEF Asked, Op
  <2> QED
    BY <2>1, <2>2, <2>3, FilesKept, Zenon
<1>2. ASSUME NEW c \in Call, AskRefused(c) PROVE FilesInv'
  BY <1>t, <1>2, <1>q, Zenon DEF AskRefused, Coherent
<1>3. ASSUME NEW c \in Call, VerifyFails(c) \/ LookFails(c) \/ ReadFails(c) \/ Answer(c) PROVE FilesInv'
  <2>1. PICK r \in {"ok", "failed", "unreadable", "panic"} : Return(c, r)
    BY <1>3, Zenon DEF VerifyFails, LookFails, ReadFails, Answer
  <2>2. pc[c] \in {"verify", "look", "read"} /\ UNCHANGED <<files, job, call>>
    BY <1>3, Zenon DEF VerifyFails, LookFails, ReadFails, Answer
  <2>3. job[c] = "none" /\ ~Asked(c, "set")
    BY <1>t, <2>2, Zenon DEF Coherent, Asked, Writes
  <2> QED
    BY <1>q, <2>1, <2>2, <2>3, Zenon
<1>4. ASSUME NEW c \in Call, Register(c) \/ SetRefused(c) PROVE FilesInv'
  <2>1. PICK r \in {"ok", "failed"} : Return(c, r) /\ (r = "ok" => Op(c) = "register")
    BY <1>4, Zenon DEF Register, SetRefused
  <2>2. pc[c] = "lock" /\ UNCHANGED <<files, job, call>>
    BY <1>4, Zenon DEF Register, SetRefused
  <2>3. job[c] = "none"
    BY <1>t, <2>2, Zenon DEF Coherent
  <2> QED
    BY <1>q, <2>1, <2>2, <2>3, Zenon DEF Asked
<1>5. ASSUME NEW c \in Call, Drop(c) PROVE FilesInv'
  <2>1. res'[c] = "dropped"
    BY <1>t, <1>5, Zenon DEF Drop, Return, Types
  <2>2. ~Asked(c, "set")
    BY <1>5, <2>1, Zenon DEF NoStrayWrite, Asked, Op, Drop
  <2>3. job[c] = "none"
    BY <1>t, <2>2, AsAssumption, ZenonT(40) DEF Coherent, Asked
  <2> QED
    BY <1>5, <1>q, <2>3, Zenon DEF Drop
<1>6. ASSUME NEW c \in Call, LockForRead(c) \/ Verify(c) \/ GetDigests(c) \/ Look(c) PROVE FilesInv'
  <2>1. /\ UNCHANGED <<files, job, got, call, res>>
        /\ \A d \in Call \ {c} : pc'[d] = pc[d]
        /\ pc[c] \in {"lock", "verify", "look"}
    BY <1>t, <1>6, Zenon DEF LockForRead, Verify, GetDigests, Look, Goto, Types
  <2>2. got[c] = <<>>
    BY <1>t, <2>1, Zenon DEF Coherent
  <2>3. \A d \in Call : Asked(d, "set")' <=> Asked(d, "set")
    BY <2>1, ZenonT(40) DEF Asked, Op
  <2> QED
    BY <2>1, <2>2, <2>3, FilesKept, Zenon
<1>7. ASSUME NEW c \in Call, ReadPolicy(c) PROVE FilesInv'
  <2> DEFINE f == Head(todo[c])
             g == [file |-> f, policy |-> files[f]]
  <2>1. /\ UNCHANGED <<files, job, pc, call, res, before>> /\ pc[c] = "read"
        /\ got' = [got EXCEPT ![c] = Append(@, g)]
    BY <1>7, Zenon DEF ReadPolicy
  <2>2. got \in [Call -> Seq(ReadPolicies)]
    BY <1>t, Zenon DEF Types
  <2>3. g \in ReadPolicies
    <3>1. f \in File
      BY <1>t, <1>7 DEF ReadPolicy, Types
    <3>2. files[f] \in Policy \cup {Torn}
      BY <1>t, <1>7, <3>1, Zenon DEF ReadPolicy, Types
    <3> QED
      BY <3>1, <3>2, Zenon DEF ReadPolicies
  <2>4. \A k \in DOMAIN got[c] : got[c][k].policy = files[got[c][k].file]
    BY <1>n, <2>1, Zenon DEF FilesInv
  <2>5. \A k \in DOMAIN got'[c] : got'[c][k].policy = files[got'[c][k].file]
    <3>1. got'[c] = Append(got[c], g) /\ got[c] \in Seq(ReadPolicies)
      BY <2>1, <2>2, Zenon
    <3>2. g.policy = files[g.file]
      BY Zenon
    <3> HIDE DEF g
    <3> SUFFICES ASSUME NEW k \in DOMAIN got'[c] PROVE got'[c][k].policy = files[got'[c][k].file]
      BY Zenon
    <3>3. CASE k \in DOMAIN got[c]
      <4>1. got'[c][k] = got[c][k]
        BY <2>3, <3>1, <3>3
      <4> QED
        BY <2>4, <3>3, <4>1, Zenon
    <3>4. CASE k \notin DOMAIN got[c]
      <4>1. got'[c][k] = g
        BY <2>3, <3>1, <3>4
      <4> QED
        BY <3>2, <4>1, Zenon
    <3> QED
      BY <3>3, <3>4, Zenon
  <2>6. \A d \in Call \ {c} : got'[d] = got[d]
    BY <2>1, <2>2, Zenon
  <2>7. \A d \in Call : Asked(d, "set")' = Asked(d, "set") /\ SetOrLater(d, files[call[d].file])' = SetOrLater(d, files[call[d].file])
    BY <2>1, Zenon DEF SetOrLater, Asked, Op
  <2> HIDE DEF g, f
  <2> QED
    BY <1>n, <2>1, <2>5, <2>6, <2>7, SMTT(30) DEF FilesInv
<1>8. ASSUME NEW c \in Call, SetLocked(c) PROVE FilesInv'
  <2>1. /\ UNCHANGED <<files, got, call, res, before>>
        /\ \A d \in Call \ {c} : pc'[d] = pc[d] /\ job'[d] = job[d]
        /\ pc'[c] = "write" /\ job'[c] = "queued"
    BY <1>t, <1>8, Zenon DEF SetLocked, Goto, Types
  <2>2. \A d \in Call : Asked(d, "set")' = Asked(d, "set") /\ SetOrLater(d, files[call[d].file])' = SetOrLater(d, files[call[d].file])
    BY <2>1, Zenon DEF SetOrLater, Asked, Op
  <2> QED
    BY <1>n, <2>1, <2>2, ZenonT(40) DEF FilesInv
<1>9. ASSUME NEW c \in Call, Truncate(c) PROVE FilesInv'
  <2>1. job[c] # "none" /\ pc[c] = "write"
    BY <1>n, <1>9, Zenon DEF Truncate, FilesInv
  <2>2. /\ UNCHANGED <<pc, res, call>> /\ files' = [files EXCEPT ![call[c].file] = Torn]
        /\ \A d \in Call \ {c} : job'[d] = job[d]
    BY <1>t, <1>9, Zenon DEF Truncate, Types
  <2>3. res[c] # "ok"
    BY <1>t, <2>1, Zenon DEF Coherent
  <2> QED
    BY <1>n, <2>1, <2>2, <2>3, FilesWritten, Zenon
<1>10. ASSUME NEW c \in Call, Fill(c) PROVE FilesInv'
  <2>1. job[c] # "none" /\ pc[c] = "write" /\ files[call[c].file] = Torn
    BY <1>n, <1>10, Zenon DEF Fill, FilesInv
  <2>2. files' = [files EXCEPT ![call[c].file] = call[c].policy]
    BY <1>10, <2>1, ZenonT(40) DEF Fill
  <2>3. Return(c, "ok") /\ UNCHANGED call /\ job' = [job EXCEPT ![c] = "none"]
    BY <1>10, <2>1, ZenonT(40) DEF Fill, Told
  <2>4. /\ \A d \in Call \ {c} : pc'[d] = pc[d] /\ job'[d] = job[d] /\ res'[d] = res[d]
        /\ job'[c] = "none" /\ pc'[c] = "done"
    BY <1>t, <1>r, <2>3, ReturnShape, SMTT(30) DEF Types
  <2> QED
    BY <1>n, <2>1, <2>2, <2>3, <2>4, FilesWritten, Zenon
<1>11. ASSUME NEW c \in Call, WriteFails(c) PROVE FilesInv'
  <2>1. job[c] # "none" /\ pc[c] = "write"
    BY <1>n, <1>11, Zenon DEF WriteFails, FilesInv
  <2>2. Return(c, "failed") /\ UNCHANGED <<files, call, before>> /\ job' = [job EXCEPT ![c] = "none"]
    BY <1>11, <2>1, ZenonT(40) DEF WriteFails, Told
  <2>3. /\ \A d \in Call \ {c} : pc'[d] = pc[d] /\ job'[d] = job[d] /\ res'[d] = res[d] /\ got'[d] = got[d]
        /\ job'[c] = "none" /\ pc'[c] = "done" /\ res'[c] = "failed"
    BY <1>t, <1>r, <2>2, ReturnShape, SMTT(30) DEF Types
  <2>4. \A d \in Call : Asked(d, "set")' = Asked(d, "set") /\ SetOrLater(d, files[call[d].file])' = SetOrLater(d, files[call[d].file])
    BY <2>2, Zenon DEF SetOrLater, Asked, Op
  <2> QED
    BY <1>n, <2>2, <2>3, <2>4 DEF FilesInv
<1>12. CASE Crash
  <2>1. /\ \A d \in Call : /\ job'[d] = "none" /\ pc'[d] # "read"
                           /\ res'[d] = "ok" => res[d] = "ok"
        /\ UNCHANGED <<call, before>> /\ files' = Started(broker, files)
    BY <1>t, <1>12, Zenon DEF Crash, Types
  <2>2. \A f \in File : files[f] # Missing => files'[f] = files[f]
    BY <2>1, Zenon DEF Started
  <2>3. ASSUME NEW d \in Call, Asked(d, "set"), res[d] = "ok"
        PROVE  files'[call[d].file] # Missing /\ SetOrLater(d, files[call[d].file])'
    <3>1. files[call[d].file] # Missing /\ SetOrLater(d, files[call[d].file])
      BY <1>n, <2>3, Zenon DEF FilesInv
    <3>2. call[d].file \in File
      BY <1>t, <2>3, AsAssumption, SMTT(30) DEF Types, Asked, Op
    <3>3. files'[call'[d].file] = files[call[d].file]
      BY <2>1, <2>2, <3>1, <3>2, Zenon
    <3> QED
      BY <2>1, <3>1, <3>3, Zenon DEF SetOrLater, Asked, Op
  <2>4. \A d \in Call : Asked(d, "set")' = Asked(d, "set")
    BY <2>1, ZenonT(40) DEF Asked, Op
  <2> QED
    BY <2>1, <2>3, <2>4, Zenon DEF FilesInv
<1>13. CASE UNCHANGED vars
  BY <1>13, ZenonT(40) DEF vars, FilesInv, NoStrayWrite, SetOrLater, Asked, Op
<1> QED
  BY <1>1, <1>2, <1>3, <1>4, <1>5, <1>6, <1>7, <1>8, <1>9, <1>10, <1>11, <1>12, <1>13, ZenonT(40) DEF Next, Work

\* A step that leaves the reference values alone, and acknowledges none.
LEMMA RefsKept ==
    ASSUME CallInv, RefsInv, [Next]_vars, UNCHANGED store,
           \A d \in Call :
             /\ pc'[d] = "read" /\ Op(d)' \in {"evaluate", "query"} =>
                  refs'[d] = store \/ (pc[d] = "read" /\ Op(d) \in {"evaluate", "query"} /\ refs'[d] = refs[d])
             /\ Asked(d, "register")' /\ res'[d] = "ok" => Asked(d, "register") /\ res[d] = "ok"
    PROVE  RefsInv'
<1> SUFFICES ASSUME NEW c \in Call, Asked(c, "register"), res[c] = "ok"
             PROVE  RefOrLater(c, store)'
  BY Zenon DEF RefsInv
<1>1. RefOrLater(c, store)
  BY Zenon DEF RefsInv
<1>2. PICK r : r = store
  BY Zenon
<1>3. RefOrLater(c, r)'
  BY <1>1, <1>2, LaterPersists, Zenon DEF Asked
<1> QED
  BY <1>2, <1>3, Zenon DEF RefOrLater

\* Every step keeps what is known of the reference values.
LEMMA RefsStep == CallInv /\ RefsInv /\ [Next]_vars => RefsInv'
<1> SUFFICES ASSUME CallInv, RefsInv, [Next]_vars PROVE RefsInv'
  BY Zenon
<1>t. Types /\ Coherent
  BY Zenon DEF CallInv
<1>r. {"ok", "refused", "failed", "unreadable", "panic", "dropped"} \subseteq Result \ {"none"}
  BY Zenon DEF Result
<1>s. ASSUME NEW c \in Call, NEW r \in {"ok", "refused", "failed", "unreadable", "panic", "dropped"}, Return(c, r)
      PROVE  /\ \A d \in Call \ {c} : pc'[d] = pc[d] /\ refs'[d] = refs[d] /\ res'[d] = res[d]
             /\ pc'[c] = "done" /\ res'[c] = r
  <2>1. /\ pc' = [pc EXCEPT ![c] = "done"] /\ res' = [res EXCEPT ![c] = r]
        /\ \A d \in Call \ {c} : refs'[d] = refs[d]
    BY <1>t, <1>r, <1>s, ReturnShape, Zenon
  <2> QED
    BY <1>t, <2>1, ZenonT(40) DEF Types
<1>q. ASSUME NEW c \in Call, NEW r \in {"ok", "refused", "failed", "unreadable", "panic", "dropped"}, Return(c, r),
             UNCHANGED <<store, call>>, r = "ok" => ~Asked(c, "register")
      PROVE  RefsInv'
  <2>1. \A d \in Call : Asked(d, "register")' = Asked(d, "register") /\ Op(d)' = Op(d)
    BY <1>q, Zenon DEF Asked, Op
  <2> QED
    BY <1>q, <1>s, <2>1, RefsKept, Zenon
<1>1. ASSUME NEW c \in Call, NEW a \in Requests, Ask(c, a) PROVE RefsInv'
  <2>1. \A d \in Call \ {c} : pc'[d] = pc[d] /\ call'[d] = call[d]
    BY <1>t, <1>1, Zenon DEF Ask, Goto, Types
  <2>2. pc'[c] = "lock" /\ res[c] = "none" /\ UNCHANGED <<store, refs, res>>
    BY <1>t, <1>1, Zenon DEF Ask, Goto, Types, Coherent
  <2>3. \A d \in Call \ {c} : Asked(d, "register")' = Asked(d, "register") /\ Op(d)' = Op(d)
    BY <2>1, Zenon DEF Asked, Op
  <2> QED
    BY <2>1, <2>2, <2>3, RefsKept, Zenon
<1>2. ASSUME NEW c \in Call,
             \/ AskRefused(c) \/ VerifyFails(c) \/ LookFails(c) \/ ReadFails(c) \/ Answer(c)
             \/ SetRefused(c) \/ Drop(c)
      PROVE  RefsInv'
  <2>1. PICK r \in {"ok", "refused", "failed", "unreadable", "panic", "dropped"} :
            Return(c, r) /\ (r = "ok" => pc[c] = "read")
    BY <1>2, ZenonT(40) DEF AskRefused, VerifyFails, LookFails, ReadFails, Answer, SetRefused, Drop
  <2>2. UNCHANGED <<store, call>>
    BY <1>2, ZenonT(40) DEF AskRefused, VerifyFails, LookFails, ReadFails, Answer, SetRefused, Drop
  <2>3. pc[c] = "read" => ~Asked(c, "register")
    BY <1>t, Zenon DEF Coherent, Asked, Writes
  <2> QED
    BY <1>q, <2>1, <2>2, <2>3, Zenon
<1>3. ASSUME NEW c \in Call, Register(c) PROVE RefsInv'
  <2>1. PICK r \in {"ok", "failed"} : Return(c, r) /\ (r = "ok" => store' = call[c].ref)
    BY <1>3, Zenon DEF Register
  <2>2. /\ \A d \in Call : ~Holds(d)
        /\ UNCHANGED <<call, before>> /\ pc[c] = "lock" /\ Asked(c, "register")
        /\ store' \in {store, call[c].ref}
    BY <1>t, <1>3, AsAssumption, ZenonT(40) DEF Register, Free, Writes, Asked, Coherent
  <2>3. \A d \in Call : Asked(d, "register")' = Asked(d, "register")
    BY <2>2, Zenon DEF Asked, Op
  <2>4. \A d \in Call : pc'[d] # "read"
    BY <1>s, <2>1, <2>2, Zenon DEF Holds
  <2>5. ASSUME NEW d \in Call, Asked(d, "register"), res'[d] = "ok"
        PROVE  RefOrLater(d, store)'
    <3>1. CASE d = c
      BY <1>s, <2>1, <2>2, <2>5, <3>1, Zenon DEF RefOrLater
    <3>2. CASE d # c
      <4>1. res[d] = "ok" /\ pc[d] = "done"
        BY <1>s, <1>t, <2>1, <2>5, <3>2 DEF Coherent
      <4>2. RefOrLater(d, store)
        BY <2>5, <4>1, Zenon DEF RefsInv
      <4>3. c \in Call \ (before[d] \cup {d})
        BY <2>2, <4>1, StillOpen, Zenon
      <4>4. RefOrLater(d, call[c].ref)
        BY <2>2, <4>3, Zenon DEF RefOrLater
      <4>5. PICK q : q = store'
        BY Zenon
      <4>6. RefOrLater(d, q)
        BY <2>2, <4>2, <4>4, <4>5, Zenon
      <4>7. RefOrLater(d, q)'
        BY <2>5, <4>6, LaterPersists, Zenon DEF Asked
      <4> QED
        BY <4>5, <4>7, Zenon DEF RefOrLater
    <3> QED
      BY <3>1, <3>2, Zenon
  <2> QED
    BY <2>3, <2>4, <2>5, Zenon DEF RefsInv
<1>4. ASSUME NEW c \in Call,
             LockForRead(c) \/ Verify(c) \/ ReadPolicy(c) \/ SetLocked(c) \/ Truncate(c)
      PROVE  RefsInv'
  <2>1. /\ UNCHANGED <<store, call, refs, res>>
        /\ \A d \in Call \ {c} : pc'[d] = pc[d]
        /\ pc'[c] = pc[c] \/ (pc[c] = "lock" /\ (pc'[c] = "read" => Op(c) \in {"get", "list"}))
    BY <1>t, <1>4, Zenon DEF LockForRead, Verify, ReadPolicy, SetLocked, Truncate, Goto, Types
  <2>2. \A d \in Call : Asked(d, "register")' = Asked(d, "register") /\ Op(d)' = Op(d)
    BY <2>1, Zenon DEF Asked, Op
  <2> QED
    BY <2>1, <2>2, RefsKept, Zenon
<1>5. ASSUME NEW c \in Call, GetDigests(c) \/ Look(c) PROVE RefsInv'
  <2>1. /\ UNCHANGED <<store, call, res>>
        /\ \A d \in Call \ {c} : pc'[d] = pc[d] /\ refs'[d] = refs[d]
        /\ pc[c] \in {"verify", "look"}
    BY <1>t, <1>5, Zenon DEF GetDigests, Look, Goto, Types
  <2>2. Op(c) \in {"evaluate", "query"} => refs'[c] = store
    BY <1>t, <1>5, Zenon DEF GetDigests, Look, Types, Coherent
  <2>3. \A d \in Call : Asked(d, "register")' = Asked(d, "register") /\ Op(d)' = Op(d)
    BY <2>1, Zenon DEF Asked, Op
  <2> QED
    BY <2>1, <2>2, <2>3, RefsKept, Zenon
<1>6. ASSUME NEW c \in Call, Fill(c) \/ WriteFails(c) PROVE RefsInv'
  <2>1. job[c] # "none" /\ UNCHANGED <<store, call>>
    BY <1>6, Zenon DEF Fill, WriteFails
  <2>2. Op(c) = "set"
    BY <1>t, <2>1, Zenon DEF Coherent
  <2>3. CASE pc[c] = "write"
    <3>1. PICK r \in {"ok", "failed"} : Return(c, r)
      BY <1>6, <2>3, Zenon DEF Fill, WriteFails, Told
    <3> QED
      BY <1>q, <2>1, <2>2, <3>1, Zenon DEF Asked
  <2>4. CASE pc[c] # "write"
    <3>1. UNCHANGED <<pc, res, refs>>
      BY <1>6, <2>4, Zenon DEF Fill, WriteFails, Told
    <3>2. \A d \in Call : Asked(d, "register")' = Asked(d, "register") /\ Op(d)' = Op(d)
      BY <2>1, Zenon DEF Asked, Op
    <3> QED
      BY <2>1, <3>1, <3>2, RefsKept, Zenon
  <2> QED
    BY <2>3, <2>4, Zenon
<1>7. CASE Crash
  <2>1. /\ \A d \in Call : pc'[d] # "read" /\ (res'[d] = "ok" => res[d] = "ok")
        /\ UNCHANGED <<store, call>>
    BY <1>t, <1>7, Zenon DEF Crash, Types
  <2>2. \A d \in Call : Asked(d, "register")' = Asked(d, "register")
    BY <2>1, Zenon DEF Asked, Op
  <2> QED
    BY <2>1, <2>2, RefsKept, Zenon
<1>8. CASE UNCHANGED vars
  BY <1>8, Zenon DEF vars, RefsInv, RefOrLater, Asked, Op
<1> QED
  BY <1>1, <1>2, <1>3, <1>4, <1>5, <1>6, <1>7, <1>8, ZenonT(40) DEF Next, Work

-----------------------------------------------------------------------------
(* The theorems.                                                           *)

\* What the calls that are done were given.
GovernInv == CallInv /\ LockInv /\ FilesInv /\ RefsInv /\ OnePolicyPerToken /\ AcknowledgedGoverns

\* A call that is acknowledged in this step was reading, or it has read nothing and
\* its kind of call is given no reference values.
LEMMA NewlyOk ==
    ASSUME CallInv, Next, NEW c \in Call, res'[c] = "ok", res[c] # "ok"
    PROVE  /\ pc[c] # "done" /\ UNCHANGED <<call, before>>
           /\ got'[c] = got[c] /\ refs'[c] = refs[c]
           /\ \/ pc[c] = "read" /\ UNCHANGED <<files, store>>
              \/ got[c] = <<>> /\ Op(c) \in {"set", "register"}
<1>t. Types /\ Coherent
  BY Zenon DEF CallInv
<1>1. ~Crash
  BY <1>t, Zenon DEF Crash, Types
<1>2. PICK d \in Call :
         \/ \E a \in Requests : Ask(d, a)
         \/ AskRefused(d) \/ Work(d) \/ LookFails(d) \/ WriteFails(d) \/ Drop(d)
  BY <1>1, Zenon DEF Next
<1>r. "ok" \in Result \ {"none"}
  BY Zenon DEF Result
<1>3. ASSUME NEW r, Return(d, r)
      PROVE  d = c /\ r = "ok"
  <2>1. res' = [res EXCEPT ![d] = r]
    BY <1>3, Zenon DEF Return
  <2> QED
    BY <1>t, <2>1, Zenon DEF Types
<1>4. ASSUME Return(c, "ok")
      PROVE  got'[c] = got[c] /\ refs'[c] = refs[c]
  BY <1>t, <1>r, <1>4, ReturnShape, Zenon
<1>5. res' # res
  BY Zenon
<1>6. CASE Answer(d)
  <2>1. d = c /\ Return(c, "ok")
    BY <1>3, <1>6, Zenon DEF Answer
  <2> QED
    BY <1>4, <1>6, <2>1, Zenon DEF Answer
<1>7. CASE Register(d)
  <2>1. d = c /\ Return(c, "ok")
    BY <1>3, <1>7, Zenon DEF Register
  <2> QED
    BY <1>t, <1>4, <1>7, <2>1, Zenon DEF Register, Coherent
<1>8. CASE Fill(d)
  <2>1. d = c /\ Return(c, "ok") /\ pc[d] = "write"
    BY <1>3, <1>5, <1>8, Zenon DEF Fill, Told
  <2> QED
    BY <1>t, <1>4, <1>8, <2>1, Zenon DEF Fill, Coherent
<1>9. CASE AskRefused(d) \/ VerifyFails(d) \/ LookFails(d) \/ ReadFails(d) \/ SetRefused(d) \/ Drop(d)
  <2>1. \E r \in {"refused", "failed", "unreadable", "dropped"} : Return(d, r)
    BY <1>9, ZenonT(40) DEF AskRefused, VerifyFails, LookFails, ReadFails, SetRefused, Drop
  <2> QED
    BY <1>3, <2>1, Zenon
<1>10. CASE WriteFails(d)
  BY <1>3, <1>5, <1>10, SMTT(30) DEF WriteFails, Told
<1>11. CASE \/ \E a \in Requests : Ask(d, a)
            \/ LockForRead(d) \/ Verify(d) \/ GetDigests(d) \/ Look(d) \/ ReadPolicy(d)
            \/ SetLocked(d) \/ Truncate(d)
  BY <1>5, <1>11, Zenon DEF Ask, LockForRead, Verify, GetDigests, Look, ReadPolicy, SetLocked, Truncate
<1> QED
  BY <1>2, <1>6, <1>7, <1>8, <1>9, <1>10, <1>11, Zenon DEF Work

\* A call that was acknowledged earlier keeps what it was given.
LEMMA OldOk ==
    ASSUME CallInv, [Next]_vars, NEW c \in Call, res[c] = "ok"
    PROVE  /\ res'[c] = "ok" /\ got'[c] = got[c] /\ refs'[c] = refs[c] /\ pc[c] = "done"
           /\ call'[c] = call[c] /\ before'[c] = before[c]
<1>1. pc[c] = "done"
  BY Zenon DEF CallInv, Coherent
<1> QED
  BY <1>1, Persists, Zenon

\* A token that is issued was appraised with one content per policy file: those
\* it had read are still in the files, which only a holder of the lock writes.
LEMMA OneStep ==
    ASSUME CallInv, FilesInv, OnePolicyPerToken, [Next]_vars
    PROVE  OnePolicyPerToken'
<1> SUFFICES ASSUME NoStrayWrite', NEW c \in Call, Issued(c)',
                    NEW j \in DOMAIN got'[c], NEW k \in DOMAIN got'[c],
                    got'[c][j].file = got'[c][k].file
             PROVE  got'[c][j].policy = got'[c][k].policy
  BY Zenon DEF OnePolicyPerToken
<1>1. NoStrayWrite
  BY StrayPersists, Zenon
<1>2. CASE res[c] = "ok"
  <2>1. Issued(c) /\ got'[c] = got[c]
    BY <1>2, OldOk, ZenonT(40) DEF Issued, Asked, Op
  <2> QED
    BY <1>1, <2>1, SMTT(30) DEF OnePolicyPerToken
<1>3. CASE res[c] # "ok"
  <2>1. Next /\ res'[c] = "ok"
    BY <1>3, Zenon DEF Issued, vars
  <2>2. /\ UNCHANGED <<call, before>> /\ got'[c] = got[c]
        /\ \/ pc[c] = "read" /\ UNCHANGED <<files, store>>
           \/ got[c] = <<>> /\ Op(c) \in {"set", "register"}
    BY <1>3, <2>1, NewlyOk, Zenon
  <2>3. Op(c) = "evaluate"
    BY <2>2, Zenon DEF Issued, Asked, Op
  <2> QED
    BY <1>1, <2>2, <2>3, SMTT(30) DEF FilesInv
<1> QED
  BY <1>2, <1>3, Zenon

\* AcknowledgedGoverns in terms of the two relations above.
Governed(c, w) ==
    /\ Asked(w, "set") =>
         \A k \in DOMAIN got[c] : got[c][k].file = call[w].file => SetOrLater(w, got[c][k].policy)
    /\ Asked(w, "register") /\ (Asked(c, "query") \/ Issued(c)) => RefOrLater(w, refs[c])

\* AcknowledgedGoverns, one reader and one writer at a time.
LEMMA GovernedForm ==
    AcknowledgedGoverns <=>
      (NoStrayWrite => \A c \in Call : \A w \in before[c] : res[w] = "ok" /\ res[c] = "ok" => Governed(c, w))
BY Zenon DEF AcknowledgedGoverns, Governed, SetOrLater, RefOrLater

\* An answer reflects every call that was over before it was asked for.
LEMMA GovernStep ==
    ASSUME CallInv, FilesInv, RefsInv, AcknowledgedGoverns, [Next]_vars
    PROVE  AcknowledgedGoverns'
<1>f. AcknowledgedGoverns' <=>
      (NoStrayWrite' => \A c \in Call : \A w \in before'[c] : res'[w] = "ok" /\ res'[c] = "ok" => Governed(c, w)')
  BY Zenon DEF AcknowledgedGoverns, Governed, SetOrLater, RefOrLater
<1> SUFFICES ASSUME NoStrayWrite', NEW c \in Call, NEW w \in before'[c], res'[w] = "ok", res'[c] = "ok"
             PROVE  Governed(c, w)'
  BY <1>f, Zenon
<1>1. NoStrayWrite
  BY StrayPersists, Zenon
<1>t. Types /\ Coherent
  BY Zenon DEF CallInv
<1>2. CASE res[c] = "ok"
  <2>1. /\ got'[c] = got[c] /\ refs'[c] = refs[c] /\ call'[c] = call[c] /\ before'[c] = before[c]
    BY <1>2, OldOk, Zenon
  <2>2. w \in Call /\ pc[w] = "done"
    BY <1>t, <2>1, ZenonT(40) DEF Types, Coherent
  <2>3. res[w] = "ok" /\ call'[w] = call[w]
    BY <2>2, Persists, Zenon
  <2>4. Governed(c, w)
    BY <1>1, <1>2, <2>1, <2>3, GovernedForm, Zenon
  <2>5. Asked(w, "set")' = Asked(w, "set") /\ Asked(w, "register")' = Asked(w, "register")
    BY <2>3, Zenon DEF Asked, Op
  <2>6. Asked(c, "query")' = Asked(c, "query")
    BY <2>1, Zenon DEF Asked, Op
  <2>7. ASSUME Asked(w, "set"), NEW k \in DOMAIN got'[c], got'[c][k].file = call'[w].file
        PROVE  SetOrLater(w, got[c][k].policy)'
    <3>1. PICK p : p = got[c][k].policy
      BY Zenon
    <3>2. SetOrLater(w, p)
      BY <2>1, <2>3, <2>4, <2>7, <3>1, Zenon DEF Governed
    <3>3. SetOrLater(w, p)'
      BY <2>2, <2>7, <3>2, LaterPersists, ZenonT(40) DEF Asked
    <3> QED
      BY <2>1, <3>1, <3>3, Zenon DEF SetOrLater
  <2>8. ASSUME Asked(w, "register"), Asked(c, "query") \/ Issued(c)
        PROVE  RefOrLater(w, refs[c])'
    <3>1. PICK r : r = refs[c]
      BY Zenon
    <3>2. RefOrLater(w, r)
      BY <2>4, <2>8, <3>1, ZenonT(40) DEF Governed
    <3>3. RefOrLater(w, r)'
      BY <2>2, <2>8, <3>2, LaterPersists, Zenon DEF Asked
    <3> QED
      BY <2>1, <3>1, <3>3, Zenon DEF RefOrLater
  <2>9. Issued(c)' => Issued(c)
    BY <1>2, <2>1, Zenon DEF Issued, Asked, Op
  <2> QED
    BY <2>5, <2>6, <2>7, <2>8, <2>9, Zenon DEF Governed
<1>3. CASE res[c] # "ok"
  <2>1. Next
    BY <1>3, Zenon DEF vars
  <2>2. /\ pc[c] # "done" /\ UNCHANGED <<call, before>>
        /\ got'[c] = got[c] /\ refs'[c] = refs[c]
        /\ \/ pc[c] = "read" /\ UNCHANGED <<files, store>>
           \/ got[c] = <<>> /\ Op(c) \in {"set", "register"}
    BY <1>3, <2>1, NewlyOk, Zenon
  <2>3. w \in Call /\ pc[w] = "done"
    BY <1>t, <2>2, ZenonT(40) DEF Types, Coherent
  <2>4. res[w] = "ok"
    BY <2>3, Persists, Zenon
  <2>5. \A op : Asked(w, op)' = Asked(w, op) /\ Asked(c, op)' = Asked(c, op)
    BY <2>2, Zenon DEF Asked, Op
  <2>6. CASE got[c] = <<>> /\ Op(c) \in {"set", "register"}
    <3>1. ~Asked(c, "query")' /\ ~Issued(c)'
      BY <2>5, <2>6, Zenon DEF Asked, Issued
    <3>2. DOMAIN got'[c] = {}
      BY <2>2, <2>6, SMTT(30)
    <3> QED
      BY <3>1, <3>2, Zenon DEF Governed
  <2>7. CASE pc[c] = "read" /\ UNCHANGED <<files, store>>
    <3>1. ASSUME Asked(w, "set"), NEW k \in DOMAIN got'[c], got'[c][k].file = call'[w].file
          PROVE  SetOrLater(w, got[c][k].policy)'
      <4>1. got[c][k].policy = files[call[w].file]
        BY <1>1, <2>2, <2>7, <3>1, SMTT(30) DEF FilesInv
      <4>2. SetOrLater(w, files[call[w].file])
        BY <1>1, <2>3, <2>4, <3>1, Zenon DEF FilesInv
      <4>3. SetOrLater(w, got[c][k].policy)
        BY <4>1, <4>2, Zenon
      <4> QED
        BY <2>2, <4>3, Zenon DEF SetOrLater, Asked, Op
    <3>2. ASSUME Asked(w, "register"), Asked(c, "query")' \/ Issued(c)'
          PROVE  RefOrLater(w, refs[c])'
      <4>1. Op(c) \in {"evaluate", "query"}
        BY <2>2, <3>2, Zenon DEF Asked, Issued, Op
      <4>2. RefOrLater(w, refs[c])
        BY <2>3, <2>4, <2>7, <3>2, <4>1, Zenon DEF RefsInv
      <4> QED
        BY <2>2, <4>2, Zenon DEF RefOrLater, Asked, Op
    <3> QED
      BY <2>5, <3>1, <3>2, ZenonT(40) DEF Governed
  <2> QED
    BY <2>2, <2>6, <2>7, Zenon
<1> QED
  BY <1>2, <1>3, Zenon

\* The invariants together.
LEMMA GovernInvariant == Spec => []GovernInv
<1>1. Init => GovernInv
  <2> SUFFICES ASSUME Init PROVE GovernInv
    BY Zenon
  <2>1. CallInv
    BY CallInit, Zenon
  <2>2. \A c \in Call : /\ pc[c] = "idle" /\ res[c] = "none" /\ job[c] = "none" /\ before[c] = {}
    BY Zenon DEF Init
  <2> QED
    BY <2>1, <2>2, Zenon DEF GovernInv, LockInv, FilesInv, RefsInv, OnePolicyPerToken, AcknowledgedGoverns, Holds, Issued
<1>2. GovernInv /\ [Next]_vars => GovernInv'
  <2> SUFFICES ASSUME GovernInv, [Next]_vars PROVE GovernInv'
    BY Zenon
  <2>1. CallInv /\ LockInv /\ FilesInv /\ RefsInv /\ OnePolicyPerToken /\ AcknowledgedGoverns
    BY Zenon DEF GovernInv
  <2>2. CallInv' /\ LockInv' /\ FilesInv' /\ RefsInv'
    BY <2>1, CallStep, LockStep, FilesStep, RefsStep, Zenon
  <2>3. OnePolicyPerToken' /\ AcknowledgedGoverns'
    BY <2>1, OneStep, GovernStep, Zenon
  <2> QED
    BY <2>2, <2>3, Zenon DEF GovernInv
<1> QED
  BY <1>1, <1>2, PTL DEF Spec

\* One token is issued under one state of the policies.  About the read lock that
\* evaluate is called under, for every number of calls and devices.
THEOREM OnePolicy == Spec => []OnePolicyPerToken
<1>1. GovernInv => OnePolicyPerToken
  BY Zenon DEF GovernInv
<1> QED
  BY <1>1, GovernInvariant, PTL

\* An acknowledged policy, or an acknowledged reference value, governs every later
\* evaluation, query and read until a call that did not end before it sets another,
\* also across a restart.  About the lock and the write before the answer.
THEOREM AcknowledgedRules == Spec => []AcknowledgedGoverns
<1>1. GovernInv => AcknowledgedGoverns
  BY Zenon DEF GovernInv
<1> QED
  BY <1>1, GovernInvariant, PTL

-----------------------------------------------------------------------------
(* The loop of issue.                                                      *)

\* A set of natural numbers has a least one.
LEMMA Least ==
    ASSUME NEW S \in SUBSET Nat, S # {}
    PROVE  \E m \in S : \A k \in S : m <= k
<1>1. PICK m \in S : \A k \in S : ~(<<k, m>> \in OpToRel(<, Nat))
  BY NatLessThanWellFounded, WFMin, Zenon
<1>2. \A k \in S : ~(k < m)
  BY <1>1, Zenon DEF OpToRel
<1> QED BY <1>2

\* What holds of 0, and of n + 1 if it does of n, holds up to N: the set of the
\* numbers of which it does not hold has no least element.
LEMMA Induction ==
    ASSUME NEW N \in Nat, NEW T, 0 \in T, \A n \in 0 .. N - 1 : n \in T => n + 1 \in T
    PROVE  0 .. N \subseteq T
<1> DEFINE S == {n \in 0 .. N : n \notin T}
<1> SUFFICES ASSUME S # {} PROVE FALSE
  BY Zenon
<1>1. S \in SUBSET Nat
  OBVIOUS
<1>2. PICK m \in S : \A k \in S : m <= k
  BY <1>1, Least, Zenon
<1>3. m \in 0 .. N /\ m \notin T /\ m # 0
  BY <1>2, Zenon
<1>4. m - 1 \in 0 .. N - 1 /\ m - 1 \in 0 .. N /\ m - 1 + 1 = m /\ ~(m <= m - 1)
  BY <1>3
<1>5. m - 1 \in T
  BY <1>2, <1>4, Zenon
<1> QED BY <1>3, <1>4, <1>5, Zenon

\* The state of the loop before the first device, and after each of the first n.
LoopStart == [index |-> <<>>, submods |-> <<>>, next |-> 1]
IsLoop(f, ds, n) == f = [i \in 0 .. n |-> IF i = 0 THEN LoopStart ELSE AddSubmod(f[i - 1], ds[i])]

\* One more device makes one more step of the loop.
LEMMA LoopGoesOn ==
    ASSUME NEW ds, NEW n \in Nat, NEW f, IsLoop(f, ds, n)
    PROVE  \E g : IsLoop(g, ds, n + 1)
<1> DEFINE g == [i \in 0 .. n + 1 |-> IF i = n + 1 THEN AddSubmod(f[n], ds[n + 1]) ELSE f[i]]
           h == [i \in 0 .. n + 1 |-> IF i = 0 THEN LoopStart ELSE AddSubmod(g[i - 1], ds[i])]
<1>1. /\ 0 .. n + 1 = 0 .. n \cup {n + 1} /\ n + 1 \notin 0 .. n /\ n + 1 # 0 /\ n + 1 - 1 = n
      /\ n \in 0 .. n /\ \A i \in 0 .. n : i # 0 => i - 1 \in 0 .. n
  OBVIOUS
<1>2. \A i \in 0 .. n : g[i] = f[i]
  BY <1>1, Zenon
<1>3. \A i \in 0 .. n : f[i] = IF i = 0 THEN LoopStart ELSE AddSubmod(f[i - 1], ds[i])
  BY Zenon DEF IsLoop
<1>4. \A i \in 0 .. n : g[i] = IF i = 0 THEN LoopStart ELSE AddSubmod(g[i - 1], ds[i])
  BY <1>1, <1>2, <1>3, Zenon
<1>5. g[n + 1] = AddSubmod(g[n], ds[n + 1])
  BY <1>1, <1>2, Zenon
<1>6. \A i \in 0 .. n + 1 : g[i] = h[i]
  <2>1. h[n + 1] = AddSubmod(g[n], ds[n + 1])
    <3> HIDE DEF g
    <3>1. PICK j \in 0 .. n + 1 : j = n + 1 /\ j # 0 /\ j - 1 = n
      BY <1>1
    <3>2. h[j] = AddSubmod(g[j - 1], ds[j])
      BY <3>1, Zenon
    <3> HIDE DEF h
    <3> QED BY <3>1, <3>2, Zenon
  <2>2. \A i \in 0 .. n : h[i] = g[i]
    BY <1>1, <1>4, Zenon
  <2> HIDE DEF g, h
  <2> QED BY <1>1, <1>5, <2>1, <2>2, Zenon
<1>7. g = h
  BY <1>6, Zenon
<1> QED BY <1>7, Zenon DEF IsLoop

\* The loop runs to its end.
LEMMA LoopEnds ==
    ASSUME NEW ds, NEW N \in Nat
    PROVE  \E f : IsLoop(f, ds, N)
<1> DEFINE T == {n \in Nat : \E f : IsLoop(f, ds, n)}
<1>1. 0 \in T
  <2> DEFINE f == [i \in 0 .. 0 |-> LoopStart]
  <2>1. \A i \in 0 .. 0 : i = 0
    OBVIOUS
  <2>2. f = [i \in 0 .. 0 |-> IF i = 0 THEN LoopStart ELSE AddSubmod(f[i - 1], ds[i])]
    BY <2>1, Zenon
  <2> QED BY <2>2, Zenon DEF IsLoop
<1>2. \A n \in 0 .. N - 1 : n \in T => n + 1 \in T
  <2> SUFFICES ASSUME NEW n \in 0 .. N - 1, n \in T PROVE n + 1 \in T
    BY Zenon
  <2>1. n \in Nat /\ n + 1 \in Nat
    OBVIOUS
  <2> QED BY <2>1, LoopGoesOn, Zenon
<1>3. 0 .. N \subseteq T /\ N \in 0 .. N
  <2> HIDE DEF T
  <2>1. 0 .. N \subseteq T
    BY <1>1, <1>2, Induction, Zenon
  <2> QED BY <2>1
<1> QED BY <1>3, Zenon

\* Submods is what the loop has collected in the end.
LEMMA SubmodsForm ==
    ASSUME NEW ds, Len(ds) \in Nat
    PROVE  \E f : IsLoop(f, ds, Len(ds)) /\ Submods(ds) = f[Len(ds)].submods
<1> DEFINE f == CHOOSE g : IsLoop(g, ds, Len(ds))
<1>1. IsLoop(f, ds, Len(ds))
  BY LoopEnds, Zenon
<1>2. Submods(ds) = f[Len(ds)].submods
  BY Zenon DEF Submods, IsLoop, LoopStart
<1> QED BY <1>1, <1>2, Zenon

\* The sets of devices are finite, and grow by one device of their class.
LEMMA ClassGrows ==
    ASSUME NEW ds, NEW cl, NEW n \in Nat
    PROVE  /\ IsFiniteSet(OfClass(ds, cl, n)) /\ Cardinality(OfClass(ds, cl, n)) \in Nat
           /\ Class[ds[n + 1]] # cl => OfClass(ds, cl, n + 1) = OfClass(ds, cl, n)
           /\ Class[ds[n + 1]] = cl =>
                Cardinality(OfClass(ds, cl, n + 1)) = Cardinality(OfClass(ds, cl, n)) + 1
<1>1. IsFiniteSet(1 .. n)
  BY FS_Interval
<1>2. IsFiniteSet(OfClass(ds, cl, n)) /\ Cardinality(OfClass(ds, cl, n)) \in Nat
  <2>1. OfClass(ds, cl, n) \subseteq 1 .. n
    BY Zenon DEF OfClass
  <2> QED BY <1>1, <2>1, FS_Subset, FS_CardinalityType, Zenon
<1>3. 1 .. n + 1 = 1 .. n \cup {n + 1} /\ n + 1 \notin 1 .. n
  OBVIOUS
<1>4. Class[ds[n + 1]] # cl => OfClass(ds, cl, n + 1) = OfClass(ds, cl, n)
  BY <1>3, Zenon DEF OfClass
<1>5. Class[ds[n + 1]] = cl => OfClass(ds, cl, n + 1) = OfClass(ds, cl, n) \cup {n + 1}
  BY <1>3, Zenon DEF OfClass
<1>6. n + 1 \notin OfClass(ds, cl, n)
  BY <1>3, Zenon DEF OfClass
<1> QED BY <1>2, <1>4, <1>5, <1>6, FS_AddElement, Zenon

\* A device of a class has a smaller index than the next one of the class.
LEMMA IndexGrows ==
    ASSUME NEW ds, NEW n \in Nat, NEW k \in 1 .. n
    PROVE  SubmodName(ds, k) # SubmodName(ds, n + 1)
<1>1. SUFFICES ASSUME Class[ds[k]] = Class[ds[n + 1]]
               PROVE  Cardinality(OfClass(ds, Class[ds[k]], k - 1)) # Cardinality(OfClass(ds, Class[ds[k]], n))
  <2>1. n + 1 - 1 = n
    OBVIOUS
  <2> QED BY <1>1, <2>1 DEF SubmodName
<1> DEFINE A == OfClass(ds, Class[ds[k]], k - 1)
           B == OfClass(ds, Class[ds[k]], n)
<1>2. 1 .. k - 1 \subseteq 1 .. n /\ k \notin 1 .. k - 1
  OBVIOUS
<1>3. A \subseteq B /\ k \in B /\ k \notin A
  BY <1>2, Zenon DEF OfClass
<1>4. IsFiniteSet(B)
  BY ClassGrows, Zenon
<1>5. Cardinality(A) = Cardinality(B) => A = B
  BY <1>3, <1>4, FS_Subset, Zenon
<1> QED BY <1>3, <1>5, ZenonT(40)

\* The state of the loop after the first n devices: one index per class, that of
\* its latest device, and one submodule per device.
LoopInv(s, ds, n) ==
    /\ s.next = n + 1
    /\ DOMAIN s.index = {Class[ds[k]] : k \in 1 .. n}
    /\ \A k \in 1 .. n : s.index[Class[ds[k]]] = Cardinality(OfClass(ds, Class[ds[k]], n)) - 1
    /\ DOMAIN s.submods = {SubmodName(ds, k) : k \in 1 .. n}
    /\ \A k \in 1 .. n : s.submods[SubmodName(ds, k)] = k

\* The index that the loop gives to the next device is the number of those of its
\* class before it, as long as that fits the type of the index.
LEMMA NextIndex ==
    ASSUME NEW ds, NEW n \in Nat, NEW s, LoopInv(s, ds, n), SubmodName(ds, n + 1)[2] < IndexMod
    PROVE  LET cl == Class[ds[n + 1]] IN
           (IF cl \in DOMAIN s.index THEN (s.index[cl] + 1) % IndexMod ELSE 0) = Cardinality(OfClass(ds, cl, n))
<1> DEFINE cl == Class[ds[n + 1]]
           x == Cardinality(OfClass(ds, cl, n))
<1>1. n + 1 - 1 = n
  OBVIOUS
<1>2. x < IndexMod
  BY <1>1 DEF SubmodName
<1>3. x \in Nat
  BY ClassGrows, Zenon
<1>4. CASE cl \in DOMAIN s.index
  <2>1. s.index[cl] = x - 1
    <3>1. PICK k \in 1 .. n : cl = Class[ds[k]]
      BY <1>4, Zenon DEF LoopInv
    <3>2. s.index[Class[ds[k]]] = Cardinality(OfClass(ds, Class[ds[k]], n)) - 1
      BY Zenon DEF LoopInv
    <3> HIDE DEF cl
    <3> QED BY <3>1, <3>2, Zenon
  <2>2. ASSUME NEW a \in Nat, NEW b \in Nat \ {0}, a < b PROVE a % b = a
    BY <2>2
  <2> HIDE DEF x, cl
  <2>3. s.index[cl] + 1 = x
    BY <1>3, <2>1
  <2>4. x % IndexMod = x
    BY <1>2, <1>3, <2>2, AsAssumption, Zenon
  <2> QED BY <1>4, <2>3, <2>4, Zenon DEF x, cl
<1>5. CASE cl \notin DOMAIN s.index
  <2>1. OfClass(ds, cl, n) = {}
    BY <1>5, Zenon DEF LoopInv, OfClass
  <2> QED BY <1>5, <2>1, FS_EmptySet, Zenon
<1> QED BY <1>4, <1>5, Zenon

\* The loop body keeps the state so.
LEMMA LoopStep ==
    ASSUME NEW ds, NEW n \in Nat, NEW s, LoopInv(s, ds, n), SubmodName(ds, n + 1)[2] < IndexMod
    PROVE  LoopInv(AddSubmod(s, ds[n + 1]), ds, n + 1)
<1> DEFINE cl == Class[ds[n + 1]]
           i == Cardinality(OfClass(ds, cl, n))
           t == AddSubmod(s, ds[n + 1])
           name == SubmodName(ds, n + 1)
<1>0. /\ 1 .. n + 1 = 1 .. n \cup {n + 1} /\ n + 1 \notin 1 .. n /\ n + 1 \in 1 .. n + 1 /\ n + 1 - 1 = n
      /\ i \in Nat
  BY ClassGrows, SMTT(30)
<1>1. name = <<cl, i>>
  BY <1>0 DEF SubmodName
<1>2. /\ t.next = s.next + 1
      /\ t.index = [x \in DOMAIN s.index \cup {cl} |-> IF x = cl THEN i ELSE s.index[x]]
      /\ t.submods = [m \in DOMAIN s.submods \cup {name} |-> IF m = name THEN s.next ELSE s.submods[m]]
  BY <1>1, NextIndex, Zenon DEF AddSubmod
<1> HIDE DEF t
<1>3. t.next = n + 1 + 1
  BY <1>2, Zenon DEF LoopInv
<1>4. DOMAIN t.index = {Class[ds[k]] : k \in 1 .. n + 1}
  <2>1. DOMAIN t.index = {Class[ds[k]] : k \in 1 .. n} \cup {cl}
    BY <1>2, Zenon DEF LoopInv
  <2> QED BY <1>0, <2>1, Zenon
<1>5. ASSUME NEW k \in 1 .. n + 1
      PROVE  t.index[Class[ds[k]]] = Cardinality(OfClass(ds, Class[ds[k]], n + 1)) - 1
  <2>1. t.index[Class[ds[k]]] = IF Class[ds[k]] = cl THEN i ELSE s.index[Class[ds[k]]]
    BY <1>2, <1>4, ZenonT(40)
  <2>2. CASE Class[ds[k]] = cl
    <3>1. Cardinality(OfClass(ds, cl, n + 1)) = i + 1
      BY ClassGrows, Zenon
    <3>2. t.index[Class[ds[k]]] = i /\ OfClass(ds, Class[ds[k]], n + 1) = OfClass(ds, cl, n + 1)
      BY <2>1, <2>2, Zenon
    <3>3. i \in Nat /\ Cardinality(OfClass(ds, Class[ds[k]], n + 1)) = i + 1
      BY <1>0, <3>1, <3>2, Zenon
    <3> HIDE DEF i
    <3> QED BY <3>2, <3>3
  <2>3. CASE Class[ds[k]] # cl
    <3>1. k \in 1 .. n
      BY <1>0, <2>3, Zenon
    <3>2. OfClass(ds, Class[ds[k]], n + 1) = OfClass(ds, Class[ds[k]], n)
      BY <2>3, ClassGrows, Zenon
    <3>3. s.index[Class[ds[k]]] = Cardinality(OfClass(ds, Class[ds[k]], n)) - 1
      BY <3>1, Zenon DEF LoopInv
    <3> QED BY <2>1, <2>3, <3>2, <3>3, Zenon
  <2> QED BY <2>2, <2>3, Zenon
<1>6. DOMAIN t.submods = {SubmodName(ds, k) : k \in 1 .. n + 1}
  <2>1. DOMAIN t.submods = {SubmodName(ds, k) : k \in 1 .. n} \cup {name}
    BY <1>2, Zenon DEF LoopInv
  <2> QED BY <1>0, <2>1, Zenon
<1>7. ASSUME NEW k \in 1 .. n + 1 PROVE t.submods[SubmodName(ds, k)] = k
  <2>1. t.submods[SubmodName(ds, k)] = IF SubmodName(ds, k) = name THEN s.next ELSE s.submods[SubmodName(ds, k)]
    BY <1>2, <1>6, ZenonT(40)
  <2>2. CASE k = n + 1
    BY <2>1, <2>2, Zenon DEF LoopInv
  <2>3. CASE k # n + 1
    <3>1. k \in 1 .. n
      BY <1>0, <2>3, Zenon
    <3>2. SubmodName(ds, k) # name /\ s.submods[SubmodName(ds, k)] = k
      BY <3>1, IndexGrows, Zenon DEF LoopInv
    <3> QED BY <2>1, <3>2, Zenon
  <2> QED BY <2>2, <2>3, Zenon
<1> QED BY <1>3, <1>4, <1>5, <1>6, <1>7, ZenonT(40) DEF LoopInv, t

\* Every device has its submodule in the end, under its own name.
LEMMA SubmodsRight ==
    ASSUME NEW ds, Len(ds) \in Nat, DOMAIN ds = 1 .. Len(ds),
           \A k \in DOMAIN ds : SubmodName(ds, k)[2] < IndexMod
    PROVE  /\ DOMAIN Submods(ds) = {SubmodName(ds, k) : k \in DOMAIN ds}
           /\ \A k \in DOMAIN ds : Submods(ds)[SubmodName(ds, k)] = k
<1> DEFINE N == Len(ds)
<1>1. PICK f : IsLoop(f, ds, N) /\ Submods(ds) = f[N].submods
  BY SubmodsForm, Zenon
<1>2. \A n \in 0 .. N : f[n] = IF n = 0 THEN LoopStart ELSE AddSubmod(f[n - 1], ds[n])
  BY <1>1, Zenon DEF IsLoop
<1> DEFINE T == {n \in 0 .. N : LoopInv(f[n], ds, n)}
<1>3. 0 \in T
  <2>1. 0 \in 0 .. N /\ 1 .. 0 = {} /\ 0 + 1 = 1 /\ DOMAIN <<>> = {}
    OBVIOUS
  <2>2. f[0] = LoopStart
    BY <1>2, <2>1, Zenon
  <2>3. LoopInv(LoopStart, ds, 0)
    BY <2>1, Zenon DEF LoopInv, LoopStart
  <2> QED BY <2>1, <2>2, <2>3, Zenon
<1>4. \A n \in 0 .. N - 1 : n \in T => n + 1 \in T
  <2> SUFFICES ASSUME NEW n \in 0 .. N - 1, n \in T PROVE n + 1 \in T
    BY Zenon
  <2>1. n \in Nat /\ n + 1 \in 0 .. N /\ n + 1 \in 1 .. N /\ n + 1 # 0 /\ n + 1 - 1 = n
    OBVIOUS
  <2>2. f[n + 1] = AddSubmod(f[n], ds[n + 1])
    <3>1. PICK j \in 0 .. N : j = n + 1 /\ j # 0 /\ j - 1 = n
      BY <2>1
    <3>2. f[j] = AddSubmod(f[j - 1], ds[j])
      BY <1>2, <3>1, Zenon
    <3> QED BY <3>1, <3>2, Zenon
  <2>3. LoopInv(f[n], ds, n) /\ SubmodName(ds, n + 1)[2] < IndexMod
    BY <2>1, Zenon
  <2>4. LoopInv(AddSubmod(f[n], ds[n + 1]), ds, n + 1)
    BY <2>1, <2>3, LoopStep, Zenon
  <2> QED BY <2>1, <2>2, <2>4, Zenon
<1>5. N \in T
  <2> HIDE DEF T
  <2>1. 0 .. N \subseteq T
    BY <1>3, <1>4, Induction, Zenon
  <2> QED BY <2>1
<1>6. LoopInv(f[N], ds, N)
  BY <1>5, Zenon
<1> QED BY <1>1, <1>6, Zenon DEF LoopInv

-----------------------------------------------------------------------------
(* The appraisal of every device.                                          *)

\* The files read, and then those to be read, are the policies of the devices in turn.
OnPlan(ds, g, t, id) ==
    /\ Len(g) + Len(t) = Len(ds)
    /\ \A k \in DOMAIN g : g[k].file = <<id, Class[ds[k]]>>
    /\ \A k \in DOMAIN t : t[k] = <<id, Class[ds[Len(g) + k]]>>

\* An evaluation of the EAR broker follows the plan from the first read to its token.
PlanInv ==
    \A c \in Call : broker = "Ear" /\ Asked(c, "evaluate") =>
        /\ pc[c] = "read" => OnPlan(devs[c], got[c], todo[c], call[c].ids[1])
        /\ res[c] = "ok" => OnPlan(devs[c], got[c], <<>>, call[c].ids[1])

\* The plan, before the first file is read.
LEMMA PlanMade ==
    ASSUME NEW ds \in Seq(Device), NEW id
    PROVE  OnPlan(ds, <<>>, [k \in DOMAIN ds |-> <<id, Class[ds[k]]>>], id)
<1> DEFINE N(k) == <<id, Class[ds[k]]>>
           t == [k \in DOMAIN ds |-> N(k)]
<1>1. Len(ds) \in Nat /\ DOMAIN ds = 1 .. Len(ds)
  OBVIOUS
<1>2. Len(t) = Len(ds)
  <2> HIDE DEF N
  <2> QED BY <1>1
<1>3. /\ Len(<<>>) = 0 /\ DOMAIN <<>> = {} /\ 0 + Len(ds) = Len(ds)
      /\ \A k \in DOMAIN ds : 0 + k = k
  BY <1>1
<1>4. DOMAIN t = DOMAIN ds /\ \A k \in DOMAIN ds : t[k] = N(k)
  BY Zenon
<1> HIDE DEF t
<1>5. \A k \in DOMAIN t : t[k] = <<id, Class[ds[Len(<<>>) + k]]>>
  BY <1>3, <1>4
<1>6. OnPlan(ds, <<>>, t, id)
  BY <1>2, <1>3, <1>5, Zenon DEF OnPlan
<1> QED BY <1>6, Zenon DEF t

\* Reading the next file of the plan.
LEMMA PlanFollowed ==
    ASSUME NEW ds \in Seq(Device), NEW g \in Seq(ReadPolicies), NEW t \in Seq(File), NEW id, NEW p \in ReadPolicies,
           OnPlan(ds, g, t, id), t # <<>>, p.file = Head(t)
    PROVE  OnPlan(ds, Append(g, p), Tail(t), id)
<1>1. /\ Len(g) \in Nat /\ Len(t) \in Nat /\ Len(t) # 0 /\ 1 \in DOMAIN t /\ Head(t) = t[1]
      /\ DOMAIN g = 1 .. Len(g) /\ DOMAIN t = 1 .. Len(t)
  OBVIOUS
<1>2. /\ Len(Append(g, p)) = Len(g) + 1 /\ Len(Tail(t)) = Len(t) - 1
      /\ DOMAIN Append(g, p) = 1 .. Len(g) + 1 /\ DOMAIN Tail(t) = 1 .. Len(t) - 1
      /\ \A k \in 1 .. Len(g) : Append(g, p)[k] = g[k]
      /\ Append(g, p)[Len(g) + 1] = p
      /\ \A k \in 1 .. Len(t) - 1 : Tail(t)[k] = t[k + 1]
  OBVIOUS
<1>3. Len(Append(g, p)) + Len(Tail(t)) = Len(ds)
  <2>1. Len(g) + Len(t) = Len(ds)
    BY Zenon DEF OnPlan
  <2> QED BY <1>1, <1>2, <2>1
<1>4. ASSUME NEW k \in DOMAIN Append(g, p) PROVE Append(g, p)[k].file = <<id, Class[ds[k]]>>
  <2>1. CASE k \in 1 .. Len(g)
    BY <1>1, <1>2, <2>1, Zenon DEF OnPlan
  <2>2. CASE k = Len(g) + 1
    BY <1>1, <1>2, <2>2, ZenonT(40) DEF OnPlan
  <2>3. k \in 1 .. Len(g) \/ k = Len(g) + 1
    BY <1>1, <1>2
  <2> QED BY <2>1, <2>2, <2>3, Zenon
<1>5. ASSUME NEW k \in DOMAIN Tail(t) PROVE Tail(t)[k] = <<id, Class[ds[Len(Append(g, p)) + k]]>>
  <2>1. PICK j : j = k + 1 /\ j \in DOMAIN t /\ Len(g) + j = Len(Append(g, p)) + k
    BY <1>1, <1>2, SMTT(30)
  <2>2. t[j] = <<id, Class[ds[Len(g) + j]]>>
    BY <2>1, Zenon DEF OnPlan
  <2>3. Tail(t)[k] = t[j]
    BY <1>2, <2>1, Zenon
  <2> QED BY <2>1, <2>2, <2>3, ZenonT(40)
<1> QED BY <1>3, <1>4, <1>5, Zenon DEF OnPlan

\* A step that no evaluation reads in, unless it ends one that has read all its files.
LEMMA PlanKept ==
    ASSUME PlanInv, UNCHANGED broker,
           \A d \in Call : Asked(d, "evaluate")' /\ (pc'[d] = "read" \/ res'[d] = "ok") =>
             /\ call'[d] = call[d] /\ devs'[d] = devs[d] /\ got'[d] = got[d]
             /\ pc'[d] = "read" => pc[d] = "read" /\ todo'[d] = todo[d]
             /\ res'[d] = "ok" => res[d] = "ok" \/ (pc[d] = "read" /\ todo[d] = <<>>)
    PROVE  PlanInv'
<1> SUFFICES ASSUME NEW d \in Call, broker = "Ear", Asked(d, "evaluate")', pc'[d] = "read" \/ res'[d] = "ok"
             PROVE  /\ pc'[d] = "read" => OnPlan(devs'[d], got'[d], todo'[d], call'[d].ids[1])
                    /\ res'[d] = "ok" => OnPlan(devs'[d], got'[d], <<>>, call'[d].ids[1])
  BY Zenon DEF PlanInv, OnPlan
<1>1. /\ call'[d] = call[d] /\ devs'[d] = devs[d] /\ got'[d] = got[d]
      /\ pc'[d] = "read" => pc[d] = "read" /\ todo'[d] = todo[d]
      /\ res'[d] = "ok" => res[d] = "ok" \/ (pc[d] = "read" /\ todo[d] = <<>>)
  BY Zenon
<1>2. Asked(d, "evaluate")
  BY <1>1, Zenon DEF Asked, Op
<1>3. /\ pc[d] = "read" => OnPlan(devs[d], got[d], todo[d], call[d].ids[1])
      /\ res[d] = "ok" => OnPlan(devs[d], got[d], <<>>, call[d].ids[1])
  BY <1>2, Zenon DEF PlanInv
<1> QED BY <1>1, <1>3, Zenon

\* Every step keeps the evaluations on their plans.
LEMMA PlanStep == CallInv /\ PlanInv /\ [Next]_vars => PlanInv'
<1> SUFFICES ASSUME CallInv, PlanInv, [Next]_vars PROVE PlanInv'
  BY Zenon
<1>t. Types /\ Coherent
  BY Zenon DEF CallInv
<1>q. ASSUME NEW c \in Call, NEW r, Return(c, r), UNCHANGED <<broker, call>>,
             r = "ok" /\ Asked(c, "evaluate") => pc[c] = "read" /\ todo[c] = <<>>
      PROVE  PlanInv'
  <2>1. \A d \in Call \ {c} : /\ pc'[d] = pc[d] /\ res'[d] = res[d] /\ devs'[d] = devs[d]
                              /\ got'[d] = got[d] /\ todo'[d] = todo[d]
    BY <1>t, <1>q, ZenonT(40) DEF Return, Goto, Types
  <2>2. /\ pc'[c] = "done" /\ res'[c] = r
        /\ r = "ok" => devs'[c] = devs[c] /\ got'[c] = got[c]
    BY <1>t, <1>q, ZenonT(40) DEF Return, Goto, Types
  <2>3. \A d \in Call : Asked(d, "evaluate")' = Asked(d, "evaluate")
    BY <1>q, Zenon DEF Asked, Op
  <2> QED BY <1>q, <2>1, <2>2, <2>3, PlanKept, ZenonT(40)
<1>1. ASSUME NEW c \in Call, NEW a \in Requests, Ask(c, a) PROVE PlanInv'
  <2>1. \A d \in Call \ {c} : pc'[d] = pc[d] /\ call'[d] = call[d]
    BY <1>t, <1>1, Zenon DEF Ask, Goto, Types
  <2>2. pc'[c] = "lock" /\ res[c] = "none" /\ UNCHANGED <<broker, res, devs, got, todo>>
    BY <1>t, <1>1, Zenon DEF Ask, Goto, Types, Coherent
  <2> QED BY <2>1, <2>2, PlanKept, Zenon
<1>2. ASSUME NEW c \in Call,
             \/ AskRefused(c) \/ VerifyFails(c) \/ LookFails(c) \/ ReadFails(c) \/ Answer(c)
             \/ Register(c) \/ SetRefused(c) \/ Drop(c)
      PROVE  PlanInv'
  <2>1. PICK r \in {"ok", "refused", "failed", "unreadable", "panic", "dropped"} :
            Return(c, r) /\ (r = "ok" => (pc[c] = "read" /\ todo[c] = <<>>) \/ Op(c) = "register")
    BY <1>2, ZenonT(40) DEF AskRefused, VerifyFails, LookFails, ReadFails, Answer, Register, SetRefused, Drop
  <2>2. UNCHANGED <<broker, call>>
    BY <1>2, ZenonT(40) DEF AskRefused, VerifyFails, LookFails, ReadFails, Answer, Register, SetRefused, Drop
  <2> QED BY <1>q, <2>1, <2>2, Zenon DEF Asked
<1>3. ASSUME NEW c \in Call, LockForRead(c) \/ Verify(c) \/ Look(c) \/ SetLocked(c) PROVE PlanInv'
  <2>1. /\ UNCHANGED <<broker, call, res, got>> /\ pc[c] \in {"lock", "verify", "look"}
        /\ \A d \in Call \ {c} : pc'[d] = pc[d] /\ devs'[d] = devs[d] /\ todo'[d] = todo[d]
    BY <1>t, <1>3, ZenonT(40) DEF LockForRead, Verify, Look, SetLocked, Goto, Types
  <2>2. pc'[c] = "read" => Op(c) # "evaluate"
    BY <1>t, <1>3, ZenonT(40) DEF LockForRead, Verify, Look, SetLocked, Goto, Types, Coherent
  <2>3. res[c] # "ok"
    BY <1>t, <2>1, Zenon DEF Coherent
  <2>4. \A d \in Call : Asked(d, "evaluate")' = Asked(d, "evaluate")
    BY <2>1, Zenon DEF Asked, Op
  <2> QED BY <2>1, <2>2, <2>3, <2>4, PlanKept, Zenon DEF Asked
<1>4. ASSUME NEW c \in Call, Truncate(c) PROVE PlanInv'
  BY <1>4, PlanKept, Zenon DEF Truncate
<1>5. ASSUME NEW c \in Call, GetDigests(c) PROVE PlanInv'
  <2>1. /\ UNCHANGED <<broker, call, res, got, devs>> /\ pc[c] = "verify"
        /\ \A d \in Call \ {c} : pc'[d] = pc[d] /\ todo'[d] = todo[d]
        /\ todo'[c] = PolicyFiles(c)
    BY <1>t, <1>5, ZenonT(40) DEF GetDigests, Goto, Types
  <2>2. res[c] # "ok" /\ got[c] = <<>>
    BY <1>t, <2>1, Zenon DEF Coherent
  <2>3. broker = "Ear" => OnPlan(devs[c], <<>>, PolicyFiles(c), call[c].ids[1])
    <3>1. devs[c] \in Seq(Device)
      BY <1>t, Zenon DEF Types
    <3> QED BY <3>1, PlanMade, Zenon DEF PolicyFiles
  <2>4. \A d \in Call : Asked(d, "evaluate")' = Asked(d, "evaluate")
    BY <2>1, Zenon DEF Asked, Op
  <2>5. ASSUME NEW d \in Call, broker = "Ear", Asked(d, "evaluate")
        PROVE  /\ pc'[d] = "read" => OnPlan(devs[d], got[d], todo'[d], call[d].ids[1])
               /\ res[d] = "ok" => OnPlan(devs[d], got[d], <<>>, call[d].ids[1])
    <3>1. CASE d = c
      BY <2>1, <2>2, <2>3, <2>5, <3>1, Zenon
    <3>2. CASE d # c
      BY <2>1, <2>5, <3>2, Zenon DEF PlanInv
    <3> QED BY <3>1, <3>2, Zenon
  <2> QED BY <2>1, <2>4, <2>5, ZenonT(40) DEF PlanInv, OnPlan
<1>6. ASSUME NEW c \in Call, ReadPolicy(c) PROVE PlanInv'
  <2> DEFINE p == [file |-> Head(todo[c]), policy |-> files[Head(todo[c])]]
  <2>1. /\ UNCHANGED <<broker, call, res, pc, devs>> /\ pc[c] = "read" /\ todo[c] # <<>>
        /\ \A d \in Call \ {c} : got'[d] = got[d] /\ todo'[d] = todo[d]
        /\ todo'[c] = Tail(todo[c]) /\ got'[c] = Append(got[c], p)
        /\ files[Head(todo[c])] # Missing
    BY <1>t, <1>6, ZenonT(40) DEF ReadPolicy, Goto, Types
  <2>2. res[c] # "ok"
    BY <1>t, <2>1, Zenon DEF Coherent
  <2>3. devs[c] \in Seq(Device) /\ got[c] \in Seq(ReadPolicies) /\ todo[c] \in Seq(File)
    BY <1>t, Zenon DEF Types
  <2>4. p \in ReadPolicies /\ p.file = Head(todo[c])
    <3>1. Head(todo[c]) \in File
      BY <2>1, <2>3
    <3> QED BY <1>t, <2>1, <3>1, Zenon DEF Types, ReadPolicies
  <2> HIDE DEF p
  <2>5. \A d \in Call : Asked(d, "evaluate")' = Asked(d, "evaluate")
    BY <2>1, Zenon DEF Asked, Op
  <2>6. ASSUME NEW d \in Call, broker = "Ear", Asked(d, "evaluate")
        PROVE  /\ pc[d] = "read" => OnPlan(devs[d], got'[d], todo'[d], call[d].ids[1])
               /\ res[d] = "ok" => OnPlan(devs[d], got'[d], <<>>, call[d].ids[1])
    <3>1. CASE d = c
      <4>1. OnPlan(devs[c], got[c], todo[c], call[c].ids[1])
        BY <2>1, <2>6, <3>1, Zenon DEF PlanInv
      <4>2. OnPlan(devs[c], Append(got[c], p), Tail(todo[c]), call[c].ids[1])
        BY <2>1, <2>3, <2>4, <4>1, PlanFollowed, ZenonT(40)
      <4> QED BY <2>1, <2>2, <3>1, <4>2, Zenon
    <3>2. CASE d # c
      BY <2>1, <2>6, <3>2, ZenonT(40) DEF PlanInv
    <3> QED BY <3>1, <3>2, Zenon
  <2> QED BY <2>1, <2>5, <2>6, Zenon DEF PlanInv, OnPlan
<1>7. ASSUME NEW c \in Call, Fill(c) \/ WriteFails(c) PROVE PlanInv'
  <2>1. job[c] # "none" /\ UNCHANGED <<broker, call>>
    BY <1>7, Zenon DEF Fill, WriteFails
  <2>2. Op(c) = "set"
    BY <1>t, <2>1, Zenon DEF Coherent
  <2>3. CASE pc[c] = "write"
    <3>1. PICK r \in {"ok", "failed"} : Return(c, r)
      BY <1>7, <2>3, Zenon DEF Fill, WriteFails, Told
    <3> QED BY <1>q, <2>1, <2>2, <3>1, ZenonT(40) DEF Asked
  <2>4. CASE pc[c] # "write"
    <3>1. UNCHANGED <<pc, res, devs, got, todo>>
      BY <1>7, <2>4, Zenon DEF Fill, WriteFails, Told
    <3> QED BY <2>1, <3>1, PlanKept, Zenon
  <2> QED BY <2>3, <2>4, Zenon
<1>8. CASE Crash
  <2>1. /\ \A d \in Call : /\ pc'[d] # "read"
                           /\ res'[d] = "ok" => res[d] = "ok" /\ devs'[d] = devs[d] /\ got'[d] = got[d]
        /\ UNCHANGED <<broker, call>>
    BY <1>t, <1>8, ZenonT(40) DEF Crash, Types
  <2> QED BY <2>1, PlanKept, Zenon
<1>9. CASE UNCHANGED vars
  BY <1>9, PlanKept, Zenon DEF vars
<1> QED
  BY <1>1, <1>2, <1>3, <1>4, <1>5, <1>6, <1>7, <1>8, <1>9, ZenonT(40) DEF Next, Work

\* The submodules of an EAR token are exactly its devices, each under the name of its
\* class and index, and each appraised by the policy of its class.  About the order in
\* which evaluate collects claims, the loop of issue, and every read in between, for
\* any number of devices and classes.
THEOREM DevicesAppraised == Spec => []EveryDeviceAppraised
<1>1. Init => CallInv /\ PlanInv
  <2> SUFFICES ASSUME Init PROVE PlanInv
    BY CallInit, Zenon
  <2>1. \A c \in Call : call[c] = NoCall
    BY Zenon DEF Init
  <2> QED BY <2>1, Zenon DEF PlanInv, Asked
<1>2. (CallInv /\ PlanInv) /\ [Next]_vars => (CallInv /\ PlanInv)'
  BY CallStep, PlanStep, Zenon
<1>3. CallInv /\ PlanInv => EveryDeviceAppraised
  <2> SUFFICES ASSUME CallInv, PlanInv, NEW c \in Call, Issued(c), broker = "Ear",
                      \A k \in DOMAIN devs[c] : SubmodName(devs[c], k)[2] < IndexMod
               PROVE  /\ DOMAIN Submods(devs[c]) = {SubmodName(devs[c], k) : k \in DOMAIN devs[c]}
                      /\ \A k \in DOMAIN devs[c] :
                           /\ Submods(devs[c])[SubmodName(devs[c], k)] = k
                           /\ got[c][k].file = <<call[c].ids[1], Class[devs[c][k]]>>
    BY Zenon DEF EveryDeviceAppraised
  <2>1. devs[c] \in Seq(Device) /\ got[c] \in Seq(ReadPolicies)
    BY Zenon DEF CallInv, Types
  <2>2. OnPlan(devs[c], got[c], <<>>, call[c].ids[1])
    BY Zenon DEF PlanInv, Issued
  <2>3. /\ Len(devs[c]) \in Nat /\ DOMAIN devs[c] = 1 .. Len(devs[c])
        /\ Len(got[c]) \in Nat /\ DOMAIN got[c] = 1 .. Len(got[c]) /\ Len(<<>>) = 0
    BY <2>1
  <2>4. DOMAIN got[c] = DOMAIN devs[c]
    <3>1. Len(got[c]) + Len(<<>>) = Len(devs[c])
      BY <2>2, Zenon DEF OnPlan
    <3> QED BY <2>3, <3>1
  <2>5. \A k \in DOMAIN devs[c] : got[c][k].file = <<call[c].ids[1], Class[devs[c][k]]>>
    BY <2>2, <2>4, Zenon DEF OnPlan
  <2> QED BY <2>3, <2>5, SubmodsRight, Zenon
<1> QED BY <1>1, <1>2, <1>3, PTL DEF Spec
====
