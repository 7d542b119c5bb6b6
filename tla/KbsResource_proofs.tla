------------------------- MODULE KbsResource_proofs -------------------------
(***************************************************************************)
(* Proofs about KbsResource, for every number of requests, and every set   *)
(* of paths, contents, policies and tokens.                                *)
(***************************************************************************)
EXTENDS KbsResource, TLAPS

-----------------------------------------------------------------------------
(* What requests carry.                                                    *)

\* The types of the variables.
Types ==
    /\ repo \in [Path -> Contents]
    /\ policy \in Policy \cup {Torn}
    /\ pc \in [Request -> {"idle", "policy", "read", "write", "set", "show", "showing", "done"}]
    /\ kind \in [Request -> {"none", "get", "put", "set", "show"}]
    /\ path \in [Request -> Path \cup {None}]
    /\ val \in [Request -> Data \cup Policy \cup {BadPolicy, None}]
    /\ tok \in [Request -> Token \cup {AdminJwt, None}]
    /\ job \in [Request -> {"none", "queued", "truncated", "filled"}]
    /\ out \in [Request -> {"none", "ok", "refused", "denied", "failed", "dropped"}]
    /\ DOMAIN sent = Request
    /\ decided \in [Request -> Policy \cup {Torn, NoPolicy}]
    /\ settled \subseteq Request
    /\ doubt \in [Request -> {"none", "alone", "met"}]

\* Where a request is tells what kind it is, what it has passed, and that it
\* has no answer yet; a write in the blocking pool has a target and a content,
\* also when its request is gone.
Coherent ==
    \A r \in Request :
        /\ pc[r] = "idle" => kind[r] = "none" /\ job[r] = "none"
        /\ pc[r] \in {"idle", "policy"} => decided[r] = NoPolicy
        /\ pc[r] \in {"policy", "read"} => kind[r] = "get" /\ path[r] \in Path /\ tok[r] \in Trusted
        /\ pc[r] \in {"set", "write"} => kind[r] \in {"put", "set"}
        /\ pc[r] = "set" => kind[r] = "set" /\ val[r] \in Policy \cup {BadPolicy} /\ job[r] = "none"
        /\ pc[r] \in {"show", "showing"} => kind[r] = "show"
        /\ pc[r] # "done" => out[r] = "none" /\ sent[r] = None /\ r \notin settled
        /\ pc[r] = "done" => out[r] # "none"
        /\ job[r] # "none" =>
             /\ pc[r] \in {"write", "done"}
             /\ out[r] \in {"none", "failed", "dropped"}
             /\ \/ kind[r] = "put" /\ path[r] \in Path /\ val[r] \in Data
                \/ kind[r] = "set" /\ val[r] \in Policy

\* What is known of a request from where it is.
RequestInv == Types /\ Coherent

\* Every step of the handlers, the blocking pool, a client that leaves and a
\* crash keeps it.
LEMMA RequestStep == RequestInv /\ [Next]_vars => RequestInv'
<1> SUFFICES ASSUME Types, Coherent, [Next]_vars PROVE RequestInv'
  BY Zenon DEF RequestInv
<1> USE ResourceAssumption
<1>1. ASSUME NEW r \in Request, Arrive(r) PROVE RequestInv'
  <2>1. ASSUME NEW x \in Path, NEW s \in Token \cup {None}, NEW b \in Token \cup {AdminJwt, None},
               Get(r, x, s, b) \/ GetRefused(r, x, s, b)
        PROVE  RequestInv'
    <3> DEFINE t == TokenOf(s, b)
    <3>1. t \in Token \cup {AdminJwt, None}
      BY Zenon DEF TokenOf
    <3>2. /\ Start(r, "get", x, None, t) /\ UNCHANGED <<files, job, sent, decided, history>>
          /\ ((Goto(r, "policy") /\ t \in Trusted) \/ End(r, "refused"))
      BY <2>1, Zenon DEF Get, GetRefused
    <3> HIDE DEF t
    <3>3. Types'
      BY <3>1, <3>2, SMTT(30) DEF Start, Goto, End, Types, files, history
    <3> QED
      BY <3>2, <3>3, SMTT(30) DEF Start, Goto, End, Types, RequestInv, Coherent, history
  <2>2. ASSUME NEW x \in Path, NEW d \in Data, NEW b \in {AdminJwt, None}, Put(r, x, d, b)
        PROVE  RequestInv'
    <3>1. Types'
      BY <2>2, SMTT(30) DEF Put, Start, Goto, End, Types, files, history
    <3> QED
      BY <2>2, <3>1 DEF Put, Start, Goto, End, Types, RequestInv, Coherent, history
  <2>3. ASSUME NEW p \in Policy \cup {BadPolicy}, NEW b \in {AdminJwt, None}, SetPolicy(r, p, b)
        PROVE  RequestInv'
    <3>1. Types'
      BY <2>3 DEF SetPolicy, Start, Goto, End, Types, files, history
    <3> QED
      BY <2>3, <3>1 DEF SetPolicy, Start, Goto, End, Types, RequestInv, Coherent, history
  <2>4. ASSUME NEW b \in {AdminJwt, None}, GetPolicy(r, b)
        PROVE  RequestInv'
    <3>1. Types'
      BY <2>4 DEF GetPolicy, Start, Goto, End, Types, files, history
    <3> QED
      BY <2>4, <3>1 DEF GetPolicy, Start, Goto, End, Types, RequestInv, Coherent, history
  <2> QED
    BY <1>1, <2>1, <2>2, <2>3, <2>4, Zenon DEF Arrive
<1>2. ASSUME NEW r \in Request, Approve(r) \/ Deny(r) \/ EvaluateFails(r) PROVE RequestInv'
  <2>1. /\ pc[r] = "policy" /\ decided' = [decided EXCEPT ![r] = policy]
        /\ UNCHANGED <<files, args, job, sent, history>>
        /\ Goto(r, "read") \/ End(r, "failed") \/ End(r, "denied")
    BY <1>2, Zenon DEF Approve, Deny, EvaluateFails, Evaluates
  <2>2. Types'
    BY <2>1 DEF Goto, End, Types, files, args, history
  <2> QED
    BY <2>1, <2>2, SMTT(30) DEF Goto, End, Types, RequestInv, Coherent, args, history
<1>3. ASSUME NEW r \in Request, Answer(r) PROVE RequestInv'
  BY <1>3 DEF Answer, Goto, End, Types, RequestInv, Coherent, files, args, history
<1>4. ASSUME NEW r \in Request, SetLocked(r) PROVE RequestInv'
  BY <1>4, SMTT(30) DEF SetLocked, Goto, End, Types, RequestInv, Coherent, files, args, history
<1>5. ASSUME NEW r \in Request, ShowLocked(r) \/ Shown(r) PROVE RequestInv'
  BY <1>5 DEF ShowLocked, Shown, Goto, End, Types, RequestInv, Coherent, files, args, history
<1>6. ASSUME NEW r \in Request, Truncate(r) PROVE RequestInv'
  <2>1. Types'
    <3>1. repo' \in [Path -> Contents] /\ policy' \in Policy \cup {Torn}
      BY <1>6, Zenon DEF Truncate, Write, Contents, Types
    <3>2. job' \in [Request -> {"none", "queued", "truncated", "filled"}]
      BY <1>6, Zenon DEF Truncate, Types
    <3> QED
      BY <1>6, <3>1, <3>2, Zenon DEF Truncate, Types, args, answers, history
  <2> QED
    BY <1>6, <2>1 DEF Truncate, Types, RequestInv, Coherent, args, answers, history
<1>7. ASSUME NEW r \in Request, Fill(r) PROVE RequestInv'
  <2>1. Types'
    BY <1>7 DEF Fill, Write, Contents, Types, Coherent, args, answers, history
  <2> QED
    BY <1>7, <2>1 DEF Fill, Types, RequestInv, Coherent, args, answers, history
<1>8. ASSUME NEW r \in Request, Written(r) PROVE RequestInv'
  BY <1>8 DEF Written, Acknowledge, End, Types, RequestInv, Coherent, files, args, history
<1>9. ASSUME NEW r \in Request, WriteFails(r) PROVE RequestInv'
  BY <1>9 DEF WriteFails, End, Types, RequestInv, Coherent, files, args, history
<1>10. ASSUME NEW r \in Request, Drop(r) PROVE RequestInv'
  BY <1>10 DEF Drop, End, Types, RequestInv, Coherent, files, args, history
<1>11. CASE Crash
  BY <1>11 DEF Crash, Types, RequestInv, Coherent, files, args, history
<1>12. CASE UNCHANGED vars
  BY <1>12 DEF vars, Types, RequestInv, Coherent, files, args, answers, history
<1> QED
  BY <1>1, <1>2, <1>3, <1>4, <1>5, <1>6, <1>7, <1>8, <1>9, <1>10, <1>11, <1>12, Zenon DEF Next, Proceed

\* At first no request has arrived.
LEMMA RequestInit == Init => RequestInv
BY ResourceAssumption DEF Init, RequestInv, Types, Coherent, Contents

\* It always holds.
LEMMA RequestInvariant == Spec => []RequestInv
BY RequestInit, RequestStep, PTL DEF Spec

-----------------------------------------------------------------------------
(* What is left of a policy.                                               *)

\* Some request to set the policy was cut off.
Lost == \E s \in Request : CutOff(s)

\* Unless one was cut off, writes of the policy have their request waiting, one at
\* a time, and the file is torn just while one is between truncation and write.
LossInv ==
    /\ \A r, s \in Request : /\ kind[r] = "set" /\ pc[r] = "write"
                             /\ kind[s] = "set" /\ pc[s] = "write"
                             => r = s
    /\ \/ Lost
       \/ policy = Torn <=> \E r \in Request : kind[r] = "set" /\ job[r] = "truncated"

\* A write of the policy that nobody waits for is one that was cut off.
LEMMA StrayIsLost ==
    ASSUME Types, Coherent, ~Lost, NEW r \in Request, kind[r] = "set", job[r] # "none"
    PROVE  pc[r] = "write"
<1>1. pc[r] \in {"write", "done"} /\ out[r] \in {"none", "failed", "dropped"} /\ val[r] # BadPolicy
  BY ResourceAssumption, Zenon DEF Coherent
<1>2. ~(pc[r] = "done")
  BY <1>1, Zenon DEF Coherent, Lost, CutOff
<1> QED
  BY <1>1, <1>2, Zenon

\* What was cut off stays so.
LEMMA LossIsKept ==
    ASSUME Types, Coherent, [Next]_vars
    PROVE  Lost => Lost'
<1> USE ResourceAssumption
<1> SUFFICES ASSUME NEW s \in Request, CutOff(s) PROVE CutOff(s)'
  BY Zenon DEF Lost
<1>1. pc[s] = "done"
  BY Zenon DEF CutOff, Coherent
<1>2. ASSUME NEW r \in Request, Arrive(r) PROVE kind'[s] = kind[s] /\ val'[s] = val[s] /\ out'[s] = out[s]
  BY <1>1, <1>2 DEF Arrive, Get, GetRefused, Put, SetPolicy, GetPolicy, Start, Goto, End, Types
<1>3. ASSUME NEW r \in Request, Proceed(r) \/ WriteFails(r) \/ Drop(r)
      PROVE  kind'[s] = kind[s] /\ val'[s] = val[s] /\ out'[s] = out[s]
  <2>1. UNCHANGED <<kind, val>>
    BY <1>3, ZenonT(40) DEF Proceed, Approve, Deny, EvaluateFails, Evaluates, Answer, SetLocked, ShowLocked, Shown,
              Truncate, Fill, Written, WriteFails, Drop, args
  <2>2. out'[s] = out[s]
    BY <1>1, <1>3, SMTT(30) DEF Proceed, Approve, Deny, EvaluateFails, Evaluates, Answer, SetLocked, ShowLocked,
              Shown, Truncate, Fill, Written, WriteFails, Drop, Goto, End, Types, answers
  <2> QED
    BY <2>1, <2>2, Zenon
<1>4. CASE Crash
  BY <1>1, <1>4, Zenon DEF Crash, CutOff, args
<1>5. CASE UNCHANGED vars
  BY <1>5, Zenon DEF vars, CutOff, args, answers
<1> QED
  BY <1>2, <1>3, <1>4, <1>5, Zenon DEF Next, CutOff

\* A step that leaves the policy file and its writes alone, or loses a policy.
LEMMA LossKept ==
    ASSUME Types, LossInv, Lost => Lost',
           \A r \in Request : kind'[r] = "set" /\ pc'[r] = "write" => kind[r] = "set" /\ pc[r] = "write",
           \/ Lost'
           \/ /\ policy' = policy
              /\ \A r \in Request : kind'[r] = "set" /\ job'[r] = "truncated"
                                   <=> kind[r] = "set" /\ job[r] = "truncated"
    PROVE  LossInv'
<1>1. \A r, s \in Request : /\ kind'[r] = "set" /\ pc'[r] = "write"
                             /\ kind'[s] = "set" /\ pc'[s] = "write"
                             => r = s
  BY Zenon DEF LossInv
<1>2. Lost' \/ (policy' = Torn <=> \E r \in Request : kind'[r] = "set" /\ job'[r] = "truncated")
  BY Zenon DEF LossInv
<1> QED
  BY <1>1, <1>2, Zenon DEF LossInv

\* Every step keeps it, also with clients that leave.
LEMMA LossStep == RequestInv /\ LossInv /\ [Next]_vars => LossInv'
<1> SUFFICES ASSUME Types, Coherent, LossInv, [Next]_vars PROVE LossInv'
  BY Zenon DEF RequestInv
<1> USE ResourceAssumption
<1>0. Lost => Lost'
  BY LossIsKept, Zenon
<1>1. ASSUME NEW r \in Request, Arrive(r) PROVE LossInv'
  <2>1. pc[r] = "idle" /\ kind[r] = "none" /\ job[r] = "none" /\ policy' = policy
    BY <1>1, Zenon DEF Arrive, Get, GetRefused, Put, SetPolicy, GetPolicy, Start, Coherent, files
  <2>2. \A s \in Request \ {r} : /\ kind'[s] = kind[s] /\ val'[s] = val[s] /\ pc'[s] = pc[s]
                                 /\ out'[s] = out[s] /\ job'[s] = job[s]
    BY <1>1 DEF Arrive, Get, GetRefused, Put, SetPolicy, GetPolicy, Start, Goto, End, Types
  <2>3. kind'[r] = "set" => pc'[r] # "write" /\ job'[r] = "none"
    BY <1>1, <2>1 DEF Arrive, Get, GetRefused, Put, SetPolicy, GetPolicy, Start, Goto, End, Types
  <2> QED
    BY <2>1, <2>2, <2>3, <1>0, LossKept, ZenonT(40)
<1>2. ASSUME NEW r \in Request,
             \/ Approve(r) \/ Deny(r) \/ EvaluateFails(r) \/ Answer(r)
             \/ ShowLocked(r) \/ Shown(r)
      PROVE  LossInv'
  <2>1. /\ UNCHANGED <<policy, kind, val, job>> /\ kind[r] # "set"
    BY <1>2, ZenonT(40) DEF Approve, Deny, EvaluateFails, Evaluates, Answer, ShowLocked, Shown,
                Coherent, files, args
  <2>2. \A s \in Request \ {r} : pc'[s] = pc[s] /\ out'[s] = out[s]
    BY <1>2 DEF Approve, Deny, EvaluateFails, Evaluates, Answer, ShowLocked, Shown, Goto, End, Types
  <2> QED
    BY <2>1, <2>2, <1>0, LossKept, Zenon
<1>3. ASSUME NEW r \in Request, SetLocked(r) PROVE LossInv'
  <2>1. /\ pc[r] = "set" /\ job[r] = "none" /\ out[r] = "none" /\ UNCHANGED <<policy, kind, val>>
        /\ \A s \in Request : ~(kind[s] = "set" /\ pc[s] = "write")
    BY <1>3, Zenon DEF SetLocked, EngineHeld, Coherent, files, args
  <2>2. /\ job'[r] # "truncated"
        /\ \A s \in Request \ {r} : pc'[s] = pc[s] /\ out'[s] = out[s] /\ job'[s] = job[s]
    BY <1>3, <2>1 DEF SetLocked, Goto, End, Types
  <2>5. \A s \in Request : kind'[s] = "set" /\ job'[s] = "truncated" <=> kind[s] = "set" /\ job[s] = "truncated"
    BY <2>1, <2>2, Zenon
  <2>6. \A s \in Request : kind'[s] = "set" /\ pc'[s] = "write" => s = r
    BY <2>1, <2>2, Zenon
  <2> QED
    <3>1. Lost' \/ (policy' = Torn <=> \E s \in Request : kind'[s] = "set" /\ job'[s] = "truncated")
      BY <1>0, <2>1, <2>5, Zenon DEF LossInv
    <3> QED
      BY <2>6, <3>1, Zenon DEF LossInv
<1>4. ASSUME NEW r \in Request, Truncate(r) \/ Fill(r) PROVE LossInv'
  <2>1. /\ UNCHANGED <<kind, val, pc, out>>
        /\ job[r] # "none" /\ \A s \in Request \ {r} : job'[s] = job[s]
        /\ Truncate(r) => job[r] = "queued" /\ job'[r] = "truncated"
        /\ Fill(r) => job[r] = "truncated" /\ job'[r] = "filled"
    BY <1>4, SMTT(30) DEF Truncate, Fill, Types, args, answers
  <2>2. Lost' <=> Lost
    BY <2>1, Zenon DEF Lost, CutOff
  <2>4. CASE Lost
    BY <2>1, <2>2, <1>0, <2>4, LossKept, Zenon
  <2>5. CASE ~Lost /\ kind[r] = "set"
    <3>1. /\ val[r] \in Policy
          /\ \A s \in Request \ {r} : kind[s] = "set" => job[s] = "none"
      BY <2>1, <2>5, StrayIsLost, Zenon DEF Coherent, LossInv
    <3>2. /\ Truncate(r) => policy' = Torn
          /\ Fill(r) => policy' = val[r]
      BY <2>1, <2>5, Zenon DEF Truncate, Fill, Write, Content, LossInv
    <3>3. policy' = Torn <=> \E s \in Request : kind'[s] = "set" /\ job'[s] = "truncated"
      BY <1>4, <2>1, <2>5, <3>1, <3>2, ZenonT(40)
    <3> QED
      BY <2>1, <3>3, Zenon DEF LossInv
  <2>6. CASE kind[r] # "set"
    <3>1. policy' = policy
      BY <1>4, <2>1, <2>6, Zenon DEF Truncate, Fill, Write, Coherent
    <3> QED
      BY <2>1, <1>0, <2>6, <3>1, LossKept, Zenon
  <2> QED
    BY <2>4, <2>5, <2>6, Zenon
<1>5. ASSUME NEW r \in Request, Written(r) \/ WriteFails(r) \/ Drop(r) PROVE LossInv'
  <2>1. /\ UNCHANGED <<policy, kind, val>>
        /\ \A s \in Request \ {r} : pc'[s] = pc[s] /\ job'[s] = job[s] /\ out'[s] = out[s]
        /\ pc'[r] \in {pc[r], "done"}
    BY <1>5, SMTT(30) DEF Written, WriteFails, Drop, End, Types, files, args
  <2>2. /\ out'[r] # out[r] => pc[r] # "done"
        /\ Written(r) => job[r] = "filled" /\ job'[r] = "none"
        /\ WriteFails(r) => /\ job[r] # "none"
                            /\ out'[r] = IF pc[r] = "write" THEN "failed" ELSE out[r]
        /\ Drop(r) => job' = job
    BY <1>5, SMTT(30) DEF Written, WriteFails, Drop, End, Types, Coherent, args
  <2>4. CASE WriteFails(r) /\ kind[r] = "set"
    <3>1. CutOff(r)'
      <4>1. pc[r] \in {"write", "done"} /\ out[r] \in {"none", "failed", "dropped"} /\ val[r] # BadPolicy
        BY <2>2, <2>4, Zenon DEF Coherent
      <4>2. pc[r] = "done" => out[r] \in {"failed", "dropped"}
        BY <4>1, Zenon DEF Coherent
      <4>3. out'[r] \in {"failed", "dropped"}
        BY <2>2, <2>4, <4>1, <4>2
      <4> QED
        BY <2>1, <2>4, <4>1, <4>3, Zenon DEF CutOff
    <3> QED
      BY <2>1, <1>0, <3>1, LossKept, Zenon DEF Lost
  <2>5. CASE ~(WriteFails(r) /\ kind[r] = "set")
    <3>1. \A s \in Request : kind'[s] = "set" /\ job'[s] = "truncated" <=> kind[s] = "set" /\ job[s] = "truncated"
      BY <1>5, <2>1, <2>2, <2>5, ZenonT(40)
    <3> QED
      BY <2>1, <1>0, <3>1, LossKept, Zenon
  <2> QED
    BY <2>4, <2>5, Zenon
<1>6. CASE Crash
  <2>1. /\ UNCHANGED <<policy, kind, val>>
        /\ \A s \in Request : /\ pc'[s] \in {"idle", "done"} /\ job'[s] = "none"
                              /\ out'[s] = IF pc[s] \in {"idle", "done"} THEN out[s] ELSE "dropped"
    BY <1>6, Zenon DEF Crash, Types, files, args
  <2>3. ASSUME NEW r \in Request, kind[r] = "set", job[r] = "truncated" PROVE CutOff(r)'
    <3>1. pc[r] \in {"write", "done"} /\ out[r] \in {"none", "failed", "dropped"} /\ val[r] # BadPolicy
      BY <2>3, Zenon DEF Coherent
    <3>2. pc[r] = "done" => out[r] \in {"failed", "dropped"}
      BY <3>1, Zenon DEF Coherent
    <3>3. out'[r] \in {"failed", "dropped"}
      BY <2>1, <3>1, <3>2
    <3> QED
      BY <2>1, <2>3, <3>1, <3>3, Zenon DEF CutOff
  <2> QED
    BY <2>1, <1>0, <2>3, LossKept, Zenon DEF Lost
<1>7. CASE UNCHANGED vars
  <2>1. UNCHANGED <<policy, kind, val, pc, job, out>>
    BY <1>7, Zenon DEF vars, files, args, answers
  <2> QED
    BY <2>1, <1>0, LossKept, Zenon
<1> QED
  BY <1>1, <1>2, <1>3, <1>4, <1>5, <1>6, <1>7, Zenon DEF Next, Proceed

-----------------------------------------------------------------------------
(* What is released.                                                       *)

\* A request that reads a resource was allowed to by a whole policy, or by one
\* that was cut off.  Between the decision and the answer lies an await, at which
\* all may change but this.
PermitInv ==
    /\ \A r \in Request : pc[r] = "read" =>
         \/ decided[r] \in Policy /\ Verdict[<<decided[r], tok[r], path[r]>>] = "allow"
         \/ decided[r] = Torn /\ Lost
    /\ ReleasedAsPermitted

\* Every step keeps what was decided, for whom and where, until the answer and
\* after it.
LEMMA PermitStep == RequestInv /\ LossInv /\ PermitInv /\ [Next]_vars => PermitInv'
<1> SUFFICES ASSUME Types, Coherent, LossInv, PermitInv, [Next]_vars PROVE PermitInv'
  BY Zenon DEF RequestInv
<1> USE ResourceAssumption
<1>0. Lost => Lost'
  BY LossIsKept, Zenon
<1>1. ASSUME NEW r \in Request, Arrive(r) PROVE PermitInv'
  <2>1. pc[r] = "idle" /\ sent' = sent /\ decided' = decided
    BY <1>1, Zenon DEF Arrive, Get, GetRefused, Put, SetPolicy, GetPolicy, Start
  <2>2. \A s \in Request \ {r} : tok'[s] = tok[s] /\ path'[s] = path[s] /\ pc'[s] = pc[s]
    BY <1>1 DEF Arrive, Get, GetRefused, Put, SetPolicy, GetPolicy, Start, Goto, End, Types
  <2>3. pc'[r] # "read"
    BY <1>1 DEF Arrive, Get, GetRefused, Put, SetPolicy, GetPolicy, Start, Goto, End, Types
  <2> QED
    BY <1>0, <2>1, <2>2, <2>3 DEF PermitInv, ReleasedAsPermitted, Lost, Coherent
<1>2. ASSUME NEW r \in Request, Approve(r) \/ Deny(r) \/ EvaluateFails(r) PROVE PermitInv'
  <2>1. /\ pc[r] = "policy" /\ sent[r] = None /\ tok[r] \in Trusted
        /\ decided' = [decided EXCEPT ![r] = policy]
        /\ UNCHANGED <<tok, path, sent>>
    BY <1>2, Zenon DEF Approve, Deny, EvaluateFails, Evaluates, Coherent, args
  <2>2. \A s \in Request \ {r} : pc'[s] = pc[s] /\ decided'[s] = decided[s]
    BY <1>2, <2>1 DEF Approve, Deny, EvaluateFails, Goto, End, Types
  <2>3. pc'[r] = "read" => \/ policy \in Policy /\ Verdict[<<policy, tok[r], path[r]>>] = "allow"
                           \/ policy = Torn
    BY <1>2 DEF Approve, Deny, EvaluateFails, Says, Goto, End, Types
  <2>5. policy = Torn => Lost
    <3>1. \A s \in Request : ~(kind[s] = "set" /\ pc[s] = "write")
      BY <1>2, Zenon DEF Approve, Deny, EvaluateFails, Evaluates, EngineHeld
    <3> QED
      BY <3>1, StrayIsLost, Zenon DEF LossInv
  <2>4. decided'[r] = policy
    BY <2>1, Zenon DEF Types
  <2> QED
    BY <1>0, <2>1, <2>2, <2>3, <2>4, <2>5 DEF PermitInv, ReleasedAsPermitted, Lost
<1>3. ASSUME NEW r \in Request, Answer(r) PROVE PermitInv'
  <2>1. /\ pc[r] = "read" /\ tok[r] \in Trusted
        /\ pc' = [pc EXCEPT ![r] = "done"]
        /\ UNCHANGED <<tok, path, decided>>
    BY <1>3, Zenon DEF Answer, End, Coherent, args
  <2>2. /\ \A s \in Request \ {r} : sent'[s] = sent[s]
        /\ sent'[r] = None \/ \E c : sent'[r] = <<c, Key[tok[r]]>>
    BY <1>3 DEF Answer, Types, Coherent
  <2>3. \A s \in Request : pc'[s] = "read" => pc[s] = "read"
    BY <2>1, Zenon DEF Types
  <2> QED
    BY <1>0, <2>1, <2>2, <2>3 DEF PermitInv, ReleasedAsPermitted, Lost
<1>4. ASSUME NEW r \in Request,
             SetLocked(r) \/ ShowLocked(r) \/ Shown(r) \/ Written(r) \/ WriteFails(r) \/ Drop(r)
      PROVE  PermitInv'
  <2>1. /\ UNCHANGED <<tok, path, sent, decided>>
        /\ \A s \in Request : pc'[s] = "read" => pc[s] = "read"
    BY <1>4 DEF SetLocked, ShowLocked, Shown, Written, WriteFails, Drop, Goto, End, Types, args
  <2> QED
    BY <1>0, <2>1, Zenon DEF PermitInv, ReleasedAsPermitted, Lost
<1>5. ASSUME NEW r \in Request, Truncate(r) \/ Fill(r) PROVE PermitInv'
  <2>1. UNCHANGED <<tok, path, sent, decided, pc>>
    BY <1>5, Zenon DEF Truncate, Fill, args, answers
  <2> QED
    BY <1>0, <2>1, Zenon DEF PermitInv, ReleasedAsPermitted, Lost
<1>6. CASE Crash
  <2>1. /\ UNCHANGED <<tok, path, sent, decided>>
        /\ \A s \in Request : pc'[s] = "read" => pc[s] = "read"
    BY <1>6, Zenon DEF Crash, Types, args
  <2> QED
    BY <1>0, <2>1, Zenon DEF PermitInv, ReleasedAsPermitted, Lost
<1>7. CASE UNCHANGED vars
  <2>1. UNCHANGED <<tok, path, sent, decided, pc>>
    BY <1>7, Zenon DEF vars, args, answers
  <2> QED
    BY <1>0, <2>1, Zenon DEF PermitInv, ReleasedAsPermitted, Lost
<1> QED
  BY <1>1, <1>2, <1>3, <1>4, <1>5, <1>6, <1>7, Zenon DEF Next, Proceed

\* A resource leaves the KBS only for a token that was verified, encrypted for the
\* key of that token, and as a whole policy allowed it, or what is left of one whose
\* request failed or was cut off: whatever the other requests write, and also with
\* writes that nobody waits for any more.
THEOREM ReleasesPermitted == Spec => []ReleasedAsPermitted
<1>1. Init => PermitInv /\ LossInv
  BY ResourceAssumption DEF Init, PermitInv, ReleasedAsPermitted, LossInv
<1> QED
  BY <1>1, PermitStep, LossStep, RequestInvariant, PTL DEF Spec, PermitInv

-----------------------------------------------------------------------------
(* The files of the repository.                                            *)

\* A write of x that no later one has made good.
Doubted(r, x) == kind[r] = "put" /\ path[r] = x /\ doubt[r] # "none"

\* A write under way is in doubt; one that met no other one has the file for
\* itself, so that the file is torn from its truncation until it is filled.
TornInv ==
    /\ \A x \in Path : repo[x] = Torn => \E r \in Request : Doubted(r, x)
    /\ \A r \in Request : kind[r] = "put" /\ job[r] # "none" =>
         /\ doubt[r] # "none"
         /\ doubt[r] = "alone" =>
              /\ \A s \in Writers(path[r]) : s = r
              /\ job[r] = "filled" => repo[path[r]] # Torn
              /\ job[r] = "truncated" => repo[path[r]] = Torn

\* A step that leaves the files, and what is in doubt, alone.
LEMMA TornKept ==
    ASSUME TornInv, UNCHANGED <<repo, doubt>>,
           \A r \in Request : /\ kind[r] = "put" => kind'[r] = "put" /\ path'[r] = path[r]
                              /\ kind'[r] = "put" /\ job'[r] # "none" => kind[r] = "put" /\ job'[r] = job[r]
    PROVE  TornInv'
<1>1. ASSUME NEW x \in Path, repo'[x] = Torn PROVE \E r \in Request : Doubted(r, x)'
  <2>1. PICK r \in Request : Doubted(r, x)
    BY <1>1, Zenon DEF TornInv
  <2>2. Doubted(r, x)'
    BY <2>1, Zenon DEF Doubted
  <2> QED
    BY <2>2, Zenon
<1>2. ASSUME NEW r \in Request, kind'[r] = "put", job'[r] # "none"
      PROVE  /\ doubt'[r] # "none"
             /\ doubt'[r] = "alone" =>
                  /\ \A s \in Writers(path[r])' : s = r
                  /\ job'[r] = "filled" => repo'[path'[r]] # Torn
                  /\ job'[r] = "truncated" => repo'[path'[r]] = Torn
  <2>1. kind[r] = "put" /\ job'[r] = job[r] /\ path'[r] = path[r]
    BY <1>2, Zenon
  <2>2. \A s \in Writers(path[r])' : s \in Writers(path[r])
    BY <2>1, Zenon DEF Writers
  <2> QED
    BY <1>2, <2>1, <2>2, Zenon DEF TornInv
<1>3. \A r \in Request : kind'[r] = "put" /\ job'[r] # "none" => path'[r] = path[r]
  BY Zenon
<1> QED
  BY <1>1, <1>2, <1>3, Zenon DEF TornInv

\* Every step keeps the cause of a torn file.
LEMMA TornStep == RequestInv /\ TornInv /\ [Next]_vars => TornInv'
<1> SUFFICES ASSUME Types, Coherent, TornInv, [Next]_vars PROVE TornInv'
  BY Zenon DEF RequestInv
<1> USE ResourceAssumption
<1>1. ASSUME NEW r \in Request, Arrive(r) PROVE TornInv'
  <2>1. pc[r] = "idle" /\ kind[r] = "none" /\ job[r] = "none" /\ repo' = repo
    BY <1>1, Zenon DEF Arrive, Get, GetRefused, Put, SetPolicy, GetPolicy, Start, Coherent, files
  <2>2. \A s \in Request \ {r} : kind'[s] = kind[s] /\ path'[s] = path[s] /\ job'[s] = job[s]
    BY <1>1 DEF Arrive, Get, GetRefused, Put, SetPolicy, GetPolicy, Start, Types
  <2>3. CASE doubt' = doubt /\ job' = job
    BY <2>1, <2>2, <2>3, TornKept, Zenon
  <2>4. CASE ~(doubt' = doubt /\ job' = job)
    <3>1. PICK x \in Path, d \in Data, b \in {AdminJwt, None} :
            /\ Start(r, "put", x, d, None)
            /\ job' = [job EXCEPT ![r] = "queued"]
            /\ doubt' = IF Writers(x) = {}
                          THEN [doubt EXCEPT ![r] = "alone"]
                          ELSE [s \in Request |-> IF s \in Writers(x) \cup {r} THEN "met" ELSE doubt[s]]
      BY <1>1, <2>4, Zenon DEF Arrive, Get, GetRefused, Put, SetPolicy, GetPolicy, history
    <3>2. kind'[r] = "put" /\ path'[r] = x /\ job'[r] = "queued"
      BY <3>1 DEF Start, Types
    <3>3. \A s \in Request : /\ doubt[s] # "none" => doubt'[s] # "none"
                             /\ doubt'[s] \in {doubt[s], "met"} \/ s = r
                             /\ s \in Writers(x) => doubt'[s] = "met"
      BY <3>1 DEF Types
    <3>4. doubt'[r] = IF Writers(x) = {} THEN "alone" ELSE "met"
      BY <3>1 DEF Types
    <3>5. Writers(x)' = Writers(x) \cup {r} /\ r \notin Writers(x)
      BY <2>1, <2>2, <3>2 DEF Writers
    <3>7. ASSUME NEW y \in Path, repo'[y] = Torn PROVE \E s \in Request : Doubted(s, y)'
      <4>1. PICK s \in Request : Doubted(s, y)
        BY <2>1, <3>7, Zenon DEF TornInv
      <4>2. Doubted(s, y)'
        BY <2>1, <2>2, <3>3, <4>1, Zenon DEF Doubted
      <4> QED
        BY <4>2, Zenon
    <3>8. ASSUME NEW s \in Request, kind'[s] = "put", job'[s] # "none"
          PROVE  /\ doubt'[s] # "none"
                 /\ doubt'[s] = "alone" =>
                      /\ \A q \in Writers(path[s])' : q = s
                      /\ job'[s] = "filled" => repo'[path'[s]] # Torn
                      /\ job'[s] = "truncated" => repo'[path'[s]] = Torn
      <4>1. CASE s = r
        BY <3>2, <3>4, <3>5, <4>1
      <4>2. CASE s # r /\ path[s] = x
        BY <2>2, <3>3, <3>8, <4>2, Zenon DEF Writers
      <4>3. CASE s # r /\ path[s] # x
        <5>1. kind[s] = "put" /\ job[s] # "none" /\ job'[s] = job[s] /\ path'[s] = path[s]
          BY <2>2, <3>8, <4>3, Zenon
        <5>2. doubt'[s] = doubt[s] \/ doubt'[s] = "met"
          BY <3>3, <4>3, Zenon
        <5>3. Writers(path[s])' = Writers(path[s])
          <6>1. ASSUME NEW q \in Request PROVE q \in Writers(path[s])' <=> q \in Writers(path[s])
            BY <2>1, <2>2, <3>2, <4>3, <5>1 DEF Writers
          <6> QED
            BY <6>1, Zenon DEF Writers
        <5> QED
          BY <2>1, <5>1, <5>2, <5>3, Zenon DEF TornInv
      <4> QED
        BY <4>1, <4>2, <4>3, Zenon
    <3> QED
      BY <3>7, <3>8, Zenon DEF TornInv
  <2> QED
    BY <2>3, <2>4, Zenon
<1>2. ASSUME NEW r \in Request,
             \/ Approve(r) \/ Deny(r) \/ EvaluateFails(r) \/ Answer(r)
             \/ SetLocked(r) \/ ShowLocked(r) \/ Shown(r)
      PROVE  TornInv'
  <2>1. UNCHANGED <<repo, doubt, kind, path>> /\ kind[r] # "put"
    BY <1>2, ZenonT(40) DEF Approve, Deny, EvaluateFails, Evaluates, Answer, SetLocked, ShowLocked, Shown,
                Coherent, files, args, history
  <2>2. \A s \in Request \ {r} : job'[s] = job[s]
    BY <1>2 DEF Approve, Deny, EvaluateFails, Evaluates, Answer, SetLocked, ShowLocked, Shown, Types
  <2> QED
    BY <2>1, <2>2, TornKept, Zenon
<1>3. ASSUME NEW r \in Request, Truncate(r) \/ Fill(r) PROVE TornInv'
  <2>1. /\ UNCHANGED <<kind, path, doubt>>
        /\ job[r] # "none" /\ \A s \in Request \ {r} : job'[s] = job[s]
        /\ Truncate(r) => job[r] = "queued" /\ job'[r] = "truncated"
        /\ Fill(r) => job[r] = "truncated" /\ job'[r] = "filled"
    BY <1>3, SMTT(30) DEF Truncate, Fill, Types, args, history
  <2>2. CASE kind[r] # "put"
    <3>1. repo' = repo
      BY <1>3, <2>2, Zenon DEF Truncate, Fill, Write
    <3> QED
      BY <2>1, <2>2, <3>1, TornKept, Zenon
  <2>3. CASE kind[r] = "put"
    <3>1. /\ path[r] \in Path /\ val[r] # Torn /\ Doubted(r, path[r]) /\ r \in Writers(path[r])
      <4>1. path[r] \in Path /\ val[r] \in Data
        BY <2>1, <2>3 DEF Coherent
      <4>2. doubt[r] # "none"
        BY <2>1, <2>3, Zenon DEF TornInv
      <4> QED
        BY <2>1, <2>3, <4>1, <4>2 DEF Doubted, Writers
    <3>2. PICK c \in {val[r], Torn} : /\ repo' = [repo EXCEPT ![path[r]] = c]
                                      /\ Truncate(r) => c = Torn
                                      /\ Fill(r) /\ c = Torn => repo[path[r]] # Torn
      BY <1>3, <2>1, <2>3, <3>1, Zenon DEF Truncate, Fill, Write, Content
    <3>3. /\ repo'[path[r]] = c
          /\ \A x \in Path \ {path[r]} : repo'[x] = repo[x]
      BY <3>1, <3>2, Zenon DEF Types
    <3>4. ASSUME NEW s \in Request PROVE Writers(path[s])' = Writers(path[s])
      <4>1. job'[r] # "none"
        BY <1>3, <2>1
      <4>2. ASSUME NEW q \in Request PROVE q \in Writers(path[s])' <=> q \in Writers(path[s])
        BY <2>1, <4>1, Zenon DEF Writers
      <4> QED
        BY <4>2, Zenon DEF Writers
    <3>5. ASSUME NEW y \in Path, repo'[y] = Torn PROVE \E s \in Request : Doubted(s, y)'
      <4>1. PICK s \in Request : Doubted(s, y)
        BY <3>1, <3>3, <3>5, Zenon DEF TornInv
      <4>2. Doubted(s, y)'
        BY <2>1, <4>1, Zenon DEF Doubted
      <4> QED
        BY <4>2, Zenon
    <3>6. ASSUME NEW s \in Request, kind'[s] = "put", job'[s] # "none"
          PROVE  /\ doubt'[s] # "none"
                 /\ doubt'[s] = "alone" =>
                      /\ \A q \in Writers(path[s])' : q = s
                      /\ job'[s] = "filled" => repo'[path'[s]] # Torn
                      /\ job'[s] = "truncated" => repo'[path'[s]] = Torn
      <4>1. CASE s = r
        <5>1. doubt[r] # "none" /\ (doubt[r] = "alone" => \A q \in Writers(path[r]) : q = r)
          BY <2>1, <2>3, Zenon DEF TornInv
        <5>2. doubt[r] = "alone" /\ Fill(r) => repo[path[r]] = Torn
          BY <2>1, <2>3, Zenon DEF TornInv
        <5>3. doubt[r] = "alone" => /\ Truncate(r) => c = Torn
                                    /\ Fill(r) => c # Torn
          BY <3>1, <3>2, <5>2, Zenon
        <5> QED
          BY <1>3, <2>1, <3>3, <3>4, <4>1, <5>1, <5>3
      <4>2. CASE s # r
        <5>1. kind[s] = "put" /\ job'[s] = job[s] /\ job[s] # "none" /\ s \in Writers(path[s]) /\ path[s] \in Path
          BY <2>1, <3>6, <4>2, Zenon DEF Writers, Coherent
        <5>2. path[s] = path[r] => doubt[s] # "alone"
          BY <3>1, <4>2, <5>1, Zenon DEF TornInv
        <5>3. path[s] # path[r] => repo'[path[s]] = repo[path[s]]
          BY <3>3, <5>1, Zenon
        <5> QED
          BY <2>1, <3>4, <5>1, <5>2, <5>3, Zenon DEF TornInv
      <4> QED
        BY <4>1, <4>2, Zenon
    <3> QED
      BY <2>1, <3>5, <3>6, Zenon DEF TornInv
  <2> QED
    BY <2>2, <2>3, Zenon
<1>4. ASSUME NEW r \in Request, Written(r) \/ WriteFails(r) \/ Drop(r) PROVE TornInv'
  <2>1. /\ UNCHANGED <<repo, kind, path>>
        /\ \A s \in Request \ {r} : job'[s] = job[s]
        /\ job'[r] \in {"none", job[r]}
    BY <1>4, SMTT(30) DEF Written, WriteFails, Drop, Types, files, args
  <2>2. CASE doubt' = doubt
    BY <2>1, <2>2, TornKept, ZenonT(40)
  <2>3. CASE doubt' # doubt
    <3>1. /\ Written(r) /\ kind[r] # "set" /\ pc[r] = "write" /\ doubt[r] = "alone"
          /\ doubt' = [s \in Request |-> IF path[s] = path[r] THEN "none" ELSE doubt[s]]
      <4>1. Written(r) /\ Acknowledge(r) /\ kind[r] # "set" /\ pc[r] = "write"
        BY <1>4, <2>3, Zenon DEF Written, WriteFails, Drop, Acknowledge, history
      <4>2. doubt[r] = "alone"
        BY <2>3, <4>1 DEF Acknowledge, Types
      <4> QED
        BY <4>1, <4>2 DEF Acknowledge
    <3>2. /\ job[r] = "filled" /\ job'[r] = "none" /\ kind[r] = "put" /\ path[r] \in Path
      BY <3>1 DEF Written, Coherent, Types
    <3>3. repo[path[r]] # Torn /\ \A s \in Writers(path[r]) : s = r
      BY <3>1, <3>2 DEF TornInv
    <3>4. \A s \in Request : doubt'[s] = IF path[s] = path[r] THEN "none" ELSE doubt[s]
      BY <3>1
    <3>5. ASSUME NEW y \in Path, repo'[y] = Torn PROVE \E s \in Request : Doubted(s, y)'
      <4>1. y # path[r] /\ repo[y] = Torn
        BY <2>1, <3>3, <3>5, Zenon
      <4>2. PICK s \in Request : Doubted(s, y)
        BY <4>1, Zenon DEF TornInv
      <4>3. Doubted(s, y)'
        BY <2>1, <3>4, <4>1, <4>2 DEF Doubted
      <4> QED
        BY <4>3, Zenon
    <3>6. ASSUME NEW s \in Request, kind'[s] = "put", job'[s] # "none"
          PROVE  /\ doubt'[s] # "none"
                 /\ doubt'[s] = "alone" =>
                      /\ \A q \in Writers(path[s])' : q = s
                      /\ job'[s] = "filled" => repo'[path'[s]] # Torn
                      /\ job'[s] = "truncated" => repo'[path'[s]] = Torn
      <4>1. s # r /\ kind[s] = "put" /\ job'[s] = job[s] /\ s \in Writers(path[s])
        BY <2>1, <3>2, <3>6, Zenon DEF Writers
      <4>2. path[s] # path[r] /\ doubt'[s] = doubt[s]
        BY <3>3, <3>4, <4>1
      <4>3. \A q \in Writers(path[s])' : q \in Writers(path[s])
        BY <2>1, Zenon DEF Writers
      <4> QED
        BY <2>1, <3>6, <4>1, <4>2, <4>3, Zenon DEF TornInv
    <3> QED
      BY <2>1, <3>5, <3>6, Zenon DEF TornInv
  <2> QED
    BY <2>2, <2>3, Zenon
<1>5. CASE Crash
  <2>1. UNCHANGED <<repo, doubt, kind, path>> /\ \A s \in Request : job'[s] = "none"
    BY <1>5, Zenon DEF Crash, files, args, history
  <2> QED
    BY <2>1, TornKept, Zenon
<1>6. CASE UNCHANGED vars
  <2>1. UNCHANGED <<repo, doubt, kind, path, job>>
    BY <1>6, Zenon DEF vars, files, args, history
  <2> QED
    BY <2>1, TornKept, Zenon
<1> QED
  BY <1>1, <1>2, <1>3, <1>4, <1>5, <1>6, Zenon DEF Next, Proceed

\* A file of the repository is torn only for a write that is not finished, failed
\* or was cut off, or for two that were under way together, and no longer than
\* until a write that met no other one is acknowledged.
THEOREM TornCaused == Spec => []TornHasCause
<1>1. Init => TornInv
  BY ResourceAssumption DEF Init, TornInv
<1>2. TornInv => TornHasCause
  BY Zenon DEF TornInv, TornHasCause, Doubted
<1> QED
  BY <1>1, <1>2, TornStep, RequestInvariant, PTL DEF Spec

-----------------------------------------------------------------------------
(* The policy file, as long as who sets a policy waits for its write.      *)

\* No client leaves while the policy that it set is written: only then does the
\* Mutex that the request holds protect the file until the write is over.
SetterWaits == \A r \in Request : kind[r] = "set" /\ pc[r] = "write" => ~Drop(r)

\* One request at a time has the policy file, and the others see it whole.
EngineInv ==
    /\ \A r \in Request : kind[r] = "set" /\ job[r] # "none" => pc[r] = "write"
    /\ \A r, s \in Request : /\ kind[r] = "set" /\ pc[r] = "write"
                             /\ kind[s] = "set" /\ pc[s] = "write"
                             => r = s
    /\ \A r \in Request : kind[r] = "set" =>
         /\ job[r] = "truncated" => policy = Torn
         /\ job[r] = "filled" => policy = val[r]

\* The inductive invariant of the policy engine.
PolicyInv == EngineInv /\ AcknowledgedPolicyGoverns

\* A step that leaves the policy file and the requests to set it alone.
LEMMA PolicyKept ==
    ASSUME Types, PolicyInv, UNCHANGED <<policy, last, settled>>,
           \A r \in Request :
             /\ kind[r] = "set" => kind'[r] = "set" /\ val'[r] = val[r]
             /\ kind'[r] = "set" =>
                  /\ pc'[r] = "write" => kind[r] = "set" /\ pc[r] = "write"
                  /\ job'[r] # "none" => pc'[r] = "write" /\ job'[r] = job[r]
             /\ kind[r] = "set" /\ out[r] \in {"none", "failed", "dropped"}
                  => out'[r] \in {"none", "failed", "dropped"}
    PROVE  PolicyInv'
<1>1. EngineInv'
  BY DEF PolicyInv, EngineInv
<1>2. AcknowledgedPolicyGoverns'
  BY Zenon DEF PolicyInv, AcknowledgedPolicyGoverns, Pending
<1> QED
  BY <1>1, <1>2, Zenon DEF PolicyInv

\* Every step keeps it, as long as the one who sets a policy waits for the write.
LEMMA PolicyStep == RequestInv /\ PolicyInv /\ [Next]_vars /\ [SetterWaits]_vars => PolicyInv'
<1> SUFFICES ASSUME Types, Coherent, PolicyInv, [Next]_vars, [SetterWaits]_vars PROVE PolicyInv'
  BY Zenon DEF RequestInv
<1> USE ResourceAssumption
<1>1. ASSUME NEW r \in Request, Arrive(r) PROVE PolicyInv'
  <2>1. pc[r] = "idle" /\ kind[r] = "none" /\ job[r] = "none" /\ UNCHANGED <<policy, last, settled>>
    BY <1>1, Zenon DEF Arrive, Get, GetRefused, Put, SetPolicy, GetPolicy, Start, Coherent, files, history
  <2>2. \A s \in Request \ {r} : /\ kind'[s] = kind[s] /\ val'[s] = val[s] /\ pc'[s] = pc[s]
                                 /\ out'[s] = out[s] /\ job'[s] = job[s]
    BY <1>1 DEF Arrive, Get, GetRefused, Put, SetPolicy, GetPolicy, Start, Goto, End, Types
  <2>3. kind'[r] = "set" => pc'[r] # "write" /\ job'[r] = "none"
    BY <1>1, <2>1 DEF Arrive, Get, GetRefused, Put, SetPolicy, GetPolicy, Start, Goto, End, Types
  <2> QED
    BY <2>1, <2>2, <2>3, PolicyKept, ZenonT(40) DEF PolicyInv, EngineInv
<1>2. ASSUME NEW r \in Request,
             \/ Approve(r) \/ Deny(r) \/ EvaluateFails(r) \/ Answer(r)
             \/ ShowLocked(r) \/ Shown(r)
      PROVE  PolicyInv'
  <2>1. /\ UNCHANGED <<policy, last, settled, kind, val, job>> /\ kind[r] # "set"
    BY <1>2, ZenonT(40) DEF Approve, Deny, EvaluateFails, Evaluates, Answer, ShowLocked, Shown,
                Coherent, files, args, history
  <2>2. \A s \in Request \ {r} : pc'[s] = pc[s] /\ out'[s] = out[s]
    BY <1>2 DEF Approve, Deny, EvaluateFails, Evaluates, Answer, ShowLocked, Shown, Goto, End, Types
  <2> QED
    BY <2>1, <2>2, PolicyKept, Zenon DEF PolicyInv, EngineInv
<1>3. ASSUME NEW r \in Request, SetLocked(r) PROVE PolicyInv'
  <2>1. /\ pc[r] = "set" /\ job[r] = "none" /\ UNCHANGED <<policy, last, settled, kind, val>>
        /\ \A s \in Request : ~(kind[s] = "set" /\ pc[s] = "write")
    BY <1>3, Zenon DEF SetLocked, EngineHeld, Coherent, files, args, history
  <2>2. CASE val[r] = BadPolicy
    <3>1. /\ job' = job /\ pc'[r] = "done" /\ out'[r] = "failed"
          /\ \A s \in Request \ {r} : pc'[s] = pc[s] /\ out'[s] = out[s]
      BY <1>3, <2>2 DEF SetLocked, End, Types
    <3> QED
      BY <2>1, <3>1, PolicyKept, Zenon DEF PolicyInv, EngineInv
  <2>3. CASE val[r] # BadPolicy
    <3>1. /\ out' = out /\ pc'[r] = "write" /\ job'[r] = "queued"
          /\ \A s \in Request \ {r} : pc'[s] = pc[s] /\ job'[s] = job[s]
      BY <1>3, <2>3 DEF SetLocked, Goto, Types
    <3>2. EngineInv'
      BY <2>1, <3>1 DEF PolicyInv, EngineInv
    <3>3. AcknowledgedPolicyGoverns'
      BY <2>1, <3>1, Zenon DEF PolicyInv, AcknowledgedPolicyGoverns, Pending
    <3> QED
      BY <3>2, <3>3, Zenon DEF PolicyInv
  <2> QED
    BY <2>2, <2>3, Zenon
<1>4. ASSUME NEW r \in Request, Truncate(r) \/ Fill(r) PROVE PolicyInv'
  <2>1. /\ UNCHANGED <<last, settled, kind, val, pc, out>>
        /\ job[r] # "none" /\ \A s \in Request \ {r} : job'[s] = job[s]
        /\ Truncate(r) => job[r] = "queued" /\ job'[r] = "truncated"
        /\ Fill(r) => job[r] = "truncated" /\ job'[r] = "filled"
    BY <1>4, SMTT(30) DEF Truncate, Fill, Types, args, answers, history
  <2>2. CASE kind[r] = "set"
    <3>1. /\ pc[r] = "write" /\ out[r] = "none" /\ r \notin settled /\ val[r] \in Policy
          /\ \A s \in Request \ {r} : kind[s] = "set" => job[s] = "none"
      BY <2>1, <2>2 DEF PolicyInv, EngineInv, Coherent
    <3>2. /\ Truncate(r) => policy' = Torn
          /\ Fill(r) => policy' = val[r]
      BY <2>1, <2>2, Zenon DEF Truncate, Fill, Write, Content, PolicyInv, EngineInv
    <3>3. EngineInv'
      BY <1>4, <2>1, <3>1, <3>2, ZenonT(40) DEF PolicyInv, EngineInv
    <3>4. AcknowledgedPolicyGoverns'
      BY <1>4, <2>1, <2>2, <3>1, <3>2, Zenon DEF AcknowledgedPolicyGoverns, Pending
    <3> QED
      BY <3>3, <3>4, Zenon DEF PolicyInv
  <2>3. CASE kind[r] # "set"
    <3>1. policy' = policy
      BY <1>4, <2>1, <2>3, Zenon DEF Truncate, Fill, Write, Coherent
    <3> QED
      BY <2>1, <2>3, <3>1, PolicyKept, Zenon DEF PolicyInv, EngineInv
  <2> QED
    BY <2>2, <2>3, Zenon
<1>5. ASSUME NEW r \in Request, Written(r) PROVE PolicyInv'
  <2>1. /\ job[r] = "filled" /\ UNCHANGED <<policy, kind, val>>
        /\ job'[r] = "none" /\ \A s \in Request \ {r} : pc'[s] = pc[s] /\ job'[s] = job[s] /\ out'[s] = out[s]
    BY <1>5 DEF Written, End, Types, files, args
  <2>2. CASE kind[r] = "set"
    <3>1. /\ pc[r] = "write" /\ pc'[r] = "done" /\ policy = val[r] /\ last' = val[r]
      BY <1>5, <2>1, <2>2 DEF Written, Acknowledge, End, Types, PolicyInv, EngineInv
    <3>2. EngineInv'
      BY <2>1, <3>1 DEF PolicyInv, EngineInv
    <3> QED
      BY <2>1, <3>1, <3>2, Zenon DEF PolicyInv, AcknowledgedPolicyGoverns
  <2>3. CASE kind[r] # "set"
    <3>1. UNCHANGED <<last, settled>>
      BY <1>5, <2>3, Zenon DEF Written, Acknowledge, history
    <3> QED
      BY <2>1, <2>3, <3>1, PolicyKept, Zenon DEF PolicyInv, EngineInv
  <2> QED
    BY <2>2, <2>3, Zenon
<1>6. ASSUME NEW r \in Request, WriteFails(r) PROVE PolicyInv'
  <2>1. /\ UNCHANGED <<policy, last, settled, kind, val>>
        /\ job[r] # "none" /\ job'[r] = "none"
        /\ \A s \in Request \ {r} : pc'[s] = pc[s] /\ job'[s] = job[s] /\ out'[s] = out[s]
        /\ out'[r] \in {out[r], "failed"} /\ pc'[r] \in {pc[r], "done"}
    BY <1>6 DEF WriteFails, End, Types, files, args, history
  <2> QED
    BY <2>1, PolicyKept, ZenonT(40) DEF PolicyInv, EngineInv
<1>7. ASSUME NEW r \in Request, Drop(r) PROVE PolicyInv'
  <2>1. /\ UNCHANGED <<policy, last, settled, kind, val, job>>
        /\ \A s \in Request \ {r} : pc'[s] = pc[s] /\ out'[s] = out[s]
        /\ out'[r] = "dropped" /\ pc'[r] = "done" /\ pc[r] # "done"
    BY <1>7, Zenon DEF Drop, End, Types, files, args, history
  <2>2. pc' # pc
    BY <2>1, Zenon
  <2>3. ~(kind[r] = "set" /\ pc[r] = "write")
    BY <1>7, <2>2, Zenon DEF SetterWaits, vars
  <2> QED
    BY <2>1, <2>3, PolicyKept, Zenon DEF PolicyInv, EngineInv
<1>8. CASE Crash
  <2>1. /\ UNCHANGED <<policy, last, settled, kind, val>>
        /\ \A s \in Request : /\ pc'[s] \in {"idle", "done"} /\ job'[s] = "none"
                              /\ out'[s] \in {out[s], "dropped"}
    BY <1>8, Zenon DEF Crash, Types, files, args, history
  <2> QED
    BY <2>1, PolicyKept, Zenon
<1>9. CASE UNCHANGED vars
  <2>1. UNCHANGED <<policy, last, settled, kind, val, pc, job, out>>
    BY <1>9, Zenon DEF vars, files, args, answers, history
  <2> QED
    BY <2>1, PolicyKept, Zenon DEF PolicyInv, EngineInv
<1> QED
  BY <1>1, <1>2, <1>3, <1>4, <1>5, <1>6, <1>7, <1>8, <1>9, Zenon DEF Next, Proceed

\* It always holds then.
LEMMA PolicyInvariant == Spec /\ [][SetterWaits]_vars => []PolicyInv
<1>1. Init => PolicyInv
  BY Zenon DEF Init, PolicyInv, EngineInv, AcknowledgedPolicyGoverns
<1> QED
  BY <1>1, PolicyStep, RequestInvariant, PTL DEF Spec

\* In every behaviour in which who sets a policy waits for the write, the policy
\* last acknowledged governs until another request to set one is under way, has
\* failed or was cut off.
THEOREM PolicyGoverns == Spec /\ [][SetterWaits]_vars => []AcknowledgedPolicyGoverns
BY PolicyInvariant, PTL DEF PolicyInv

\* While nobody holds the engine, the policy in force is the one in the file.
LEMMA InForceUnlessHeld ==
    ASSUME EngineInv, ~EngineHeld
    PROVE  InForce = policy
BY Zenon DEF EngineInv, EngineHeld, InForce

\* The type of the abstract policy.
InForceType == InForce \in Policy \cup {Torn}

\* What is in force is a policy, or the file is torn.
LEMMA InForceTyped == RequestInv => InForceType
<1> USE DEF InForceType
<1> SUFFICES ASSUME Types, Coherent PROVE InForce \in Policy \cup {Torn}
  BY Zenon DEF RequestInv
<1>1. CASE \E r \in Request : kind[r] = "set" /\ job[r] = "truncated"
  <2> DEFINE w == CHOOSE r \in Request : kind[r] = "set" /\ job[r] = "truncated"
  <2>1. w \in Request /\ kind[w] = "set" /\ job[w] = "truncated"
    BY <1>1, Zenon
  <2>2. val[w] \in Policy
    BY <2>1, Zenon DEF Coherent
  <2> QED
    BY <1>1, <2>2, Zenon DEF InForce
<1>2. CASE ~\E r \in Request : kind[r] = "set" /\ job[r] = "truncated"
  BY <1>2, Zenon DEF InForce, Types
<1> QED
  BY <1>1, <1>2, Zenon

\* A request is decided at once by the policy in force; every other step sets or
\* loses a policy, or does nothing that a request to read could see.
LEMMA AbstractStep ==
    RequestInv /\ InForceType' /\ EngineInv /\ [Next]_vars => [Abstract!Next]_(Abstract!vars)
<1> SUFFICES ASSUME Types, Coherent, InForceType', EngineInv, [Next]_vars
             PROVE  [Abstract!Next]_(Abstract!vars)
  BY Zenon DEF RequestInv
<1>1. InForce' \in Policy \cup {Torn}
  BY Zenon DEF InForceType
<1>2. CASE decided' = decided
  BY <1>1, <1>2, Zenon DEF Abstract!Next, Abstract!Set, Abstract!Lose
<1>3. ASSUME NEW r \in Request, Evaluates(r), UNCHANGED policy PROVE Abstract!Next
  <2>1. InForce = policy
    BY <1>3, InForceUnlessHeld, Zenon DEF Evaluates
  <2>2. InForce' = InForce
    BY <1>3, Zenon DEF Evaluates, InForce, args
  <2>3. decided[r] = NoPolicy /\ decided' = [decided EXCEPT ![r] = policy]
    BY <1>3, ZenonT(40) DEF Evaluates, Coherent
  <2> QED
    BY <2>1, <2>2, <2>3, Zenon DEF Abstract!Next, Abstract!Decide
<1>4. decided' = decided \/ \E r \in Request : Evaluates(r) /\ UNCHANGED policy
  BY DEF Next, vars, Arrive, Get, GetRefused, Put, SetPolicy, GetPolicy, Proceed, Approve, Deny,
         EvaluateFails, Evaluates, Answer, SetLocked, ShowLocked, Shown, Truncate, Fill, Written,
         WriteFails, Drop, Crash, answers, files
<1> QED
  BY <1>2, <1>3, <1>4, Zenon DEF Abstract!vars

\* The policy file, its Mutex and the blocking pool implement a policy that
\* changes at once, in every behaviour in which who sets a policy waits for the
\* write.
THEOREM PolicyRefined == Spec /\ [][SetterWaits]_vars => ImplementsPolicy
<1>1. Init => Abstract!Init
  BY Zenon DEF Init, Abstract!Init, InForce
<1> QED
  BY <1>1, AbstractStep, InForceTyped, RequestInvariant, PolicyInvariant, PTL
     DEF Spec, ImplementsPolicy, Abstract!Spec, PolicyInv
====
