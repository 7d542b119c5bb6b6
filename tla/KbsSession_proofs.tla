------------------------- MODULE KbsSession_proofs -------------------------
(***************************************************************************)
(* Proofs about KbsSession, for every number of requests, sessions, keys,  *)
(* workers and buckets.                                                    *)
(***************************************************************************)
EXTENDS KbsSession, FiniteSetTheorems, TLAPS

-----------------------------------------------------------------------------
(* Type correctness.                                                       *)

\* The middleware and the handlers keep the metrics numbers.
LEMMA MetricsType ==
    ASSUME NEW mm \in [Metric -> Int]
    PROVE  /\ \A n \in Metric : Inc(mm, n) \in [Metric -> Int]
           /\ Enter(mm) \in [Metric -> Int]
           /\ Leave(mm) \in [Metric -> Int]
BY DEF Metric, Inc, Enter, Leave

\* A handler that returns has the type of a handler.
LEMMA FinishType ==
    ASSUME TypeOK, NEW r \in Req, NEW p, NEW o \in Outcome,
           NEW mm \in [Metric -> Int], Finish(r, p, o, mm)
    PROVE  /\ pc' \in [Req -> Waiting \cup {"idle", "insert", "done"}]
           /\ out' \in [Req -> Outcome]
           /\ m' \in [Metric -> Int]
BY MetricsType, Zenon DEF TypeOK, Finish, Step

\* What a handler carries from one await to the next.  TypeOK alone is not
\* inductive: the types of the token and of the map entry that a handler
\* writes are those of the cookie and the body it was started with.
Carries ==
    \A r \in Req :
        /\ pc[r] \in {"insert", "lookup", "checked", "verify", "issued", "token"}
             => cookie[r] \in Sid
        /\ pc[r] \in {"lookup", "checked", "verify", "issued"} => att[r] \in Attestation
        /\ pc[r] = "issued" => tok[r] \in Token

\* The types, with what a request carries.
TypeInv == TypeOK /\ Carries

\* The token of a session is a token.
LEMMA TokenType ==
    ASSUME TypeOK, NEW s \in Sid
    PROVE  sessions[s].token \in Token \cup {NoToken}
BY Zenon DEF TypeOK, SessionStatus

\* Every step of the handlers, the background task, the clock and a restart keeps
\* the types.
LEMMA TypeStep == TypeInv /\ [Next]_vars => TypeOK'
<1> SUFFICES ASSUME TypeOK, Carries, [Next]_vars PROVE TypeOK'
  BY Zenon DEF TypeInv
<1> USE SessionAssumption, BodyAssumption
<1>m. m \in [Metric -> Int] /\ Enter(m) \in [Metric -> Int]
  BY MetricsType, Zenon DEF TypeOK
<1>o. {"auth_error", "challenge", "att_error", "att_refused", "att_failed", "token",
       "old_token", "get_token", "get_none"} \subseteq Outcome
  BY Zenon DEF Outcome
<1>c. {"authReq", "authOk", "authErr", "attReq", "attOk", "attFail", "attErr"}
         \subseteq Metric
  BY Zenon DEF Metric
<1>1. ASSUME NEW r \in Req, AuthReject(r) PROVE TypeOK'
  BY <1>1, <1>m, <1>o, <1>c, MetricsType, FinishType, Zenon DEF AuthReject, TypeOK
<1>2. ASSUME NEW r \in Req, AuthStart(r) PROVE TypeOK'
  BY <1>2, <1>m, <1>c, MetricsType, Zenon DEF AuthStart, Start, TypeOK, Waiting
<1>3. ASSUME NEW r \in Req, ChallengeFails(r) PROVE TypeOK'
  BY <1>3, <1>m, <1>o, <1>c, MetricsType, FinishType, Zenon DEF ChallengeFails, TypeOK
<1>4. ASSUME NEW r \in Req, NEW s \in Sid, ChallengeOk(r, s) PROVE TypeOK'
  BY <1>4, <1>m, <1>c, MetricsType DEF ChallengeOk, Step, TypeOK, Waiting
<1>5. ASSUME NEW r \in Req, Insert(r) PROVE TypeOK'
  <2>1. sessions' \in [Sid -> SessionStatus]
    BY <1>5, Zenon DEF Insert, TypeOK, SessionStatus
  <2> QED
    BY <2>1, <1>5, <1>m, <1>o, <1>c, MetricsType, FinishType, Zenon DEF Insert, TypeOK
<1>6. ASSUME NEW r \in Req, AttestReject(r) PROVE TypeOK'
  BY <1>6, <1>m, <1>o, <1>c, MetricsType, FinishType, Zenon DEF AttestReject, TypeOK
<1>7. ASSUME NEW r \in Req, NEW s \in Sid, NEW a \in Body, AttestStart(r, s, a)
      PROVE  TypeOK'
  BY <1>7, <1>m, <1>c, MetricsType, Zenon DEF AttestStart, Start, TypeOK, Waiting
<1>8. ASSUME NEW r \in Req, LookupMisses(r) PROVE TypeOK'
  BY <1>8, <1>m, <1>o, <1>c, MetricsType, FinishType, Zenon DEF LookupMisses, TypeOK
<1>9. ASSUME NEW r \in Req, LookupRefuses(r) PROVE TypeOK'
  BY <1>9, <1>m, <1>o, <1>c, MetricsType, FinishType, Zenon DEF LookupRefuses, TypeOK
<1>10. ASSUME NEW r \in Req, LookupFindsToken(r) PROVE TypeOK'
  <2>1. tok' \in [Req -> Token \cup {NoToken}]
    BY <1>10, TokenType, Zenon DEF LookupFindsToken, Finish, Step, TypeOK, Carries
  <2> QED
    BY <2>1, <1>10, <1>m, <1>o, <1>c, MetricsType, FinishType, Zenon DEF LookupFindsToken, TypeOK
<1>11. ASSUME NEW r \in Req, EvidenceRejected(r) PROVE TypeOK'
  BY <1>11, <1>m, <1>o, <1>c, MetricsType, FinishType, Zenon DEF EvidenceRejected, TypeOK
<1>12. ASSUME NEW r \in Req, LookupOk(r) PROVE TypeOK'
  BY <1>12, Zenon DEF LookupOk, Step, TypeOK, Waiting
<1>13. ASSUME NEW r \in Req, RelockMisses(r) PROVE TypeOK'
  BY <1>13, <1>m, <1>o, <1>c, MetricsType, FinishType, Zenon DEF RelockMisses, TypeOK
<1>14. ASSUME NEW r \in Req, RelockPanics(r) PROVE TypeOK'
  BY <1>14, Zenon DEF RelockPanics, Step, TypeOK, Outcome
<1>15. ASSUME NEW r \in Req, RelockOk(r) PROVE TypeOK'
  BY <1>15, Zenon DEF RelockOk, Step, TypeOK, Waiting
<1>16. ASSUME NEW r \in Req, Issue(r) PROVE TypeOK'
  BY <1>16 DEF Issue, RuntimeData, TypeOK, Carries, Waiting, Token, Attestation
<1>17. ASSUME NEW r \in Req, VerifyFails(r) PROVE TypeOK'
  BY <1>17, <1>m, <1>o, <1>c, MetricsType, FinishType, Zenon DEF VerifyFails, TypeOK
<1>18. ASSUME NEW r \in Req, VerifyOk(r) PROVE TypeOK'
  <2>1. sessions' \in [Sid -> SessionStatus]
    <3> DEFINE e == [sessions[cookie[r]] EXCEPT !.st = "Attested", !.token = tok[r]]
    <3>1. sessions[cookie[r]] \in SessionStatus /\ tok[r] \in Token \cup {NoToken}
      BY <1>18, Zenon DEF VerifyOk, Finish, Step, TypeOK, Carries
    <3>2. e \in SessionStatus
      BY <3>1, Zenon DEF SessionStatus
    <3> QED
      BY <1>18, <3>2, Zenon DEF VerifyOk, TypeOK
  <2> QED
    BY <2>1, <1>18, <1>m, <1>o, <1>c, MetricsType, FinishType, Zenon DEF VerifyOk, TypeOK
<1>19. ASSUME NEW r \in Req, NEW s \in Sid, GetStart(r, s) PROVE TypeOK'
  BY <1>19, <1>m, Zenon DEF GetStart, Start, TypeOK, Waiting
<1>20. ASSUME NEW r \in Req, GetToken(r) PROVE TypeOK'
  <2>1. tok' \in [Req -> Token \cup {NoToken}]
    BY <1>20, TokenType, Zenon DEF GetToken, Finish, Step, TypeOK, Carries
  <2> QED
    BY <2>1, <1>20, <1>m, <1>o, <1>c, MetricsType, FinishType, Zenon DEF GetToken, TypeOK
<1>21. ASSUME NEW r \in Req, GetNoToken(r) PROVE TypeOK'
  BY <1>21, <1>m, <1>o, <1>c, MetricsType, FinishType, Zenon DEF GetNoToken, TypeOK
<1>22. ASSUME NEW r \in Req, Drop(r) PROVE TypeOK'
  BY <1>22, Zenon DEF Drop, TypeOK, Outcome
<1>23. ASSUME NEW s \in Sid, Reap(s) PROVE TypeOK'
  BY <1>23 DEF Reap, TypeOK, SessionStatus, NoSession
<1>24. CASE Tick
  BY <1>24 DEF Tick, TypeOK
<1>25. CASE Restart
  BY <1>25 DEF Restart, TypeOK, SessionStatus, NoSession, NoMetrics, Outcome
<1>26. CASE UNCHANGED vars
  BY <1>26, Zenon DEF vars, TypeOK
<1> QED
  BY <1>1, <1>2, <1>3, <1>4, <1>5, <1>6, <1>7, <1>8, <1>9, <1>10, <1>11, <1>12, <1>13,
     <1>14, <1>15, <1>16, <1>17, <1>18, <1>19, <1>20, <1>21, <1>22, <1>23, <1>24, <1>25,
     <1>26, ZenonT(40) DEF Next, Arrive, Handle, Answer

\* The handlers' own steps, but for the insert of auth, change nothing that other
\* handlers see: they move on, and keep a token they found.
LEMMA HandleFrame ==
    ASSUME TypeOK, NEW r \in Req, Handle(r), ~Insert(r)
    PROVE  /\ UNCHANGED <<clock, sessions, used, cookie, due, att>>
           /\ pc[r] # "idle"
           /\ pc'[r] \in {"checked", "verify", "done"}
           /\ pc'[r] = "verify" => RelockOk(r)
           /\ \A q \in Req \ {r} : pc'[q] = pc[q] /\ tok'[q] = tok[q]
BY Zenon DEF Handle, LookupMisses, LookupRefuses, LookupFindsToken, EvidenceRejected, LookupOk,
       RelockMisses, RelockPanics, RelockOk, GetToken, GetNoToken, Finish, Step, TypeOK

\* A request that comes in changes nothing but its own handler.
LEMMA ArriveFrame ==
    ASSUME TypeOK, NEW r \in Req, Arrive(r)
    PROVE  /\ UNCHANGED <<clock, sessions, used, due, tok>>
           /\ pc[r] = "idle"
           /\ pc'[r] \in {"challenge", "lookup", "token", "done"}
           /\ out'[r] = out[r] \/ out'[r] \in {"auth_error", "att_error"}
           /\ \A q \in Req \ {r} : /\ pc'[q] = pc[q]
                                   /\ cookie'[q] = cookie[q]
                                   /\ att'[q] = att[q]
                                   /\ out'[q] = out[q]
BY ZenonT(40) DEF Arrive, AuthReject, AuthStart, AttestReject, AttestStart, GetStart, Start, Finish,
       Step, TypeOK

\* What a handler carries survives every step of the others and of its own.
LEMMA CarriesStep == TypeInv /\ [Next]_vars => Carries'
<1> SUFFICES ASSUME TypeOK, Carries, [Next]_vars PROVE Carries'
  BY Zenon DEF TypeInv
<1>1. ASSUME NEW r \in Req, Arrive(r) PROVE Carries'
  BY <1>1, BodyAssumption DEF Arrive, AuthReject, AuthStart, AttestReject, AttestStart, GetStart,
              Start, Finish, Step, Carries, TypeOK
<1>2. ASSUME NEW r \in Req, Handle(r) PROVE Carries'
  BY <1>2, ZenonT(40) DEF Handle, Insert, LookupMisses, LookupRefuses, LookupFindsToken,
              EvidenceRejected, LookupOk, RelockMisses, RelockPanics, RelockOk,
              GetToken, GetNoToken, Finish, Step, Carries, TypeOK
<1>3. ASSUME NEW r \in Req, Issue(r) PROVE Carries'
  BY <1>3, SessionAssumption DEF Issue, RuntimeData, Token, Attestation, Carries, TypeOK
<1>4. ASSUME NEW r \in Req, Answer(r) PROVE Carries'
  BY <1>4 DEF Answer, ChallengeFails, ChallengeOk, VerifyFails, VerifyOk,
              Finish, Step, Carries, TypeOK
<1>5. ASSUME NEW r \in Req, Drop(r) PROVE Carries'
  BY <1>5, Zenon DEF Drop, Carries, TypeOK
<1>6. CASE UNCHANGED <<pc, cookie, att, tok>>
  BY <1>6, Zenon DEF Carries
<1>7. CASE Restart
  BY <1>7, Zenon DEF Restart, Carries
<1> QED
  BY <1>1, <1>2, <1>3, <1>4, <1>5, <1>6, <1>7, Zenon DEF Next, Reap, Tick, vars

\* The types, and what handlers carry, in every reachable state.
LEMMA TypeInvariant == Spec => []TypeInv
<1>1. Init => TypeInv
  BY SessionAssumption
  DEF Init, TypeInv, TypeOK, Carries, NoMetrics, NoSession, SessionStatus, Outcome
<1>2. TypeInv /\ [Next]_vars => TypeInv'
  BY TypeStep, CarriesStep, Zenon DEF TypeInv
<1> QED
  BY <1>1, <1>2, PTL DEF Spec

\* Spec keeps every variable of the handshake in its type.
THEOREM TypeCorrect == Spec => []TypeOK
BY TypeInvariant, PTL DEF TypeInv

-----------------------------------------------------------------------------
(* A handler that verifies has its session for itself.                     *)

\* No step lets a second handler or the background task at a session that is
\* being verified.
LEMMA ExclusiveStep == TypeInv /\ VerifyIsExclusive /\ [Next]_vars => VerifyIsExclusive'
<1> SUFFICES ASSUME TypeOK, Carries, VerifyIsExclusive, [Next]_vars
             PROVE  VerifyIsExclusive'
  BY Zenon DEF TypeInv
<1> USE DEF VerifyIsExclusive
<1>1. ASSUME NEW r \in Req, Arrive(r) PROVE VerifyIsExclusive'
  BY <1>1 DEF Arrive, AuthReject, AuthStart, AttestReject, AttestStart, GetStart,
              Start, Finish, Step, TypeOK
<1>2. ASSUME NEW r \in Req, Insert(r) PROVE VerifyIsExclusive'
  BY <1>2, Zenon DEF Insert, Finish, Step, Free, Locked, TypeOK, Carries
<1>3. ASSUME NEW r \in Req, RelockOk(r) PROVE VerifyIsExclusive'
  BY <1>3, ZenonT(40) DEF RelockOk, Step, Free, Locked, TypeOK, Carries
<1>4. ASSUME NEW r \in Req, Handle(r), ~Insert(r), ~RelockOk(r) PROVE VerifyIsExclusive'
  <2>1. /\ UNCHANGED <<cookie, sessions>>
        /\ \A q \in Req : pc'[q] \in {"verify", "issued"} => pc'[q] = pc[q]
    BY <1>4, HandleFrame, Zenon
  <2> QED
    BY <2>1, Zenon
<1>5. ASSUME NEW r \in Req, Handle(r) PROVE VerifyIsExclusive'
  BY <1>2, <1>3, <1>4, <1>5, Zenon
<1>6. ASSUME NEW r \in Req, Issue(r) PROVE VerifyIsExclusive'
  BY <1>6, ZenonT(40) DEF Issue, TypeOK
<1>7. ASSUME NEW r \in Req, VerifyOk(r) PROVE VerifyIsExclusive'
  BY <1>7, ZenonT(40) DEF VerifyOk, Finish, Step, TypeOK, Carries
<1>8. ASSUME NEW r \in Req, Answer(r) PROVE VerifyIsExclusive'
  BY <1>7, <1>8 DEF Answer, ChallengeFails, ChallengeOk, VerifyFails, Finish, Step, TypeOK
<1>9. ASSUME NEW r \in Req, Drop(r) PROVE VerifyIsExclusive'
  BY <1>9, ZenonT(40) DEF Drop, TypeOK
<1>10. ASSUME NEW s \in Sid, Reap(s) PROVE VerifyIsExclusive'
  BY <1>10, Zenon DEF Reap, Free, Locked, TypeOK, Carries
<1>11. CASE Restart
  BY <1>11, Zenon DEF Restart
<1>12. CASE UNCHANGED <<pc, cookie, sessions>>
  BY <1>12, Zenon
<1> QED
  BY <1>1, <1>5, <1>6, <1>8, <1>9, <1>10, <1>11, <1>12, Zenon DEF Next, Tick, vars

\* Between its second lookup and its reply, an attest handler is the only one
\* to verify a session of its bucket, and its session stays in the map and
\* stays unattested: neither the background task nor another request gets in.
THEOREM VerifyExclusive == Spec => []VerifyIsExclusive
<1>1. Init => VerifyIsExclusive
  BY Zenon DEF Init, VerifyIsExclusive
<1> QED
  BY <1>1, TypeInvariant, ExclusiveStep, PTL DEF Spec

-----------------------------------------------------------------------------
(* The token of a session attests that session.                            *)

\* The request that a token was issued for has been served: its body stays.
\* A token that is on its way to the session is bound already.
Bound ==
    /\ \A r \in Req : pc[r] = "issued" =>
            /\ tok[r].by = r
            /\ tok[r].nonce = cookie[r]
            /\ att[r].evNonce = cookie[r]
            /\ att[r].evKey = tok[r].key
    /\ \A s \in Sid : sessions[s].st = "Attested" =>
            /\ sessions[s].token \in Token
            /\ pc[sessions[s].token.by] # "idle"

\* A token stays bound to the session whose evidence was verified.
LEMMA BindingStep ==
    TypeInv /\ Bound /\ TokenBinding /\ [Next]_vars => Bound' /\ TokenBinding'
<1> SUFFICES ASSUME TypeOK, Carries, Bound, TokenBinding, [Next]_vars
             PROVE  Bound' /\ TokenBinding'
  BY Zenon DEF TypeInv
<1> USE DEF Bound, TokenBinding
<1>0. \A t \in Token : t.by \in Req
  BY Zenon DEF Token
<1>1. ASSUME NEW r \in Req, Arrive(r) PROVE Bound' /\ TokenBinding'
  <2>1. Bound'
    BY <1>0, <1>1, ArriveFrame
  <2>2. TokenBinding'
    BY <1>0, <1>1, ArriveFrame
  <2> QED
    BY <2>1, <2>2, Zenon
<1>2. ASSUME NEW r \in Req, Insert(r) PROVE Bound' /\ TokenBinding'
  <2>1. /\ UNCHANGED <<cookie, att, tok>>
        /\ pc[r] # "idle"
        /\ \A q \in Req : pc'[q] = pc[q] \/ (q = r /\ pc'[q] = "done")
        /\ \A s \in Sid : sessions'[s] = sessions[s] \/ sessions'[s].st = "Authed"
    BY <1>2, ZenonT(40) DEF Insert, Finish, Step, TypeOK, Carries
  <2> QED
    BY <1>0, <2>1
<1>3. ASSUME NEW r \in Req, Handle(r) PROVE Bound' /\ TokenBinding'
  <2>1. CASE ~Insert(r)
    <3>1. /\ UNCHANGED <<sessions, cookie, att>>
          /\ \A q \in Req : pc[q] # "idle" => pc'[q] # "idle"
          /\ \A q \in Req : pc'[q] = "issued" => pc[q] = "issued" /\ tok'[q] = tok[q]
      BY <1>3, <2>1, HandleFrame, ZenonT(40)
    <3>2. Bound'
      <4> HIDE DEF TokenBinding
      <4> QED
        BY <1>0, <3>1
    <3>3. TokenBinding'
      BY <1>0, <3>1, Zenon
    <3> QED
      BY <3>2, <3>3, Zenon
  <2> QED
    BY <1>2, <2>1, Zenon
<1>4. ASSUME NEW r \in Req, Issue(r) PROVE Bound' /\ TokenBinding'
  BY <1>0, <1>4 DEF Issue, RuntimeData, TypeOK
<1>5. ASSUME NEW r \in Req, VerifyOk(r) PROVE Bound' /\ TokenBinding'
  BY <1>0, <1>5, AbsentAssumption
  DEF VerifyOk, Finish, Step, TypeOK, Carries, SessionStatus
<1>6. ASSUME NEW r \in Req, Answer(r) PROVE Bound' /\ TokenBinding'
  <2>1. CASE ~VerifyOk(r)
    <3>1. /\ UNCHANGED <<sessions, att, tok>>
          /\ pc[r] # "idle"
          /\ pc'[r] \in {"insert", "done"}
          /\ \A q \in Req \ {r} : pc'[q] = pc[q] /\ cookie'[q] = cookie[q]
      BY <1>6, <2>1
      DEF Answer, ChallengeFails, ChallengeOk, VerifyFails, Finish, Step, TypeOK
    <3> QED
      BY <1>0, <3>1
  <2> QED
    BY <1>5, <2>1, Zenon
<1>7. ASSUME NEW r \in Req, Drop(r) PROVE Bound' /\ TokenBinding'
  BY <1>0, <1>7, ZenonT(40) DEF Drop, TypeOK
<1>8. ASSUME NEW s \in Sid, Reap(s) PROVE Bound' /\ TokenBinding'
  <2>1. /\ UNCHANGED <<pc, cookie, att, tok>>
        /\ \A x \in Sid : sessions'[x] = sessions[x] \/ sessions'[x].st = "none"
    BY <1>8, ZenonT(40) DEF Reap, NoSession, TypeOK
  <2>2. Bound'
    BY <2>1
  <2>3. TokenBinding'
    BY <2>1
  <2> QED
    BY <2>2, <2>3, Zenon
<1>9. CASE Restart
  BY <1>9, Zenon DEF Restart, NoSession
<1>10. CASE UNCHANGED <<pc, cookie, att, tok, sessions>>
  BY <1>10, Zenon
<1> QED
  BY <1>1, <1>3, <1>4, <1>6, <1>7, <1>8, <1>9, <1>10, Zenon DEF Next, Tick, vars

\* Bound tokens in every reachable state.
LEMMA BindingInvariant == Spec => [](Bound /\ TokenBinding)
<1>1. Init => Bound /\ TokenBinding
  BY DEF Init, Bound, TokenBinding, NoSession
<1> QED
  BY <1>1, TypeInvariant, BindingStep, PTL DEF Spec

\* Whatever nonces and keys the requests mix, and however they interleave, the
\* token that a session keeps was issued for evidence bound to the challenge
\* of that very session and to the key in the token.
THEOREM TokensAreBound == Spec => []TokenBinding
BY BindingInvariant, PTL

-----------------------------------------------------------------------------
(* The replies that give a token for one session agree.                    *)

\* An id that was handed out is in the map, waits for one insert, or is gone.
Fresh ==
    /\ \A s \in Sid : sessions[s].st # "none" => s \in used
    /\ \A r \in Req : pc[r] = "insert" =>
            cookie[r] \in used /\ sessions[cookie[r]].st = "none"
    /\ \A r, q \in Req : pc[r] = "insert" /\ pc[q] = "insert" /\ r # q
            => cookie[r] # cookie[q]

\* A token that was given to a client is the token of the session as long as
\* the session is in the map, and the session does not come back after that.
Given ==
    \A r \in Req : GaveToken(r) =>
        /\ pc[r] = "done"
        /\ cookie[r] \in Sid
        /\ cookie[r] \in used
        /\ \A q \in Req : pc[q] = "insert" => cookie[q] # cookie[r]
        /\ sessions[cookie[r]].st # "none" =>
                sessions[cookie[r]].st = "Attested" /\ sessions[cookie[r]].token = tok[r]

\* No step makes the id of a session that is still to be inserted known.
LEMMA FreshStep == TypeInv /\ VerifyIsExclusive /\ Fresh /\ [Next]_vars => Fresh'
<1> SUFFICES ASSUME TypeOK, Carries, VerifyIsExclusive, Fresh, [Next]_vars PROVE Fresh'
  BY Zenon DEF TypeInv
<1> USE DEF Fresh
<1>1. ASSUME NEW r \in Req, Arrive(r) PROVE Fresh'
  BY <1>1 DEF Arrive, AuthReject, AuthStart, AttestReject, AttestStart, GetStart, Start,
              Finish, Step, TypeOK
<1>2. ASSUME NEW r \in Req, Insert(r) PROVE Fresh'
  BY <1>2, ZenonT(40) DEF Insert, Finish, Step, TypeOK, Carries
<1>3. ASSUME NEW r \in Req, Handle(r) PROVE Fresh'
  <2>1. CASE ~Insert(r)
    <3>1. /\ UNCHANGED <<cookie, used, sessions>>
          /\ \A q \in Req : pc'[q] = "insert" => pc[q] = "insert"
      BY <1>3, <2>1, HandleFrame, Zenon
    <3> QED
      BY <3>1, Zenon
  <2> QED
    BY <1>2, <2>1, Zenon
<1>4. ASSUME NEW r \in Req, Issue(r) PROVE Fresh'
  BY <1>4, Zenon DEF Issue, TypeOK
<1>5. ASSUME NEW r \in Req, NEW s \in Sid, ChallengeOk(r, s) PROVE Fresh'
  BY <1>5, ZenonT(40) DEF ChallengeOk, Step, TypeOK
<1>6. ASSUME NEW r \in Req, VerifyOk(r) PROVE Fresh'
  BY <1>6, ZenonT(40) DEF VerifyOk, Finish, Step, TypeOK, Carries, VerifyIsExclusive
<1>7. ASSUME NEW r \in Req, Answer(r) PROVE Fresh'
  BY <1>5, <1>6, <1>7 DEF Answer, ChallengeFails, VerifyFails, Finish, Step, TypeOK
<1>8. ASSUME NEW r \in Req, Drop(r) PROVE Fresh'
  BY <1>8, Zenon DEF Drop, Waiting, TypeOK
<1>9. ASSUME NEW s \in Sid, Reap(s) PROVE Fresh'
  BY <1>9, Zenon DEF Reap, NoSession, TypeOK
<1>10. CASE Restart
  BY <1>10, Zenon DEF Restart, NoSession
<1>11. CASE UNCHANGED <<pc, cookie, used, sessions>>
  BY <1>11, Zenon
<1> QED
  BY <1>1, <1>3, <1>4, <1>7, <1>8, <1>9, <1>10, <1>11, Zenon DEF Next, Tick, vars

\* A step that gives out no token and changes no session keeps what was given out.
LEMMA GivenKept ==
    ASSUME Given, OneTokenPerSession,
           UNCHANGED <<sessions, used, cookie>>,
           \A q \in Req : GaveToken(q)' => GaveToken(q) /\ tok'[q] = tok[q] /\ pc'[q] = pc[q],
           \A x \in Req : pc'[x] = "insert" => pc[x] = "insert"
    PROVE  Given' /\ OneTokenPerSession'
<1>1. ASSUME NEW q \in Req, GaveToken(q)'
      PROVE  /\ pc'[q] = "done"
             /\ cookie[q] \in Sid
             /\ cookie[q] \in used
             /\ \A x \in Req : pc'[x] = "insert" => cookie[x] # cookie[q]
             /\ sessions[cookie[q]].st # "none" =>
                     /\ sessions[cookie[q]].st = "Attested"
                     /\ sessions[cookie[q]].token = tok'[q]
  <2>1. GaveToken(q) /\ tok'[q] = tok[q] /\ pc'[q] = pc[q]
    BY <1>1, Zenon
  <2> QED
    BY <2>1, Zenon DEF Given
<1>2. Given'
  BY <1>1, ZenonT(40) DEF Given
<1>3. OneTokenPerSession'
  <2> SUFFICES ASSUME NEW r \in Req, NEW q \in Req, GaveToken(r)', GaveToken(q)',
                      cookie[r] = cookie[q]
               PROVE  tok'[r] = tok'[q]
    BY Zenon DEF OneTokenPerSession
  <2> QED
    BY Zenon DEF OneTokenPerSession
<1> QED
  BY <1>2, <1>3, Zenon

\* The tokens given out for a session stay the same.
LEMMA GivenStep ==
    TypeInv /\ VerifyIsExclusive /\ Fresh /\ Given /\ OneTokenPerSession /\ [Next]_vars
        => Given' /\ OneTokenPerSession'
<1> SUFFICES ASSUME TypeOK, Carries, VerifyIsExclusive, Fresh, Given,
                    OneTokenPerSession, [Next]_vars
             PROVE  Given' /\ OneTokenPerSession'
  BY Zenon DEF TypeInv
<1> USE DEF Given, OneTokenPerSession, GaveToken
<1>1. ASSUME NEW r \in Req, Arrive(r) PROVE Given' /\ OneTokenPerSession'
  <2>1. Given'
    BY <1>1, ArriveFrame
  <2>2. OneTokenPerSession'
    BY <1>1, ArriveFrame
  <2> QED
    BY <2>1, <2>2, Zenon
<1>2. ASSUME NEW r \in Req, Insert(r) PROVE Given' /\ OneTokenPerSession'
  BY <1>2, ZenonT(40) DEF Insert, Finish, Step, TypeOK, Carries
<1>3. ASSUME NEW r \in Req, LookupFindsToken(r) \/ GetToken(r)
      PROVE  Given' /\ OneTokenPerSession'
  <2>1. /\ UNCHANGED <<sessions, used, cookie>>
        /\ cookie[r] \in Sid
        /\ cookie[r] \in used
        /\ sessions[cookie[r]].st = "Attested"
        /\ \A q \in Req : pc[q] = "insert" => cookie[q] # cookie[r]
        /\ pc'[r] = "done"
        /\ tok'[r] = sessions[cookie[r]].token
        /\ \A q \in Req \ {r} : pc'[q] = pc[q] /\ tok'[q] = tok[q] /\ out'[q] = out[q]
    BY <1>3, ZenonT(40) DEF LookupFindsToken, GetToken, HasToken, Finish, Step, TypeOK, Carries, Fresh
  <2>2. Given'
    <3> SUFFICES ASSUME NEW q \in Req, GaveToken(q)'
                 PROVE  /\ pc'[q] = "done"
                        /\ cookie[q] \in Sid
                        /\ cookie[q] \in used
                        /\ \A x \in Req : pc'[x] = "insert" => cookie[x] # cookie[q]
                        /\ sessions[cookie[q]].st # "none" =>
                                /\ sessions[cookie[q]].st = "Attested"
                                /\ sessions[cookie[q]].token = tok'[q]
      BY <2>1, ZenonT(40)
    <3>1. CASE q = r
      BY <2>1, <3>1, ZenonT(40)
    <3>2. CASE q # r
      BY <2>1, <3>2
    <3> QED
      BY <3>1, <3>2, Zenon
  <2>3. OneTokenPerSession'
    BY <2>1
  <2> QED
    BY <2>2, <2>3, Zenon
<1>4. ASSUME NEW r \in Req, Handle(r) PROVE Given' /\ OneTokenPerSession'
  <2>1. CASE ~Insert(r) /\ ~LookupFindsToken(r) /\ ~GetToken(r)
    <3>1. /\ UNCHANGED <<sessions, used, cookie, tok>>
          /\ pc[r] # "done"
          /\ pc'[r] # "insert"
          /\ out'[r] = out[r] \/ out'[r] \notin {"token", "old_token", "get_token"}
          /\ \A q \in Req \ {r} : pc'[q] = pc[q] /\ out'[q] = out[q]
      BY <1>4, <2>1, ZenonT(40)
      DEF Handle, LookupMisses, LookupRefuses, EvidenceRejected, LookupOk,
          RelockMisses, RelockPanics, RelockOk, GetNoToken, Finish, Step, TypeOK
    <3>2. /\ \A q \in Req : GaveToken(q)' => GaveToken(q) /\ q # r
          /\ \A x \in Req : pc'[x] = "insert" => pc[x] = "insert"
      BY <3>1, Zenon
    <3> HIDE DEF Given, OneTokenPerSession, GaveToken
    <3> QED
      BY <3>1, <3>2, GivenKept, Zenon
  <2> QED
    BY <1>2, <1>3, <2>1, Zenon
<1>5. ASSUME NEW r \in Req, Issue(r) PROVE Given' /\ OneTokenPerSession'
  <2>1. /\ UNCHANGED <<sessions, used, cookie, out>>
        /\ pc[r] = "verify"
        /\ pc'[r] # "insert"
        /\ \A q \in Req \ {r} : pc'[q] = pc[q] /\ tok'[q] = tok[q]
    BY <1>5, Zenon DEF Issue, TypeOK
  <2> QED
    BY <2>1
<1>6. ASSUME NEW r \in Req, NEW s \in Sid, ChallengeOk(r, s)
      PROVE  Given' /\ OneTokenPerSession'
  BY <1>6, ZenonT(40) DEF ChallengeOk, Step, TypeOK
<1>7. ASSUME NEW r \in Req, VerifyOk(r) PROVE Given' /\ OneTokenPerSession'
  BY <1>7 DEF VerifyOk, Finish, Step, TypeOK, Carries, VerifyIsExclusive, Fresh, SessionStatus
<1>8. ASSUME NEW r \in Req, Answer(r) PROVE Given' /\ OneTokenPerSession'
  <2>1. CASE ChallengeFails(r) \/ VerifyFails(r)
    <3>1. /\ UNCHANGED <<sessions, used, cookie, tok>>
          /\ pc'[r] = "done"
          /\ out'[r] \notin {"token", "old_token", "get_token"}
          /\ \A q \in Req \ {r} : pc'[q] = pc[q] /\ out'[q] = out[q]
      BY <2>1, ZenonT(40) DEF ChallengeFails, VerifyFails, Finish, Step, TypeOK
    <3>2. /\ \A q \in Req : GaveToken(q)' => GaveToken(q) /\ q # r
          /\ \A x \in Req : pc'[x] = "insert" => pc[x] = "insert"
      BY <3>1, Zenon
    <3> HIDE DEF Given, OneTokenPerSession, GaveToken
    <3> QED
      BY <3>1, <3>2, GivenKept, Zenon
  <2> QED
    BY <1>6, <1>7, <1>8, <2>1, Zenon DEF Answer
<1>9. ASSUME NEW r \in Req, Drop(r) PROVE Given' /\ OneTokenPerSession'
  BY <1>9, ZenonT(40) DEF Drop, Waiting, TypeOK
<1>10. ASSUME NEW s \in Sid, Reap(s) PROVE Given' /\ OneTokenPerSession'
  BY <1>10, Zenon DEF Reap, NoSession, TypeOK
<1>11. CASE Restart
  BY <1>11, ZenonT(40) DEF Restart, NoSession, TypeOK
<1>12. CASE UNCHANGED <<pc, cookie, used, sessions, tok, out>>
  BY <1>12, Zenon
<1> QED
  BY <1>1, <1>4, <1>5, <1>8, <1>9, <1>10, <1>11, <1>12, Zenon DEF Next, Tick, vars

\* Fresh in every reachable state.
LEMMA FreshInvariant == Spec => []Fresh
<1>1. Init => Fresh
  BY DEF Init, Fresh, NoSession
<1> QED
  BY <1>1, TypeInvariant, VerifyExclusive, FreshStep, PTL DEF Spec

\* What was given to clients, in every reachable state.
LEMMA GivenInvariant == Spec => [](Given /\ OneTokenPerSession)
<1>1. Init => Given /\ OneTokenPerSession
  BY Zenon DEF Init, Given, OneTokenPerSession, GaveToken
<1> QED
  BY <1>1, TypeInvariant, VerifyExclusive, FreshInvariant, GivenStep, PTL DEF Spec

\* Attests that race on a session, repeated attests and resource requests hand
\* out one and the same token per session, across expiry and restarts.
THEOREM OneToken == Spec => []OneTokenPerSession
BY GivenInvariant, PTL

-----------------------------------------------------------------------------
(* A valid cookie gives access to a valid token.                           *)

\* A session ends at most Timeout after now, and a token that was issued for it
\* does not end before it.
Outlives ==
    /\ \A s \in Sid : sessions[s].st # "none" => sessions[s].timeout <= clock + Timeout
    /\ \A r \in Req : pc[r] = "insert" => due[r] <= clock + Timeout
    /\ \A r \in Req : pc[r] = "issued" => sessions[cookie[r]].timeout <= tok[r].exp
    /\ \A s \in Sid : sessions[s].st = "Attested" =>
            sessions[s].timeout <= sessions[s].token.exp

\* Verification gives a session a token that outlives it.
LEMMA OutlivesStep ==
    ASSUME Timeout <= TokenDuration
    PROVE  TypeInv /\ VerifyIsExclusive /\ Outlives /\ [Next]_vars => Outlives'
<1> SUFFICES ASSUME TypeOK, Carries, VerifyIsExclusive, Outlives, [Next]_vars
             PROVE  Outlives'
  BY Zenon DEF TypeInv
<1> USE DEF Outlives
<1>0. /\ \A s \in Sid : sessions[s].timeout \in Int
      /\ \A r \in Req : due[r] \in Int
      /\ clock \in Int
      /\ Timeout \in Int
      /\ TokenDuration \in Int
  BY SessionAssumption DEF TypeOK, SessionStatus
<1>1. ASSUME NEW r \in Req, Arrive(r) PROVE Outlives'
  BY <1>1, ZenonT(40) DEF Arrive, AuthReject, AuthStart, AttestReject, AttestStart, GetStart, Start,
              Finish, Step, TypeOK
<1>2. ASSUME NEW r \in Req, Insert(r) PROVE Outlives'
  BY <1>2, Zenon DEF Insert, Finish, Step, Free, Locked, TypeOK, Carries
<1>3. ASSUME NEW r \in Req, Handle(r) PROVE Outlives'
  BY <1>2, <1>3, HandleFrame, Zenon
<1>4. ASSUME NEW r \in Req, Issue(r) PROVE Outlives'
  <2>1. /\ UNCHANGED <<clock, sessions, cookie, due>>
        /\ cookie[r] \in Sid
        /\ sessions[cookie[r]].st # "none"
        /\ pc'[r] = "issued"
        /\ tok'[r].exp = clock + TokenDuration
        /\ \A q \in Req \ {r} : pc'[q] = pc[q] /\ tok'[q] = tok[q]
    BY <1>4, Zenon DEF Issue, RuntimeData, TypeOK, Carries, VerifyIsExclusive
  <2>2. sessions[cookie[r]].timeout <= clock + TokenDuration
    <3>1. sessions[cookie[r]].timeout <= clock + Timeout
      BY <2>1, Zenon
    <3>2. sessions[cookie[r]].timeout \in Int
      BY <1>0, <2>1, Zenon
    <3> HIDE DEF Outlives
    <3> QED
      BY <1>0, <3>1, <3>2
  <2> QED
    BY <2>1, <2>2, Zenon
<1>5. ASSUME NEW r \in Req, NEW s \in Sid, ChallengeOk(r, s) PROVE Outlives'
  <2>1. /\ UNCHANGED <<clock, sessions, tok>>
        /\ pc'[r] = "insert"
        /\ due'[r] = clock + Timeout
        /\ \A q \in Req \ {r} : pc'[q] = pc[q] /\ cookie'[q] = cookie[q] /\ due'[q] = due[q]
    BY <1>5, Zenon DEF ChallengeOk, Step, TypeOK
  <2> QED
    BY <1>0, <2>1
<1>6. ASSUME NEW r \in Req, VerifyOk(r) PROVE Outlives'
  BY <1>6, Zenon DEF VerifyOk, Finish, Step, TypeOK, Carries, VerifyIsExclusive, SessionStatus
<1>7. ASSUME NEW r \in Req, Answer(r) PROVE Outlives'
  BY <1>5, <1>6, <1>7, Zenon DEF Answer, ChallengeFails, VerifyFails, Finish, Step, TypeOK
<1>8. ASSUME NEW r \in Req, Drop(r) PROVE Outlives'
  BY <1>8, Zenon DEF Drop, TypeOK
<1>9. ASSUME NEW s \in Sid, Reap(s) PROVE Outlives'
  BY <1>9, Zenon DEF Reap, NoSession, Free, Locked, TypeOK, Carries
<1>10. CASE Restart
  BY <1>10, Zenon DEF Restart, NoSession
<1>11. CASE Tick
  BY <1>0, <1>11 DEF Tick
<1>12. CASE UNCHANGED <<clock, pc, cookie, due, sessions, tok>>
  BY <1>12, Zenon
<1> QED
  BY <1>1, <1>3, <1>4, <1>7, <1>8, <1>9, <1>10, <1>11, <1>12, Zenon DEF Next, vars

\* When sessions last no longer than tokens, as in the default configuration,
\* a resource request that comes in with the cookie of an attested session that
\* is not expired always finds a token that is not expired either.
THEOREM CookieSuffices ==
    ASSUME Timeout <= TokenDuration
    PROVE  Spec => []CookieGivesAccess
<1>1. Init => Outlives
  BY SessionAssumption DEF Init, Outlives, NoSession
<1>2. TypeInv /\ Bound /\ Outlives => CookieGivesAccess
  <2> SUFFICES ASSUME TypeInv, Bound, Outlives, NEW s \in Sid, HasToken(s)
               PROVE  clock <= sessions[s].token.exp
    BY Zenon DEF CookieGivesAccess
  <2>1. sessions[s].timeout \in Int /\ clock \in Int
    BY DEF TypeInv, TypeOK, SessionStatus
  <2>2. sessions[s].token.exp \in Int
    BY Zenon DEF HasToken, Bound, Token
  <2>3. clock <= sessions[s].timeout
    BY <2>1 DEF HasToken, IsExpired
  <2>4. sessions[s].timeout <= sessions[s].token.exp
    BY Zenon DEF HasToken, Outlives
  <2> QED
    BY <2>1, <2>2, <2>3, <2>4
<1> QED
  BY <1>1, <1>2, TypeInvariant, VerifyExclusive, BindingInvariant, OutlivesStep, PTL DEF Spec

-----------------------------------------------------------------------------
(* The handlers implement the abstract handshake.                          *)

\* An id that is not in the map leaves nothing behind.
Cleared == \A s \in Sid : sessions[s].st = "none" => sessions[s] = NoSession

\* A session that is not in the map has left nothing behind.
LEMMA ClearedInvariant == Spec => []Cleared
<1>1. Init => Cleared
  <2>1. Init => sessions = [s \in Sid |-> NoSession]
    BY Zenon DEF Init
  <2> QED
    BY <2>1, Zenon DEF Cleared
<1>2. TypeInv /\ Cleared /\ [Next]_vars => Cleared'
  <2> SUFFICES ASSUME TypeOK, Carries, Cleared, [Next]_vars PROVE Cleared'
    BY Zenon DEF TypeInv
  <2>1. ASSUME NEW r \in Req, Insert(r) PROVE Cleared'
    BY <2>1, Zenon DEF Insert, Cleared, TypeOK
  <2>2. ASSUME NEW r \in Req, VerifyOk(r) PROVE Cleared'
    BY <2>2 DEF VerifyOk, Cleared, TypeOK, SessionStatus
  <2>3. ASSUME NEW s \in Sid, Reap(s) PROVE Cleared'
    BY <2>3, Zenon DEF Reap, Cleared, TypeOK
  <2>4. CASE Restart
    BY <2>4, Zenon DEF Restart, Cleared
  <2>5. CASE UNCHANGED sessions
    BY <2>5, Zenon DEF Cleared
  <2>6. ASSUME NEW r \in Req, Arrive(r) \/ (Handle(r) /\ ~Insert(r)) PROVE Cleared'
    BY <2>5, <2>6, ArriveFrame, HandleFrame, Zenon
  <2>7. ASSUME NEW r \in Req, Issue(r) \/ Drop(r) \/ (Answer(r) /\ ~VerifyOk(r))
        PROVE  Cleared'
    BY <2>5, <2>7, Zenon DEF Issue, Drop, Answer, ChallengeFails, ChallengeOk, VerifyFails
  <2> QED
    BY <2>1, <2>2, <2>3, <2>4, <2>5, <2>6, <2>7, Zenon DEF Next, Tick, vars
<1> QED
  BY <1>1, <1>2, TypeInvariant, PTL DEF Spec

\* A step that leaves the map alone and starts or ends no insert is invisible.
LEMMA Invisible ==
    ASSUME UNCHANGED <<sessions, used>>,
           \A q \in Req : pc[q] = "insert" <=> pc'[q] = "insert",
           \A q \in Req : pc[q] = "insert" => cookie'[q] = cookie[q]
    PROVE  UNCHANGED Rcar!rcarVars
<1>1. \A s \in Sid : Pending(s)' <=> Pending(s)
  BY Zenon DEF Pending
<1> QED
  BY <1>1, Zenon DEF StatusOf, Rcar!rcarVars

\* Every step of the handlers is a step of the handshake or invisible.
LEMMA RcarStep ==
    TypeInv /\ VerifyIsExclusive /\ Fresh /\ Bound /\ Cleared /\ [Next]_vars
        => [Rcar!Next]_(Rcar!rcarVars)
<1> SUFFICES ASSUME TypeOK, Carries, VerifyIsExclusive, Fresh, Bound, Cleared,
                    [Next]_vars
             PROVE  [Rcar!Next]_(Rcar!rcarVars)
  BY Zenon DEF TypeInv
<1>1. ASSUME NEW r \in Req, Arrive(r) PROVE UNCHANGED Rcar!rcarVars
  BY <1>1, Invisible, ZenonT(40)
  DEF Arrive, AuthReject, AuthStart, AttestReject, AttestStart, GetStart, Start,
      Finish, Step, TypeOK
<1>2. ASSUME NEW r \in Req, Insert(r) PROVE Rcar!Next
  <2>0. PICK c \in Sid : c = cookie[r]
    BY <1>2, Zenon DEF Insert, Finish, Step, Carries
  <2>1. /\ c \in Sid /\ c \in used
        /\ sessions[c] = NoSession
        /\ pc[r] = "insert" /\ pc' = [pc EXCEPT ![r] = "done"]
        /\ sessions' = [sessions EXCEPT ![c] =
                            [st |-> "Authed", timeout |-> due[r], token |-> NoToken]]
        /\ UNCHANGED <<used, cookie>>
    BY <1>2, <2>0, Zenon DEF Insert, Finish, Step, Fresh, Cleared
  <2>2. \A s \in Sid \ {c} : Pending(s)' <=> Pending(s)
    BY <2>0, <2>1, Zenon DEF Pending, TypeOK
  <2>3. Pending(c)
    BY <2>0, <2>1, Zenon DEF Pending
  <2>4. StatusOf(c) = "new" /\ StatusOf(c)' = "authed"
    BY <2>1, <2>3 DEF StatusOf, NoSession, TypeOK
  <2>5. \A s \in Sid \ {c} : StatusOf(s)' = StatusOf(s)
    BY <2>1, <2>2, Zenon DEF StatusOf, TypeOK
  <2>6. due[r] \in Int
    BY Zenon DEF TypeOK
  <2>7. Rcar!Authenticate(c)
    <3> DEFINE S == [s \in Sid |-> StatusOf(s)]
               D == [s \in Sid |-> sessions[s].timeout]
               T == [s \in Sid |-> sessions[s].token]
    <3>1. S[c] = "new" /\ S' = [S EXCEPT ![c] = "authed"]
      BY <2>4, <2>5, Zenon
    <3>2. D'[c] \in Int /\ D' = [D EXCEPT ![c] = D'[c]]
      BY <2>1, <2>6, Zenon DEF TypeOK
    <3>3. UNCHANGED T
      BY <2>1 DEF NoSession, TypeOK
    <3> QED
      BY <3>1, <3>2, <3>3, Zenon DEF Rcar!Authenticate
  <2> QED
    BY <2>7, Zenon DEF Rcar!Next
<1>3. ASSUME NEW r \in Req, Handle(r) PROVE [Rcar!Next]_(Rcar!rcarVars)
  <2>1. CASE Insert(r)
    BY <1>2, <2>1, Zenon
  <2>2. CASE ~Insert(r)
    BY <1>3, <2>2, Invisible, Zenon
    DEF Handle, LookupMisses, LookupRefuses, LookupFindsToken, EvidenceRejected, LookupOk,
        RelockMisses, RelockPanics, RelockOk, GetToken, GetNoToken, Finish, Step, TypeOK
  <2> QED
    BY <2>1, <2>2, Zenon
<1>4. ASSUME NEW r \in Req, Issue(r) PROVE UNCHANGED Rcar!rcarVars
  BY <1>4, Invisible, Zenon DEF Issue, TypeOK
<1>5. ASSUME NEW r \in Req, NEW s \in Sid, ChallengeOk(r, s)
      PROVE  UNCHANGED Rcar!rcarVars
  <2>1. \A x \in Sid : Pending(x)' <=> Pending(x)
    BY <1>5, Zenon DEF ChallengeOk, Step, Pending, TypeOK
  <2> QED
    BY <1>5, <2>1, Zenon DEF ChallengeOk, StatusOf, Rcar!rcarVars
<1>6. ASSUME NEW r \in Req, VerifyOk(r) PROVE Rcar!Next
  <2>0. PICK c \in Sid : c = cookie[r]
    BY <1>6, Zenon DEF VerifyOk, Finish, Step, Carries
  <2>1. /\ c \in Sid
        /\ sessions[c] \in SessionStatus /\ sessions[c].st = "Authed"
        /\ tok[r] \in Token /\ tok[r].nonce = c
        /\ sessions' = [sessions EXCEPT ![c] =
                            [@ EXCEPT !.st = "Attested", !.token = tok[r]]]
        /\ pc[r] = "issued" /\ pc' = [pc EXCEPT ![r] = "done"]
        /\ UNCHANGED <<used, cookie>>
    BY <1>6, <2>0, Zenon DEF VerifyOk, Finish, Step, Carries, VerifyIsExclusive, Bound, TypeOK
  <2>2. \A s \in Sid : Pending(s)' <=> Pending(s)
    BY <2>0, <2>1, Zenon DEF Pending, TypeOK
  <2>3. /\ sessions'[c].st = "Attested"
        /\ sessions'[c].token = tok[r]
        /\ sessions'[c].timeout = sessions[c].timeout
        /\ \A s \in Sid \ {c} : sessions'[s] = sessions[s]
    BY <2>1, Zenon DEF TypeOK, SessionStatus
  <2>4. StatusOf(c) = "authed" /\ StatusOf(c)' = "attested"
    BY <2>1, <2>3, Zenon DEF StatusOf
  <2>5. \A s \in Sid \ {c} : StatusOf(s)' = StatusOf(s)
    BY <2>1, <2>2, <2>3, Zenon DEF StatusOf
  <2>6. Rcar!Attest(c)
    <3> DEFINE S == [s \in Sid |-> StatusOf(s)]
               D == [s \in Sid |-> sessions[s].timeout]
               T == [s \in Sid |-> sessions[s].token]
    <3>1. S[c] = "authed" /\ S' = [S EXCEPT ![c] = "attested"]
      BY <2>4, <2>5, Zenon
    <3>2. T'[c] \in Token /\ T'[c].nonce = c /\ T' = [T EXCEPT ![c] = T'[c]]
      <4>1. T'[c] = tok[r]
        BY <2>3, Zenon
      <4>2. T' = [T EXCEPT ![c] = tok[r]]
        BY <2>3, Zenon
      <4> QED
        BY <2>1, <4>1, <4>2, Zenon
    <3>3. UNCHANGED D
      BY <2>3, Zenon
    <3> QED
      BY <3>1, <3>2, <3>3, Zenon DEF Rcar!Attest
  <2> QED
    BY <2>6, Zenon DEF Rcar!Next
<1>7. ASSUME NEW r \in Req, Answer(r) PROVE [Rcar!Next]_(Rcar!rcarVars)
  <2>1. CASE VerifyOk(r)
    BY <1>6, <2>1, Zenon
  <2>2. CASE ChallengeFails(r) \/ VerifyFails(r)
    BY <2>2, Invisible, Zenon DEF ChallengeFails, VerifyFails, Finish, Step, TypeOK
  <2> QED
    BY <1>5, <1>7, <2>1, <2>2, Zenon DEF Answer
<1>8. ASSUME NEW r \in Req, Drop(r) PROVE UNCHANGED Rcar!rcarVars
  BY <1>8, Invisible, Zenon DEF Drop, Waiting, TypeOK
<1>9. ASSUME NEW s \in Sid, Reap(s) PROVE Rcar!Close({s})
  <2>1. /\ sessions' = [sessions EXCEPT ![s] = NoSession]
        /\ sessions[s].st # "none"
        /\ UNCHANGED <<used, cookie, pc>>
    BY <1>9, Zenon DEF Reap
  <2>2. \A x \in Sid : Pending(x)' <=> Pending(x)
    BY <2>1, Zenon DEF Pending
  <2>3. ~Pending(s)
    BY <2>1, Zenon DEF Pending, Fresh
  <2>4. StatusOf(s)' = "closed"
    BY <2>1, <2>2, <2>3, Zenon DEF StatusOf, NoSession, TypeOK
  <2>5. \A x \in Sid \ {s} : StatusOf(x)' = StatusOf(x)
    BY <2>1, <2>2, Zenon DEF StatusOf, TypeOK
  <2> QED
    BY <2>1, <2>4, <2>5, Zenon DEF Rcar!Close, NoSession, TypeOK
<1>10. ASSUME Restart PROVE Rcar!Next
  <2>0. PICK S \in SUBSET Sid : S = used
    BY Zenon DEF TypeOK
  <2>1. /\ sessions' = [s \in Sid |-> NoSession]
        /\ \A r \in Req : pc'[r] # "insert"
        /\ UNCHANGED used
    BY <1>10, Zenon DEF Restart
  <2>2. \A s \in Sid : Pending(s)' <=> s \notin used
    BY <2>1, Zenon DEF Pending
  <2>3. \A s \in Sid : StatusOf(s)' = IF s \in used THEN "closed" ELSE "new"
    BY <2>1, <2>2, Zenon DEF StatusOf, NoSession
  <2>4. \A s \in Sid \ used : StatusOf(s) = "new" /\ sessions[s] = NoSession
    BY Zenon DEF StatusOf, Fresh, Cleared, Pending, NoSession
  <2>5. Rcar!Close(S)
    <3>1. \A s \in Sid : StatusOf(s)' = IF s \in S THEN "closed" ELSE StatusOf(s)
      BY <2>0, <2>3, <2>4, Zenon
    <3>2. \A s \in Sid : /\ sessions'[s].timeout = IF s \in S THEN 0 ELSE sessions[s].timeout
                         /\ sessions'[s].token = IF s \in S THEN NoToken ELSE sessions[s].token
      BY <2>0, <2>1, <2>4 DEF NoSession
    <3> QED
      BY <3>1, <3>2, Zenon DEF Rcar!Close
  <2> QED
    BY <2>5, Zenon DEF Rcar!Next
<1>11. CASE Tick \/ UNCHANGED vars
  BY <1>11, Invisible, Zenon DEF Tick, vars
<1> QED
  <2>1. ASSUME NEW s \in Sid, Reap(s) PROVE Rcar!Next
    BY <1>9, <2>1, Zenon DEF Rcar!Next
  <2> QED
    BY <1>1, <1>3, <1>4, <1>7, <1>8, <1>10, <1>11, <2>1, Zenon DEF Next

\* The interleaved handlers, the background task, dropped connections and
\* restarts do to every session only what the abstract handshake allows: it is
\* opened once, attested at most once with a token for its own challenge, keeps
\* its deadline, and never comes back.
THEOREM HandshakeRefined == Spec => ImplementsRcar
<1>1. Init => Rcar!Init
  BY DEF Init, Rcar!Init, StatusOf, Pending, NoSession
<1> QED
  BY <1>1, RcarStep, TypeInvariant, VerifyExclusive, FreshInvariant, BindingInvariant,
     ClearedInvariant, PTL DEF Spec, ImplementsRcar, Rcar!Spec

-----------------------------------------------------------------------------
(* The metrics add up.                                                     *)

\* 1 for an element of a set, and 0 for anything else.
One(x, S) == IF x \in S THEN 1 ELSE 0

\* A set that changes by at most one element changes its size by what that
\* element tells.
LEMMA CountStep ==
    ASSUME NEW A, NEW B, NEW r, IsFiniteSet(A), \A q : q # r => (q \in A <=> q \in B)
    PROVE  /\ IsFiniteSet(B) /\ Cardinality(A) \in Nat /\ Cardinality(B) \in Nat
           /\ Cardinality(B) = Cardinality(A) + One(r, B) - One(r, A)
<1>0. Cardinality(A) \in Nat
  BY FS_CardinalityType, Zenon
<1>1. CASE r \in A /\ r \notin B
  <2>1. B = A \ {r}
    BY <1>1, Zenon
  <2>2. IsFiniteSet(B) /\ Cardinality(B) = Cardinality(A) - 1
    BY <1>1, <2>1, FS_RemoveElement, Zenon
  <2>3. Cardinality(B) \in Nat
    BY <2>2, FS_CardinalityType, Zenon
  <2> QED
    BY <1>0, <1>1, <2>2, <2>3 DEF One
<1>2. CASE r \notin A /\ r \in B
  <2>1. B = A \cup {r}
    BY <1>2, Zenon
  <2>2. IsFiniteSet(B) /\ Cardinality(B) = Cardinality(A) + 1
    BY <1>2, <2>1, FS_AddElement, Zenon
  <2>3. Cardinality(B) \in Nat
    BY <2>2, FS_CardinalityType, Zenon
  <2> QED
    BY <1>0, <1>2, <2>2, <2>3 DEF One
<1>3. CASE r \in A <=> r \in B
  <2>1. A = B
    BY <1>3
  <2>2. One(r, A) = One(r, B) /\ One(r, A) \in Int
    BY <2>1 DEF One
  <2> QED
    BY <1>0, <2>1, <2>2
<1> QED
  BY <1>1, <1>2, <1>3, Zenon

\* The auths and the attests that the counters miss, by the counters.
AuthGap(f) == f["authReq"] - f["authOk"] - f["authErr"]
AttestGap(f) == f["attReq"] - f["attOk"] - f["attFail"] - f["attErr"]

\* The requests whose response went out, and all the attests that no counter of
\* outcomes counts.
Answered == {r \in Req \ old : pc[r] = "done" /\ out[r] \notin {"panic", "dropped"}}
AttestUncounted ==
    {r \in Req \ old :
        /\ att[r] # NoAtt
        /\ pc[r] # "done" \/ out[r] \in {"att_refused", "old_token", "panic", "dropped"}}

\* What the counters are, exactly: stronger than MetricsAddUp, in that it says how
\* refusals are counted, that the gauge of connections keeps those that got no
\* answer, and that the sizes of requests and responses share a histogram.
MetricsCount ==
    /\ m["attOk"] = Cardinality(AttestedSids)
    /\ m["authReq"] = m["authOk"] + m["authErr"] + Cardinality(AuthOpen)
    /\ m["attReq"] = m["attOk"] + m["attFail"] + m["attErr"] + Cardinality(AttestUncounted)
    /\ m["total"] = Cardinality(Began)
    /\ m["active"] = Cardinality(Began) - Cardinality(Answered)
    /\ m["reqSizes"] = Cardinality(Began) + Cardinality(Answered)

\* The sums of MetricsCount, solved for what is counted.
LEMMA ConnectionsSolved ==
    ASSUME NEW f \in [Metric -> Int], NEW c \in Int
    PROVE  /\ f["active"] = f["total"] - c <=> f["total"] - f["active"] = c
           /\ f["reqSizes"] = f["total"] + c <=> f["reqSizes"] - f["total"] = c
<1>1. f["total"] \in Int /\ f["active"] \in Int /\ f["reqSizes"] \in Int
  BY Zenon DEF Metric
<1> QED
  BY <1>1

\* The sum of the auths, solved for those that are open.
LEMMA AuthSolved ==
    ASSUME NEW f \in [Metric -> Int], NEW c \in Int
    PROVE  f["authReq"] = f["authOk"] + f["authErr"] + c <=> AuthGap(f) = c
<1>1. f["authReq"] \in Int /\ f["authOk"] \in Int /\ f["authErr"] \in Int
  BY Zenon DEF Metric
<1> QED
  BY <1>1 DEF AuthGap

\* The sum of the attests, solved for those that are open.
LEMMA AttestSolved ==
    ASSUME NEW f \in [Metric -> Int], NEW c \in Int
    PROVE  f["attReq"] = f["attOk"] + f["attFail"] + f["attErr"] + c <=> AttestGap(f) = c
<1>1. /\ f["attReq"] \in Int /\ f["attOk"] \in Int /\ f["attFail"] \in Int
      /\ f["attErr"] \in Int
  BY Zenon DEF Metric
<1> QED
  BY <1>1 DEF AttestGap

\* Where a request is says what it carries so far, and only requests of this
\* life of the process still run.
Stages ==
    \A r \in Req :
        /\ pc[r] # "done" => out[r] = "none" /\ r \notin old
        /\ pc[r] \in {"idle", "challenge"} => cookie[r] = NoSid
        /\ pc[r] \in {"idle", "challenge", "insert", "token"} => att[r] = NoAtt

\* The inductive invariant: also, finitely many requests have begun, so that a
\* step of one of them changes a count by one.
MetricsInv ==
    /\ MetricsCount
    /\ IsFiniteSet(Began)
    /\ IsFiniteSet(AttestedSids)

\* A step of one handler moves the counted sets by that handler only.
LEMMA Recount ==
    ASSUME Stages, IsFiniteSet(Began), NEW r \in Req, UNCHANGED old,
           \A q \in Req \ {r} : /\ pc'[q] = pc[q] /\ out'[q] = out[q]
                                /\ cookie'[q] = cookie[q] /\ att'[q] = att[q]
    PROVE  /\ IsFiniteSet(Began')
           /\ Cardinality(Began) \in Nat /\ Cardinality(Began') \in Nat
           /\ Cardinality(Answered) \in Nat /\ Cardinality(Answered') \in Nat
           /\ Cardinality(AuthOpen) \in Nat /\ Cardinality(AuthOpen') \in Nat
           /\ Cardinality(AttestUncounted) \in Nat /\ Cardinality(AttestUncounted') \in Nat
           /\ Cardinality(Began') = Cardinality(Began) + One(r, Began') - One(r, Began)
           /\ Cardinality(Answered')
                = Cardinality(Answered) + One(r, Answered') - One(r, Answered)
           /\ Cardinality(AuthOpen')
                = Cardinality(AuthOpen) + One(r, AuthOpen') - One(r, AuthOpen)
           /\ Cardinality(AttestUncounted')
                = Cardinality(AttestUncounted) + One(r, AttestUncounted') - One(r, AttestUncounted)
<1>1. AuthOpen \subseteq Began /\ AttestUncounted \subseteq Began /\ Answered \subseteq Began
  BY Zenon DEF AuthOpen, AttestUncounted, Answered, Began, Stages
<1>2. IsFiniteSet(AuthOpen) /\ IsFiniteSet(AttestUncounted) /\ IsFiniteSet(Answered)
  BY <1>1, FS_Subset, Zenon
<1>3. \A q : q # r => (q \in Began <=> q \in Began')
  BY Zenon DEF Began
<1>4. \A q : q # r => (q \in Answered <=> q \in Answered')
  BY Zenon DEF Answered
<1>5. \A q : q # r => (q \in AuthOpen <=> q \in AuthOpen')
  BY Zenon DEF AuthOpen
<1>6. \A q : q # r => (q \in AttestUncounted <=> q \in AttestUncounted')
  BY Zenon DEF AttestUncounted
<1>7. /\ IsFiniteSet(Began')
      /\ Cardinality(Began) \in Nat /\ Cardinality(Began') \in Nat
      /\ Cardinality(Began') = Cardinality(Began) + One(r, Began') - One(r, Began)
  BY <1>3, CountStep, Zenon
<1>8. /\ Cardinality(Answered) \in Nat /\ Cardinality(Answered') \in Nat
      /\ Cardinality(Answered') = Cardinality(Answered) + One(r, Answered') - One(r, Answered)
  BY <1>2, <1>4, CountStep, Zenon
<1>9. /\ Cardinality(AuthOpen) \in Nat /\ Cardinality(AuthOpen') \in Nat
      /\ Cardinality(AuthOpen') = Cardinality(AuthOpen) + One(r, AuthOpen') - One(r, AuthOpen)
  BY <1>2, <1>5, CountStep, Zenon
<1>10. /\ Cardinality(AttestUncounted) \in Nat /\ Cardinality(AttestUncounted') \in Nat
       /\ Cardinality(AttestUncounted')
            = Cardinality(AttestUncounted) + One(r, AttestUncounted') - One(r, AttestUncounted)
  BY <1>2, <1>6, CountStep, Zenon
<1> QED
  BY <1>7, <1>8, <1>9, <1>10, Zenon

\* The counters move by what the handler of r moves.
Moves(r) ==
    /\ m'["total"] = m["total"] + One(r, Began') - One(r, Began)
    /\ m'["total"] - m'["active"] = m["total"] - m["active"] + One(r, Answered') - One(r, Answered)
    /\ m'["reqSizes"] - m'["total"]
         = m["reqSizes"] - m["total"] + One(r, Answered') - One(r, Answered)
    /\ AuthGap(m') = AuthGap(m) + One(r, AuthOpen') - One(r, AuthOpen)
    /\ AttestGap(m') = AttestGap(m) + One(r, AttestUncounted') - One(r, AttestUncounted)

\* A step of one handler that moves the counters by what it moves the handler
\* keeps the sums.
LEMMA Balance ==
    ASSUME TypeOK, TypeOK', MetricsInv, Stages, NEW r \in Req, r \notin old, UNCHANGED old,
           \A q \in Req \ {r} : /\ pc'[q] = pc[q] /\ out'[q] = out[q]
                                /\ cookie'[q] = cookie[q] /\ att'[q] = att[q],
           IsFiniteSet(AttestedSids'), m'["attOk"] = Cardinality(AttestedSids'),
           Moves(r)
    PROVE  MetricsInv'
<1>1. /\ Cardinality(Began) \in Int /\ Cardinality(Began') \in Int
      /\ Cardinality(Answered) \in Int /\ Cardinality(Answered') \in Int
      /\ Cardinality(AuthOpen) \in Int /\ Cardinality(AuthOpen') \in Int
      /\ Cardinality(AttestUncounted) \in Int /\ Cardinality(AttestUncounted') \in Int
  <2>1. IsFiniteSet(Began) /\ Nat \subseteq Int
    BY DEF MetricsInv
  <2> QED
    BY <2>1, Recount, Zenon
<1>2. m \in [Metric -> Int] /\ m' \in [Metric -> Int]
  BY Zenon DEF TypeOK
<1>3. /\ IsFiniteSet(Began')
      /\ Cardinality(Began') = Cardinality(Began) + One(r, Began') - One(r, Began)
      /\ Cardinality(Answered') = Cardinality(Answered) + One(r, Answered') - One(r, Answered)
      /\ Cardinality(AuthOpen') = Cardinality(AuthOpen) + One(r, AuthOpen') - One(r, AuthOpen)
      /\ Cardinality(AttestUncounted')
           = Cardinality(AttestUncounted) + One(r, AttestUncounted') - One(r, AttestUncounted)
  BY Recount, Zenon DEF MetricsInv
<1>4. m["total"] = Cardinality(Began) /\ m'["total"] = Cardinality(Began')
  BY <1>3, Zenon DEF MetricsInv, MetricsCount, Moves
<1>5. /\ m["total"] - m["active"] = Cardinality(Answered)
      /\ m["reqSizes"] - m["total"] = Cardinality(Answered)
  <2>1. /\ m["active"] = m["total"] - Cardinality(Answered)
        /\ m["reqSizes"] = m["total"] + Cardinality(Answered)
    BY <1>4, Zenon DEF MetricsInv, MetricsCount
  <2> QED
    BY <1>1, <1>2, <2>1, ConnectionsSolved, ZenonT(40)
<1>6. AuthGap(m) = Cardinality(AuthOpen)
  BY <1>1, <1>2, AuthSolved, Zenon DEF MetricsInv, MetricsCount
<1>7. AttestGap(m) = Cardinality(AttestUncounted)
  BY <1>1, <1>2, AttestSolved, Zenon DEF MetricsInv, MetricsCount
<1>8. /\ m'["active"] = Cardinality(Began') - Cardinality(Answered')
      /\ m'["reqSizes"] = Cardinality(Began') + Cardinality(Answered')
  <2>1. /\ m'["total"] - m'["active"] = Cardinality(Answered')
        /\ m'["reqSizes"] - m'["total"] = Cardinality(Answered')
    BY <1>3, <1>5, Zenon DEF Moves
  <2>2. /\ m'["active"] = m'["total"] - Cardinality(Answered')
        /\ m'["reqSizes"] = m'["total"] + Cardinality(Answered')
    BY <1>1, <1>2, <2>1, ConnectionsSolved, Zenon
  <2> QED
    BY <1>4, <2>2, Zenon
<1>9. m'["authReq"] = m'["authOk"] + m'["authErr"] + Cardinality(AuthOpen')
  <2>1. AuthGap(m') = Cardinality(AuthOpen')
    BY <1>3, <1>6, Zenon DEF Moves
  <2> QED
    BY <1>1, <1>2, <2>1, AuthSolved, Zenon
<1>10. m'["attReq"] = m'["attOk"] + m'["attFail"] + m'["attErr"] + Cardinality(AttestUncounted')
  <2>1. AttestGap(m') = Cardinality(AttestUncounted')
    BY <1>3, <1>7, Zenon DEF Moves
  <2> QED
    BY <1>1, <1>2, <2>1, AttestSolved, Zenon
<1> QED
  BY <1>3, <1>4, <1>8, <1>9, <1>10, Zenon DEF MetricsInv, MetricsCount

\* Where a request is, what it carries.
LEMMA StagesStep == TypeInv /\ Stages /\ [Next]_vars => Stages'
<1> SUFFICES ASSUME TypeOK, Carries, Stages, [Next]_vars PROVE Stages'
  BY Zenon DEF TypeInv
<1>1. ASSUME NEW r \in Req, Arrive(r) PROVE Stages'
  BY <1>1, ZenonT(40) DEF Arrive, AuthReject, AuthStart, AttestReject, AttestStart, GetStart,
              Start, Finish, Step, Stages, TypeOK
<1>2. ASSUME NEW r \in Req, Handle(r) PROVE Stages'
  BY <1>2, ZenonT(40) DEF Handle, Insert, LookupMisses, LookupRefuses, LookupFindsToken,
              EvidenceRejected, LookupOk, RelockMisses, RelockPanics, RelockOk,
              GetToken, GetNoToken, Finish, Step, Stages, TypeOK
<1>3. ASSUME NEW r \in Req, Issue(r) PROVE Stages'
  BY <1>3, Zenon DEF Issue, Stages, TypeOK
<1>4. ASSUME NEW r \in Req, Answer(r) PROVE Stages'
  BY <1>4, ZenonT(40) DEF Answer, ChallengeFails, ChallengeOk, VerifyFails, VerifyOk,
              Finish, Step, Stages, TypeOK
<1>5. ASSUME NEW r \in Req, Drop(r) PROVE Stages'
  BY <1>5, Zenon DEF Drop, Waiting, Stages, TypeOK
<1>6. CASE UNCHANGED <<pc, cookie, att, out, old>>
  BY <1>6, Zenon DEF Stages
<1>7. CASE Restart
  BY <1>7, Zenon DEF Restart, Stages, TypeOK
<1> QED
  BY <1>1, <1>2, <1>3, <1>4, <1>5, <1>6, <1>7, Zenon DEF Next, Reap, Tick, vars

\* A handler that does not return a fresh token attests no session.
LEMMA AttestedKept ==
    ASSUME Stages, NEW r \in Req, pc[r] # "done", out'[r] # "token", UNCHANGED old,
           \A q \in Req \ {r} : out'[q] = out[q] /\ cookie'[q] = cookie[q]
    PROVE  AttestedSids' = AttestedSids
<1>1. \A q \in Req : (out'[q] = "token" <=> out[q] = "token")
                    /\ (out[q] = "token" => cookie'[q] = cookie[q])
  BY Zenon DEF Stages
<1> QED
  BY <1>1, Zenon DEF AttestedSids

\* Every action moves the counters by what it moves its handler.
LEMMA ActionMoves ==
    ASSUME TypeOK, Carries, Stages, NEW r \in Req,
           Arrive(r) \/ Handle(r) \/ Issue(r) \/ Answer(r) \/ Drop(r)
    PROVE  Moves(r)
<1>1. CASE AuthStart(r)
  <2>1. /\ One(r, Began) = 0 /\ One(r, Answered) = 0
        /\ One(r, AuthOpen) = 0 /\ One(r, AttestUncounted) = 0
    BY <1>1, Zenon DEF AuthStart, Start, One, Began, Answered, AuthOpen, AttestUncounted, Stages
  <2>2. /\ One(r, Began') = 1 /\ One(r, Answered') = 0
        /\ One(r, AuthOpen') = 1 /\ One(r, AttestUncounted') = 0
    BY <1>1, AbsentAssumption, Zenon
    DEF AuthStart, Start, One, Began, Answered, AuthOpen, AttestUncounted, Stages, TypeOK
  <2>3. m' = Inc(Enter(m), "authReq")
    BY <1>1, Zenon DEF AuthStart, Start
  <2> QED
    BY <2>1, <2>2, <2>3 DEF Moves, AuthGap, AttestGap, Inc, Enter, Metric, TypeOK
<1>2. ASSUME NEW s \in Sid, NEW a \in Body, AttestStart(r, s, a) PROVE Moves(r)
  <2>1. /\ One(r, Began) = 0 /\ One(r, Answered) = 0
        /\ One(r, AuthOpen) = 0 /\ One(r, AttestUncounted) = 0
    BY <1>2, Zenon DEF AttestStart, Start, One, Began, Answered, AuthOpen, AttestUncounted, Stages
  <2>2. /\ One(r, Began') = 1 /\ One(r, Answered') = 0
        /\ One(r, AuthOpen') = 0 /\ One(r, AttestUncounted') = 1
    BY <1>2, AbsentAssumption, BodyAssumption, Zenon
    DEF AttestStart, Start, One, Began, Answered, AuthOpen, AttestUncounted, Stages, TypeOK
  <2>3. m' = Inc(Enter(m), "attReq")
    BY <1>2, ZenonT(40) DEF AttestStart, Start
  <2> QED
    BY <2>1, <2>2, <2>3 DEF Moves, AuthGap, AttestGap, Inc, Enter, Metric, TypeOK
<1> USE AbsentAssumption, SessionAssumption
    DEF Moves, AuthGap, AttestGap, One, Began, Answered, AuthOpen, AttestUncounted,
        Inc, Enter, Leave, Metric, TypeOK, Carries, Stages
<1>3. CASE AuthReject(r)
  BY <1>3, SMTT(30) DEF AuthReject, Finish, Step
<1>4. CASE AttestReject(r)
  BY <1>4, SMTT(30) DEF AttestReject, Finish, Step
<1>5. ASSUME NEW s \in Sid, GetStart(r, s) PROVE Moves(r)
  BY <1>5, SMTT(30) DEF GetStart, Start
<1>6. CASE Insert(r)
  BY <1>6, SMTT(30) DEF Insert, Finish, Step
<1>7. CASE LookupMisses(r)
  BY <1>7, SMTT(30) DEF LookupMisses, Finish, Step
<1>8. CASE LookupRefuses(r)
  BY <1>8, SMTT(30) DEF LookupRefuses, Finish, Step
<1>9. CASE LookupFindsToken(r)
  BY <1>9, SMTT(30) DEF LookupFindsToken, Finish, Step
<1>10. CASE EvidenceRejected(r)
  BY <1>10 DEF EvidenceRejected, Finish, Step
<1>11. CASE LookupOk(r)
  BY <1>11, SMTT(30) DEF LookupOk, Step
<1>12. CASE RelockMisses(r)
  BY <1>12 DEF RelockMisses, Finish, Step
<1>13. CASE RelockPanics(r)
  BY <1>13 DEF RelockPanics, Step
<1>14. CASE RelockOk(r)
  BY <1>14, SMTT(30) DEF RelockOk, Step
<1>15. CASE GetToken(r)
  BY <1>15, SMTT(30) DEF GetToken, Finish, Step
<1>16. CASE GetNoToken(r)
  BY <1>16, SMTT(30) DEF GetNoToken, Finish, Step
<1>17. CASE Issue(r)
  BY <1>17, SMTT(30) DEF Issue
<1>18. CASE ChallengeFails(r)
  BY <1>18, SMTT(30) DEF ChallengeFails, Finish, Step
<1>19. ASSUME NEW s \in Sid, ChallengeOk(r, s) PROVE Moves(r)
  BY <1>19, SMTT(30) DEF ChallengeOk, Step
<1>20. CASE VerifyFails(r)
  BY <1>20 DEF VerifyFails, Finish, Step
<1>21. CASE VerifyOk(r)
  BY <1>21, SMTT(30) DEF VerifyOk, Finish, Step
<1>22. CASE Drop(r)
  BY <1>22 DEF Drop, Waiting
<1> HIDE AbsentAssumption, SessionAssumption
    DEF Moves, AuthGap, AttestGap, One, Began, Answered, AuthOpen, AttestUncounted,
        Inc, Enter, Leave, Metric, TypeOK, Carries, Stages
<1> QED
  BY <1>1, <1>2, <1>3, <1>4, <1>5, <1>6, <1>7, <1>8, <1>9, <1>10, <1>11, <1>12,
     <1>13, <1>14, <1>15, <1>16, <1>17, <1>18, <1>19, <1>20, <1>21, <1>22, ZenonT(40) DEF Arrive, Handle, Answer

\* No other counter, and not the middleware, touches ATTESTATION_SUCCESSES.
LEMMA SuccessKept ==
    ASSUME NEW f \in [Metric -> Int]
    PROVE  /\ \A n \in Metric \ {"attOk"} : Inc(f, n)["attOk"] = f["attOk"]
           /\ Enter(f)["attOk"] = f["attOk"]
           /\ Leave(f)["attOk"] = f["attOk"]
BY DEF Metric, Inc, Enter, Leave

\* Only VerifyOk counts a success.
LEMMA SuccessCounted ==
    ASSUME TypeOK, NEW r \in Req, ~VerifyOk(r),
           Arrive(r) \/ Handle(r) \/ Issue(r) \/ Answer(r) \/ Drop(r)
    PROVE  m'["attOk"] = m["attOk"]
<1>1. /\ m \in [Metric -> Int] /\ Enter(m) \in [Metric -> Int]
      /\ \A n \in Metric : Inc(m, n) \in [Metric -> Int] /\ Inc(Enter(m), n) \in [Metric -> Int]
      /\ \A n, k \in Metric : Inc(Inc(Enter(m), n), k) \in [Metric -> Int]
  BY MetricsType, Zenon DEF TypeOK
<1>2. {"authReq", "authOk", "authErr", "attReq", "attFail", "attErr"} \subseteq Metric \ {"attOk"}
  BY DEF Metric
<1>3. /\ Enter(m)["attOk"] = m["attOk"] /\ Leave(m)["attOk"] = m["attOk"]
      /\ Leave(Enter(m))["attOk"] = m["attOk"]
      /\ \A n \in Metric \ {"attOk"} :
            /\ Inc(m, n)["attOk"] = m["attOk"] /\ Inc(Enter(m), n)["attOk"] = m["attOk"]
            /\ Leave(Inc(m, n))["attOk"] = m["attOk"]
      /\ \A n, k \in Metric \ {"attOk"} :
            Leave(Inc(Inc(Enter(m), n), k))["attOk"] = m["attOk"]
  BY <1>1, SuccessKept, ZenonT(40)
<1>4. CASE Arrive(r)
  <2>1. \/ m' = Leave(Inc(Inc(Enter(m), "authReq"), "authErr"))
        \/ m' = Leave(Inc(Inc(Enter(m), "attReq"), "attErr"))
        \/ m' = Inc(Enter(m), "authReq") \/ m' = Inc(Enter(m), "attReq") \/ m' = Enter(m)
    BY <1>4, Zenon DEF Arrive, AuthReject, AuthStart, AttestReject, AttestStart, GetStart,
                       Start, Finish
  <2> QED
    BY <1>2, <1>3, <2>1, Zenon
<1>5. CASE Handle(r)
  BY <1>2, <1>3, <1>5, Zenon
  DEF Handle, Insert, LookupMisses, LookupRefuses, LookupFindsToken, EvidenceRejected,
      LookupOk, RelockMisses, RelockPanics, RelockOk, GetToken, GetNoToken, Finish
<1>6. CASE Answer(r)
  BY <1>2, <1>3, <1>6, Zenon DEF Answer, ChallengeFails, ChallengeOk, VerifyFails, Finish
<1>7. CASE Issue(r) \/ Drop(r)
  BY <1>7, Zenon DEF Issue, Drop
<1> QED
  BY <1>4, <1>5, <1>6, <1>7, Zenon

\* An action of a handler is about its own request, which is not done; only
\* VerifyOk returns a fresh token.
LEMMA ActionFrame ==
    ASSUME TypeOK, NEW r \in Req,
           Arrive(r) \/ Handle(r) \/ Issue(r) \/ Answer(r) \/ Drop(r)
    PROVE  /\ pc[r] # "done" /\ UNCHANGED old
           /\ \A q \in Req \ {r} : /\ pc'[q] = pc[q] /\ out'[q] = out[q]
                                   /\ cookie'[q] = cookie[q] /\ att'[q] = att[q]
           /\ out'[r] = "token" => out[r] = "token" \/ VerifyOk(r)
<1>1. CASE Arrive(r)
  BY <1>1, Zenon DEF Arrive, AuthReject, AuthStart, AttestReject, AttestStart, GetStart,
              Start, Finish, Step, TypeOK
<1>2. CASE Handle(r)
  BY <1>2, Zenon DEF Handle, Insert, LookupMisses, LookupRefuses, LookupFindsToken,
              EvidenceRejected, LookupOk, RelockMisses, RelockPanics, RelockOk,
              GetToken, GetNoToken, Finish, Step, TypeOK
<1>3. CASE Issue(r)
  BY <1>3, Zenon DEF Issue, TypeOK
<1>4. CASE Answer(r)
  <2>1. CASE VerifyOk(r)
    <3>1. pc[r] # "done" /\ UNCHANGED <<old, cookie, att>>
      BY <2>1, Zenon DEF VerifyOk, Finish, Step
    <3>2. \A q \in Req \ {r} : pc'[q] = pc[q] /\ out'[q] = out[q]
      BY <2>1, Zenon DEF VerifyOk, Finish, Step, TypeOK
    <3> QED
      BY <2>1, <3>1, <3>2, Zenon
  <2>2. CASE ~VerifyOk(r)
    BY <1>4, <2>2, Zenon DEF Answer, ChallengeFails, ChallengeOk, VerifyFails, Finish, Step,
                             TypeOK
  <2> QED
    BY <2>1, <2>2, Zenon
<1>5. CASE Drop(r)
  BY <1>5, Zenon DEF Drop, Waiting, TypeOK
<1> QED
  BY <1>1, <1>2, <1>3, <1>4, <1>5, Zenon

\* Every step keeps the sums: those of the handlers because they move counters and
\* handlers alike, a restart because it forgets both.
LEMMA MetricsStep ==
    TypeInv /\ TypeInv' /\ VerifyIsExclusive /\ Given /\ Stages /\ MetricsInv /\ [Next]_vars
        => MetricsInv'
<1> SUFFICES ASSUME TypeOK, Carries, TypeOK', VerifyIsExclusive, Given, Stages, MetricsInv,
                    [Next]_vars
             PROVE  MetricsInv'
  BY Zenon DEF TypeInv
<1>1. ASSUME NEW r \in Req, Arrive(r) \/ Handle(r) \/ Issue(r) \/ Answer(r) \/ Drop(r)
      PROVE  MetricsInv'
  <2>1. /\ pc[r] # "done" /\ UNCHANGED old
        /\ \A q \in Req \ {r} : /\ pc'[q] = pc[q] /\ out'[q] = out[q]
                                /\ cookie'[q] = cookie[q] /\ att'[q] = att[q]
        /\ out'[r] = "token" => out[r] = "token" \/ VerifyOk(r)
    BY <1>1, ActionFrame, Zenon
  <2>2. r \notin old /\ out[r] = "none"
    BY <2>1, Zenon DEF Stages
  <2>3. Moves(r)
    BY <1>1, ActionMoves, Zenon
  <2>4. IsFiniteSet(AttestedSids') /\ m'["attOk"] = Cardinality(AttestedSids')
    <3>1. CASE ~VerifyOk(r)
      <4>1. AttestedSids' = AttestedSids
        BY <2>1, <2>2, <3>1, AttestedKept, Zenon
      <4>2. m'["attOk"] = m["attOk"]
        BY <1>1, <3>1, SuccessCounted, Zenon
      <4> QED
        BY <4>1, <4>2, Zenon DEF MetricsInv, MetricsCount
    <3>2. CASE VerifyOk(r)
      <4>1. /\ pc[r] = "issued" /\ cookie' = cookie /\ out'[r] = "token"
            /\ cookie[r] \in Sid
        BY <3>2, Zenon DEF VerifyOk, Finish, Step, TypeOK, Carries
      <4>2. sessions[cookie[r]].st = "Authed"
        BY <4>1, Zenon DEF VerifyIsExclusive
      <4>3. cookie[r] \notin AttestedSids
        <5>1. "Authed" # "none" /\ "Authed" # "Attested"
          BY Zenon
        <5> QED
          BY <4>2, <5>1, Zenon DEF AttestedSids, Given, GaveToken
      <4>4. AttestedSids' = AttestedSids \cup {cookie[r]}
        BY <2>1, <2>2, <4>1, Zenon DEF AttestedSids
      <4>5. m'["attOk"] = m["attOk"] + 1
        BY <3>2, Zenon DEF VerifyOk, Finish, Inc, Leave, Metric, TypeOK
      <4>6. /\ IsFiniteSet(AttestedSids')
            /\ Cardinality(AttestedSids') = Cardinality(AttestedSids) + 1
        BY <4>3, <4>4, FS_AddElement, Zenon DEF MetricsInv
      <4> QED
        BY <4>5, <4>6, Zenon DEF MetricsInv, MetricsCount
    <3> QED
      BY <3>1, <3>2, Zenon
  <2> QED
    BY <2>1, <2>2, <2>3, <2>4, Balance, Zenon
<1>2. CASE UNCHANGED <<pc, cookie, att, out, m, old>>
  BY <1>2, Zenon DEF MetricsInv, MetricsCount, Began, Answered, AuthOpen, AttestUncounted, AttestedSids
<1>3. CASE Restart
  <2>1. \A r \in Req \ old' : pc'[r] = "idle" /\ out'[r] = "none" /\ att'[r] = NoAtt
    BY <1>3, Zenon DEF Restart, Stages
  <2>2. /\ Began' = {} /\ Answered' = {} /\ AuthOpen' = {} /\ AttestUncounted' = {}
        /\ AttestedSids' = {}
    BY <2>1, Zenon DEF Began, Answered, AuthOpen, AttestUncounted, AttestedSids
  <2>3. \A n \in Metric : m'[n] = 0
    BY <1>3, Zenon DEF Restart, NoMetrics
  <2> QED
    BY <2>2, <2>3, FS_EmptySet DEF MetricsInv, MetricsCount, Metric
<1> QED
  BY <1>1, <1>2, <1>3, Zenon DEF Next, Reap, Tick, vars

\* A refused attest is one that no counter of outcomes counts.
LEMMA RefusedUncounted ==
    ASSUME TypeOK, Stages, MetricsInv
    PROVE  MetricsAddUp
<1> DEFINE c == m["attOk"] + m["attFail"] + m["attErr"]
<1>1. /\ AttestUncounted = AttestOpen \cup AttestRefused
      /\ AttestOpen \cap AttestRefused = {}
  BY Zenon DEF AttestUncounted, AttestOpen, AttestRefused, Stages
<1>2. AttestOpen \subseteq Began /\ AttestRefused \subseteq Began
  BY Zenon DEF AttestOpen, AttestRefused, Began, Stages
<1>3. IsFiniteSet(AttestOpen) /\ IsFiniteSet(AttestRefused)
  BY <1>2, FS_Subset, Zenon DEF MetricsInv
<1>4. /\ Cardinality(AttestOpen) \in Nat /\ Cardinality(AttestRefused) \in Nat
      /\ Cardinality(AttestUncounted) = Cardinality(AttestOpen) + Cardinality(AttestRefused)
  <2>1. Cardinality(AttestOpen) \in Nat /\ Cardinality(AttestRefused) \in Nat
    BY <1>3, FS_CardinalityType, Zenon
  <2>2. Cardinality(AttestOpen \cup AttestRefused)
          = Cardinality(AttestOpen) + Cardinality(AttestRefused)
              - Cardinality(AttestOpen \cap AttestRefused)
    BY <1>3, FS_Union
  <2>3. Cardinality(AttestOpen \cap AttestRefused) = 0
    BY <1>1, FS_EmptySet
  <2> QED
    BY <1>1, <2>1, <2>2, <2>3
<1>5. c \in Int
  <2>1. m["attOk"] \in Int /\ m["attFail"] \in Int /\ m["attErr"] \in Int
    BY Zenon DEF TypeOK, Metric
  <2> QED
    BY <2>1
<1>6. m["attReq"] = c + Cardinality(AttestUncounted)
  BY Zenon DEF MetricsInv, MetricsCount
<1>7. m["attReq"] \in c + Cardinality(AttestOpen) .. c + Cardinality(AttestOpen) + Cardinality(AttestRefused)
  <2> HIDE DEF c
  <2> QED
    BY <1>4, <1>5, <1>6
<1> QED
  BY <1>7, Zenon DEF MetricsInv, MetricsCount, MetricsAddUp

\* The counters that backend.rs and the middleware of api_server.rs keep add up at
\* every moment, for any number of requests: no session is counted as attested
\* twice, and every auth and attest that ended with an answer of its own is
\* counted once.  The invariant says what every counter is exactly, and that
\* finitely many requests have begun.
THEOREM CountersAddUp == Spec => []MetricsAddUp
<1>1. Init => Stages /\ MetricsInv
  <2> SUFFICES ASSUME Init PROVE Stages /\ MetricsInv
    BY Zenon
  <2>1. Stages
    BY Zenon DEF Init, Stages
  <2>2. /\ Began = {} /\ Answered = {} /\ AuthOpen = {} /\ AttestUncounted = {}
        /\ AttestedSids = {}
    BY Zenon DEF Init, Began, Answered, AuthOpen, AttestUncounted, AttestedSids
  <2> QED
    BY <2>1, <2>2, FS_EmptySet DEF Init, MetricsInv, MetricsCount, NoMetrics, Metric
<1>2. TypeInv /\ Stages /\ MetricsInv => MetricsAddUp
  BY RefusedUncounted, Zenon DEF TypeInv
<1> QED
  BY <1>1, <1>2, TypeInvariant, VerifyExclusive, GivenInvariant, StagesStep, MetricsStep,
     PTL DEF Spec
====
