---------------------------- MODULE MCKbsSession ----------------------------
(***************************************************************************)
(* Instances of KbsSession: the placement of requests on worker threads    *)
(* and of sessions in buckets.                                             *)
(***************************************************************************)
EXTENDS KbsSession, TLC

CONSTANTS w1, b1, s1, s2, k1, k2

\* Every request runs on a worker of its own, named like the request.
OwnWorker == [r \in Req |-> r]

\* All requests share one worker.
SharedWorker == [r \in Req |-> w1]

\* The small map that the service starts with: all sessions in one bucket.
OneBucket == [s \in Sid |-> b1]

\* What clients send: an Attestation for either session, one whose evidence is
\* for the other session, and one whose evidence is for another key.
MCBody ==
    {a \in Attestation :
        \/ a.key = k1 /\ a.evNonce = a.nonce /\ a.evKey = k1
        \/ a = [nonce |-> s1, key |-> k1, evNonce |-> s2, evKey |-> k1]
        \/ a = [nonce |-> s1, key |-> k1, evNonce |-> s1, evKey |-> k2]}
====
