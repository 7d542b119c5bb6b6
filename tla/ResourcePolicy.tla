--------------------------- MODULE ResourcePolicy ---------------------------
(***************************************************************************)
(* What the policy engine of the KBS promises to the requests that consult *)
(* it: one policy at a time is in force, a request is decided at most once *)
(* and by the policy in force at that moment.  A policy may be lost; then  *)
(* requests are decided by what is left until a policy is set.             *)
(***************************************************************************)
CONSTANTS Request, Policy, DefaultPolicy, Torn, NoPolicy

VARIABLES policy, decided

vars == <<policy, decided>>

Init ==
    /\ policy = DefaultPolicy
    /\ decided = [r \in Request |-> NoPolicy]

Set(p) ==
    /\ policy' = p
    /\ UNCHANGED decided

Lose ==
    /\ policy' = Torn
    /\ UNCHANGED decided

Decide(r) ==
    /\ decided[r] = NoPolicy
    /\ decided' = [decided EXCEPT ![r] = policy]
    /\ UNCHANGED policy

Next ==
    \/ \E p \in Policy : Set(p)
    \/ Lose
    \/ \E r \in Request : Decide(r)

Spec == Init /\ [][Next]_vars
====
