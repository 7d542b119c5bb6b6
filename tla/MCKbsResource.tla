--------------------------- MODULE MCKbsResource ---------------------------
(***************************************************************************)
(* Instances of KbsResource: one resource and one illegal path, two        *)
(* policies, trusted tokens with different keys and one without a key, and *)
(* a token that is not trusted.                                            *)
(***************************************************************************)
EXTENDS KbsResource, TLC

CONSTANTS x1, bad, p1, p2, t1, t2, t3, t4, k1, k3

\* The first policy allows nothing, and does not evaluate for a token without
\* a key; the second allows everything except the last token.
MCVerdict ==
    [y \in Policy \X Token \X Path |->
        CASE y[1] = p1 /\ y[2] = t2 -> "error"
          [] y[1] = p2 /\ y[2] # t4 -> "allow"
          [] OTHER -> "deny"]

MCKey == (t1 :> k1) @@ (t2 :> NoKey) @@ (t3 :> k3) @@ (t4 :> k1)
====
