---------------------------- MODULE MCAsClients ----------------------------
(* AsClients with a guest and two administrators, one of whom also queries. *)
EXTENDS AsClients, TLC

CONSTANTS c1, c2, c3
MCCall == {c1, c2, c3}
MCAsks == c1 :> {"verify", "challenge"} @@ c2 :> {"set_policy", "register_reference_value"} @@
          c3 :> {"set_policy", "query_reference_values"}
MCBackends == {"grpc", "builtin"}
MCPoolSize == {2}
=============================================================================
