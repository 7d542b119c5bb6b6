---------------------------- MODULE RcarSession ----------------------------
(***************************************************************************)
(* What the Key Broker Service promises about the sessions of the RCAR     *)
(* handshake, whatever the interleaving of the requests: SessionStatus as  *)
(* the finite state machine its comment calls it, plus the end of a        *)
(* session by expiry or restart.                                           *)
(***************************************************************************)
EXTENDS Integers

CONSTANTS Sid, Token, NoToken

VARIABLES
    status,     \* "new", "authed", "attested" or "closed"
    deadline,   \* when the session expires
    token       \* the attestation token of the session

rcarVars == <<status, deadline, token>>

Init ==
    /\ status = [s \in Sid |-> "new"]
    /\ deadline = [s \in Sid |-> 0]
    /\ token = [s \in Sid |-> NoToken]

\* A session is opened once, with a deadline.
Authenticate(s) ==
    /\ status[s] = "new"
    /\ status' = [status EXCEPT ![s] = "authed"]
    /\ deadline'[s] \in Int
    /\ deadline' = [deadline EXCEPT ![s] = deadline'[s]]
    /\ UNCHANGED token

\* It is attested at most once, with a token for its own nonce, and its
\* deadline stays what it was.
Attest(s) ==
    /\ status[s] = "authed"
    /\ status' = [status EXCEPT ![s] = "attested"]
    /\ token'[s] \in Token
    /\ token'[s].nonce = s
    /\ token' = [token EXCEPT ![s] = token'[s]]
    /\ UNCHANGED deadline

\* Sessions end by expiry, or all together with the process; none comes back.
Close(S) ==
    /\ status' = [s \in Sid |-> IF s \in S THEN "closed" ELSE status[s]]
    /\ deadline' = [s \in Sid |-> IF s \in S THEN 0 ELSE deadline[s]]
    /\ token' = [s \in Sid |-> IF s \in S THEN NoToken ELSE token[s]]

Next ==
    \/ \E s \in Sid : Authenticate(s) \/ Attest(s)
    \/ \E S \in SUBSET Sid : Close(S)

Spec == Init /\ [][Next]_rcarVars
====
