------------------------- MODULE AttestationService -------------------------
(***************************************************************************)
(* The attestation service: calls behind the read-write lock that the      *)
(* front ends (built into the KBS, gRPC, REST) put around it.  evaluate    *)
(* verifies pieces of evidence one after the other, asks for the reference *)
(* values, and lets a token broker appraise the claims by policies that it *)
(* reads from files, one at a time, with an await at each read.            *)
(* set_policy writes such a file, register_reference_value changes the     *)
(* reference values.                                                       *)
(*                                                                         *)
(* The EAR broker appraises every device by the policy of its class, named *)
(* <id>_<class>; the simple broker appraises all claims together by every  *)
(* policy of the request.  Policy file names are sequences here: <<id>>    *)
(* and <<id, class>>.  The store of reference values is the abstract one   *)
(* of ReferenceValues: RvpsStore shows that calls see it so.               *)
(***************************************************************************)
EXTENDS Integers, Sequences, FiniteSets, Functions

CONSTANTS
    Call,           \* calls of the service
    Evidence,       \* pieces of evidence
    Rejected,       \* the pieces that their verifier does not accept
    Devices,        \* the devices whose claims a verifier finds in a piece
    Class,          \* the TEE class of a device
    File,           \* names of policy files
    Defaults,       \* for each broker, the policy files it creates at start
    Policy, DefaultPolicy, BadPolicy,
    Requests,       \* what clients ask for
    Ref,            \* states of the reference values
    Verdict,        \* what a policy says, given reference values
    Brokers,        \* the token brokers to consider: "Ear", "Simple"
    IndexMod,       \* 2^8: the index of a device in its class is a u8
    MayFail,        \* whether the process may crash and writes may fail
    Missing, Torn, NoCall

\* The ids that the evaluations name; the front ends name at least one.
PolicyId == UNION {{a.ids[k] : k \in DOMAIN a.ids} : a \in {b \in Requests : b.op = "evaluate"}}

ASSUME AsAssumption ==
    /\ Rejected \subseteq Evidence
    /\ \A e \in Evidence : Devices[e] \in Seq(DOMAIN Class)
    /\ DefaultPolicy \in Policy /\ BadPolicy \notin Policy
    /\ Brokers \subseteq {"Ear", "Simple"}
    /\ \A a \in Requests : a.op \in {"evaluate", "set", "register", "get", "list", "query", "challenge"}
    /\ \A a \in Requests :
         /\ a.op \in {"set", "get"} => a.file \in File
         /\ a.op = "set" => a.policy \in Policy \cup {BadPolicy}
         /\ a.op = "evaluate" =>
              a.batch \in Seq(Evidence) /\ a.ids \in Seq(PolicyId) \ {<<>>}
    /\ \A id \in PolicyId : <<id>> \in File /\ \A d \in DOMAIN Class : <<id, Class[d]>> \in File
    /\ NoCall \notin Requests
    /\ IsFiniteSet(File)
    /\ \A b \in Brokers : Defaults[b] \subseteq File
    /\ IndexMod \in Nat \ {0}
    /\ MayFail \in BOOLEAN
    /\ {Missing, Torn} \cap Policy = {} /\ Missing # Torn

VARIABLES
    broker,     \* the configured token broker
    files,      \* the policy files
    store,      \* the reference values
    pc, call,   \* where each call is, and what it asks for
    pieces,     \* the evidence that is still to be verified
    devs,       \* the devices whose claims were accepted
    refs,       \* the reference values that the call was given
    todo,       \* the policy files that are still to be read
    got,        \* the policies that were read, with their files
    job,        \* the write that a call left to the blocking pool
    res,        \* how a call ended
    before      \* the calls that had ended when the call was made

vars == <<broker, files, store, pc, call, pieces, devs, refs, todo, got, job, res, before>>

Device == DOMAIN Class
Unknown == CHOOSE r \in Ref : TRUE

\* The brokers write their default policies where there is no file yet.
Started(b, ff) ==
    [f \in File |-> IF ff[f] = Missing /\ f \in Defaults[b] THEN DefaultPolicy ELSE ff[f]]

Init ==
    /\ broker \in Brokers
    /\ files = Started(broker, [f \in File |-> Missing])
    /\ store = Unknown
    /\ pc = [c \in Call |-> "idle"]
    /\ call = [c \in Call |-> NoCall]
    /\ pieces = [c \in Call |-> <<>>]
    /\ devs = [c \in Call |-> <<>>]
    /\ refs = [c \in Call |-> Unknown]
    /\ todo = [c \in Call |-> <<>>]
    /\ got = [c \in Call |-> <<>>]
    /\ job = [c \in Call |-> "none"]
    /\ res = [c \in Call |-> "none"]
    /\ before = [c \in Call |-> {}]

-----------------------------------------------------------------------------
(* Calls and the lock.                                                     *)

Goto(c, p) == pc' = [pc EXCEPT ![c] = p]

\* The call ends; what it has collected lives on in a token or an answer only.
Return(c, r) ==
    /\ Goto(c, "done")
    /\ res' = [res EXCEPT ![c] = r]
    /\ pieces' = [pieces EXCEPT ![c] = <<>>]
    /\ todo' = [todo EXCEPT ![c] = <<>>]
    /\ devs' = [devs EXCEPT ![c] = IF r = "ok" THEN @ ELSE <<>>]
    /\ got' = [got EXCEPT ![c] = IF r = "ok" THEN @ ELSE <<>>]
    /\ refs' = [refs EXCEPT ![c] = IF r = "ok" THEN @ ELSE Unknown]

Ask(c, a) ==
    /\ pc[c] = "idle"
    /\ call' = [call EXCEPT ![c] = a]
    /\ before' = [before EXCEPT ![c] = {d \in Call : pc[d] = "done"}]
    /\ Goto(c, "lock")
    /\ UNCHANGED <<broker, files, store, pieces, devs, refs, todo, got, job, res>>

\* The request does not decode: its TEE, its evidence, its runtime or init data.
AskRefused(c) ==
    /\ pc[c] = "idle"
    /\ Return(c, "refused")
    /\ UNCHANGED <<broker, files, store, call, job, before>>

Op(c) == call[c].op
Writes(c) == Op(c) \in {"set", "register"}
Holds(c) == pc[c] \notin {"idle", "lock", "done"}

\* Mutant: a call that writes takes the lock for reading.
FreeShared(c) == ~\E d \in Call : Holds(d) /\ Writes(d)

\* The lock admits one call that writes, or any number of others.
Free(c) == ~\E d \in Call : Holds(d) /\ (Writes(c) \/ Writes(d))

\* The files of the policy directory, in the order in which it lists them.
Listing ==
    LET present == {f \in File : files[f] # Missing}
    IN  CHOOSE s \in Injection(1 .. Cardinality(present), present) : TRUE

\* list_policies lists the directory and then reads its files.
LockForRead(c) ==
    /\ pc[c] = "lock" /\ ~Writes(c)
    /\ Free(c)
    /\ Goto(c, CASE Op(c) = "evaluate" -> "verify"
                 [] Op(c) \in {"get", "list"} -> "read"
                 [] OTHER -> "look")
    /\ pieces' = [pieces EXCEPT ![c] = IF Op(c) = "evaluate" THEN call[c].batch ELSE <<>>]
    /\ todo' = [todo EXCEPT ![c] =
            CASE Op(c) = "get" -> <<call[c].file>>
              [] Op(c) = "list" -> Listing
              [] OTHER -> <<>>]
    /\ UNCHANGED <<broker, files, store, call, devs, refs, got, job, res, before>>

-----------------------------------------------------------------------------
(* evaluate, and the calls that read policies or reference values.         *)

\* The next piece passes its verifier; its runtime and init data parse.
Verify(c) ==
    /\ pc[c] = "verify"
    /\ pieces[c] # <<>>
    /\ Head(pieces[c]) \notin Rejected
    /\ devs' = [devs EXCEPT ![c] = @ \o Devices[Head(pieces[c])]]
    /\ pieces' = [pieces EXCEPT ![c] = Tail(@)]
    /\ UNCHANGED <<broker, files, store, pc, call, refs, todo, got, job, res, before>>

VerifyFails(c) ==
    /\ pc[c] = "verify"
    /\ call[c].batch = <<>> \/ (pieces[c] # <<>> /\ Head(pieces[c]) \in Rejected)
    /\ Return(c, "failed")
    /\ UNCHANGED <<broker, files, store, call, job, before>>

\* The policies that the broker is going to read for the devices of c.
PolicyFiles(c) ==
    LET ids == call[c].ids IN
    IF broker = "Ear"
      THEN [k \in DOMAIN devs[c] |-> <<ids[1], Class[devs[c][k]]>>]
      ELSE [k \in DOMAIN ids |-> <<ids[k]>>]

\* Mutant: the reference values are read once, when the service starts.
GetDigestsStale(c) ==
    /\ pc[c] = "verify"
    /\ call[c].batch # <<>> /\ pieces[c] = <<>>
    /\ todo' = [todo EXCEPT ![c] = PolicyFiles(c)]
    /\ Goto(c, "read")
    /\ UNCHANGED <<broker, files, store, call, pieces, devs, refs, got, job, res, before>>

\* All the evidence is verified: rvps.get_digests, then token_broker.issue.
GetDigests(c) ==
    /\ pc[c] = "verify"
    /\ call[c].batch # <<>> /\ pieces[c] = <<>>
    /\ refs' = [refs EXCEPT ![c] = store]
    /\ todo' = [todo EXCEPT ![c] = PolicyFiles(c)]
    /\ Goto(c, "read")
    /\ UNCHANGED <<broker, files, store, call, pieces, devs, got, job, res, before>>

\* query_reference_values, or a challenge, which looks at nothing that changes.
Look(c) ==
    /\ pc[c] = "look"
    /\ refs' = [refs EXCEPT ![c] = IF Op(c) = "query" THEN store ELSE @]
    /\ Goto(c, "read")
    /\ UNCHANGED <<broker, files, store, call, pieces, devs, todo, got, job, res, before>>

\* The RVPS or a verifier does not answer.
LookFails(c) ==
    /\ MayFail
    /\ \/ pc[c] = "look"
       \/ pc[c] = "verify" /\ call[c].batch # <<>> /\ pieces[c] = <<>>
    /\ Return(c, "failed")
    /\ UNCHANGED <<broker, files, store, call, job, before>>

\* The broker can use what policy p says: claims of the right type, at least
\* one for an EAR; the simple broker refuses unless the policy allows.
Usable(p, r) ==
    /\ Verdict[<<p, r>>] # "none"
    /\ broker = "Simple" => Verdict[<<p, r>>] = "affirming"

\* The next policy file is read and, in an evaluation, evaluated.  A torn file may
\* still be a policy.
ReadPolicy(c) ==
    /\ pc[c] = "read"
    /\ todo[c] # <<>>
    /\ LET p == files[Head(todo[c])] IN
       /\ p # Missing
       /\ Op(c) = "evaluate" /\ p # Torn => Usable(p, refs[c])
       /\ got' = [got EXCEPT ![c] = Append(@, [file |-> Head(todo[c]), policy |-> p])]
    /\ todo' = [todo EXCEPT ![c] = Tail(@)]
    /\ UNCHANGED <<broker, files, store, pc, call, pieces, devs, refs, job, res, before>>

\* There is no such file, it does not parse, or the broker cannot use its result.
ReadFails(c) ==
    /\ pc[c] = "read"
    /\ todo[c] # <<>>
    /\ LET p == files[Head(todo[c])] IN
       \/ p = Missing /\ Return(c, "failed")
       \/ Op(c) = "evaluate" /\ p = Torn /\ Return(c, "unreadable")
       \/ Op(c) = "evaluate" /\ p \in Policy /\ ~Usable(p, refs[c]) /\ Return(c, "failed")
    /\ UNCHANGED <<broker, files, store, call, job, before>>

\* The token is signed, or the policies are returned.  The simple broker takes the
\* first claims without looking whether there are any.
Answer(c) ==
    /\ pc[c] = "read"
    /\ todo[c] = <<>>
    /\ IF Op(c) = "evaluate" /\ broker = "Simple" /\ devs[c] = <<>>
         THEN Return(c, "panic")
         ELSE Return(c, "ok")
    /\ UNCHANGED <<broker, files, store, call, job, before>>

-----------------------------------------------------------------------------
(* register_reference_value and set_policy.                                *)

\* The RVPS stores the values; RvpsStore has the details.
Register(c) ==
    /\ pc[c] = "lock" /\ Op(c) = "register"
    /\ Free(c)
    /\ \/ store' = call[c].ref /\ Return(c, "ok")
       \/ MayFail /\ store' \in {store, call[c].ref} /\ Return(c, "failed")
    /\ UNCHANGED <<broker, files, call, job, before>>

\* The policy does not decode or does not parse, or its id is not valid.
SetRefused(c) ==
    /\ pc[c] = "lock" /\ Op(c) = "set"
    /\ Free(c)
    /\ call[c].policy = BadPolicy
    /\ Return(c, "failed")
    /\ UNCHANGED <<broker, files, store, call, job, before>>

\* tokio::fs::write leaves the write to a thread of the blocking pool.
SetLocked(c) ==
    /\ pc[c] = "lock" /\ Op(c) = "set"
    /\ Free(c)
    /\ call[c].policy # BadPolicy
    /\ job' = [job EXCEPT ![c] = "queued"]
    /\ Goto(c, "write")
    /\ UNCHANGED <<broker, files, store, call, pieces, devs, refs, todo, got, res, before>>

Truncate(c) ==
    /\ job[c] = "queued"
    /\ files' = [files EXCEPT ![call[c].file] = Torn]
    /\ job' = [job EXCEPT ![c] = "truncated"]
    /\ UNCHANGED <<broker, store, pc, call, pieces, devs, refs, todo, got, res, before>>

\* The call is told the result of its write, unless it was dropped.
Told(c, r) == IF pc[c] = "write" THEN Return(c, r) ELSE UNCHANGED <<pc, res, pieces, devs, refs, todo, got>>

\* If another write has filled the file since, what comes out is a mix of the two,
\* unless the two have the same length.
Fill(c) ==
    /\ job[c] = "truncated"
    /\ LET f == call[c].file IN
       \E p \in {call[c].policy} \cup (IF files[f] = Torn THEN {} ELSE {Torn}) :
         files' = [files EXCEPT ![f] = p]
    /\ job' = [job EXCEPT ![c] = "none"]
    /\ Told(c, "ok")
    /\ UNCHANGED <<broker, store, call, before>>

\* The file cannot be opened, or the disk is full.
WriteFails(c) ==
    /\ MayFail
    /\ job[c] # "none"
    /\ job' = [job EXCEPT ![c] = "none"]
    /\ Told(c, "failed")
    /\ UNCHANGED <<broker, files, store, call, before>>

-----------------------------------------------------------------------------
(* What the environment does.                                              *)

\* The connection is reset: the future of the call is dropped at an await.
Drop(c) ==
    /\ pc[c] \notin {"idle", "done"}
    /\ Return(c, "dropped")
    /\ UNCHANGED <<broker, files, store, call, job, before>>

\* The process dies and is started again.
Crash ==
    /\ MayFail
    /\ \E c \in Call : pc[c] \notin {"idle", "done"} \/ job[c] # "none"
    /\ files' = Started(broker, files)
    /\ pc' = [c \in Call |-> IF pc[c] = "idle" THEN "idle" ELSE "done"]
    /\ res' = [c \in Call |-> IF pc[c] \in {"idle", "done"} THEN res[c] ELSE "crashed"]
    /\ job' = [c \in Call |-> "none"]
    /\ pieces' = [c \in Call |-> <<>>]
    /\ todo' = [c \in Call |-> <<>>]
    /\ devs' = [c \in Call |-> IF res[c] = "ok" THEN devs[c] ELSE <<>>]
    /\ got' = [c \in Call |-> IF res[c] = "ok" THEN got[c] ELSE <<>>]
    /\ refs' = [c \in Call |-> IF res[c] = "ok" THEN refs[c] ELSE Unknown]
    /\ UNCHANGED <<broker, store, call, before>>

-----------------------------------------------------------------------------
(* The token of the EAR broker.                                            *)

\* Mutant: the first device of a class has no index yet, and neither has the next.
AddSubmodLate(acc, d) ==
    LET cl == Class[d]
        new == IF cl \in DOMAIN acc.index /\ acc.index[cl] > 0
                 THEN (acc.index[cl] + 1) % IndexMod ELSE 0
    IN  [index |-> [x \in DOMAIN acc.index \cup {cl} |-> IF x = cl THEN new ELSE acc.index[x]],
         submods |-> [n \in DOMAIN acc.submods \cup {<<cl, new>>} |->
                        IF n = <<cl, new>> THEN acc.next ELSE acc.submods[n]],
         next |-> acc.next + 1]

\* The loop body of issue: the submodule of a device is named by its class and its
\* index in the class, and holds the appraisal of the device (here, its position).
AddSubmod(acc, d) ==
    LET cl == Class[d]
        new == IF cl \in DOMAIN acc.index THEN (acc.index[cl] + 1) % IndexMod ELSE 0
    IN  [index |-> [x \in DOMAIN acc.index \cup {cl} |-> IF x = cl THEN new ELSE acc.index[x]],
         submods |-> [n \in DOMAIN acc.submods \cup {<<cl, new>>} |->
                        IF n = <<cl, new>> THEN acc.next ELSE acc.submods[n]],
         next |-> acc.next + 1]

Submods(ds) ==
    LET upto[n \in 0 .. Len(ds)] ==
            IF n = 0 THEN [index |-> <<>>, submods |-> <<>>, next |-> 1] ELSE AddSubmod(upto[n - 1], ds[n])
    IN  upto[Len(ds)].submods

-----------------------------------------------------------------------------
(* The specification.                                                      *)

Work(c) ==
    \/ LockForRead(c) \/ Verify(c) \/ VerifyFails(c) \/ GetDigests(c) \/ Look(c)
    \/ ReadPolicy(c) \/ ReadFails(c) \/ Answer(c)
    \/ Register(c) \/ SetRefused(c) \/ SetLocked(c)
    \/ Truncate(c) \/ Fill(c)

Next ==
    \/ \E c \in Call :
         \/ \E a \in Requests : Ask(c, a)
         \/ AskRefused(c)
         \/ Work(c)
         \/ LookFails(c)
         \/ WriteFails(c)
         \/ Drop(c)
    \/ Crash

Spec == Init /\ [][Next]_vars

-----------------------------------------------------------------------------
(* Properties.                                                             *)

Asked(c, op) == call[c] # NoCall /\ Op(c) = op
Issued(c) == Asked(c, "evaluate") /\ res[c] = "ok"

\* No policy write was left behind by a call that was dropped.
NoStrayWrite == \A c \in Call : Asked(c, "set") => res[c] # "dropped"

\* One token is issued under one state of the policies: devices of one class, and
\* policies named twice, are appraised by the same policy, although the broker reads
\* the file again for each.  About the read lock that evaluate is called under.
OnePolicyPerToken ==
    NoStrayWrite =>
      \A c \in Call : Issued(c) =>
        \A j, k \in DOMAIN got[c] :
          got[c][j].file = got[c][k].file => got[c][j].policy = got[c][k].policy

\* What a set_policy or register_reference_value call acknowledged governs every call
\* that is made afterwards, until a call that did not end before it sets another
\* one.  About the lock, the write before the answer, and a restart that keeps the
\* policy files.
AcknowledgedGoverns ==
    NoStrayWrite =>
      \A c \in Call : \A w \in before[c] : res[w] = "ok" /\ res[c] = "ok" =>
        /\ Asked(w, "set") =>
             \A k \in DOMAIN got[c] : got[c][k].file = call[w].file =>
               \/ got[c][k].policy = call[w].policy
               \/ \E v \in Call \ (before[w] \cup {w}) :
                    /\ Asked(v, "set") /\ call[v].file = call[w].file
                    /\ got[c][k].policy \in {call[v].policy, Torn}
        /\ Asked(w, "register") /\ (Asked(c, "query") \/ Issued(c)) =>
             \/ refs[c] = call[w].ref
             \/ \E v \in Call \ (before[w] \cup {w}) :
                  Asked(v, "register") /\ refs[c] = call[v].ref

\* The devices of class cl among the first n of ds.
OfClass(ds, cl, n) == {k \in 1 .. n : Class[ds[k]] = cl}

\* <class><i>, for the device k that has i devices of its class before it.
SubmodName(ds, k) == <<Class[ds[k]], Cardinality(OfClass(ds, Class[ds[k]], k - 1))>>

\* The submodules of an EAR token are exactly its devices: <class><i> holds the
\* appraisal of the i-th device of the class, by the policy of that class, and none is
\* lost, as long as the index of a device fits its type.  About the order in which
\* evaluate collects claims and issue counts them.
EveryDeviceAppraised ==
    \A c \in Call : Issued(c) /\ broker = "Ear" =>
      LET ds == devs[c] IN
      (\A k \in DOMAIN ds : SubmodName(ds, k)[2] < IndexMod) =>
        /\ DOMAIN Submods(ds) = {SubmodName(ds, k) : k \in DOMAIN ds}
        /\ \A k \in DOMAIN ds :
             /\ Submods(ds)[SubmodName(ds, k)] = k
             /\ got[c][k].file = <<call[c].ids[1], Class[ds[k]]>>

\* "use "default" to set default policy": a policy set under the id d is one of those
\* that an evaluation under that id uses.  About the file that issue reads.
SetIdIsUsed ==
    \A c \in Call : \A w \in before[c] :
      Issued(c) /\ devs[c] # <<>> /\ Asked(w, "set") /\ res[w] = "ok"
        /\ (\E k \in DOMAIN call[c].ids : call[w].file = <<call[c].ids[k]>>)
      => \E k \in DOMAIN got[c] : got[c][k].file = call[w].file
====
