------------------------------ MODULE RvpsStore ------------------------------
(***************************************************************************)
(* The Reference Value Provider Service: concurrent register and query     *)
(* calls behind the read-write lock of rvps/src/server/mod.rs (the         *)
(* attestation service puts the same lock around the built-in RVPS), the   *)
(* loop of Rvps::verify_and_extract over the values of a message, and the  *)
(* two storage backends.                                                   *)
(*                                                                         *)
(* LocalJson reads the whole file, changes one value and writes the whole  *)
(* file.  tokio::fs::write hands the write to a thread of the blocking     *)
(* pool, where it truncates the file before it fills it; that thread goes  *)
(* on when the call that waits for it is dropped.  LocalFs is a sled       *)
(* database: insert is visible at once and durable after flush.            *)
(***************************************************************************)
EXTENDS Integers, Extractors

CONSTANTS
    Registrar,  \* register calls of the service
    Reader,     \* query calls
    Name, Val,  \* names of reference values, and values
    Message,    \* the messages of register calls
    Backends,   \* the storage backends to consider: "LocalJson", "LocalFs"
    Lifetime,   \* the twelve months until a value expires
    MaxClock,   \* bound on the clock, for TLC
    NoVal, Lost, NoDisk

ASSUME RvpsAssumption ==
    /\ Registrar \cap Reader = {}
    /\ \A x \in Message : extract(x) \subseteq Seq(Name \X Val) \cup {Refused}
    /\ Backends \subseteq {"LocalJson", "LocalFs"}
    /\ \A x \in Message : x.type = "swid" /\ x.payload # Malformed =>
         LET rs == x.payload.resources
         IN  rs \in Seq(Range(rs)) /\ \A r \in Range(rs) : r.hash \in Seq(Range(r.hash))
    /\ Lifetime \in Nat /\ MaxClock \in Nat
    /\ Refused \notin Seq(Name \X Val)

Call == Registrar \cup Reader

VARIABLES
    clock,
    file,   \* what a read returns: a map, or Lost for a file that does not parse
    disk,   \* LocalFs: what a crash cannot take away; NoDisk for LocalJson
    pc,     \* where each call is
    msg,    \* the message of a register call
    rvs,    \* the reference values that were extracted from it
    todo,   \* those that are not stored yet
    new,    \* the content that a call writes
    job,    \* the write that a call left to the blocking pool
    res,    \* how a call ended
    seen    \* the answer of a query

vars == <<clock, file, disk, pc, msg, rvs, todo, new, job, res, seen>>

\* ReferenceValue: the name, the value, and when it expires.
ReferenceValue == [name: Name, value: Val, expiration: 0 .. MaxClock + Lifetime]

Content == [Name -> ReferenceValue \cup {NoVal}]
Empty == [n \in Name |-> NoVal]

ASSUME ContentAssumption ==
    /\ NoVal \notin ReferenceValue \cup Val
    /\ Lost \notin Content /\ NoDisk \notin Content

\* The backend that the service was configured with.
Storage == IF disk = NoDisk THEN "LocalJson" ELSE "LocalFs"

Init ==
    /\ clock = 0
    /\ file = Empty
    /\ \E b \in Backends : disk = IF b = "LocalFs" THEN Empty ELSE NoDisk
    /\ pc = [c \in Call |-> "idle"]
    /\ msg = [c \in Call |-> NoVal]
    /\ rvs = [c \in Call |-> <<>>]
    /\ todo = [c \in Call |-> <<>>]
    /\ new = [c \in Call |-> Empty]
    /\ job = [c \in Call |-> "none"]
    /\ res = [c \in Call |-> "none"]
    /\ seen = [c \in Call |-> Empty]

-----------------------------------------------------------------------------
(* Calls and the lock around the service.                                  *)

Writing(c) == pc[c] \in {"set", "write", "flush"}
Reading(c) == pc[c] = "get"

Return(c, r) ==
    /\ pc' = [pc EXCEPT ![c] = "done"]
    /\ res' = [res EXCEPT ![c] = r]

Register(c, x) ==
    /\ c \in Registrar
    /\ pc[c] = "idle"
    /\ pc' = [pc EXCEPT ![c] = "register"]
    /\ msg' = [msg EXCEPT ![c] = x]
    /\ UNCHANGED <<clock, file, disk, rvs, todo, new, job, res, seen>>

Query(c) ==
    /\ c \in Reader
    /\ pc[c] = "idle"
    /\ pc' = [pc EXCEPT ![c] = "query"]
    /\ UNCHANGED <<clock, file, disk, msg, rvs, todo, new, job, res, seen>>

\* Time may pass while a call runs through the members of S, each of which reads
\* the clock.
Readings(S) == [S -> clock .. clock']

\* ReferenceValue::new for each value, which reads the clock.
Stamped(x, t) ==
    [i \in DOMAIN x |-> [name |-> x[i][1], value |-> x[i][2], expiration |-> t[i] + Lifetime]]

\* The message is checked and its values are extracted, one after the other and
\* without an await.
Extract(c, x) ==
    /\ x # Refused
    /\ pc' = [pc EXCEPT ![c] = "set"]
    /\ clock' \in clock .. MaxClock
    /\ \E t \in Readings(DOMAIN x) :
         /\ \A i, j \in DOMAIN x : i < j => t[i] <= t[j]
         /\ rvs' = [rvs EXCEPT ![c] = Stamped(x, t)]
         /\ todo' = [todo EXCEPT ![c] = Stamped(x, t)]
    /\ UNCHANGED <<file, disk, msg, new, job, res, seen>>

LockForWrite(c) ==
    /\ pc[c] = "register"
    /\ \A d \in Call : ~Writing(d) /\ ~Reading(d)
    /\ \E x \in extract(msg[c]) : Extract(c, x)

RegisterRefused(c) ==
    /\ pc[c] = "register"
    /\ \A d \in Call : ~Writing(d) /\ ~Reading(d)
    /\ Refused \in extract(msg[c])
    /\ Return(c, "refused")
    /\ UNCHANGED <<clock, file, disk, msg, rvs, todo, new, job, seen>>

\* Mutant: a query reads without the lock.
LockAnyForRead(c) ==
    /\ pc[c] = "query"
    /\ pc' = [pc EXCEPT ![c] = "get"]
    /\ UNCHANGED <<clock, file, disk, msg, rvs, todo, new, job, res, seen>>

LockForRead(c) ==
    /\ pc[c] = "query"
    /\ \A d \in Call : ~Writing(d)
    /\ pc' = [pc EXCEPT ![c] = "get"]
    /\ UNCHANGED <<clock, file, disk, msg, rvs, todo, new, job, res, seen>>

\* The loop of verify_and_extract: the values are stored, the lock is released.
Registered(c) ==
    /\ pc[c] = "set"
    /\ todo[c] = <<>>
    /\ Return(c, "ok")
    /\ UNCHANGED <<clock, file, disk, msg, rvs, todo, new, job, seen>>

-----------------------------------------------------------------------------
(* LocalJson                                                               *)

\* Mutant: a file that does not parse is taken for an empty one.
JsonReadLenient(c) ==
    /\ Storage = "LocalJson"
    /\ pc[c] = "set"
    /\ todo[c] # <<>>
    /\ LET p == Head(todo[c])
           f == IF file = Lost THEN Empty ELSE file
       IN  new' = [new EXCEPT ![c] = [f EXCEPT ![p.name] = p]]
    /\ pc' = [pc EXCEPT ![c] = "write"]
    /\ job' = [job EXCEPT ![c] = "queued"]
    /\ UNCHANGED <<clock, file, disk, msg, rvs, todo, res, seen>>

\* Mutant: storing a value takes the lock of the service once more.
JsonReadRelocks(c) ==
    /\ Storage = "LocalJson"
    /\ pc[c] = "set"
    /\ todo[c] # <<>>
    /\ file # Lost
    /\ \A d \in Call : ~Writing(d) /\ ~Reading(d)
    /\ LET p == Head(todo[c]) IN new' = [new EXCEPT ![c] = [file EXCEPT ![p.name] = p]]
    /\ pc' = [pc EXCEPT ![c] = "write"]
    /\ job' = [job EXCEPT ![c] = "queued"]
    /\ UNCHANGED <<clock, file, disk, msg, rvs, todo, res, seen>>

\* The file is read and parsed, the value replaced or added, and the write of
\* the new content left to the blocking pool.
JsonRead(c) ==
    /\ Storage = "LocalJson"
    /\ pc[c] = "set"
    /\ todo[c] # <<>>
    /\ file # Lost
    /\ LET p == Head(todo[c]) IN new' = [new EXCEPT ![c] = [file EXCEPT ![p.name] = p]]
    /\ pc' = [pc EXCEPT ![c] = "write"]
    /\ job' = [job EXCEPT ![c] = "queued"]
    /\ UNCHANGED <<clock, file, disk, msg, rvs, todo, res, seen>>

\* The file does not parse.  The values of the message stored so far stay.
JsonReadFails(c) ==
    /\ Storage = "LocalJson"
    /\ pc[c] = "set"
    /\ todo[c] # <<>>
    /\ file = Lost
    /\ Return(c, "unreadable")
    /\ UNCHANGED <<clock, file, disk, msg, rvs, todo, new, job, seen>>

JsonTruncate(c) ==
    /\ job[c] = "queued"
    /\ file' = Lost
    /\ job' = [job EXCEPT ![c] = "truncated"]
    /\ UNCHANGED <<clock, disk, pc, msg, rvs, todo, new, res, seen>>

\* The content is written; the call, if it still waits, goes on.  When another
\* write filled the file since, the end of the longer one may stay behind.
JsonFill(c) ==
    /\ job[c] = "truncated"
    /\ file' \in {new[c]} \cup (IF file = Lost THEN {} ELSE {Lost})
    /\ job' = [job EXCEPT ![c] = "none"]
    /\ IF pc[c] = "write"
         THEN /\ pc' = [pc EXCEPT ![c] = "set"]
              /\ todo' = [todo EXCEPT ![c] = Tail(@)]
         ELSE UNCHANGED <<pc, todo>>
    /\ UNCHANGED <<clock, disk, msg, rvs, new, res, seen>>

\* The file cannot be opened, or the disk is full: the file stays as it is,
\* which is truncated in the second case.
JsonWriteFails(c) ==
    /\ job[c] # "none"
    /\ job' = [job EXCEPT ![c] = "none"]
    /\ IF pc[c] = "write" THEN Return(c, "failed") ELSE UNCHANGED <<pc, res>>
    /\ UNCHANGED <<clock, file, disk, msg, rvs, todo, new, seen>>

-----------------------------------------------------------------------------
(* LocalFs                                                                 *)

FsInsert(c) ==
    /\ Storage = "LocalFs"
    /\ pc[c] = "set"
    /\ todo[c] # <<>>
    /\ LET p == Head(todo[c]) IN file' = [file EXCEPT ![p.name] = p]
    /\ pc' = [pc EXCEPT ![c] = "flush"]
    /\ UNCHANGED <<clock, disk, msg, rvs, todo, new, job, res, seen>>

\* Mutant: the database is not flushed.
FsNoFlush(c) ==
    /\ pc[c] = "flush"
    /\ pc' = [pc EXCEPT ![c] = "set"]
    /\ todo' = [todo EXCEPT ![c] = Tail(@)]
    /\ UNCHANGED <<clock, file, disk, msg, rvs, new, job, res, seen>>

FsFlush(c) ==
    /\ pc[c] = "flush"
    /\ disk' = file
    /\ pc' = [pc EXCEPT ![c] = "set"]
    /\ todo' = [todo EXCEPT ![c] = Tail(@)]
    /\ UNCHANGED <<clock, file, msg, rvs, new, job, res, seen>>

\* The insert or the flush fails.
FsFails(c) ==
    /\ \/ Storage = "LocalFs" /\ pc[c] = "set" /\ todo[c] # <<>>
       \/ pc[c] = "flush"
    /\ Return(c, "failed")
    /\ UNCHANGED <<clock, file, disk, msg, rvs, todo, new, job, seen>>

-----------------------------------------------------------------------------
(* Queries, and what happens around the calls.                             *)

\* Rvps::get_digests leaves out the values that are expired when it comes to them.
Digests(f, t) ==
    [n \in Name |-> IF f[n] = NoVal \/ t[n] > f[n].expiration THEN NoVal ELSE f[n].value]

Get(c) ==
    /\ pc[c] = "get"
    /\ file # Lost
    /\ clock' \in clock .. MaxClock
    /\ \E t \in Readings(Name) : seen' = [seen EXCEPT ![c] = Digests(file, t)]
    /\ Return(c, "ok")
    /\ UNCHANGED <<file, disk, msg, rvs, todo, new, job>>

GetFails(c) ==
    /\ pc[c] = "get"
    /\ file = Lost
    /\ Return(c, "unreadable")
    /\ UNCHANGED <<clock, file, disk, msg, rvs, todo, new, job, seen>>

\* The client disconnects and the call is dropped at an await, with the lock.
\* The write that it has left to the blocking pool is stray from then on.
Drop(c) ==
    /\ \/ pc[c] \in {"register", "query"}
       \/ Storage = "LocalJson" /\ pc[c] \in {"set", "write", "get"}
    /\ Return(c, IF job[c] = "none" THEN "dropped" ELSE "stray")
    /\ UNCHANGED <<clock, file, disk, msg, rvs, todo, new, job, seen>>

\* A crash and the restart: neither backend touches what it finds.  Inserts that
\* were not flushed may be gone.
Crash ==
    /\ pc' = [c \in Call |-> IF pc[c] = "idle" THEN "idle" ELSE "done"]
    /\ res' = [c \in Call |-> IF pc[c] \in {"idle", "done"} THEN res[c] ELSE "dropped"]
    /\ job' = [c \in Call |-> "none"]
    /\ IF Storage = "LocalFs"
         THEN \E kept \in SUBSET Name :
                /\ file' = [n \in Name |-> IF n \in kept THEN file[n] ELSE disk[n]]
                /\ disk' = file'
         ELSE UNCHANGED <<file, disk>>
    /\ UNCHANGED <<clock, msg, rvs, todo, new, seen>>

Tick ==
    /\ clock < MaxClock
    /\ clock' = clock + 1
    /\ UNCHANGED <<file, disk, pc, msg, rvs, todo, new, job, res, seen>>

Arrive(c) == Query(c) \/ \E x \in Message : Register(c, x)

Proceed(c) ==
    \/ LockForWrite(c)
    \/ RegisterRefused(c)
    \/ LockForRead(c)
    \/ Registered(c)
    \/ JsonRead(c)
    \/ JsonReadFails(c)
    \/ JsonTruncate(c)
    \/ JsonFill(c)
    \/ FsInsert(c)
    \/ FsFlush(c)
    \/ Get(c)
    \/ GetFails(c)

Fail(c) == JsonWriteFails(c) \/ FsFails(c) \/ Drop(c)

Next ==
    \/ \E c \in Call : Arrive(c) \/ Proceed(c) \/ Fail(c)
    \/ Crash
    \/ Tick

Spec == Init /\ [][Next]_vars

\* The runtime polls the calls and the blocking pool runs the writes.
FairSpec == Spec /\ \A c \in Call : WF_vars(Proceed(c))

-----------------------------------------------------------------------------
(* Properties.                                                             *)

Names(c) == {rvs[c][i].name : i \in DOMAIN rvs[c]}

\* No client disconnected while a file was written for it.
NoStray == \A c \in Call : res[c] # "stray"

\* "All verified reference values will be stored in a storage backend": the
\* names of a register call that succeeded stay stored, with a value of that
\* call or of another register call, whatever calls run before, during and
\* after it, and across crashes.  On the JSON file this needs that no write was
\* left behind by a client that disconnected, and that the file was not lost.
AcknowledgedIsStored ==
    \A c \in Call : res[c] = "ok" /\ file # Lost /\ NoStray =>
        \A n \in Names(c) :
            \E d \in Call : \E i \in DOMAIN rvs[d] : rvs[d][i] = file[n]

\* A call finds the storage unreadable only when it is lost for good: no call
\* reads a file that another one is about to write, unless that write is stray.
UnreadableIsLost ==
    \A c \in Call : res[c] = "unreadable" /\ NoStray =>
        file = Lost /\ \A d \in Call : job[d] # "truncated"

\* A query sees of the values of one message, in their order, those up to some
\* value, and all of them once the register call has succeeded, but for the ones
\* that have expired: an error, a dropped call or a crash half way leaves the
\* beginning of the message, and no query looks into a call that is running.
\* (For a message whose names no other message names; a name that comes twice in
\* the message has its last value.)
AnswersAreWhole ==
    \A q, c \in Call :
        /\ NoStray
        /\ res[q] = "ok"
        /\ \A d \in Call \ {c} : Names(d) \cap Names(c) = {}
        => LET Same(i, j) == rvs[c][i].name = rvs[c][j].name
               Shows(i) == seen[q][rvs[c][i].name] = rvs[c][i].value
               First(j) == \A i \in DOMAIN rvs[c] : i < j => ~Same(i, j)
               Last(i) == \A j \in DOMAIN rvs[c] : j > i => ~Same(j, i)
           IN  \A i, j \in DOMAIN rvs[c] :
                 Shows(j) /\ ((i < j /\ First(j)) \/ res[c] = "ok") /\ Last(i) =>
                    Shows(i) \/ clock > rvs[c][i].expiration

\* The hashes of resource r before the first that is missing, except those of zeros.
Listed(r) == {r.hash[i] : i \in {j \in DOMAIN r.hash : \A k \in 1 .. j : r.hash[k] # NoAttr}} \ {Zero}

\* A hash of zeros that other hashes follow.
ZeroWithin(r) == \E i, j \in DOMAIN r.hash : i < j /\ r.hash[i] = Zero /\ r.hash[j] \notin {Zero, NoAttr}

\* Of a SWID manifest that was registered, each measurement lists exactly its
\* hashes before the first that is missing, except those of zeros, and a
\* measurement without such a hash leaves the value under its name alone.  (For
\* manifests without a hash of zeros that other hashes follow.)
ManifestIsExtracted ==
    \A c \in Call : rvs[c] # <<>> /\ msg[c].type = "swid" =>
        LET d == msg[c].payload
            ms == {r \in Range(d.resources) : r.type = "Measurement"}
        IN  (\A r \in ms : ~ZeroWithin(r)) =>
              {<<v.name, Range(v.value)>> : v \in Range(rvs[c])}
               = {<<RvName[d.prefix, r.index], Listed(r)>> : r \in {s \in ms : Listed(s) # {}}}

\* Every call returns: nobody waits for the lock for ever.  (One formula for all
\* calls: a call is made once, and stays done.)
EveryCallEnds == []<>(\A c \in Call : pc[c] \in {"idle", "done"})

\* The content that readers are to see: while a write is under way, the content
\* that it writes.
Store ==
    IF \E c \in Call : job[c] = "truncated"
      THEN new[CHOOSE c \in Call : job[c] = "truncated"]
      ELSE file

Abstract == INSTANCE ReferenceValues WITH store <- Store, Val <- ReferenceValue

\* The lock, the loop over the values and the read, truncate and fill of a file
\* implement a map that changes one name at a time, or is lost for good, as long
\* as no write is stray.
ImplementsStore ==
    /\ Abstract!Init
    /\ [][Storage = "LocalJson" /\ NoStray => Abstract!Next]_(Abstract!vars)
====
