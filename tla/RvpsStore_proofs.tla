--------------------------- MODULE RvpsStore_proofs ---------------------------
(***************************************************************************)
(* Proofs about RvpsStore, for every number of calls and every set of      *)
(* names, values and messages, on both backends.                           *)
(***************************************************************************)
EXTENDS RvpsStore, WellFoundedInduction, TLAPS

-----------------------------------------------------------------------------
(* What calls carry.                                                       *)

\* The ways in which a call ends.
Result == {"none", "ok", "refused", "unreadable", "failed", "dropped", "stray"}

\* The types of the variables.
Types ==
    /\ clock \in 0 .. MaxClock
    /\ file \in Content \cup {Lost}
    /\ disk \in Content \cup {NoDisk}
    /\ pc \in [Call -> {"idle", "register", "query", "set", "write", "flush", "get", "done"}]
    /\ DOMAIN msg = Call
    /\ rvs \in [Call -> Seq(ReferenceValue)]
    /\ todo \in [Call -> Seq(ReferenceValue)]
    /\ new \in [Call -> Content]
    /\ job \in [Call -> {"none", "queued", "truncated"}]
    /\ res \in [Call -> Result]
    /\ seen \in [Call -> [Name -> Val \cup {NoVal}]]

\* Where a call is tells what it carries; only a call that was dropped has a write in
\* the blocking pool and does not wait for it; sled never loses the whole map.
Coherent ==
    /\ disk # NoDisk => file # Lost
    /\ \A c \in Call :
        /\ pc[c] = "register" => msg[c] \in Message
        /\ pc[c] \in {"idle", "register", "query", "get"} =>
             rvs[c] = <<>> /\ todo[c] = <<>>
        /\ pc[c] \in {"write", "flush"} => todo[c] # <<>>
        /\ pc[c] = "write" => job[c] # "none"
        /\ pc[c] = "flush" => disk # NoDisk
        /\ job[c] # "none" => disk = NoDisk /\ pc[c] \in {"write", "done"}
        /\ job[c] # "none" /\ pc[c] = "done" => res[c] = "stray"
        /\ pc[c] # "done" => res[c] = "none"
        /\ res[c] = "ok" => todo[c] = <<>>

\* The values of a message that are stored come before those that are not.
Stored(c) == Len(rvs[c]) - Len(todo[c])

\* What is left to store is the end of the list.
InOrder ==
    \A c \in Call :
        /\ Len(todo[c]) <= Len(rvs[c])
        /\ \A i \in 1 .. Len(todo[c]) : todo[c][i] = rvs[c][Stored(c) + i]

\* What is known of a call from where it is.
CallInv == Types /\ Coherent /\ InOrder

\* The values of a message are reference values, whenever they are stamped.
LEMMA StampedType ==
    ASSUME NEW x \in Seq(Name \X Val), NEW t \in [DOMAIN x -> 0 .. MaxClock]
    PROVE  Stamped(x, t) \in Seq(ReferenceValue)
<1> DEFINE V(i) == [name |-> x[i][1], value |-> x[i][2], expiration |-> t[i] + Lifetime]
<1>1. \A i \in DOMAIN x : t[i] + Lifetime \in 0 .. MaxClock + Lifetime
  BY RvpsAssumption
<1>2. \A i \in DOMAIN x : V(i) \in ReferenceValue
  BY <1>1 DEF ReferenceValue
<1>3. Stamped(x, t) = [i \in DOMAIN x |-> V(i)]
  BY Zenon DEF Stamped
<1>4. Len(x) \in Nat /\ DOMAIN x = 1 .. Len(x)
  OBVIOUS
<1> HIDE DEF V
<1> QED
  BY <1>2, <1>3, <1>4

\* The time that a call takes.
LEMMA Passes ==
    ASSUME clock \in 0 .. MaxClock, clock' \in clock .. MaxClock
    PROVE  /\ clock' \in 0 .. MaxClock /\ clock <= clock'
           /\ \A S : Readings(S) \subseteq [S -> 0 .. MaxClock]
<1>1. clock' \in 0 .. MaxClock /\ clock <= clock' /\ clock .. clock' \subseteq 0 .. MaxClock
  BY RvpsAssumption
<1>2. ASSUME NEW S, NEW t \in Readings(S) PROVE t \in [S -> 0 .. MaxClock]
  BY <1>1, Zenon DEF Readings
<1> QED
  BY <1>1, <1>2, Zenon

\* What is stored next is the first value that is not stored yet.
LEMMA NextValue ==
    ASSUME CallInv, NEW c \in Call, todo[c] # <<>>
    PROVE  /\ Head(todo[c]) \in ReferenceValue /\ Tail(todo[c]) \in Seq(ReferenceValue)
           /\ Len(Tail(todo[c])) = Len(todo[c]) - 1
           /\ Len(todo[c]) \in Nat /\ Len(rvs[c]) \in Nat
           /\ Stored(c) \in Nat /\ Stored(c) + 1 <= Len(rvs[c])
           /\ Head(todo[c]) = rvs[c][Stored(c) + 1]
           /\ \A i \in 1 .. Len(todo[c]) - 1 : Tail(todo[c])[i] = todo[c][i + 1]
<1>1. todo[c] \in Seq(ReferenceValue) /\ rvs[c] \in Seq(ReferenceValue)
  BY Zenon DEF CallInv, Types
<1>2. Len(todo[c]) <= Len(rvs[c]) /\ \A i \in 1 .. Len(todo[c]) : todo[c][i] = rvs[c][Stored(c) + i]
  BY Zenon DEF CallInv, InOrder
<1>3. Len(todo[c]) \in Nat /\ Len(todo[c]) > 0 /\ Len(rvs[c]) \in Nat
  BY <1>1
<1>4. Head(todo[c]) = todo[c][1] /\ Head(todo[c]) \in ReferenceValue
  BY <1>1, <1>3
<1>5. /\ Tail(todo[c]) \in Seq(ReferenceValue) /\ Len(Tail(todo[c])) = Len(todo[c]) - 1
      /\ \A i \in 1 .. Len(todo[c]) - 1 : Tail(todo[c])[i] = todo[c][i + 1]
  BY <1>1, <1>3
<1>6. Head(todo[c]) = rvs[c][Stored(c) + 1]
  BY <1>2, <1>3, <1>4
<1>7. Stored(c) \in Nat /\ Stored(c) + 1 <= Len(rvs[c])
  <2>1. \A m, n \in Nat : 0 < m /\ m <= n => n - m \in Nat /\ n - m + 1 <= n
    OBVIOUS
  <2>2. Stored(c) = Len(rvs[c]) - Len(todo[c])
    BY Zenon DEF Stored
  <2>3. Len(todo[c]) <= Len(rvs[c]) /\ 0 < Len(todo[c])
    BY <1>2, <1>3, Zenon
  <2> HIDE DEF Stored
  <2> QED
    BY <1>3, <2>1, <2>2, <2>3, Zenon
<1> QED
  BY <1>3, <1>4, <1>5, <1>6, <1>7, Zenon

\* One more value is stored.
LEMMA AdvanceOrder ==
    ASSUME CallInv, NEW c \in Call, todo[c] # <<>>,
           UNCHANGED rvs, todo' = [todo EXCEPT ![c] = Tail(@)]
    PROVE  /\ todo' \in [Call -> Seq(ReferenceValue)] /\ InOrder'
           /\ \A d \in Call \ {c} : Stored(d)' = Stored(d)
           /\ Stored(c)' = Stored(c) + 1
<1>1. todo \in [Call -> Seq(ReferenceValue)]
  BY Zenon DEF CallInv, Types
<1>2. todo'[c] = Tail(todo[c]) /\ \A d \in Call \ {c} : todo'[d] = todo[d]
  BY <1>1, Zenon
<1>3. todo' \in [Call -> Seq(ReferenceValue)]
  BY <1>1, NextValue, Zenon
<1>n. Len(Tail(todo[c])) = Len(todo[c]) - 1 /\ Len(todo[c]) \in Nat /\ Len(rvs[c]) \in Nat
  BY NextValue, Zenon
<1>4. Stored(c)' = Stored(c) + 1 /\ \A d \in Call \ {c} : Stored(d)' = Stored(d)
  <2>1. \A m, n \in Nat : n - (m - 1) = (n - m) + 1
    OBVIOUS
  <2>2. Len(todo'[c]) = Len(todo[c]) - 1
    BY <1>2, <1>n, Zenon
  <2>3. Len(rvs[c]) - (Len(todo[c]) - 1) = (Len(rvs[c]) - Len(todo[c])) + 1
    BY <1>n, <2>1, Zenon
  <2>4. Stored(c)' = Stored(c) + 1
    BY <2>2, <2>3, Zenon DEF Stored
  <2>5. \A d \in Call \ {c} : Stored(d)' = Stored(d)
    BY <1>2, Zenon DEF Stored
  <2> QED
    BY <2>4, <2>5, Zenon
<1>5. /\ Len(todo'[c]) <= Len(rvs[c])
      /\ \A i \in 1 .. Len(todo'[c]) : todo'[c][i] = rvs[c][Stored(c)' + i]
  <2>1. Len(todo'[c]) = Len(todo[c]) - 1 /\ Len(todo[c]) \in Nat /\ Len(rvs[c]) \in Nat
    BY <1>2, <1>n, Zenon
  <2>i. Stored(c) \in Nat
    BY NextValue, Zenon
  <2>2. Len(todo[c]) <= Len(rvs[c])
    BY Zenon DEF CallInv, InOrder
  <2> SUFFICES ASSUME NEW i \in 1 .. Len(todo[c]) - 1 PROVE todo'[c][i] = rvs[c][Stored(c)' + i]
    BY <2>1, <2>2
  <2>3. todo'[c][i] = todo[c][i + 1]
    BY <1>2, NextValue, Zenon
  <2>4. todo[c][i + 1] = rvs[c][Stored(c) + (i + 1)]
    BY <2>1 DEF CallInv, InOrder
  <2>5. Stored(c) + (i + 1) = Stored(c)' + i
    BY <1>4, <2>i
  <2> QED
    BY <2>3, <2>4, <2>5, Zenon
<1>6. InOrder'
  <2>1. InOrder
    BY Zenon DEF CallInv
  <2> SUFFICES ASSUME NEW d \in Call
               PROVE  /\ Len(todo'[d]) <= Len(rvs'[d])
                      /\ \A i \in 1 .. Len(todo'[d]) : todo'[d][i] = rvs'[d][Stored(d)' + i]
    BY Zenon DEF InOrder
  <2>2. CASE d = c
    BY <1>5, <2>1, <2>2 DEF InOrder
  <2>3. CASE d # c
    BY <1>2, <1>4, <2>1, <2>3 DEF InOrder
  <2> QED
    BY <2>2, <2>3, Zenon
<1> QED
  BY <1>3, <1>4, <1>6, Zenon

\* A call that ends, and leaves the storage and the writes alone.
LEMMA ReturnKeeps ==
    ASSUME CallInv, NEW c \in Call, NEW r \in Result \ {"none"}, Return(c, r),
           UNCHANGED <<file, disk, msg, rvs, todo, new, job>>, clock' \in 0 .. MaxClock,
           seen' \in [Call -> [Name -> Val \cup {NoVal}]],
           job[c] # "none" => r = "stray", r = "ok" => todo[c] = <<>>
    PROVE  CallInv'
<1>1. Types'
  BY Zenon DEF CallInv, Types, Return
<1>2. InOrder'
  BY ZenonT(40) DEF CallInv, InOrder, Stored
<1>3. /\ pc'[c] = "done" /\ res'[c] = r
      /\ \A d \in Call \ {c} : pc'[d] = pc[d] /\ res'[d] = res[d]
  BY Zenon DEF CallInv, Types, Return
<1>4. Coherent'
  BY <1>3, ZenonT(40) DEF CallInv, Coherent
<1> QED
  BY <1>1, <1>2, <1>4, Zenon DEF CallInv

\* Every step keeps it.
LEMMA CallStep == CallInv /\ [Next]_vars => CallInv'
<1> SUFFICES ASSUME CallInv, [Next]_vars PROVE CallInv'
  BY Zenon
<1>t. Types /\ Coherent /\ InOrder
  BY Zenon DEF CallInv
<1>r. {"ok", "refused", "unreadable", "failed", "dropped", "stray"} \subseteq Result \ {"none"}
  BY Zenon DEF Result
<1>u. ASSUME UNCHANGED <<rvs, todo>> PROVE InOrder'
  <2>1. \A c \in Call : Stored(c)' = Stored(c)
    BY <1>u, Zenon DEF Stored
  <2> QED
    BY <1>t, <1>u, <2>1 DEF InOrder
<1>1. ASSUME NEW c \in Call, Arrive(c) \/ LockForRead(c) PROVE CallInv'
  <2>1. /\ UNCHANGED <<clock, file, disk, rvs, todo, new, job, res, seen>>
        /\ DOMAIN msg' = Call /\ \A d \in Call \ {c} : msg'[d] = msg[d] /\ pc'[d] = pc[d]
        /\ pc' \in [Call -> {"idle", "register", "query", "set", "write", "flush", "get", "done"}]
        /\ pc[c] \in {"idle", "query"} /\ pc'[c] \in {"register", "query", "get"}
        /\ pc'[c] = "register" => msg'[c] \in Message
    BY <1>t, <1>1, Zenon DEF Arrive, Query, Register, LockForRead, Types
  <2>2. Types'
    BY <1>t, <2>1, Zenon DEF Types
  <2>3. Coherent'
    BY <1>t, <2>1 DEF Coherent
  <2> QED
    BY <1>u, <2>1, <2>2, <2>3, Zenon DEF CallInv
<1>2. ASSUME NEW c \in Call, LockForWrite(c) PROVE CallInv'
  <2>1. PICK x \in extract(msg[c]) : Extract(c, x)
    BY <1>2, Zenon DEF LockForWrite
  <2>2. x \in Seq(Name \X Val)
    BY <1>t, <1>2, <2>1, RvpsAssumption, Zenon DEF LockForWrite, Extract, Coherent
  <2>c. clock' \in clock .. MaxClock /\ clock \in 0 .. MaxClock
    BY <1>t, <2>1, Zenon DEF Extract, Types
  <2>p. PICK t \in Readings(DOMAIN x) :
             rvs' = [rvs EXCEPT ![c] = Stamped(x, t)] /\ todo' = [todo EXCEPT ![c] = Stamped(x, t)]
    BY <2>1, Zenon DEF Extract
  <2> DEFINE vs == Stamped(x, t)
  <2>3. vs \in Seq(ReferenceValue)
    <3>1. t \in [DOMAIN x -> 0 .. MaxClock]
      BY <2>c, Passes, Zenon
    <3> QED
      BY <2>2, <3>1, StampedType, Zenon
  <2>4. /\ UNCHANGED <<file, disk, msg, new, job, res, seen>> /\ clock' \in 0 .. MaxClock
        /\ rvs' = [rvs EXCEPT ![c] = vs] /\ todo' = [todo EXCEPT ![c] = vs]
        /\ pc' = [pc EXCEPT ![c] = "set"] /\ pc[c] = "register"
    BY <1>2, <2>1, <2>c, <2>p, Passes, Zenon DEF LockForWrite, Extract
  <2> HIDE DEF vs
  <2>5. Types'
    BY <1>t, <2>3, <2>4, Zenon DEF Types
  <2>6. /\ rvs'[c] = vs /\ todo'[c] = vs /\ pc'[c] = "set"
        /\ \A d \in Call \ {c} : rvs'[d] = rvs[d] /\ todo'[d] = todo[d] /\ pc'[d] = pc[d]
    BY <1>t, <2>4, Zenon DEF Types
  <2>7. Coherent'
    BY <1>t, <2>4, <2>6 DEF Coherent
  <2>8. InOrder'
    <3> SUFFICES ASSUME NEW d \in Call
                 PROVE  /\ Len(todo'[d]) <= Len(rvs'[d])
                        /\ \A i \in 1 .. Len(todo'[d]) : todo'[d][i] = rvs'[d][Stored(d)' + i]
      BY Zenon DEF InOrder
    <3>1. CASE d # c
      <4>1. rvs'[d] = rvs[d] /\ todo'[d] = todo[d]
        BY <2>6, <3>1, Zenon
      <4>2. Stored(d)' = Stored(d)
        BY <4>1, Zenon DEF Stored
      <4> QED
        BY <1>t, <4>1, <4>2 DEF InOrder
    <3>2. CASE d = c
      <4>1. Len(vs) \in Nat
        BY <2>3
      <4>2. Stored(c)' = 0
        BY <2>6, <4>1 DEF Stored
      <4>3. ASSUME NEW i \in 1 .. Len(vs) PROVE vs[i] = vs[0 + i]
        BY <4>1
      <4>4. Len(vs) <= Len(vs)
        BY <4>1
      <4> QED
        BY <2>3, <2>6, <3>2, <4>2, <4>3, <4>4
    <3> QED
      BY <3>1, <3>2, Zenon
  <2> QED
    BY <2>5, <2>7, <2>8, Zenon DEF CallInv
<1>3. ASSUME NEW c \in Call, RegisterRefused(c) PROVE CallInv'
  BY <1>r, <1>t, <1>3, ReturnKeeps, Zenon DEF RegisterRefused, Coherent, Types
<1>4. ASSUME NEW c \in Call, Registered(c) PROVE CallInv'
  BY <1>r, <1>t, <1>4, ReturnKeeps, Zenon DEF Registered, Coherent, Types
<1>5. ASSUME NEW c \in Call, JsonReadFails(c) \/ GetFails(c) PROVE CallInv'
  BY <1>r, <1>t, <1>5, ReturnKeeps, Zenon DEF JsonReadFails, GetFails, Coherent, Types
<1>6. ASSUME NEW c \in Call, FsFails(c) PROVE CallInv'
  BY <1>r, <1>t, <1>6, ReturnKeeps, Zenon DEF FsFails, Coherent, Types
<1>7. ASSUME NEW c \in Call, Drop(c) PROVE CallInv'
  <2>1. PICK r \in {"dropped", "stray"} : Return(c, r) /\ (job[c] # "none" => r = "stray")
    BY <1>7, Zenon DEF Drop
  <2>2. UNCHANGED <<clock, file, disk, msg, rvs, todo, new, job, seen>>
    BY <1>7, Zenon DEF Drop
  <2>3. seen \in [Call -> [Name -> Val \cup {NoVal}]] /\ clock \in 0 .. MaxClock
    BY <1>t, Zenon DEF Types
  <2> QED
    BY <1>r, <2>1, <2>2, <2>3, ReturnKeeps, Zenon
<1>8. ASSUME NEW c \in Call, Get(c) PROVE CallInv'
  <2>0. PICK t \in Readings(Name) : seen' = [seen EXCEPT ![c] = Digests(file, t)]
    BY <1>8, Zenon DEF Get
  <2>1. Digests(file, t) \in [Name -> Val \cup {NoVal}]
    <3>1. file \in [Name -> ReferenceValue \cup {NoVal}]
      BY <1>t, <1>8, Zenon DEF Get, Types, Content
    <3>2. \A n \in Name : file[n] = NoVal \/ file[n].value \in Val
      BY <3>1, Zenon DEF ReferenceValue
    <3> QED
      BY <3>2, Zenon DEF Digests
  <2>3. seen' \in [Call -> [Name -> Val \cup {NoVal}]]
    BY <1>t, <2>0, <2>1, Zenon DEF Types
  <2>4. job[c] = "none" /\ todo[c] = <<>>
    BY <1>t, <1>8, Zenon DEF Get, Coherent
  <2>5. Return(c, "ok") /\ UNCHANGED <<file, disk, msg, rvs, todo, new, job>> /\ clock' \in 0 .. MaxClock
    BY <1>t, <1>8, Passes, Zenon DEF Get, Types
  <2> QED
    BY <1>r, <2>3, <2>4, <2>5, ReturnKeeps, Zenon
<1>9. ASSUME NEW c \in Call, JsonRead(c) PROVE CallInv'
  <2> DEFINE p == Head(todo[c])
             f == [file EXCEPT ![p.name] = p]
  <2>1. p \in ReferenceValue /\ p.name \in Name
    BY <1>9, NextValue, Zenon DEF JsonRead, ReferenceValue
  <2>2. file \in [Name -> ReferenceValue \cup {NoVal}]
    BY <1>t, <1>9, Zenon DEF JsonRead, Types, Content
  <2>3. f \in Content
    BY <2>1, <2>2, Zenon DEF Content
  <2>4. /\ UNCHANGED <<clock, file, disk, msg, rvs, todo, res, seen>>
        /\ new' = [new EXCEPT ![c] = f] /\ job' = [job EXCEPT ![c] = "queued"]
        /\ pc' = [pc EXCEPT ![c] = "write"] /\ pc[c] = "set" /\ todo[c] # <<>> /\ disk = NoDisk
    BY <1>9, Zenon DEF JsonRead, Storage
  <2> HIDE DEF f
  <2>5. Types'
    BY <1>t, <2>3, <2>4, Zenon DEF Types
  <2>6. /\ job'[c] = "queued" /\ pc'[c] = "write"
        /\ \A d \in Call \ {c} : job'[d] = job[d] /\ pc'[d] = pc[d]
    BY <1>t, <2>4, Zenon DEF Types
  <2>7. Coherent'
    BY <1>t, <2>4, <2>6 DEF Coherent
  <2> QED
    BY <1>u, <2>4, <2>5, <2>7, Zenon DEF CallInv
<1>10. ASSUME NEW c \in Call, JsonTruncate(c) PROVE CallInv'
  <2>1. /\ UNCHANGED <<clock, disk, pc, msg, rvs, todo, new, res, seen>>
        /\ file' = Lost /\ job' = [job EXCEPT ![c] = "truncated"] /\ job[c] # "none"
    BY <1>10, Zenon DEF JsonTruncate
  <2>2. Types'
    BY <1>t, <2>1, Zenon DEF Types
  <2>3. job'[c] = "truncated" /\ \A d \in Call \ {c} : job'[d] = job[d]
    BY <1>t, <2>1, Zenon DEF Types
  <2>4. Coherent'
    BY <1>t, <2>1, <2>3 DEF Coherent
  <2> QED
    BY <1>u, <2>1, <2>2, <2>4, Zenon DEF CallInv
<1>11. ASSUME NEW c \in Call, JsonFill(c) PROVE CallInv'
  <2>1. /\ UNCHANGED <<clock, disk, msg, rvs, new, res, seen>>
        /\ job' = [job EXCEPT ![c] = "none"] /\ job[c] # "none"
        /\ file' \in Content \cup {Lost}
    BY <1>t, <1>11 DEF JsonFill, Types
  <2>2. job'[c] = "none" /\ \A d \in Call \ {c} : job'[d] = job[d]
    BY <1>t, <2>1, Zenon DEF Types
  <2>3. disk = NoDisk
    BY <1>t, <2>1, Zenon DEF Coherent
  <2>4. CASE pc[c] = "write"
    <3>1. pc' = [pc EXCEPT ![c] = "set"] /\ todo' = [todo EXCEPT ![c] = Tail(@)]
      BY <1>11, <2>4, Zenon DEF JsonFill
    <3>2. todo[c] # <<>>
      BY <1>t, <2>4, Zenon DEF Coherent
    <3>3. todo' \in [Call -> Seq(ReferenceValue)] /\ InOrder'
      BY <2>1, <3>1, <3>2, AdvanceOrder, Zenon
    <3>4. Types'
      BY <1>t, <2>1, <3>1, <3>3, Zenon DEF Types
    <3>5. pc'[c] = "set" /\ \A d \in Call \ {c} : pc'[d] = pc[d] /\ todo'[d] = todo[d]
      BY <1>t, <3>1, Zenon DEF Types
    <3>6. Coherent'
      BY <1>t, <2>1, <2>2, <2>3, <2>4, <3>5 DEF Coherent
    <3> QED
      BY <3>3, <3>4, <3>6, Zenon DEF CallInv
  <2>5. CASE pc[c] # "write"
    <3>1. UNCHANGED <<pc, todo>>
      BY <1>11, <2>5, Zenon DEF JsonFill
    <3>2. Types'
      BY <1>t, <2>1, <3>1, Zenon DEF Types
    <3>3. Coherent'
      BY <1>t, <2>1, <2>2, <2>3, <2>5, <3>1 DEF Coherent
    <3> QED
      BY <1>u, <2>1, <3>1, <3>2, <3>3, Zenon DEF CallInv
  <2> QED
    BY <2>4, <2>5, Zenon
<1>12. ASSUME NEW c \in Call, JsonWriteFails(c) PROVE CallInv'
  <2>1. /\ UNCHANGED <<clock, file, disk, msg, rvs, todo, new, seen>>
        /\ job' = [job EXCEPT ![c] = "none"] /\ job[c] # "none"
    BY <1>12, Zenon DEF JsonWriteFails
  <2>2. job'[c] = "none" /\ \A d \in Call \ {c} : job'[d] = job[d]
    BY <1>t, <2>1, Zenon DEF Types
  <2>3. /\ \A d \in Call \ {c} : pc'[d] = pc[d] /\ res'[d] = res[d]
        /\ (pc[c] = "write" /\ pc'[c] = "done" /\ res'[c] = "failed") \/ (pc[c] # "write" /\ pc'[c] = pc[c] /\ res'[c] = res[c])
        /\ pc' \in [Call -> {"idle", "register", "query", "set", "write", "flush", "get", "done"}]
        /\ res' \in [Call -> Result]
    BY <1>r, <1>t, <1>12, ZenonT(40) DEF JsonWriteFails, Return, Types
  <2>4. Types'
    BY <1>t, <2>1, <2>3, Zenon DEF Types
  <2>5. Coherent'
    BY <1>t, <2>1, <2>2, <2>3 DEF Coherent
  <2> QED
    BY <1>u, <2>1, <2>4, <2>5, Zenon DEF CallInv
<1>13. ASSUME NEW c \in Call, FsInsert(c) PROVE CallInv'
  <2> DEFINE p == Head(todo[c])
             f == [file EXCEPT ![p.name] = p]
  <2>1. p \in ReferenceValue /\ p.name \in Name
    BY <1>13, NextValue, Zenon DEF FsInsert, ReferenceValue
  <2>2. file \in [Name -> ReferenceValue \cup {NoVal}] /\ disk # NoDisk
    BY <1>t, <1>13, Zenon DEF FsInsert, Types, Content, Storage, Coherent
  <2>3. f \in Content
    BY <2>1, <2>2, Zenon DEF Content
  <2>4. /\ UNCHANGED <<clock, disk, msg, rvs, new, todo, job, res, seen>> /\ file' = f
        /\ pc' = [pc EXCEPT ![c] = "flush"] /\ pc[c] = "set" /\ todo[c] # <<>>
    BY <1>13, Zenon DEF FsInsert
  <2> HIDE DEF f
  <2>5. Types'
    BY <1>t, <2>3, <2>4, Zenon DEF Types
  <2>6. pc'[c] = "flush" /\ \A d \in Call \ {c} : pc'[d] = pc[d]
    BY <1>t, <2>4, Zenon DEF Types
  <2>7. file' # Lost
    BY <2>3, <2>4, ContentAssumption, Zenon
  <2>8. Coherent'
    BY <1>t, <2>2, <2>4, <2>6, <2>7 DEF Coherent
  <2> QED
    BY <1>u, <2>4, <2>5, <2>8, Zenon DEF CallInv
<1>14. ASSUME NEW c \in Call, FsFlush(c) PROVE CallInv'
  <2>1. /\ UNCHANGED <<clock, file, msg, rvs, new, job, res, seen>> /\ disk' = file
        /\ pc' = [pc EXCEPT ![c] = "set"] /\ todo' = [todo EXCEPT ![c] = Tail(@)] /\ pc[c] = "flush"
    BY <1>14, Zenon DEF FsFlush
  <2>2. todo[c] # <<>> /\ disk # NoDisk /\ file # Lost
    BY <1>t, <2>1, Zenon DEF Coherent
  <2>3. todo' \in [Call -> Seq(ReferenceValue)] /\ InOrder'
    BY <2>1, <2>2, AdvanceOrder, Zenon
  <2>4. file \in Content /\ file # NoDisk
    BY <1>t, <2>2, ContentAssumption, Zenon DEF Types
  <2>5. Types'
    BY <1>t, <2>1, <2>3, <2>4, Zenon DEF Types
  <2>6. pc'[c] = "set" /\ \A d \in Call \ {c} : pc'[d] = pc[d] /\ todo'[d] = todo[d]
    BY <1>t, <2>1, Zenon DEF Types
  <2>7. Coherent'
    BY <1>t, <2>1, <2>2, <2>4, <2>6 DEF Coherent
  <2> QED
    BY <2>3, <2>5, <2>7, Zenon DEF CallInv
<1>15. CASE Crash
  <2>1. /\ UNCHANGED <<clock, msg, rvs, todo, new, seen>>
        /\ \A d \in Call : /\ job'[d] = "none"
                           /\ pc'[d] = IF pc[d] = "idle" THEN "idle" ELSE "done"
                           /\ res'[d] = IF pc[d] \in {"idle", "done"} THEN res[d] ELSE "dropped"
        /\ job' \in [Call -> {"none"}] /\ pc' \in [Call -> {"idle", "done"}]
    BY <1>15, Zenon DEF Crash
  <2>2. res' \in [Call -> Result]
    BY <1>r, <1>t, <1>15, Zenon DEF Crash, Types
  <2>3. file' \in Content \cup {Lost} /\ disk' \in Content \cup {NoDisk} /\ (disk' # NoDisk => file' # Lost)
    <3>1. CASE disk = NoDisk
      BY <1>15, <1>t, <3>1, Zenon DEF Crash, Storage, Types
    <3>2. CASE disk # NoDisk
      <4>1. file \in Content /\ disk \in Content
        BY <1>t, <3>2, Zenon DEF Types, Coherent
      <4>2. PICK kept \in SUBSET Name :
                 file' = [n \in Name |-> IF n \in kept THEN file[n] ELSE disk[n]] /\ disk' = file'
        BY <1>15, <3>2, Zenon DEF Crash, Storage
      <4>3. file' \in Content
        BY <4>1, <4>2, Zenon DEF Content
      <4> QED
        BY <4>2, <4>3, ContentAssumption, Zenon
    <3> QED
      BY <3>1, <3>2, Zenon
  <2>4. Types'
    BY <1>t, <2>1, <2>2, <2>3, Zenon DEF Types
  <2>5. Coherent'
    BY <1>t, <2>1, <2>3 DEF Coherent
  <2> QED
    BY <1>u, <2>1, <2>4, <2>5, Zenon DEF CallInv
<1>16. CASE Tick
  <2>1. Types'
    BY <1>t, <1>16, RvpsAssumption, SMTT(30) DEF Tick, Types
  <2>2. Coherent' /\ UNCHANGED <<rvs, todo>>
    BY <1>t, <1>16, Zenon DEF Tick, Coherent
  <2> QED
    BY <1>u, <2>1, <2>2, Zenon DEF CallInv
<1>17. CASE UNCHANGED vars
  BY <1>t, <1>17, <1>u, Zenon DEF vars, CallInv, Types, Coherent
<1> QED
  BY <1>1, <1>2, <1>3, <1>4, <1>5, <1>6, <1>7, <1>8, <1>9, <1>10, <1>11, <1>12, <1>13, <1>14,
     <1>15, <1>16, <1>17, Zenon DEF Next, Proceed, Fail

\* At first no call has been made.
LEMMA CallInit == Init => CallInv
<1> SUFFICES ASSUME Init PROVE CallInv
  BY Zenon
<1>1. Empty \in Content /\ Empty \in [Name -> Val \cup {NoVal}]
  BY Zenon DEF Empty, Content
<1>2. Types
  BY <1>1, RvpsAssumption DEF Init, Types, Result
<1>3. \A c \in Call : pc[c] = "idle" /\ rvs[c] = <<>> /\ todo[c] = <<>> /\ job[c] = "none" /\ res[c] = "none"
  BY Zenon DEF Init
<1>4. file # Lost
  BY <1>1, ContentAssumption, Zenon DEF Init
<1>5. Coherent
  BY <1>3, <1>4, Zenon DEF Coherent
<1>6. InOrder
  <2>1. Len(<<>>) = 0 /\ DOMAIN <<>> = {} /\ 1 .. 0 = {} /\ 0 <= 0
    OBVIOUS
  <2> QED
    BY <1>3, <2>1, Zenon DEF InOrder
<1> QED
  BY <1>2, <1>5, <1>6, Zenon DEF CallInv

-----------------------------------------------------------------------------
(* The lock, and what a step leaves as it is.                              *)

\* A call that registers holds the lock alone.
LockInv == \A c, d \in Call : Writing(c) /\ (Writing(d) \/ Reading(d)) => c = d

\* Every step keeps the lock of the storage.
LEMMA LockStep == CallInv /\ LockInv /\ [Next]_vars => LockInv'
<1> SUFFICES ASSUME CallInv, LockInv, [Next]_vars PROVE LockInv'
  BY Zenon
<1>t. Types /\ Coherent
  BY Zenon DEF CallInv
<1>1. ASSUME NEW c \in Call, LockForWrite(c) PROVE LockInv'
  <2>1. \A d \in Call : pc'[d] = IF d = c THEN "set" ELSE pc[d]
    BY <1>t, <1>1, Zenon DEF LockForWrite, Extract, Types
  <2>2. \A d \in Call : ~Writing(d) /\ ~Reading(d)
    BY <1>1, Zenon DEF LockForWrite
  <2> QED
    BY <2>1, <2>2, Zenon DEF LockInv, Writing, Reading
<1>2. ASSUME NEW c \in Call, LockForRead(c) PROVE LockInv'
  <2>1. \A d \in Call : pc'[d] = IF d = c THEN "get" ELSE pc[d]
    BY <1>t, <1>2, Zenon DEF LockForRead, Types
  <2>2. \A d \in Call : ~Writing(d)
    BY <1>2, Zenon DEF LockForRead
  <2> QED
    BY <2>1, <2>2, Zenon DEF LockInv, Writing, Reading
<1>3. ASSUME \A d \in Call : (Writing(d)' => Writing(d)) /\ (Reading(d)' => Reading(d))
      PROVE  LockInv'
  BY <1>3, Zenon DEF LockInv
<1>4. ASSUME NEW c \in Call,
             \/ Arrive(c) \/ RegisterRefused(c) \/ Registered(c) \/ JsonReadFails(c) \/ FsFails(c)
             \/ Get(c) \/ GetFails(c) \/ Drop(c) \/ JsonWriteFails(c)
      PROVE  LockInv'
  <2>1. \A d \in Call : pc'[d] = pc[d] \/ pc'[d] \in {"register", "query", "done"}
    BY <1>t, <1>4 DEF Arrive, Query, Register, RegisterRefused, Registered, JsonReadFails, FsFails,
                      Get, GetFails, Drop, JsonWriteFails, Return, Types
  <2> QED
    BY <1>3, <2>1, Zenon DEF Writing, Reading
<1>5. ASSUME NEW c \in Call,
             JsonRead(c) \/ JsonTruncate(c) \/ JsonFill(c) \/ FsInsert(c) \/ FsFlush(c)
      PROVE  LockInv'
  <2>1. \A d \in Call : pc'[d] = pc[d] \/ (Writing(d) /\ Writing(d)' /\ ~Reading(d)')
    BY <1>t, <1>5, Zenon DEF JsonRead, JsonTruncate, JsonFill, FsInsert, FsFlush, Types, Writing, Reading
  <2> QED
    BY <1>3, <2>1, Zenon DEF Writing, Reading
<1>6. CASE Crash
  BY <1>6, Zenon DEF Crash, LockInv, Writing, Reading
<1>7. CASE Tick \/ UNCHANGED vars
  BY <1>7, Zenon DEF Tick, vars, LockInv, Writing, Reading
<1> QED
  BY <1>1, <1>2, <1>4, <1>5, <1>6, <1>7, Zenon DEF Next, Proceed, Fail

\* The values of a message are extracted once; a call that is done stays as it is.
LEMMA Persists ==
    ASSUME CallInv, [Next]_vars
    PROVE  /\ \A d \in Call : rvs'[d] = rvs[d] \/ (rvs[d] = <<>> /\ pc[d] = "register")
           /\ \A d \in Call : pc[d] = "done" =>
                /\ pc'[d] = "done" /\ res'[d] = res[d] /\ rvs'[d] = rvs[d]
                /\ todo'[d] = todo[d] /\ seen'[d] = seen[d]
<1>t. Types /\ Coherent
  BY Zenon DEF CallInv
<1>1. ASSUME NEW c \in Call, Arrive(c) \/ Proceed(c) \/ Fail(c),
             NEW d \in Call, pc[d] = "done"
      PROVE  /\ pc'[d] = "done" /\ res'[d] = res[d] /\ rvs'[d] = rvs[d]
             /\ todo'[d] = todo[d] /\ seen'[d] = seen[d]
  <2>1. CASE Arrive(c) \/ Fail(c)
    BY <1>t, <1>1, <2>1, Zenon DEF Arrive, Query, Register, Fail, JsonWriteFails, FsFails, Drop, Return, Types
  <2>2. CASE LockForWrite(c) \/ RegisterRefused(c) \/ LockForRead(c) \/ Registered(c)
    BY <1>t, <1>1, <2>2, Zenon DEF LockForWrite, Extract, RegisterRefused, LockForRead, Registered, Return, Types
  <2>3. CASE JsonRead(c) \/ JsonReadFails(c) \/ JsonTruncate(c) \/ JsonFill(c)
    BY <1>t, <1>1, <2>3 DEF JsonRead, JsonReadFails, JsonTruncate, JsonFill, Return, Types
  <2>4. CASE FsInsert(c) \/ FsFlush(c) \/ Get(c) \/ GetFails(c)
    BY <1>t, <1>1, <2>4, Zenon DEF FsInsert, FsFlush, Get, GetFails, Return, Types
  <2> QED
    BY <1>1, <2>1, <2>2, <2>3, <2>4, Zenon DEF Proceed
<1>2. ASSUME NEW c \in Call, LockForWrite(c), NEW d \in Call
      PROVE  rvs'[d] = rvs[d] \/ (rvs[d] = <<>> /\ pc[d] = "register")
  BY <1>t, <1>2, Zenon DEF LockForWrite, Extract, Types, Coherent
<1>3. ASSUME NEW c \in Call, Arrive(c) \/ Proceed(c) \/ Fail(c), ~LockForWrite(c)
      PROVE  UNCHANGED rvs
  BY <1>3, Zenon DEF Arrive, Query, Register, Proceed, Fail, JsonWriteFails, FsFails, Drop, RegisterRefused, LockForRead,
              Registered, JsonRead, JsonReadFails, JsonTruncate, JsonFill, FsInsert, FsFlush, Get, GetFails
<1>4. CASE Crash \/ Tick \/ UNCHANGED vars
  BY <1>t, <1>4, Zenon DEF Crash, Tick, vars, Types
<1> QED
  BY <1>1, <1>2, <1>3, <1>4, Zenon DEF Next

-----------------------------------------------------------------------------
(* What a content of the storage owes to the calls.                        *)

\* No other message names a value that the message of c names.
Alone(c) == \A d \in Call \ {c} : Names(d) \cap Names(c) = {}

\* The number of values of c that a content holds, when the next one of each call of A is in it.
Count(c, A) == Stored(c) + (IF c \in A THEN 1 ELSE 0)

\* The names that were stored are still there, ...
Keeps(f, A) == \A c \in Call : \A i \in 1 .. Count(c, A) : f[rvs[c][i].name] # NoVal

\* ... with the latest value, the one that no later value of the same call
\* overwrites, if no other message names them, ...
Final(c, i) == \A j \in DOMAIN rvs[c] : j > i => rvs[c][j].name # rvs[c][i].name
Latest(f, A) ==
    \A c \in Call : Alone(c) =>
        \A i \in 1 .. Count(c, A) : Final(c, i) => f[rvs[c][i].name] = rvs[c][i]

\* ... a name comes in its turn, at its first place in the message, ...
First(c, j) == \A i \in DOMAIN rvs[c] : i < j => rvs[c][i].name # rvs[c][j].name
InTurn(f) ==
    \A c \in Call : Alone(c) =>
        \A j \in DOMAIN rvs[c] : First(c, j) /\ f[rvs[c][j].name] # NoVal => j <= Stored(c) + 1

\* ... and whatever is there was in a message.
Registers(d, n, v) == \E i \in DOMAIN rvs[d] : rvs[d][i] = v /\ v.name = n
Origin(f) == \A n \in Name : f[n] # NoVal => \E d \in Call : Registers(d, n, f[n])

\* All four.
Good(f, A) == Keeps(f, A) /\ Latest(f, A) /\ InTurn(f) /\ Origin(f)

\* Ranges.
LEMMA Within ==
    /\ \A s, l \in Nat : s <= l => \A i \in 1 .. s : i \in 1 .. l
    /\ \A s \in Nat : \A i \in 1 .. s + 1 : i \in 1 .. s \/ i = s + 1
    /\ \A s \in Nat : \A i \in 1 .. s : i \in 1 .. s + 1 /\ s + 1 > i
    /\ \A s \in Nat : s + 1 \in 1 .. s + 1
OBVIOUS

\* The number of stored values is a prefix of the message.
LEMMA StoredType ==
    ASSUME CallInv, NEW c \in Call
    PROVE  /\ Stored(c) \in Nat /\ Len(rvs[c]) \in Nat /\ Stored(c) <= Len(rvs[c])
           /\ rvs[c] \in Seq(ReferenceValue) /\ DOMAIN rvs[c] = 1 .. Len(rvs[c])
           /\ todo[c] = <<>> => Stored(c) = Len(rvs[c])
<1>1. rvs[c] \in Seq(ReferenceValue) /\ todo[c] \in Seq(ReferenceValue)
  BY Zenon DEF CallInv, Types
<1>2. Len(rvs[c]) \in Nat /\ Len(todo[c]) \in Nat /\ DOMAIN rvs[c] = 1 .. Len(rvs[c])
  BY <1>1
<1>3. Len(todo[c]) <= Len(rvs[c])
  BY Zenon DEF CallInv, InOrder
<1>4. \A m, n \in Nat : m <= n => n - m \in Nat /\ n - m <= n
  OBVIOUS
<1>5. todo[c] = <<>> => Len(todo[c]) = 0
  OBVIOUS
<1>6. \A n \in Nat : n - 0 = n
  OBVIOUS
<1> QED
  BY <1>1, <1>2, <1>3, <1>4, <1>5, <1>6, Zenon DEF Stored

\* A content that is good stays so when the next value of a call is put into it.
LEMMA PutGood ==
    ASSUME CallInv, NEW e \in Call, todo[e] # <<>>, NEW f \in Content, Good(f, {})
    PROVE  Good([f EXCEPT ![Head(todo[e]).name] = Head(todo[e])], {e})
<1> DEFINE p == Head(todo[e])
           g == [f EXCEPT ![p.name] = p]
           m == Stored(e) + 1
<1>1. p \in ReferenceValue /\ p = rvs[e][m] /\ m \in 1 .. Len(rvs[e]) /\ m \in DOMAIN rvs[e]
  BY NextValue, StoredType
<1>2. p.name \in Name /\ p # NoVal /\ p.name \in Names(e)
  BY <1>1, ContentAssumption, Zenon DEF ReferenceValue, Names
<1>3. \A n \in Name : g[n] = IF n = p.name THEN p ELSE f[n]
  BY Zenon DEF Content
<1>4. \A c \in Call : \A i \in 1 .. Len(rvs[c]) : rvs[c][i].name \in Name /\ rvs[c][i].name \in Names(c)
  <2> SUFFICES ASSUME NEW c \in Call, NEW i \in 1 .. Len(rvs[c])
               PROVE  rvs[c][i].name \in Name /\ rvs[c][i].name \in Names(c)
    BY Zenon
  <2>1. rvs[c] \in Seq(ReferenceValue) /\ DOMAIN rvs[c] = 1 .. Len(rvs[c])
    BY StoredType, Zenon
  <2>2. rvs[c][i] \in ReferenceValue /\ i \in DOMAIN rvs[c]
    BY <2>1
  <2> QED
    BY <2>2, Zenon DEF ReferenceValue, Names
<1>5. \A c \in Call : /\ Stored(c) \in Nat /\ Count(c, {}) = Stored(c) /\ Len(rvs[c]) \in Nat
                      /\ Stored(c) <= Len(rvs[c])
  BY StoredType DEF Count
<1>6. Count(e, {e}) = m /\ \A c \in Call \ {e} : Count(c, {e}) = Stored(c)
  BY <1>5, Zenon DEF Count
<1>7. Keeps(f, {}) /\ Latest(f, {}) /\ InTurn(f) /\ Origin(f)
  BY Zenon DEF Good
<1> HIDE DEF p, g, m
<1>m. m = Stored(e) + 1
  BY Zenon DEF m
<1>c. ASSUME NEW c \in Call, NEW i \in 1 .. Count(c, {e})
      PROVE  /\ i \in 1 .. Len(rvs[c])
             /\ c # e => i \in 1 .. Stored(c)
             /\ c = e => i \in 1 .. Stored(e) \/ i = m
  <2>1. CASE c # e
    BY <1>5, <1>6, <2>1, Within, Zenon
  <2>2. CASE c = e
    <3>1. i \in 1 .. Stored(e) \/ i = m
      BY <1>5, <1>6, <1>m, <2>2, Within, Zenon
    <3> QED
      BY <1>1, <1>5, <2>2, <3>1, Within, Zenon
  <2> QED
    BY <2>1, <2>2, Zenon
<1>8. Keeps(g, {e})
  <2> SUFFICES ASSUME NEW c \in Call, NEW i \in 1 .. Count(c, {e})
               PROVE  g[rvs[c][i].name] # NoVal
    BY Zenon DEF Keeps
  <2>1. i \in 1 .. Len(rvs[c])
    BY <1>c, Zenon
  <2>2. CASE rvs[c][i].name = p.name
    BY <1>2, <1>3, <2>2, Zenon
  <2>3. CASE rvs[c][i].name # p.name
    <3>1. i \in 1 .. Stored(c)
      BY <1>1, <1>c, <2>3, Zenon
    <3>2. f[rvs[c][i].name] # NoVal
      BY <1>5, <1>7, <3>1, Zenon DEF Keeps
    <3> QED
      BY <1>3, <1>4, <2>1, <2>3, <3>2, Zenon
  <2> QED
    BY <2>2, <2>3, Zenon
<1>9. Latest(g, {e})
  <2> SUFFICES ASSUME NEW c \in Call, Alone(c), NEW i \in 1 .. Count(c, {e}), Final(c, i)
               PROVE  g[rvs[c][i].name] = rvs[c][i]
    BY Zenon DEF Latest
  <2>1. i \in 1 .. Len(rvs[c])
    BY <1>c, Zenon
  <2>2. CASE c # e
    <3>1. rvs[c][i].name # p.name
      BY <1>2, <1>4, <2>1, <2>2, Zenon DEF Alone
    <3>2. i \in 1 .. Count(c, {})
      BY <1>5, <1>6, <2>2, Zenon
    <3>3. f[rvs[c][i].name] = rvs[c][i]
      BY <1>7, <3>2, Zenon DEF Latest
    <3> QED
      BY <1>3, <1>4, <2>1, <3>1, <3>3, Zenon
  <2>3. CASE c = e /\ i = m
    BY <1>1, <1>2, <1>3, <2>3, Zenon
  <2>4. CASE c = e /\ i # m
    <3>1. i \in 1 .. Stored(e) /\ m > i
      BY <1>5, <1>c, <1>m, <2>4, Within, Zenon
    <3>2. rvs[e][i].name # p.name
      BY <1>1, <2>4, <3>1, Zenon DEF Final
    <3>3. f[rvs[e][i].name] = rvs[e][i]
      BY <1>5, <1>7, <2>4, <3>1, Zenon DEF Latest
    <3> QED
      BY <1>3, <1>4, <2>1, <2>4, <3>2, <3>3, Zenon
  <2> QED
    BY <2>2, <2>3, <2>4, Zenon
<1>t. InTurn(g)
  <2> SUFFICES ASSUME NEW c \in Call, Alone(c), NEW j \in DOMAIN rvs[c], First(c, j), g[rvs[c][j].name] # NoVal
               PROVE  j <= Stored(c) + 1
    BY Zenon DEF InTurn
  <2>1. j \in 1 .. Len(rvs[c]) /\ rvs[c][j].name \in Name /\ rvs[c][j].name \in Names(c)
    BY <1>4, StoredType, Zenon
  <2>2. CASE rvs[c][j].name # p.name
    BY <1>3, <1>7, <2>1, <2>2, Zenon DEF InTurn
  <2>3. CASE rvs[c][j].name = p.name
    <3>1. c = e
      BY <1>2, <2>1, <2>3, Zenon DEF Alone
    <3>2. ~(m < j)
      BY <1>1, <2>3, <3>1, Zenon DEF First
    <3> QED
      BY <1>5, <1>m, <2>1, <3>1, <3>2
  <2> QED
    BY <2>2, <2>3, Zenon
<1>10. Origin(g)
  <2> SUFFICES ASSUME NEW n \in Name, g[n] # NoVal PROVE \E d \in Call : Registers(d, n, g[n])
    BY Zenon DEF Origin
  <2>1. CASE n = p.name
    BY <1>1, <1>3, <2>1, Zenon DEF Registers
  <2>2. CASE n # p.name
    BY <1>3, <1>7, <2>2, Zenon DEF Origin
  <2> QED
    BY <2>1, <2>2, Zenon
<1> QED
  BY <1>8, <1>9, <1>10, <1>t, Zenon DEF Good, g, p

\* A step keeps a content good, for one more value of each call of A before it and of
\* B after it, if each call goes on with as many values, or begins, or has failed.
LEMMA GoodKept ==
    ASSUME CallInv, [Next]_vars, NEW A, NEW B,
           \A c \in Call :
             \/ /\ rvs'[c] = rvs[c] /\ Count(c, B)' \in {Count(c, A), Stored(c)}
                /\ Stored(c)' \in {Stored(c), Stored(c) + 1}
             \/ rvs[c] = <<>> /\ Count(c, B)' = 0
    PROVE  \A f : Good(f, A) => Good(f, B)'
<1> SUFFICES ASSUME NEW f, Good(f, A) PROVE Good(f, B)'
  BY Zenon
<1>1. Keeps(f, A) /\ Latest(f, A) /\ InTurn(f) /\ Origin(f)
  BY Zenon DEF Good
<1>2. \A c \in Call : rvs'[c] = rvs[c] \/ rvs[c] = <<>>
  BY Persists, Zenon
<1>3. \A c \in Call : Names(c) \subseteq Names(c)'
  <2>1. DOMAIN <<>> = {}
    OBVIOUS
  <2> QED
    BY <1>2, <2>1, Zenon DEF Names
<1>4. \A c \in Call : Alone(c)' => Alone(c)
  BY <1>3, Zenon DEF Alone
<1>e. DOMAIN <<>> = {}
  OBVIOUS
<1>5. ASSUME NEW c \in Call, NEW i \in 1 .. Count(c, B)'
      PROVE  rvs'[c] = rvs[c] /\ i \in 1 .. Count(c, A)
  <2>1. Count(c, B)' # 0
    BY SMT
  <2>2. rvs'[c] = rvs[c] /\ Count(c, B)' \in {Count(c, A), Stored(c)}
    BY <2>1, Zenon
  <2>3. Stored(c) \in Nat
    BY StoredType, Zenon
  <2>4. CASE Count(c, B)' = Stored(c)
    BY <2>2, <2>3, <2>4, Within DEF Count
  <2> QED
    BY <2>2, <2>4, Zenon
<1>6. Keeps(f, B)'
  <2> SUFFICES ASSUME NEW c \in Call, NEW i \in 1 .. Count(c, B)'
               PROVE  f[rvs'[c][i].name] # NoVal
    BY Zenon DEF Keeps
  <2> QED
    BY <1>1, <1>5, Zenon DEF Keeps
<1>7. Latest(f, B)'
  <2> SUFFICES ASSUME NEW c \in Call, Alone(c)', NEW i \in 1 .. Count(c, B)', Final(c, i)'
               PROVE  f[rvs'[c][i].name] = rvs'[c][i]
    BY Zenon DEF Latest
  <2>1. rvs'[c] = rvs[c] /\ i \in 1 .. Count(c, A) /\ Alone(c)
    BY <1>4, <1>5, Zenon
  <2>2. Final(c, i)
    BY <2>1, Zenon DEF Final
  <2> QED
    BY <1>1, <2>1, <2>2, Zenon DEF Latest
<1>t. InTurn(f)'
  <2> SUFFICES ASSUME NEW c \in Call, Alone(c)', NEW j \in DOMAIN rvs'[c], First(c, j)', f[rvs'[c][j].name] # NoVal
               PROVE  j <= Stored(c)' + 1
    BY Zenon DEF InTurn
  <2>1. CASE rvs[c] = <<>>
    <3> DEFINE n == rvs'[c][j].name
    <3>1. n \in Names(c)' /\ n \in Name
      <4>1. rvs'[c] \in Seq(ReferenceValue)
        BY CallStep, Zenon DEF CallInv, Types
      <4>2. rvs'[c][j] \in ReferenceValue
        BY <4>1
      <4> QED
        BY <4>2, Zenon DEF Names, ReferenceValue
    <3> HIDE DEF n
    <3>2. PICK d \in Call : Registers(d, n, f[n])
      BY <1>1, <3>1, Zenon DEF Origin, n
    <3>3. d # c /\ n \in Names(d)
      BY <1>e, <2>1, <3>2, Zenon DEF Registers, Names
    <3> QED
      BY <1>3, <3>1, <3>3, Zenon DEF Alone
  <2>2. CASE rvs[c] # <<>>
    <3>1. rvs'[c] = rvs[c] /\ Stored(c)' \in {Stored(c), Stored(c) + 1}
      BY <2>2, Zenon
    <3>2. First(c, j) /\ Alone(c)
      BY <1>4, <3>1, Zenon DEF First
    <3>3. j <= Stored(c) + 1
      BY <1>1, <3>1, <3>2, Zenon DEF InTurn
    <3>4. Stored(c) \in Nat /\ j \in Nat
      BY <3>1, StoredType, SMTT(30)
    <3> QED
      BY <3>1, <3>3, <3>4
  <2> QED
    BY <2>1, <2>2, Zenon
<1>8. Origin(f)'
  <2> SUFFICES ASSUME NEW n \in Name, f[n] # NoVal PROVE \E d \in Call : Registers(d, n, f[n])'
    BY Zenon DEF Origin
  <2>1. PICK d \in Call : Registers(d, n, f[n])
    BY <1>1, Zenon DEF Origin
  <2>2. rvs'[d] = rvs[d]
    <3>1. DOMAIN <<>> = {}
      OBVIOUS
    <3> QED
      BY <1>2, <2>1, <3>1, Zenon DEF Registers
  <2>3. Registers(d, n, f[n])'
    BY <2>1, <2>2, Zenon DEF Registers
  <2> QED
    BY <2>3, Zenon
<1> QED
  BY <1>6, <1>7, <1>8, <1>t, Zenon DEF Good

\* The storage, as long as no write is stray: a call that waits for its write has
\* read the file that is there, or its new content is what was lost.
StoreInv ==
    NoStray =>
      /\ file # Lost /\ (\A c \in Call : pc[c] # "flush") => Good(file, {})
      /\ disk # NoDisk => Good(disk, {})
      /\ \A c \in Call :
           /\ pc[c] = "flush" => Good(file, {c})
           /\ job[c] = "queued" =>
                /\ file # Lost
                /\ new[c] = [file EXCEPT ![Head(todo[c]).name] = Head(todo[c])]
           /\ job[c] = "truncated" => file = Lost /\ Good(new[c], {c})

\* A write that was left behind stays so.
LEMMA StrayPersists ==
    ASSUME CallInv, [Next]_vars, NoStray'
    PROVE  NoStray
<1> SUFFICES ASSUME NEW c \in Call, res[c] = "stray" PROVE FALSE
  BY Zenon DEF NoStray
<1>1. pc[c] = "done"
  BY Zenon DEF CallInv, Coherent
<1>2. res'[c] = "stray"
  BY <1>1, Persists, Zenon
<1> QED
  BY <1>2, Zenon DEF NoStray

\* Without stray writes, only a call that holds the lock has one.
LEMMA OneWriter ==
    ASSUME CallInv, LockInv, NoStray, NEW c \in Call, Writing(c) \/ Reading(c)
    PROVE  /\ \A d \in Call \ {c} : job[d] = "none" /\ pc[d] # "flush"
           /\ job[c] # "none" => pc[c] = "write"
<1>1. \A d \in Call : job[d] # "none" => pc[d] = "write"
  BY Zenon DEF CallInv, Coherent, NoStray
<1> QED
  BY <1>1, Zenon DEF LockInv, Writing, Reading

\* A content that is good after the step is so under the name of the variable that
\* holds it then.
LEMMA GoodNow ==
    ASSUME NEW A, NEW f, Good(f, A)'
    PROVE  /\ f = file' => Good(file, A)'
           /\ f = disk' => Good(disk, A)'
           /\ \A c : f = new'[c] => Good(new[c], A)'
<1>1. /\ \A c \in Call : \A i \in 1 .. Count(c, A)' : f[rvs'[c][i].name] # NoVal
      /\ \A c \in Call : Alone(c)' =>
           \A i \in 1 .. Count(c, A)' : Final(c, i)' => f[rvs'[c][i].name] = rvs'[c][i]
      /\ \A c \in Call : Alone(c)' =>
           \A j \in DOMAIN rvs'[c] : First(c, j)' /\ f[rvs'[c][j].name] # NoVal => j <= Stored(c)' + 1
      /\ \A n \in Name : f[n] # NoVal => \E d \in Call : \E i \in DOMAIN rvs'[d] : rvs'[d][i] = f[n] /\ f[n].name = n
  BY Zenon DEF Good, Keeps, Latest, InTurn, Origin, Registers
<1>2. CASE f = file'
  BY <1>1, <1>2, SMTT(30) DEF Good, Keeps, Latest, InTurn, Origin, Registers
<1>3. CASE f = disk'
  BY <1>1, <1>3, SMTT(30) DEF Good, Keeps, Latest, InTurn, Origin, Registers
<1>4. ASSUME NEW c, f = new'[c] PROVE Good(new[c], A)'
  BY <1>1, <1>4, ZenonT(40) DEF Good, Keeps, Latest, InTurn, Origin, Registers
<1> QED
  BY <1>2, <1>3, <1>4, Zenon

\* A step that leaves the storage and the writes alone: each call goes on, or begins,
\* or ends.
LEMMA StoreKept ==
    ASSUME CallInv, StoreInv, [Next]_vars, UNCHANGED <<file, disk, new, job>>,
           \A c \in Call :
             /\ pc'[c] = "flush" => pc[c] = "flush"
             /\ \/ rvs'[c] = rvs[c] /\ todo'[c] = todo[c]
                \/ /\ rvs[c] = <<>> /\ pc[c] # "flush" /\ job[c] = "none"
                   /\ rvs'[c] = todo'[c] /\ Len(rvs'[c]) \in Nat
    PROVE  StoreInv'
<1> SUFFICES ASSUME NoStray'
             PROVE  /\ file' # Lost /\ (\A c \in Call : pc'[c] # "flush") => Good(file, {})'
                    /\ disk' # NoDisk => Good(disk, {})'
                    /\ \A c \in Call :
                         /\ pc'[c] = "flush" => Good(file, {c})'
                         /\ job'[c] = "queued" =>
                              /\ file' # Lost
                              /\ new'[c] = [file' EXCEPT ![Head(todo'[c]).name] = Head(todo'[c])]
                         /\ job'[c] = "truncated" => file' = Lost /\ Good(new[c], {c})'
  BY Zenon DEF StoreInv
<1>1. NoStray
  BY StrayPersists, Zenon
<1>2. ASSUME NEW A \in SUBSET Call, NEW B \in SUBSET A,
             \A c \in A : pc[c] = "flush" \/ job[c] # "none"
      PROVE  \A f : Good(f, A) => Good(f, B)'
  <2>1. \A c \in Call :
             \/ /\ rvs'[c] = rvs[c] /\ Count(c, B)' \in {Count(c, A), Stored(c)}
                /\ Stored(c)' \in {Stored(c), Stored(c) + 1}
             \/ rvs[c] = <<>> /\ Count(c, B)' = 0
    <3> SUFFICES ASSUME NEW c \in Call
                 PROVE  \/ /\ rvs'[c] = rvs[c] /\ Count(c, B)' \in {Count(c, A), Stored(c)}
                           /\ Stored(c)' \in {Stored(c), Stored(c) + 1}
                        \/ rvs[c] = <<>> /\ Count(c, B)' = 0
      BY Zenon
    <3>1. Stored(c) \in Nat /\ (rvs'[c] = rvs[c] /\ todo'[c] = todo[c] => Stored(c)' = Stored(c))
      BY StoredType, ZenonT(40) DEF Stored
    <3>2. \A n \in Nat : n - n = 0 /\ n + 0 = n
      BY SMTT(30)
    <3>3. CASE rvs'[c] = rvs[c] /\ todo'[c] = todo[c]
      <4>1. CASE c \in A <=> c \in B
        BY <3>1, <3>3, <4>1, ZenonT(40) DEF Count
      <4>2. CASE c \in A /\ c \notin B
        <5>1. Count(c, B)' = Stored(c)
          BY <3>1, <3>2, <3>3, <4>2, Zenon DEF Count
        <5> QED
          BY <3>1, <3>3, <5>1, Zenon
      <4> QED
        BY <1>2, <4>1, <4>2, ZenonT(40)
    <3>4. CASE /\ rvs[c] = <<>> /\ pc[c] # "flush" /\ job[c] = "none"
               /\ rvs'[c] = todo'[c] /\ Len(rvs'[c]) \in Nat
      <4>1. c \notin B /\ Stored(c)' = 0
        BY <1>2, <3>2, <3>4, Zenon DEF Stored
      <4> QED
        BY <3>4, <4>1 DEF Count
    <3> QED
      BY <3>3, <3>4, Zenon
  <2> QED
    BY <2>1, GoodKept, Zenon
<1>3. \A f : Good(f, {}) => Good(f, {})'
  BY <1>2, Zenon
<1>4. ASSUME NEW c \in Call, pc[c] = "flush" \/ job[c] # "none"
      PROVE  /\ \A f : Good(f, {c}) => Good(f, {c})'
             /\ \A f : Good(f, {c}) => Good(f, {})'
  <2>1. /\ {c} \in SUBSET Call /\ {c} \in SUBSET {c} /\ {} \in SUBSET {c}
        /\ \A d \in {c} : pc[d] = "flush" \/ job[d] # "none"
    BY <1>4, Zenon
  <2>2. \A f : Good(f, {c}) => Good(f, {c})'
    BY <1>2, <2>1, Zenon
  <2>3. \A f : Good(f, {c}) => Good(f, {})'
    BY <1>2, <2>1, Zenon
  <2> QED
    BY <2>2, <2>3, Zenon
<1>5. file' # Lost /\ (\A c \in Call : pc'[c] # "flush") => Good(file, {})'
  <2> SUFFICES ASSUME file' # Lost, \A c \in Call : pc'[c] # "flush" PROVE Good(file, {})'
    BY Zenon
  <2>1. CASE \A c \in Call : pc[c] # "flush"
    BY <1>1, <1>3, <2>1, GoodNow, Zenon DEF StoreInv
  <2>2. ASSUME NEW c \in Call, pc[c] = "flush" PROVE Good(file, {})'
    BY <1>1, <1>4, <2>2, GoodNow, Zenon DEF StoreInv
  <2> QED
    BY <2>1, <2>2, Zenon
<1>6. disk' # NoDisk => Good(disk, {})'
  BY <1>1, <1>3, GoodNow, ZenonT(40) DEF StoreInv
<1>7. ASSUME NEW c \in Call
      PROVE  /\ pc'[c] = "flush" => Good(file, {c})'
             /\ job'[c] = "queued" =>
                  /\ file' # Lost
                  /\ new'[c] = [file' EXCEPT ![Head(todo'[c]).name] = Head(todo'[c])]
             /\ job'[c] = "truncated" => file' = Lost /\ Good(new[c], {c})'
  <2>1. CASE pc'[c] = "flush"
    <3>1. pc[c] = "flush"
      BY <2>1, Zenon
    <3>2. Good(file, {c})'
      BY <1>1, <1>4, <3>1, GoodNow, Zenon DEF StoreInv
    <3>3. job[c] = "none"
      BY <3>1, Zenon DEF CallInv, Coherent
    <3> QED
      BY <3>2, <3>3, Zenon
  <2>2. CASE job[c] = "queued"
    <3>1. pc'[c] # "flush"
      BY <2>2, CallStep, Zenon DEF CallInv, Coherent
    <3> QED
      BY <1>1, <2>2, <3>1, ZenonT(40) DEF StoreInv
  <2>3. CASE job[c] = "truncated"
    <3>1. pc'[c] # "flush"
      BY <2>3, CallStep, ZenonT(40) DEF CallInv, Coherent
    <3>2. Good(new[c], {c}) /\ file = Lost
      BY <1>1, <2>3, ZenonT(40) DEF StoreInv
    <3>3. Good(new[c], {c})'
      BY <1>4, <2>3, <3>2, GoodNow, Zenon
    <3> QED
      BY <2>3, <3>1, <3>2, <3>3, Zenon
  <2> QED
    BY <2>1, <2>2, <2>3, Zenon
<1> QED
  BY <1>5, <1>6, <1>7, Zenon

\* A step of one call that writes.
LEMMA WriterGood ==
    ASSUME CallInv, [Next]_vars, NEW c \in Call, NEW A \in SUBSET {c}, NEW B \in SUBSET {c}, UNCHANGED rvs,
           \A d \in Call \ {c} : todo'[d] = todo[d],
           Count(c, B)' \in {Count(c, A), Stored(c)}, Stored(c)' \in {Stored(c), Stored(c) + 1}
    PROVE  \A f : Good(f, A) => Good(f, B)'
<1>1. \A d \in Call \ {c} : Count(d, B)' = Count(d, A) /\ Stored(d)' = Stored(d)
  BY Zenon DEF Count, Stored
<1> QED
  BY <1>1, GoodKept, Zenon

\* After a crash, sled has for each name what was visible or what was durable.
LEMMA MixGood ==
    ASSUME NEW f, NEW g, Good(f, {})', Good(g, {})', NEW h,
           \A n \in Name : h[n] \in {f[n], g[n]}, CallInv'
    PROVE  Good(h, {})'
<1>1. /\ Keeps(f, {})' /\ Latest(f, {})' /\ InTurn(f)' /\ Origin(f)'
      /\ Keeps(g, {})' /\ Latest(g, {})' /\ InTurn(g)' /\ Origin(g)'
  BY Zenon DEF Good
<1>n. ASSUME NEW c \in Call, NEW i \in DOMAIN rvs'[c] PROVE rvs'[c][i].name \in Name
  <2>1. rvs'[c] \in Seq(ReferenceValue)
    BY Zenon DEF CallInv, Types
  <2>2. rvs'[c][i] \in ReferenceValue
    BY <2>1, SMTT(30)
  <2> QED
    BY <2>2, Zenon DEF ReferenceValue
<1>2. ASSUME NEW c \in Call, NEW i \in 1 .. Count(c, {})' PROVE rvs'[c][i].name \in Name
  <2>1. /\ Stored(c)' \in Nat /\ Len(rvs'[c]) \in Nat /\ Stored(c)' <= Len(rvs'[c])
        /\ DOMAIN rvs'[c] = 1 .. Len(rvs'[c])
    <3>1. rvs'[c] \in Seq(ReferenceValue) /\ todo'[c] \in Seq(ReferenceValue)
      BY Zenon DEF CallInv, Types
    <3>2. Len(rvs'[c]) \in Nat /\ Len(todo'[c]) \in Nat /\ DOMAIN rvs'[c] = 1 .. Len(rvs'[c])
      BY <3>1
    <3>3. Len(todo'[c]) <= Len(rvs'[c])
      BY Zenon DEF CallInv, InOrder
    <3>4. \A m, n \in Nat : m <= n => n - m \in Nat /\ n - m <= n
      OBVIOUS
    <3> QED
      BY <3>1, <3>2, <3>3, <3>4, Zenon DEF Stored
  <2>2. \A n \in Nat : n + 0 = n
    OBVIOUS
  <2>3. i \in 1 .. Stored(c)'
    BY <2>1, <2>2, Zenon DEF Count
  <2>4. i \in DOMAIN rvs'[c]
    BY <2>1, <2>3, Within, Zenon
  <2> QED
    BY <1>n, <2>4, Zenon
<1>3. Keeps(h, {})'
  BY <1>1, <1>2, SMTT(30) DEF Keeps
<1>4. Latest(h, {})'
  <2> SUFFICES ASSUME NEW c \in Call, Alone(c)', NEW i \in 1 .. Count(c, {})', Final(c, i)'
               PROVE  h[rvs'[c][i].name] = rvs'[c][i]
    BY Zenon DEF Latest
  <2>1. f[rvs'[c][i].name] = rvs'[c][i] /\ g[rvs'[c][i].name] = rvs'[c][i]
    BY <1>1, Zenon DEF Latest
  <2>2. h[rvs'[c][i].name] \in {f[rvs'[c][i].name], g[rvs'[c][i].name]}
    BY <1>2, Zenon
  <2> QED
    BY <2>1, <2>2, Zenon
<1>t. InTurn(h)'
  <2> SUFFICES ASSUME NEW c \in Call, Alone(c)', NEW j \in DOMAIN rvs'[c], First(c, j)', h[rvs'[c][j].name] # NoVal
               PROVE  j <= Stored(c)' + 1
    BY Zenon DEF InTurn
  <2>1. h[rvs'[c][j].name] \in {f[rvs'[c][j].name], g[rvs'[c][j].name]}
    BY <1>n, Zenon
  <2>2. f[rvs'[c][j].name] # NoVal \/ g[rvs'[c][j].name] # NoVal
    BY <2>1, Zenon
  <2> QED
    BY <1>1, <2>2, Zenon DEF InTurn
<1>5. Origin(h)'
  BY <1>1, Zenon DEF Origin
<1> QED
  BY <1>3, <1>4, <1>5, <1>t, Zenon DEF Good

\* Every step keeps what is known of the file and of the tree of sled.
LEMMA StoreStep == CallInv /\ LockInv /\ StoreInv /\ [Next]_vars => StoreInv'
<1> SUFFICES ASSUME CallInv, LockInv, StoreInv, [Next]_vars, NoStray' PROVE StoreInv'
  BY Zenon DEF StoreInv
<1>n. NoStray
  BY StrayPersists, Zenon
<1>t. Types /\ Coherent
  BY Zenon DEF CallInv
<1>z. \A n \in Nat : n + 0 = n /\ n + 1 + 0 = n + 1
  BY SMTT(30)
\* Steps that leave the storage alone.
<1>1. ASSUME NEW c \in Call, Arrive(c) \/ LockForRead(c) \/ Registered(c) \/ Get(c) PROVE StoreInv'
  <2>1. /\ UNCHANGED <<file, disk, new, job, rvs, todo>>
        /\ \A d \in Call \ {c} : pc'[d] = pc[d]
        /\ pc'[c] # "flush"
    BY <1>t, <1>1, Zenon DEF Arrive, Query, Register, LockForRead, Registered, Get, Return, Types
  <2> QED
    BY <2>1, StoreKept, Zenon
<1>2. ASSUME NEW c \in Call, LockForWrite(c) PROVE StoreInv'
  <2>1. /\ UNCHANGED <<file, disk, new, job, res>> /\ rvs'[c] = todo'[c]
        /\ \A d \in Call \ {c} : rvs'[d] = rvs[d] /\ todo'[d] = todo[d] /\ pc'[d] = pc[d]
        /\ pc[c] = "register" /\ pc'[c] = "set"
    BY <1>t, <1>2, Zenon DEF LockForWrite, Extract, Types
  <2>2. job[c] = "none" /\ rvs[c] = <<>>
    BY <1>t, <2>1, Zenon DEF Coherent
  <2>3. rvs'[c] \in Seq(ReferenceValue)
    BY CallStep, Zenon DEF CallInv, Types
  <2>4. Len(rvs'[c]) \in Nat
    BY <2>3
  <2> QED
    BY <2>1, <2>2, <2>4, StoreKept, Zenon
<1>4. ASSUME NEW c \in Call,
             RegisterRefused(c) \/ JsonReadFails(c) \/ GetFails(c) \/ FsFails(c) \/ Drop(c)
      PROVE  StoreInv'
  <2>1. /\ UNCHANGED <<file, disk, new, job, rvs, todo>>
        /\ \A d \in Call \ {c} : pc'[d] = pc[d]
        /\ pc'[c] = "done"
    BY <1>t, <1>4, Zenon DEF RegisterRefused, JsonReadFails, GetFails, FsFails, Drop, Return, Types
  <2> QED
    BY <2>1, StoreKept, Zenon
<1>5. CASE Tick \/ UNCHANGED vars
  BY <1>5, StoreKept, Zenon DEF Tick, vars
\* The steps of a write.
<1>6. ASSUME NEW c \in Call, JsonRead(c) PROVE StoreInv'
  <2>1. /\ UNCHANGED <<file, disk, rvs, todo, res>> /\ pc[c] = "set" /\ file # Lost /\ disk = NoDisk
        /\ pc' = [pc EXCEPT ![c] = "write"] /\ job' = [job EXCEPT ![c] = "queued"]
        /\ new' = [new EXCEPT ![c] = [file EXCEPT ![Head(todo[c]).name] = Head(todo[c])]]
    BY <1>6, Zenon DEF JsonRead, Storage
  <2>2. /\ pc'[c] = "write" /\ job'[c] = "queued" /\ new'[c] = [file EXCEPT ![Head(todo[c]).name] = Head(todo[c])]
        /\ \A d \in Call \ {c} : pc'[d] = pc[d] /\ job'[d] = job[d]
    BY <1>t, <2>1, Zenon DEF Types
  <2>3. \A d \in Call \ {c} : job[d] = "none" /\ pc[d] # "flush"
    BY <1>n, <2>1, OneWriter, Zenon DEF Writing
  <2>4. Count(c, {})' = Count(c, {}) /\ Stored(c)' = Stored(c)
    BY <2>1, Zenon DEF Count, Stored
  <2>5. \A f : Good(f, {}) => Good(f, {})'
    BY <2>1, <2>4, WriterGood, Zenon
  <2>6. Good(file, {})
    BY <1>n, <2>1, <2>3, Zenon DEF StoreInv
  <2>7. Good(file, {})'
    BY <2>1, <2>5, <2>6, GoodNow, Zenon
  <2> QED
    BY <2>1, <2>2, <2>3, <2>7 DEF StoreInv
<1>7. ASSUME NEW c \in Call, JsonTruncate(c) PROVE StoreInv'
  <2>1. /\ UNCHANGED <<disk, pc, rvs, todo, res, new>> /\ file' = Lost
        /\ job' = [job EXCEPT ![c] = "truncated"] /\ job[c] = "queued"
    BY <1>7, Zenon DEF JsonTruncate
  <2>2. job'[c] = "truncated" /\ \A d \in Call \ {c} : job'[d] = job[d]
    BY <1>t, <2>1, Zenon DEF Types
  <2>3. pc[c] = "write" /\ todo[c] # <<>> /\ disk = NoDisk
    BY <1>n, <1>t, <2>1, Zenon DEF Coherent, NoStray
  <2>4. \A d \in Call \ {c} : job[d] = "none" /\ pc[d] # "flush"
    BY <1>n, <2>3, OneWriter, Zenon DEF Writing
  <2>5. file # Lost /\ new[c] = [file EXCEPT ![Head(todo[c]).name] = Head(todo[c])] /\ Good(file, {})
    BY <1>n, <2>1, <2>3, <2>4, Zenon DEF StoreInv
  <2>6. file \in Content
    BY <1>t, <2>5, Zenon DEF Types
  <2>7. Good(new[c], {c})
    BY <2>3, <2>5, <2>6, PutGood, Zenon
  <2>8. Count(c, {c})' = Count(c, {c}) /\ Stored(c)' = Stored(c)
    BY <2>1, Zenon DEF Count, Stored
  <2>9. \A f : Good(f, {c}) => Good(f, {c})'
    BY <2>1, <2>8, WriterGood, Zenon
  <2>10. Good(new[c], {c})'
    BY <2>1, <2>7, <2>9, GoodNow, Zenon
  <2> QED
    BY <2>1, <2>2, <2>3, <2>4, <2>10, Zenon DEF StoreInv
<1>8. ASSUME NEW c \in Call, JsonFill(c) PROVE StoreInv'
  <2>1. /\ UNCHANGED <<disk, rvs, res, new>> /\ job' = [job EXCEPT ![c] = "none"] /\ job[c] = "truncated"
    BY <1>8, Zenon DEF JsonFill
  <2>2. job'[c] = "none" /\ \A d \in Call \ {c} : job'[d] = job[d]
    BY <1>t, <2>1, Zenon DEF Types
  <2>3. pc[c] = "write" /\ todo[c] # <<>> /\ disk = NoDisk
    BY <1>n, <1>t, <2>1, Zenon DEF Coherent, NoStray
  <2>4. \A d \in Call \ {c} : job[d] = "none" /\ pc[d] # "flush"
    BY <1>n, <2>3, OneWriter, Zenon DEF Writing
  <2>5. file = Lost /\ Good(new[c], {c})
    BY <1>n, <2>1, Zenon DEF StoreInv
  <2>6. file' = new[c] /\ pc' = [pc EXCEPT ![c] = "set"] /\ todo' = [todo EXCEPT ![c] = Tail(@)]
    BY <1>8, <2>3, <2>5, Zenon DEF JsonFill
  <2>7. pc'[c] = "set" /\ \A d \in Call \ {c} : pc'[d] = pc[d] /\ todo'[d] = todo[d]
    BY <1>t, <2>6, Zenon DEF Types
  <2>8. Stored(c)' = Stored(c) + 1 /\ Stored(c) \in Nat
    BY <2>1, <2>3, <2>6, AdvanceOrder, StoredType, Zenon
  <2>9. Count(c, {})' = Count(c, {c})
    BY <1>z, <2>8, Zenon DEF Count
  <2>10. \A f : Good(f, {c}) => Good(f, {})'
    BY <2>1, <2>7, <2>8, <2>9, WriterGood, Zenon
  <2>11. Good(file, {})'
    BY <2>5, <2>6, <2>10, GoodNow, Zenon
  <2> QED
    BY <2>1, <2>2, <2>3, <2>4, <2>7, <2>11, Zenon DEF StoreInv
<1>9. ASSUME NEW c \in Call, JsonWriteFails(c) PROVE StoreInv'
  <2>1. /\ UNCHANGED <<file, disk, rvs, todo, new>> /\ job' = [job EXCEPT ![c] = "none"] /\ job[c] # "none"
    BY <1>9, Zenon DEF JsonWriteFails
  <2>2. job'[c] = "none" /\ \A d \in Call \ {c} : job'[d] = job[d]
    BY <1>t, <2>1, Zenon DEF Types
  <2>3. pc[c] = "write" /\ disk = NoDisk
    BY <1>n, <1>t, <2>1, Zenon DEF Coherent, NoStray
  <2>4. \A d \in Call \ {c} : job[d] = "none" /\ pc[d] # "flush"
    BY <1>n, <2>3, OneWriter, Zenon DEF Writing
  <2>5. /\ \A d \in Call \ {c} : pc'[d] = pc[d] /\ res'[d] = res[d]
        /\ pc'[c] = "done" /\ res'[c] = "failed"
    BY <1>9, <1>t, <2>3, Zenon DEF JsonWriteFails, Return, Types
  <2>6. Stored(c)' = Stored(c) /\ Stored(c) \in Nat
    BY <2>1, StoredType, Zenon DEF Stored
  <2>7. Count(c, {})' = Stored(c)
    BY <1>z, <2>6, Zenon DEF Count
  <2>8. \A f : Good(f, {}) => Good(f, {})'
    BY <2>1, <2>6, <2>7, WriterGood, Zenon
  <2>9. file # Lost => Good(file, {})
    BY <1>n, <2>3, <2>4, Zenon DEF StoreInv
  <2>10. file # Lost => Good(file, {})'
    BY <2>1, <2>8, <2>9, GoodNow, Zenon
  <2> QED
    BY <2>1, <2>2, <2>3, <2>4, <2>5, <2>10, Zenon DEF StoreInv
<1>10. ASSUME NEW c \in Call, FsInsert(c) PROVE StoreInv'
  <2> DEFINE g == [file EXCEPT ![Head(todo[c]).name] = Head(todo[c])]
  <2>1. /\ UNCHANGED <<disk, rvs, todo, res, new, job>> /\ pc[c] = "set" /\ disk # NoDisk /\ todo[c] # <<>>
        /\ pc' = [pc EXCEPT ![c] = "flush"] /\ file' = g
    BY <1>10, Zenon DEF FsInsert, Storage
  <2>2. pc'[c] = "flush" /\ \A d \in Call \ {c} : pc'[d] = pc[d]
    BY <1>t, <2>1, Zenon DEF Types
  <2>3. \A d \in Call \ {c} : pc[d] # "flush"
    BY <1>n, <2>1, OneWriter, Zenon DEF Writing
  <2>4. \A d \in Call : job[d] = "none"
    BY <1>t, <2>1, Zenon DEF Coherent
  <2>5. file # Lost /\ file \in Content /\ Good(file, {}) /\ Good(disk, {})
    BY <1>n, <1>t, <2>1, <2>3, ZenonT(40) DEF StoreInv, Coherent, Types
  <2>6. Good(g, {c})
    BY <2>1, <2>5, PutGood, Zenon
  <2>7. Count(c, {c})' = Count(c, {c}) /\ Count(c, {})' = Count(c, {}) /\ Stored(c)' = Stored(c)
    BY <2>1, Zenon DEF Count, Stored
  <2>8. /\ \A f : Good(f, {c}) => Good(f, {c})'
        /\ \A f : Good(f, {}) => Good(f, {})'
    BY <2>1, <2>7, WriterGood, Zenon
  <2> HIDE DEF g
  <2>9. Good(file, {c})'
    BY <2>1, <2>6, <2>8, GoodNow, Zenon
  <2>10. Good(disk, {})'
    BY <2>1, <2>5, <2>8, GoodNow, Zenon
  <2>11. ASSUME NEW d \in Call, pc'[d] = "flush" PROVE Good(file, {d})'
    <3>1. d = c
      BY <2>2, <2>3, <2>11, Zenon
    <3> QED
      BY <2>9, <3>1, Zenon
  <2>12. \A d \in Call : job'[d] = "none"
    BY <2>1, <2>4, Zenon
  <2> QED
    BY <2>2, <2>10, <2>11, <2>12, Zenon DEF StoreInv
<1>11. ASSUME NEW c \in Call, FsFlush(c) PROVE StoreInv'
  <2>1. /\ UNCHANGED <<file, rvs, res, new, job>> /\ pc[c] = "flush" /\ disk' = file
        /\ pc' = [pc EXCEPT ![c] = "set"] /\ todo' = [todo EXCEPT ![c] = Tail(@)]
    BY <1>11, Zenon DEF FsFlush
  <2>2. pc'[c] = "set" /\ \A d \in Call \ {c} : pc'[d] = pc[d] /\ todo'[d] = todo[d]
    BY <1>t, <2>1, Zenon DEF Types
  <2>3. disk # NoDisk /\ todo[c] # <<>>
    BY <1>t, <2>1, Zenon DEF Coherent
  <2>4. /\ \A d \in Call \ {c} : pc[d] # "flush"
        /\ \A d \in Call : job[d] = "none"
    <3>1. Writing(c)
      BY <2>1, Zenon DEF Writing
    <3>2. \A d \in Call : job[d] = "none"
      BY <1>t, <2>3, Zenon DEF Coherent
    <3> QED
      BY <1>n, <3>1, <3>2, OneWriter, Zenon
  <2>5. Good(file, {c})
    BY <1>n, <2>1, Zenon DEF StoreInv
  <2>6. Stored(c)' = Stored(c) + 1 /\ Stored(c) \in Nat
    BY <2>1, <2>3, AdvanceOrder, StoredType, Zenon
  <2>7. Count(c, {})' = Count(c, {c})
    BY <1>z, <2>6, Zenon DEF Count
  <2>8. \A f : Good(f, {c}) => Good(f, {})'
    BY <2>1, <2>2, <2>6, <2>7, WriterGood, Zenon
  <2>9. Good(file, {})' /\ Good(disk, {})'
    BY <2>1, <2>5, <2>8, GoodNow, Zenon
  <2> QED
    BY <2>1, <2>2, <2>4, <2>9 DEF StoreInv
<1>12. CASE Crash
  <2>1. /\ UNCHANGED <<rvs, todo, new>>
        /\ \A d \in Call : job'[d] = "none" /\ pc'[d] \in {"idle", "done"}
    BY <1>t, <1>12, Zenon DEF Crash, Types
  <2>2. \A d \in Call : Stored(d)' = Stored(d) /\ Stored(d) \in Nat
    BY <2>1, StoredType, Zenon DEF Stored
  <2>3. \A f : Good(f, {}) => Good(f, {})'
    <3>1. \A d \in Call : Count(d, {})' = Count(d, {})
      BY <2>2, Zenon DEF Count
    <3> QED
      BY <2>1, <2>2, <3>1, GoodKept, Zenon
  <2>4. ASSUME NEW c \in Call, pc[c] = "flush" PROVE \A f : Good(f, {c}) => Good(f, {})'
    <3>1. \A d \in Call \ {c} : Count(d, {})' = Count(d, {c})
      BY <2>2, Zenon DEF Count
    <3>2. Count(c, {})' = Stored(c)
      BY <1>z, <2>2, Zenon DEF Count
    <3> QED
      BY <2>1, <2>2, <3>1, <3>2, GoodKept, Zenon
  <2>5. CASE disk = NoDisk
    <3>1. UNCHANGED <<file, disk>> /\ \A c \in Call : pc[c] # "flush"
      BY <1>12, <1>t, <2>5, Zenon DEF Crash, Storage, Coherent
    <3>2. file # Lost => Good(file, {})'
      BY <1>n, <2>3, <3>1, GoodNow, Zenon DEF StoreInv
    <3> QED
      BY <2>1, <2>5, <3>1, <3>2, Zenon DEF StoreInv
  <2>6. CASE disk # NoDisk
    <3>1. PICK kept \in SUBSET Name :
               file' = [n \in Name |-> IF n \in kept THEN file[n] ELSE disk[n]] /\ disk' = file'
      BY <1>12, <2>6, Zenon DEF Crash, Storage
    <3>2. file # Lost /\ Good(disk, {})
      BY <1>n, <1>t, <2>6, Zenon DEF Coherent, StoreInv
    <3>3. PICK f, g, h : f = file /\ g = disk /\ h = file'
      BY Zenon
    <3>4. Good(f, {})'
      <4>1. CASE \A c \in Call : pc[c] # "flush"
        BY <1>n, <2>3, <3>2, <3>3, <4>1, Zenon DEF StoreInv
      <4>2. ASSUME NEW c \in Call, pc[c] = "flush" PROVE Good(f, {})'
        BY <1>n, <2>4, <3>3, <4>2, Zenon DEF StoreInv
      <4> QED
        BY <4>1, <4>2, Zenon
    <3>5. Good(g, {})'
      BY <2>3, <3>2, <3>3, Zenon
    <3>6. \A n \in Name : h[n] \in {f[n], g[n]}
      BY <3>1, <3>3, Zenon
    <3>7. CallInv'
      BY CallStep, Zenon
    <3>8. Good(h, {})'
      BY <3>4, <3>5, <3>6, <3>7, MixGood, Zenon
    <3>9. Good(file, {})' /\ Good(disk, {})'
      BY <3>1, <3>3, <3>8, GoodNow, Zenon
    <3> QED
      BY <2>1, <3>9, Zenon DEF StoreInv
  <2> QED
    BY <2>5, <2>6, Zenon
<1> QED
  BY <1>1, <1>2, <1>4, <1>5, <1>6, <1>7, <1>8, <1>9, <1>10, <1>11, <1>12, Zenon DEF Next, Proceed, Fail

-----------------------------------------------------------------------------
(* What calls find and see.                                                *)

\* A file that a call found unreadable is lost.
LEMMA LostStep ==
    ASSUME CallInv, LockInv, StoreInv, UnreadableIsLost, [Next]_vars
    PROVE  UnreadableIsLost'
<1> SUFFICES ASSUME NoStray', NEW c \in Call, res'[c] = "unreadable"
             PROVE  file' = Lost /\ \A d \in Call : job'[d] # "truncated"
  BY Zenon DEF UnreadableIsLost
<1>n. NoStray
  BY StrayPersists, Zenon
<1>t. Types /\ Coherent
  BY Zenon DEF CallInv
<1>1. CASE res[c] = "unreadable"
  <2>1. file = Lost /\ \A d \in Call : job[d] # "truncated"
    BY <1>1, <1>n, Zenon DEF UnreadableIsLost
  <2>2. \A d \in Call : job[d] = "none"
    BY <1>n, <1>t, <2>1, Zenon DEF StoreInv, Types
  <2>3. disk = NoDisk
    BY <1>t, <2>1, Zenon DEF Coherent
  <2>4. ASSUME NEW d \in Call, Arrive(d) \/ Proceed(d) \/ Fail(d)
        PROVE  UNCHANGED <<file, job>>
    <3>1. ~JsonTruncate(d) /\ ~JsonFill(d) /\ ~JsonRead(d) /\ ~FsInsert(d) /\ ~JsonWriteFails(d)
      BY <2>1, <2>2, <2>3, Zenon DEF JsonTruncate, JsonFill, JsonRead, FsInsert, JsonWriteFails, Storage
    <3> QED
      BY <2>4, <3>1, ZenonT(40) DEF Arrive, Query, Register, Proceed, Fail, FsFails, Drop, LockForWrite, Extract,
             RegisterRefused, LockForRead, Registered, JsonReadFails, FsFlush, Get, GetFails
  <2>5. CASE Crash
    BY <2>1, <2>3, <2>5, Zenon DEF Crash, Storage
  <2>6. CASE Tick \/ UNCHANGED vars
    BY <2>1, <2>6, Zenon DEF Tick, vars
  <2> QED
    BY <2>1, <2>4, <2>5, <2>6, Zenon DEF Next
<1>2. CASE res[c] # "unreadable"
  <2>1. PICK d \in Call : JsonReadFails(d) \/ GetFails(d)
    <3>1. ASSUME NEW d \in Call, Arrive(d) \/ Proceed(d) \/ Fail(d), ~JsonReadFails(d), ~GetFails(d)
          PROVE  FALSE
      <4>1. CASE Fail(d)
        BY <1>2, <1>t, <4>1, ZenonT(40) DEF Fail, FsFails, Drop, JsonWriteFails, Return, Types
      <4>2. CASE Registered(d) \/ RegisterRefused(d) \/ Get(d)
        BY <1>2, <1>t, <4>2, Zenon DEF Registered, RegisterRefused, Get, Return, Types
      <4>3. CASE UNCHANGED res
        BY <1>2, <4>3, Zenon
      <4> QED
        BY <3>1, <4>1, <4>2, <4>3, ZenonT(40) DEF Arrive, Query, Register, Proceed, LockForWrite, Extract,
             LockForRead, JsonRead, JsonTruncate, JsonFill, FsInsert, FsFlush
    <3>2. ~Crash
      BY <1>2, <1>t, Zenon DEF Crash, Types
    <3>3. ~Tick /\ ~UNCHANGED vars
      BY <1>2, Zenon DEF Tick, vars
    <3> QED
      BY <3>1, <3>2, <3>3, Zenon DEF Next
  <2>2. (Writing(d) \/ Reading(d)) /\ file = Lost /\ UNCHANGED <<file, job>> /\ pc[d] # "write"
    BY <2>1, Zenon DEF JsonReadFails, GetFails, Writing, Reading
  <2>3. \A e \in Call : job[e] = "none"
    BY <1>n, <2>2, OneWriter, Zenon
  <2> QED
    BY <2>2, <2>3, Zenon
<1> QED
  BY <1>1, <1>2, Zenon

\* A call that is acknowledged in this step has stored its last value, or reads.
LEMMA NewlyOk ==
    ASSUME CallInv, [Next]_vars, NEW c \in Call, res'[c] = "ok", res[c] # "ok"
    PROVE  Registered(c) \/ Get(c)
<1>t. Types
  BY Zenon DEF CallInv
<1>1. ASSUME NEW d \in Call, Arrive(d) \/ Proceed(d) \/ Fail(d)
      PROVE  Registered(c) \/ Get(c)
  <2>1. CASE Fail(d)
    BY <1>t, <2>1, ZenonT(40) DEF Fail, FsFails, Drop, JsonWriteFails, Return, Types
  <2>2. CASE RegisterRefused(d) \/ JsonReadFails(d) \/ GetFails(d)
    BY <1>t, <2>2, ZenonT(40) DEF RegisterRefused, JsonReadFails, GetFails, Return, Types
  <2>3. CASE Registered(d) \/ Get(d)
    <3>1. d = c
      BY <1>t, <2>3, Zenon DEF Registered, Get, Return, Types
    <3> QED
      BY <2>3, <3>1, Zenon
  <2>4. CASE UNCHANGED res
    BY <2>4, Zenon
  <2> QED
    BY <1>1, <2>1, <2>2, <2>3, <2>4, ZenonT(40) DEF Arrive, Query, Register, Proceed, LockForWrite, Extract,
         LockForRead, JsonRead, JsonTruncate, JsonFill, FsInsert, FsFlush
<1>2. ~Crash
  BY <1>t, Zenon DEF Crash, Types
<1>3. ~Tick /\ ~UNCHANGED vars
  BY Zenon DEF Tick, vars
<1> QED
  BY <1>1, <1>2, <1>3, Zenon DEF Next

\* Queries see names of calls that were done, and calls that are not done have seen
\* nothing.
SeenInv ==
    NoStray => \A q \in Call :
      /\ \A n \in Name : seen[q][n] # NoVal => \E d \in Call : pc[d] = "done" /\ n \in Names(d)
      /\ pc[q] # "done" => seen[q] = Empty

\* What a query reads while it holds the lock.
LEMMA ReadGood ==
    ASSUME CallInv, LockInv, StoreInv, NoStray, NEW q \in Call, Get(q)
    PROVE  /\ file \in Content /\ Good(file, {})
           /\ \A d \in Call : rvs[d] # <<>> => pc[d] = "done"
<1>1. Reading(q) /\ pc[q] = "get" /\ file # Lost
  BY Zenon DEF Get, Reading
<1>2. \A d \in Call : pc[d] # "flush"
  BY <1>1, OneWriter, Zenon
<1>3. Good(file, {})
  BY <1>1, <1>2, Zenon DEF StoreInv
<1>4. file \in Content
  BY <1>1, Zenon DEF CallInv, Types
<1>5. \A d \in Call : rvs[d] # <<>> => pc[d] \notin {"idle", "register", "query", "get"}
  BY Zenon DEF CallInv, Coherent
<1>6. \A d \in Call : ~Writing(d)
  BY <1>1, Zenon DEF LockInv, Writing
<1>7. \A d \in Call : pc[d] \in {"idle", "register", "query", "set", "write", "flush", "get", "done"}
  BY Zenon DEF CallInv, Types
<1> QED
  BY <1>3, <1>4, <1>5, <1>6, <1>7, Zenon DEF Writing

\* Every step keeps what is known of the answers.
LEMMA SeenStep ==
    ASSUME CallInv, LockInv, StoreInv, SeenInv, [Next]_vars
    PROVE  SeenInv'
<1> SUFFICES ASSUME NoStray', NEW q \in Call
             PROVE  /\ \A n \in Name : seen'[q][n] # NoVal => \E d \in Call : pc'[d] = "done" /\ n \in Names(d)'
                    /\ pc'[q] # "done" => seen'[q] = Empty
  BY Zenon DEF SeenInv
<1>n. NoStray
  BY StrayPersists, Zenon
<1>t. Types
  BY Zenon DEF CallInv
<1>e. DOMAIN <<>> = {}
  BY SMTT(30)
<1>1. CASE Get(q)
  <2>1. PICK t : seen'[q] = Digests(file, t) /\ pc'[q] = "done" /\ UNCHANGED rvs
    BY <1>t, <1>1, Zenon DEF Get, Return, Types
  <2>2. ASSUME NEW n \in Name, seen'[q][n] # NoVal
        PROVE  \E d \in Call : pc'[d] = "done" /\ n \in Names(d)'
    <3>1. file[n] # NoVal
      BY <2>1, <2>2, Zenon DEF Digests
    <3>2. PICK d \in Call : Registers(d, n, file[n])
      BY <1>1, <1>n, <3>1, ReadGood, Zenon DEF Good, Origin
    <3>3. pc[d] = "done"
      BY <1>1, <1>e, <1>n, <3>2, ReadGood, Zenon DEF Registers
    <3>4. pc'[d] = "done"
      BY <3>3, Persists, Zenon
    <3>5. n \in Names(d)'
      BY <2>1, <3>2, Zenon DEF Registers, Names
    <3> QED
      BY <3>4, <3>5, Zenon
  <2> QED
    BY <2>1, <2>2, Zenon
<1>2. CASE ~Get(q)
  <2>1. seen'[q] = seen[q]
    <3>1. ASSUME NEW d \in Call, Get(d) PROVE seen'[q] = seen[q]
      BY <1>2, <1>t, <3>1, Zenon DEF Get, Types
    <3>2. ASSUME NEW d \in Call, Arrive(d) \/ Proceed(d) \/ Fail(d), ~Get(d) PROVE UNCHANGED seen
      BY <3>2, Zenon DEF Arrive, Query, Register, Proceed, Fail, FsFails, Drop, JsonWriteFails, LockForWrite, Extract,
             RegisterRefused, LockForRead, Registered, JsonRead, JsonReadFails, JsonTruncate, JsonFill, FsInsert,
             FsFlush, GetFails
    <3>3. CASE Crash \/ Tick \/ UNCHANGED vars
      BY <3>3, Zenon DEF Crash, Tick, vars
    <3> QED
      BY <3>1, <3>2, <3>3, Zenon DEF Next
  <2>2. ASSUME NEW d \in Call, pc[d] = "done" PROVE pc'[d] = "done" /\ Names(d)' = Names(d)
    BY <2>2, Persists, ZenonT(40) DEF Names
  <2>3. pc'[q] # "done" => pc[q] # "done"
    BY <2>2, Zenon
  <2> QED
    BY <1>n, <2>1, <2>2, <2>3, Zenon DEF SeenInv
<1> QED
  BY <1>1, <1>2, Zenon

\* The clock is read, and does not go back.
LEMMA ClockMoves ==
    ASSUME CallInv, [Next]_vars
    PROVE  clock \in Nat /\ clock' \in Nat /\ clock <= clock'
<1>t. clock \in 0 .. MaxClock /\ clock' \in 0 .. MaxClock
  BY CallStep, Zenon DEF CallInv, Types
<1>n. clock \in Nat /\ clock' \in Nat /\ clock <= clock
  BY <1>t, RvpsAssumption
<1>1. ASSUME NEW c \in Call, LockForWrite(c) \/ Get(c) PROVE clock <= clock'
  <2>1. clock' \in clock .. MaxClock
    BY <1>1, Zenon DEF LockForWrite, Extract, Get
  <2> QED
    BY <1>t, <2>1, Passes, Zenon
<1>2. ASSUME NEW c \in Call, Arrive(c) \/ Proceed(c) \/ Fail(c), ~LockForWrite(c), ~Get(c) PROVE UNCHANGED clock
  BY <1>2, Zenon DEF Arrive, Query, Register, Proceed, Fail, FsFails, Drop, JsonWriteFails,
             RegisterRefused, LockForRead, Registered, JsonRead, JsonReadFails, JsonTruncate, JsonFill, FsInsert,
             FsFlush, GetFails
<1>3. Crash \/ UNCHANGED vars => UNCHANGED clock
  BY Zenon DEF Crash, vars
<1>4. Tick => clock <= clock'
  BY <1>n DEF Tick
<1> QED
  BY <1>1, <1>2, <1>3, <1>4, <1>n, Zenon DEF Next

\* AnswersAreWhole for one query and one registration.
Shown(q, c, i) == seen[q][rvs[c][i].name] = rvs[c][i].value
\* A value of the registration that comes before one that is shown, or any value of
\* one that succeeded, is shown too if it is in force.
Whole(q, c) ==
    \A i, j \in DOMAIN rvs[c] :
        Shown(q, c, j) /\ ((i < j /\ First(c, j)) \/ res[c] = "ok") /\ Final(c, i) =>
            Shown(q, c, i) \/ clock > rvs[c][i].expiration

\* The property, in these terms.
LEMMA WholeForm ==
    AnswersAreWhole <=> \A q, c \in Call : NoStray /\ res[q] = "ok" /\ Alone(c) => Whole(q, c)
BY Zenon DEF AnswersAreWhole, Whole, Shown, Alone, First, Final

\* The values of a call, and what they hold.
LEMMA ValueTypes ==
    ASSUME CallInv, NEW c \in Call, NEW i \in DOMAIN rvs[c]
    PROVE  /\ rvs[c][i].name \in Name /\ rvs[c][i].name \in Names(c) /\ rvs[c][i] # NoVal
           /\ rvs[c][i].value # NoVal /\ rvs[c][i].expiration \in Nat /\ i \in Nat
<1>1. rvs[c] \in Seq(ReferenceValue)
  BY Zenon DEF CallInv, Types
<1>2. rvs[c][i] \in ReferenceValue /\ i \in Nat
  BY <1>1
<1>3. rvs[c][i].expiration \in 0 .. MaxClock + Lifetime
  BY <1>2, Zenon DEF ReferenceValue
<1>4. rvs[c][i].expiration \in Nat
  BY <1>3, RvpsAssumption
<1> QED
  BY <1>2, <1>4, ContentAssumption, Zenon DEF ReferenceValue, Names

\* A query that has read the storage answers whole.
LEMMA ReadWhole ==
    ASSUME CallInv, LockInv, StoreInv, NoStray, [Next]_vars, NEW q \in Call, Get(q), NEW c \in Call, Alone(c)
    PROVE  Whole(q, c)'
<1>0. UNCHANGED rvs
  BY Zenon DEF Get
<1> SUFFICES ASSUME NEW i \in DOMAIN rvs[c], NEW j \in DOMAIN rvs[c], Shown(q, c, j)',
                    (i < j /\ First(c, j)) \/ res'[c] = "ok", Final(c, i)
             PROVE  Shown(q, c, i)' \/ clock' > rvs[c][i].expiration
  BY <1>0, Zenon DEF Whole, First, Final
<1>1. /\ file \in Content /\ Keeps(file, {}) /\ Latest(file, {}) /\ InTurn(file) /\ Origin(file)
  BY ReadGood, Zenon DEF Good
<1>2. PICK t \in Readings(Name) : seen'[q] = Digests(file, t)
  BY Zenon DEF Get, CallInv, Types
<1>3. res'[c] = res[c]
  <2>1. rvs[c] # <<>>
    BY SMT
  <2> QED
    BY <2>1, ReadGood, Persists, Zenon
<1>4. /\ DOMAIN rvs[c] = 1 .. Len(rvs[c]) /\ Stored(c) \in Nat /\ Len(rvs[c]) \in Nat
      /\ todo[c] = <<>> => Stored(c) = Len(rvs[c])
  BY StoredType, Zenon
<1>5. file[rvs[c][j].name] # NoVal
  <2>1. Digests(file, t)[rvs[c][j].name] = rvs[c][j].value
    BY <1>0, <1>2, Zenon DEF Shown
  <2> QED
    BY <2>1, ValueTypes, Zenon DEF Digests
<1>6. i \in 1 .. Stored(c)
  <2>1. CASE i < j /\ First(c, j)
    <3>1. j <= Stored(c) + 1
      BY <1>1, <1>5, <2>1, Zenon DEF InTurn
    <3> QED
      BY <1>4, <2>1, <3>1
  <2>2. CASE res'[c] = "ok"
    <3>1. todo[c] = <<>>
      BY <1>3, <2>2, Zenon DEF CallInv, Coherent
    <3> QED
      BY <1>4, <3>1, Zenon
  <2> QED
    BY <2>1, <2>2, Zenon
<1>7. Count(c, {}) = Stored(c)
  BY <1>4 DEF Count
<1>8. file[rvs[c][i].name] = rvs[c][i]
  BY <1>1, <1>6, <1>7, Zenon DEF Latest
<1>9. seen'[q][rvs[c][i].name] =
         IF t[rvs[c][i].name] > rvs[c][i].expiration THEN NoVal ELSE rvs[c][i].value
  BY <1>2, <1>8, ValueTypes, Zenon DEF Digests
<1>10. CASE ~(t[rvs[c][i].name] > rvs[c][i].expiration)
  BY <1>0, <1>9, <1>10, Zenon DEF Shown
<1>11. CASE t[rvs[c][i].name] > rvs[c][i].expiration
  <2>1. t[rvs[c][i].name] \in clock .. clock'
    BY ValueTypes, Zenon DEF Readings
  <2>2. clock \in Nat /\ clock' \in Nat /\ rvs[c][i].expiration \in Nat
    BY ClockMoves, ValueTypes, Zenon
  <2> QED
    BY <1>11, <2>1, <2>2
<1> QED
  BY <1>10, <1>11, Zenon

\* Every step keeps answers whole.
LEMMA WholeStep ==
    ASSUME CallInv, LockInv, StoreInv, SeenInv, AnswersAreWhole, [Next]_vars
    PROVE  AnswersAreWhole'
<1>f. AnswersAreWhole' <=>
        \A q, c \in Call : NoStray' /\ res'[q] = "ok" /\ Alone(c)' => Whole(q, c)'
  BY Zenon DEF AnswersAreWhole, Whole, Shown, Alone, First, Final
<1> SUFFICES ASSUME NoStray', NEW q \in Call, NEW c \in Call, res'[q] = "ok", Alone(c)'
             PROVE  Whole(q, c)'
  BY <1>f, Zenon
<1>n. NoStray
  BY StrayPersists, Zenon
<1>t. Types /\ Coherent /\ CallInv'
  BY CallStep, Zenon DEF CallInv
<1>a. Alone(c) /\ \A d \in Call : Names(d) \subseteq Names(d)'
  <2>e. DOMAIN <<>> = {}
    BY SMTT(30)
  <2>1. \A d \in Call : Names(d) \subseteq Names(d)'
    BY <2>e, Persists, Zenon DEF Names
  <2> QED
    BY <2>1, Zenon DEF Alone
<1>v. ASSUME NEW i \in DOMAIN rvs'[c] PROVE /\ rvs'[c][i].name \in Name /\ rvs'[c][i].name \in Names(c)'
                                            /\ rvs'[c][i].value # NoVal
  <2>1. rvs'[c] \in Seq(ReferenceValue)
    BY <1>t, Zenon DEF CallInv, Types
  <2>2. rvs'[c][i] \in ReferenceValue
    BY <2>1
  <2> QED
    BY <2>2, ContentAssumption, Zenon DEF ReferenceValue, Names
<1>1. CASE res[q] = "ok" /\ pc[c] = "done"
  <2>1. rvs'[c] = rvs[c] /\ res'[c] = res[c]
    BY <1>1, Persists, Zenon
  <2>2. seen'[q] = seen[q]
    BY <1>1, <1>t, Persists, Zenon DEF Coherent
  <2>3. Whole(q, c)
    BY <1>1, <1>a, <1>n, WholeForm, Zenon
  <2>4. ASSUME NEW i \in DOMAIN rvs[c], clock > rvs[c][i].expiration PROVE clock' > rvs[c][i].expiration
    <3>1. clock \in Nat /\ clock' \in Nat /\ clock <= clock' /\ rvs[c][i].expiration \in Nat
      BY ClockMoves, ValueTypes, Zenon
    <3> QED
      BY <2>4, <3>1
  <2> SUFFICES ASSUME NEW i \in DOMAIN rvs[c], NEW j \in DOMAIN rvs[c], Shown(q, c, j)',
                      (i < j /\ First(c, j)') \/ res'[c] = "ok", Final(c, i)'
               PROVE  Shown(q, c, i)' \/ clock' > rvs[c][i].expiration
    BY <2>1, Zenon DEF Whole
  <2>5. Shown(q, c, j) /\ (First(c, j)' => First(c, j)) /\ Final(c, i)
    BY <2>1, <2>2, Zenon DEF Shown, First, Final
  <2>6. Shown(q, c, i) \/ clock > rvs[c][i].expiration
    BY <2>1, <2>3, <2>5, Zenon DEF Whole
  <2> QED
    BY <2>1, <2>2, <2>4, <2>6, Zenon DEF Shown
<1>2. CASE res[q] = "ok" /\ pc[c] # "done"
  <2>1. seen'[q] = seen[q]
    BY <1>2, <1>t, Persists, Zenon DEF Coherent
  <2>2. ASSUME NEW i \in DOMAIN rvs'[c], Shown(q, c, i)' PROVE FALSE
    <3>1. seen[q][rvs'[c][i].name] # NoVal
      BY <1>v, <2>1, <2>2, Zenon DEF Shown
    <3>2. PICK d \in Call : pc[d] = "done" /\ rvs'[c][i].name \in Names(d)
      BY <1>n, <1>v, <3>1, Zenon DEF SeenInv
    <3> QED
      BY <1>2, <1>a, <1>v, <3>2, Zenon DEF Alone
  <2> QED
    BY <2>2, Zenon DEF Whole
<1>3. CASE res[q] # "ok" /\ Get(q)
  BY <1>3, <1>a, <1>n, ReadWhole, Zenon
<1>4. CASE res[q] # "ok" /\ Registered(q)
  <2>1. seen'[q] = Empty
    BY <1>4, <1>n, Zenon DEF Registered, SeenInv
  <2>2. ASSUME NEW i \in DOMAIN rvs'[c], Shown(q, c, i)' PROVE FALSE
    BY <1>v, <2>1, <2>2, Zenon DEF Shown, Empty
  <2> QED
    BY <2>2, Zenon DEF Whole
<1> QED
  BY <1>1, <1>2, <1>3, <1>4, NewlyOk, Zenon

-----------------------------------------------------------------------------
(* The theorems.                                                           *)

\* The inductive invariant.
RvpsInv == CallInv /\ LockInv /\ StoreInv /\ SeenInv /\ UnreadableIsLost /\ AnswersAreWhole

\* It always holds.
LEMMA RvpsInvariant == Spec => []RvpsInv
<1>1. Init => RvpsInv
  <2> SUFFICES ASSUME Init PROVE RvpsInv
    BY Zenon
  <2>1. CallInv
    BY CallInit, Zenon
  <2>2. \A c \in Call : /\ pc[c] = "idle" /\ rvs[c] = <<>> /\ todo[c] = <<>> /\ job[c] = "none"
                        /\ res[c] = "none" /\ seen[c] = Empty
    BY Zenon DEF Init
  <2>3. LockInv
    BY <2>2, Zenon DEF LockInv, Writing
  <2>4. Good(Empty, {})
    <3>1. Len(<<>>) = 0 /\ 0 - 0 = 0 /\ 0 + 0 = 0 /\ 1 .. 0 = {}
      OBVIOUS
    <3>2. \A c \in Call : Count(c, {}) = 0
      BY <2>2, <3>1, Zenon DEF Count, Stored
    <3>4. \A c \in Call : DOMAIN rvs[c] = {}
      BY <2>2
    <3> QED
      BY <3>1, <3>2, <3>4, Zenon DEF Good, Keeps, Latest, InTurn, Origin, Empty
  <2>5. file = Empty /\ disk \in {Empty, NoDisk}
    BY Zenon DEF Init
  <2>6. StoreInv
    BY <2>2, <2>4, <2>5, Zenon DEF StoreInv
  <2>7. SeenInv
    BY <2>2, Zenon DEF SeenInv, Empty
  <2>8. UnreadableIsLost /\ AnswersAreWhole
    BY <2>2, Zenon DEF UnreadableIsLost, AnswersAreWhole
  <2> QED
    BY <2>1, <2>3, <2>6, <2>7, <2>8, Zenon DEF RvpsInv
<1>2. RvpsInv /\ [Next]_vars => RvpsInv'
  BY CallStep, LockStep, StoreStep, SeenStep, LostStep, WholeStep, Zenon DEF RvpsInv
<1> QED
  BY <1>1, <1>2, PTL DEF Spec

\* A call finds the storage unreadable only when it is lost for good.  About the lock
\* of the service around a file that is truncated and written.
THEOREM UnreadableLost == Spec => []UnreadableIsLost
<1>1. RvpsInv => UnreadableIsLost
  BY Zenon DEF RvpsInv
<1> QED
  BY <1>1, RvpsInvariant, PTL

\* A query sees of the values of a message those up to some value, and all of them
\* once the registration has succeeded, but for the expired ones.  About the loop over
\* the values of a message under the lock, on both backends, with errors, dropped calls
\* and crashes.
THEOREM AnswersWhole == Spec => []AnswersAreWhole
<1>1. RvpsInv => AnswersAreWhole
  BY Zenon DEF RvpsInv
<1> QED
  BY <1>1, RvpsInvariant, PTL

\* The names of an acknowledged registration stay stored, on both backends, whatever
\* calls run, fail or are dropped, and across crashes.
THEOREM AcknowledgedStored == Spec => []AcknowledgedIsStored
<1>1. RvpsInv => AcknowledgedIsStored
  <2> SUFFICES ASSUME RvpsInv, NEW c \in Call, res[c] = "ok", file # Lost, NoStray, NEW n \in Names(c)
               PROVE  \E d \in Call : \E i \in DOMAIN rvs[d] : rvs[d][i] = file[n]
    BY Zenon DEF AcknowledgedIsStored
  <2>1. CallInv /\ LockInv /\ StoreInv
    BY Zenon DEF RvpsInv
  <2>2. todo[c] = <<>>
    BY <2>1, Zenon DEF CallInv, Coherent
  <2>3. /\ rvs[c] \in Seq(ReferenceValue) /\ DOMAIN rvs[c] = 1 .. Len(rvs[c])
        /\ Stored(c) = Len(rvs[c]) /\ Stored(c) \in Nat
    BY <2>1, <2>2, StoredType, Zenon
  <2>4. PICK i \in DOMAIN rvs[c] : rvs[c][i].name = n
    BY Zenon DEF Names
  <2>5. n \in Name
    <3>1. rvs[c][i] \in ReferenceValue
      BY <2>3, <2>4, SMTT(30)
    <3> QED
      BY <2>4, <3>1, Zenon DEF ReferenceValue
  <2>6. PICK A : Good(file, A)
    BY <2>1, Zenon DEF StoreInv
  <2>7. i \in 1 .. Count(c, A)
    <3>1. i \in 1 .. Stored(c)
      BY <2>3, Zenon
    <3>2. i \in 1 .. Stored(c) + 1 /\ Stored(c) + 0 = Stored(c)
      BY <2>3, <3>1, Within, SMTT(30)
    <3> QED
      BY <3>1, <3>2, Zenon DEF Count
  <2>8. file[n] # NoVal
    BY <2>4, <2>6, <2>7, ZenonT(40) DEF Good, Keeps
  <2>9. PICK d \in Call : Registers(d, n, file[n])
    BY <2>5, <2>6, <2>8, Zenon DEF Good, Origin
  <2> QED
    BY <2>9, Zenon DEF Registers
<1> QED
  BY <1>1, RvpsInvariant, PTL

-----------------------------------------------------------------------------
(* The JSON file implements a map.                                         *)

\* At most one write is under way, and Store is its content.
LEMMA StoreOf ==
    ASSUME CallInv, LockInv, StoreInv, NoStray
    PROVE  /\ \A c \in Call : job[c] = "truncated" => Store = new[c]
           /\ (\A c \in Call : job[c] # "truncated") => Store = file
<1>1. ASSUME NEW c \in Call, job[c] = "truncated" PROVE Store = new[c]
  <2>1. \A d \in Call : job[d] = "truncated" => d = c
    BY <1>1, Zenon DEF LockInv, CallInv, Coherent, NoStray, Writing
  <2>2. (CHOOSE d \in Call : job[d] = "truncated") = c
    BY <1>1, <2>1, Zenon
  <2> QED
    BY <1>1, <2>2, Zenon DEF Store
<1> QED
  BY <1>1, Zenon DEF Store

\* Every step changes one name of the map, or loses the map, or leaves it as it is.
LEMMA AbstractStep ==
    ASSUME RvpsInv, RvpsInv', [Next]_vars, Storage = "LocalJson", NoStray
    PROVE  [Abstract!Next]_(Abstract!vars)
<1>i. CallInv /\ LockInv /\ StoreInv /\ Types /\ Coherent
  BY Zenon DEF RvpsInv, CallInv
<1>d. disk = NoDisk
  BY Zenon DEF Storage
<1>a. \/ Store' = Store
      \/ Store' = Lost
      \/ Store # Lost /\ \E n \in Name, v \in ReferenceValue : Store' = [Store EXCEPT ![n] = v]
      => [Abstract!Next]_(Abstract!vars)
  BY Zenon DEF Abstract!Next, Abstract!Put, Abstract!Lose, Abstract!vars
\* A step that leaves the writes alone.
<1>k. ASSUME UNCHANGED <<file, job>>, \A c \in Call : job[c] = "truncated" => new'[c] = new[c]
      PROVE  Store' = Store
  <2>1. CASE \E c \in Call : job[c] = "truncated"
    <3> DEFINE c == CHOOSE c \in Call : job[c] = "truncated"
    <3>1. c \in Call /\ job[c] = "truncated"
      BY <2>1, Zenon
    <3>2. Store = new[c] /\ Store' = new'[c]
      BY <1>k, <2>1, Zenon DEF Store
    <3> QED
      BY <1>k, <3>1, <3>2, Zenon
  <2>2. CASE \A c \in Call : job[c] # "truncated"
    BY <1>k, <2>2, Zenon DEF Store
  <2> QED
    BY <2>1, <2>2, Zenon
<1>1. ASSUME NEW c \in Call, JsonTruncate(c) PROVE [Abstract!Next]_(Abstract!vars)
  <2>1. job[c] = "queued" /\ UNCHANGED <<new, res>> /\ job' = [job EXCEPT ![c] = "truncated"]
    BY <1>1, Zenon DEF JsonTruncate
  <2>2. pc[c] = "write" /\ todo[c] # <<>>
    BY <1>i, <2>1, Zenon DEF Coherent, NoStray
  <2>3. \A d \in Call : job[d] # "truncated"
    BY <1>i, <2>1, <2>2, OneWriter, Zenon DEF Writing
  <2>4. Store = file
    BY <1>i, <2>3, StoreOf, Zenon
  <2>5. file # Lost /\ new[c] = [file EXCEPT ![Head(todo[c]).name] = Head(todo[c])]
    BY <1>i, <2>1, Zenon DEF StoreInv
  <2>6. \A d \in Call : job'[d] = "truncated" <=> d = c
    BY <1>i, <2>1, <2>3, Zenon DEF Types
  <2>7. Store' = new[c]
    <3>1. (CHOOSE d \in Call : job'[d] = "truncated") = c
      BY <2>6, Zenon
    <3> QED
      BY <2>1, <2>6, <3>1, Zenon DEF Store
  <2>8. Head(todo[c]) \in ReferenceValue /\ Head(todo[c]).name \in Name
    BY <1>i, <2>2, NextValue, Zenon DEF ReferenceValue
  <2> QED
    BY <1>a, <2>4, <2>5, <2>7, <2>8, Zenon
<1>2. ASSUME NEW c \in Call, JsonFill(c) \/ JsonWriteFails(c) PROVE [Abstract!Next]_(Abstract!vars)
  <2>1. job[c] # "none" /\ job' = [job EXCEPT ![c] = "none"] /\ UNCHANGED new
    BY <1>2, Zenon DEF JsonFill, JsonWriteFails
  <2>2. pc[c] = "write"
    BY <1>i, <2>1, Zenon DEF Coherent, NoStray
  <2>3. \A d \in Call \ {c} : job[d] # "truncated"
    BY <1>i, <2>2, OneWriter, Zenon DEF Writing
  <2>4. \A d \in Call : job'[d] # "truncated"
    BY <1>i, <2>1, <2>3, Zenon DEF Types
  <2>5. Store' = file'
    BY <2>4, Zenon DEF Store
  <2>6. CASE JsonFill(c)
    <3>1. job[c] = "truncated" /\ file = Lost
      BY <1>i, <2>6, ZenonT(40) DEF JsonFill, StoreInv
    <3>2. file' = new[c] /\ Store = new[c]
      BY <1>i, <2>6, <3>1, StoreOf, Zenon DEF JsonFill
    <3> QED
      BY <1>a, <2>5, <3>2, Zenon
  <2>7. CASE JsonWriteFails(c) /\ job[c] = "truncated"
    <3>1. file' = Lost
      BY <1>i, <2>7, Zenon DEF JsonWriteFails, StoreInv
    <3> QED
      BY <1>a, <2>5, <3>1, Zenon
  <2>8. CASE JsonWriteFails(c) /\ job[c] # "truncated"
    <3>1. Store = file /\ file' = file
      BY <1>i, <2>3, <2>8, StoreOf, Zenon DEF JsonWriteFails
    <3> QED
      BY <1>a, <2>5, <3>1, Zenon
  <2> QED
    BY <1>2, <2>6, <2>7, <2>8, Zenon
<1>3. ASSUME NEW c \in Call, JsonRead(c) PROVE [Abstract!Next]_(Abstract!vars)
  <2>1. pc[c] = "set" /\ UNCHANGED file /\ job' = [job EXCEPT ![c] = "queued"]
    BY <1>3, Zenon DEF JsonRead
  <2>2. \A d \in Call : job[d] = "none"
    BY <1>i, <2>1, OneWriter, Zenon DEF Writing
  <2>3. \A d \in Call : job'[d] # "truncated"
    BY <1>i, <2>1, <2>2, Zenon DEF Types
  <2>4. Store' = file /\ Store = file
    BY <2>1, <2>2, <2>3, Zenon DEF Store
  <2> QED
    BY <1>a, <2>4, Zenon
<1>4. ASSUME NEW c \in Call, Arrive(c) \/ Proceed(c) \/ Fail(c),
             ~JsonTruncate(c), ~JsonFill(c), ~JsonWriteFails(c), ~JsonRead(c)
      PROVE  [Abstract!Next]_(Abstract!vars)
  <2>1. ~FsInsert(c)
    BY <1>d, Zenon DEF FsInsert, Storage
  <2>2. UNCHANGED <<file, job, new>>
    BY <1>4, <2>1, Zenon DEF Arrive, Query, Register, Proceed, Fail, FsFails, Drop, LockForWrite, Extract,
             RegisterRefused, LockForRead, Registered, JsonReadFails, FsFlush, Get, GetFails
  <2> QED
    BY <1>a, <1>k, <2>2, Zenon
<1>5. CASE Crash
  <2>1. file' = file /\ \A d \in Call : job'[d] # "truncated"
    BY <1>5, <1>d, Zenon DEF Crash, Storage
  <2>2. Store' = file
    BY <2>1, Zenon DEF Store
  <2>3. CASE \E c \in Call : job[c] = "truncated"
    <3>1. file = Lost
      BY <1>i, <2>3, ZenonT(40) DEF StoreInv
    <3> QED
      BY <1>a, <2>2, <3>1, Zenon
  <2>4. CASE \A c \in Call : job[c] # "truncated"
    BY <1>a, <2>2, <2>4, Zenon DEF Store
  <2> QED
    BY <2>3, <2>4, Zenon
<1>6. CASE Tick \/ UNCHANGED vars
  BY <1>6, <1>a, <1>k, Zenon DEF Tick, vars
<1> QED
  BY <1>1, <1>2, <1>3, <1>4, <1>5, <1>6, Zenon DEF Next

\* The lock, the loop over the values and the read, truncation and write of the JSON
\* file implement a map that changes one name at a time, or is lost for good.
THEOREM StoreRefined == Spec => ImplementsStore
<1>1. Init => Abstract!Init
  <2> SUFFICES ASSUME Init PROVE Abstract!Init
    BY Zenon
  <2>1. Store = Empty
    BY Zenon DEF Init, Store
  <2> QED
    BY <2>1, Zenon DEF Abstract!Init, Abstract!Empty, Empty
<1>2. RvpsInv /\ RvpsInv' /\ [Next]_vars
        => [Storage = "LocalJson" /\ NoStray => Abstract!Next]_(Abstract!vars)
  BY AbstractStep, Zenon
<1> QED
  BY <1>1, <1>2, RvpsInvariant, PTL DEF Spec, ImplementsStore

-----------------------------------------------------------------------------
(* The loops of the SWID extractor.                                        *)

\* A set of natural numbers has a least one.
LEMMA Least ==
    ASSUME NEW S \in SUBSET Nat, S # {}
    PROVE  \E m \in S : \A k \in S : m <= k
<1>1. PICK m \in S : \A k \in S : ~(<<k, m>> \in OpToRel(<, Nat))
  BY NatLessThanWellFounded, WFMin, Zenon
<1>2. \A k \in S : ~(k < m)
  BY <1>1, Zenon DEF OpToRel
<1> QED BY <1>2

\* What holds of 0, and of n + 1 if it does of n, holds up to N: the set of the
\* numbers of which it does not hold has no least element.
LEMMA Induction ==
    ASSUME NEW N \in Nat, NEW T, 0 \in T, \A n \in 0 .. N - 1 : n \in T => n + 1 \in T
    PROVE  0 .. N \subseteq T
<1> DEFINE S == {n \in 0 .. N : n \notin T}
<1> SUFFICES ASSUME S # {} PROVE FALSE
  BY Zenon
<1>1. S \in SUBSET Nat
  OBVIOUS
<1>2. PICK m \in S : \A k \in S : m <= k
  BY <1>1, Least, Zenon
<1>3. m \in 0 .. N /\ m \notin T /\ m # 0
  BY <1>2, Zenon
<1>4. m - 1 \in 0 .. N - 1 /\ m - 1 \in 0 .. N /\ m - 1 + 1 = m /\ ~(m <= m - 1)
  BY <1>3
<1>5. m - 1 \in T
  BY <1>2, <1>4, Zenon
<1> QED BY <1>3, <1>4, <1>5, Zenon

\* f[i] is what a loop collects that starts at i, adds P[i] and goes on to i + 1,
\* until N or a member of Stop.
IsFrom(f, lo, N, Stop, P) ==
    f = [i \in lo .. N + 1 |-> IF i > N \/ i \in Stop THEN <<>> ELSE P[i] \o f[i + 1]]

\* A loop that can start at i can start one earlier.
LEMMA FromGoesOn ==
    ASSUME NEW N \in Nat, NEW lo \in 1 .. N, NEW Stop, NEW P, NEW f, IsFrom(f, lo + 1, N, Stop, P)
    PROVE  \E h : IsFrom(h, lo, N, Stop, P)
<1>1. /\ lo .. N + 1 = {lo} \cup (lo + 1) .. N + 1 /\ lo \notin (lo + 1) .. N + 1
      /\ lo + 1 \in (lo + 1) .. N + 1 /\ ~(lo > N)
  OBVIOUS
<1> DEFINE h == [i \in lo .. N + 1 |->
                   IF i = lo THEN (IF lo \in Stop THEN <<>> ELSE P[lo] \o f[lo + 1]) ELSE f[i]]
           g == [i \in lo .. N + 1 |-> IF i > N \/ i \in Stop THEN <<>> ELSE P[i] \o h[i + 1]]
<1>2. \A i \in (lo + 1) .. N + 1 : h[i] = f[i]
  BY <1>1, Zenon
<1>3. \A i \in (lo + 1) .. N + 1 : f[i] = IF i > N \/ i \in Stop THEN <<>> ELSE P[i] \o f[i + 1]
  BY Zenon DEF IsFrom
<1>4. h[lo] = IF lo \in Stop THEN <<>> ELSE P[lo] \o f[lo + 1]
  BY <1>1, Zenon
<1>5. \A i \in lo .. N + 1 : g[i] = IF i > N \/ i \in Stop THEN <<>> ELSE P[i] \o h[i + 1]
  BY Zenon
<1> HIDE DEF h, g
<1>6. g[lo] = h[lo]
  BY <1>1, <1>2, <1>4, <1>5, Zenon
<1>7. ASSUME NEW i \in (lo + 1) .. N + 1 PROVE g[i] = h[i]
  <2>1. i > N \/ i + 1 \in (lo + 1) .. N + 1
    OBVIOUS
  <2> QED BY <1>1, <1>2, <1>3, <1>5, <2>1, Zenon
<1>8. \A i \in lo .. N + 1 : g[i] = h[i]
  BY <1>1, <1>6, <1>7, Zenon
<1>9. h = g
  BY <1>8, Zenon DEF h, g
<1> QED BY <1>9, Zenon DEF IsFrom, g

\* The loop collects something.
LEMMA FromEnds ==
    ASSUME NEW N \in Nat, NEW Stop, NEW P
    PROVE  \E f : IsFrom(f, 1, N, Stop, P)
<1> DEFINE T == {m \in 0 .. N : \E f : IsFrom(f, N + 1 - m, N, Stop, P)}
<1>1. 0 \in T
  <2> DEFINE f == [i \in (N + 1) .. N + 1 |-> <<>>]
             g == [i \in (N + 1) .. N + 1 |-> IF i > N \/ i \in Stop THEN <<>> ELSE P[i] \o f[i + 1]]
  <2>1. \A i \in (N + 1) .. N + 1 : i > N
    OBVIOUS
  <2>2. f = g
    BY <2>1, Zenon
  <2>3. IsFrom(f, N + 1, N, Stop, P)
    BY <2>2, Zenon DEF IsFrom
  <2>4. N + 1 - 0 = N + 1 /\ 0 \in 0 .. N
    OBVIOUS
  <2> HIDE DEF f
  <2>5. PICK k : k = N + 1 - 0 /\ k = N + 1
    BY <2>4
  <2>6. IsFrom(f, k, N, Stop, P)
    BY <2>3, <2>5, Zenon
  <2> QED BY <2>4, <2>5, <2>6, Zenon
<1>2. ASSUME NEW m \in 0 .. N - 1, m \in T PROVE m + 1 \in T
  <2>1. PICK f : IsFrom(f, N + 1 - m, N, Stop, P)
    BY <1>2, Zenon
  <2>2. PICK lo \in 1 .. N : lo = N + 1 - (m + 1) /\ lo + 1 = N + 1 - m
    OBVIOUS
  <2>3. IsFrom(f, lo + 1, N, Stop, P)
    BY <2>1, <2>2, Zenon
  <2>4. \E h : IsFrom(h, lo, N, Stop, P)
    BY <2>3, FromGoesOn, Zenon
  <2>5. m + 1 \in 0 .. N
    OBVIOUS
  <2> QED BY <2>2, <2>4, <2>5, Zenon
<1>3. N \in T
  <2> HIDE DEF T
  <2>1. 0 .. N \subseteq T
    BY <1>1, <1>2, Induction, Zenon
  <2> QED BY <2>1
<1>4. PICK k : k = N + 1 - N /\ k = 1
  OBVIOUS
<1>5. \E f : IsFrom(f, k, N, Stop, P)
  BY <1>3, <1>4, Zenon
<1> QED BY <1>4, <1>5, Zenon

\* What is in two sequences together.
LEMMA RangeOfBoth ==
    ASSUME NEW S, NEW s \in Seq(S), NEW t \in Seq(S)
    PROVE  s \o t \in Seq(S) /\ Range(s \o t) = Range(s) \cup Range(t)
<1>1. s \o t \in Seq(S)
  OBVIOUS
<1>2. /\ Len(s) \in Nat /\ DOMAIN s = 1 .. Len(s) /\ Len(t) \in Nat /\ DOMAIN t = 1 .. Len(t)
      /\ DOMAIN (s \o t) = 1 .. Len(s) + Len(t)
      /\ \A i \in 1 .. Len(s) : (s \o t)[i] = s[i]
      /\ \A i \in 1 .. Len(t) : (s \o t)[Len(s) + i] = t[i]
  OBVIOUS
<1> DEFINE u == s \o t
<1> HIDE DEF u
<1>3. /\ DOMAIN u = 1 .. Len(s) + Len(t)
      /\ \A i \in 1 .. Len(s) : u[i] = s[i]
      /\ \A i \in 1 .. Len(t) : u[Len(s) + i] = t[i]
  BY <1>2, Zenon DEF u
<1>4. ASSUME NEW i \in DOMAIN u PROVE u[i] \in Range(s) \cup Range(t)
  <2>1. i \in 1 .. Len(s) \/ \E j \in 1 .. Len(t) : i = Len(s) + j
    <3>1. i \in 1 .. Len(s) \/ (i - Len(s) \in 1 .. Len(t) /\ i = Len(s) + (i - Len(s)))
      BY <1>2, <1>3
    <3> QED BY <3>1, Zenon
  <2> QED BY <1>2, <1>3, <2>1, ZenonT(40) DEF Range
<1>5. ASSUME NEW i \in DOMAIN s PROVE s[i] \in Range(u)
  <2>1. i \in DOMAIN u
    BY <1>2, <1>3
  <2> QED BY <1>2, <1>3, <2>1, Zenon DEF Range
<1>6. ASSUME NEW i \in DOMAIN t PROVE t[i] \in Range(u)
  <2>1. Len(s) + i \in DOMAIN u
    BY <1>2, <1>3
  <2> QED BY <1>2, <1>3, <2>1, Zenon DEF Range
<1>7. Range(u) = Range(s) \cup Range(t)
  BY <1>4, <1>5, <1>6, Zenon DEF Range
<1> QED BY <1>1, <1>7, Zenon DEF u

\* The loop collects what is in P[j] for each j that it comes to.
LEMMA FromCollects ==
    ASSUME NEW N \in Nat, NEW Stop, NEW P, NEW S, \A i \in 1 .. N : P[i] \in Seq(S),
           NEW f, IsFrom(f, 1, N, Stop, P)
    PROVE  /\ f[1] \in Seq(S)
           /\ Range(f[1]) = UNION {Range(P[j]) : j \in {k \in 1 .. N : \A l \in 1 .. k : l \notin Stop}}
<1> DEFINE Comes(i) == {k \in i .. N : \A l \in i .. k : l \notin Stop}
           G(i) == f[i] \in Seq(S) /\ Range(f[i]) = UNION {Range(P[j]) : j \in Comes(i)}
           T == {m \in 0 .. N : G(N + 1 - m)}
<1>1. \A i \in 1 .. N + 1 : f[i] = IF i > N \/ i \in Stop THEN <<>> ELSE P[i] \o f[i + 1]
  BY Zenon DEF IsFrom
<1>2. <<>> \in Seq(S) /\ Range(<<>>) = {}
  BY DEF Range
<1>3. 0 \in T
  <2>1. PICK k : k = N + 1 - 0 /\ k \in 1 .. N + 1 /\ k > N /\ k .. N = {}
    OBVIOUS
  <2>2. f[k] = <<>>
    BY <1>1, <2>1, Zenon
  <2>3. Comes(k) = {}
    BY <2>1, Zenon
  <2>4. G(k)
    BY <1>2, <2>2, <2>3, Zenon
  <2>5. 0 \in 0 .. N
    OBVIOUS
  <2> HIDE DEF G
  <2> QED BY <2>1, <2>4, <2>5, Zenon
<1>4. ASSUME NEW m \in 0 .. N - 1, m \in T PROVE m + 1 \in T
  <2>1. PICK i \in 1 .. N : i = N + 1 - (m + 1) /\ i + 1 = N + 1 - m
    OBVIOUS
  <2>2. i \in 1 .. N + 1 /\ ~(i > N) /\ i \in i .. i /\ m + 1 \in 0 .. N
    OBVIOUS
  <2>3. G(i + 1)
    <3> HIDE DEF G
    <3> QED BY <1>4, <2>1, Zenon
  <2>4. ASSUME i \in Stop PROVE G(i)
    <3>1. \A k \in i .. N : i \in i .. k
      OBVIOUS
    <3>2. Comes(i) = {}
      BY <2>4, <3>1, Zenon
    <3>3. f[i] = <<>>
      BY <1>1, <2>2, <2>4, Zenon
    <3> QED BY <1>2, <3>2, <3>3, Zenon
  <2>5. ASSUME i \notin Stop PROVE G(i)
    <3>1. /\ i .. N = {i} \cup (i + 1) .. N
          /\ \A k \in (i + 1) .. N : i .. k = {i} \cup (i + 1) .. k
          /\ i .. i = {i}
      OBVIOUS
    <3>2. Comes(i) = {i} \cup Comes(i + 1)
      BY <2>5, <3>1, ZenonT(40)
    <3>3. f[i] = P[i] \o f[i + 1]
      BY <1>1, <2>2, <2>5, Zenon
    <3>4. f[i] \in Seq(S) /\ Range(f[i]) = Range(P[i]) \cup Range(f[i + 1])
      <4>1. P[i] \in Seq(S) /\ f[i + 1] \in Seq(S)
        BY <2>3, Zenon
      <4>2. /\ P[i] \o f[i + 1] \in Seq(S)
            /\ Range(P[i] \o f[i + 1]) = Range(P[i]) \cup Range(f[i + 1])
        BY <4>1, RangeOfBoth
      <4> QED BY <3>3, <4>2
    <3>5. Range(f[i + 1]) = UNION {Range(P[j]) : j \in Comes(i + 1)}
      BY <2>3, Zenon
    <3> HIDE DEF Comes
    <3>6. UNION {Range(P[j]) : j \in {i} \cup Comes(i + 1)} = Range(P[i]) \cup UNION {Range(P[j]) : j \in Comes(i + 1)}
      BY Zenon
    <3>7. Range(f[i]) = UNION {Range(P[j]) : j \in Comes(i)}
      BY <3>2, <3>4, <3>5, <3>6
    <3> QED BY <3>4, <3>7, Zenon
  <2>6. G(i)
    BY <2>4, <2>5, Zenon
  <2> HIDE DEF G
  <2> QED BY <2>1, <2>2, <2>6, Zenon
<1>5. N \in T
  <2> HIDE DEF T
  <2>1. 0 .. N \subseteq T
    BY <1>3, <1>4, Induction, Zenon
  <2> QED BY <2>1
<1>6. PICK k : k = N + 1 - N /\ k = 1
  OBVIOUS
<1>7. G(k)
  <2> HIDE DEF G
  <2> QED BY <1>5, <1>6, Zenon
<1> QED BY <1>6, <1>7, Zenon

\* The hashes that the inner loop collects are those that are listed.
LEMMA HashesRight ==
    ASSUME NEW r, r.hash \in Seq(Range(r.hash))
    PROVE  Range(Hashes(r)) = Listed(r) /\ (Hashes(r) = <<>> <=> Listed(r) = {})
<1> DEFINE h == r.hash
           N == Len(h)
           Stop == {i \in 1 .. N : h[i] = NoAttr}
           P == [i \in 1 .. N |-> IF h[i] = Zero THEN <<>> ELSE <<h[i]>>]
           F(f) == [i \in 1 .. N + 1 |->
                      IF i > N \/ h[i] = NoAttr THEN <<>>
                      ELSE (IF h[i] = Zero THEN <<>> ELSE <<h[i]>>) \o f[i + 1]]
<1>1. N \in Nat /\ DOMAIN h = 1 .. N /\ (\A i \in 1 .. N : h[i] \in Range(h))
  BY DEF Range
<1>2. \A i \in 1 .. N + 1 : i > N \/ i \in 1 .. N
  BY <1>1
<1>3. ASSUME NEW f PROVE IsFrom(f, 1, N, Stop, P) <=> f = F(f)
  <2> DEFINE A == [i \in 1 .. N + 1 |-> IF i > N \/ i \in Stop THEN <<>> ELSE P[i] \o f[i + 1]]
  <2>1. ASSUME NEW i \in 1 .. N + 1 PROVE A[i] = F(f)[i]
    BY <1>2, Zenon
  <2>2. A = F(f)
    BY <2>1, Zenon
  <2> QED BY <2>2, Zenon DEF IsFrom
<1>4. \E f : IsFrom(f, 1, N, Stop, P)
  <2> HIDE DEF N, Stop, P
  <2> QED BY <1>1, FromEnds, Zenon
<1>5. \E f : f = F(f)
  BY <1>3, <1>4, Zenon
<1>6. PICK f : f = F(f) /\ Hashes(r) = f[1]
  BY <1>5, Zenon DEF Hashes
<1>7. \A i \in 1 .. N : P[i] \in Seq(Range(h)) /\ Range(P[i]) = {h[i]} \ {Zero}
  <2>1. \A x \in Range(h) : <<>> \in Seq(Range(h)) /\ <<x>> \in Seq(Range(h)) /\ Range(<<>>) = {} /\ Range(<<x>>) = {x}
    BY DEF Range
  <2>2. ASSUME NEW i \in 1 .. N PROVE P[i] \in Seq(Range(h)) /\ Range(P[i]) = {h[i]} \ {Zero}
    <3>1. CASE h[i] = Zero
      <4>1. P[i] = <<>> /\ {h[i]} \ {Zero} = {}
        BY <3>1, Zenon
      <4> QED BY <1>1, <2>1, <4>1, Zenon
    <3>2. CASE h[i] # Zero
      <4>1. P[i] = <<h[i]>> /\ {h[i]} \ {Zero} = {h[i]}
        BY <3>2, Zenon
      <4> QED BY <1>1, <2>1, <4>1, Zenon
    <3> QED BY <3>1, <3>2, Zenon
  <2> QED BY <2>2, Zenon
<1>8. /\ f[1] \in Seq(Range(h))
      /\ Range(f[1]) = UNION {Range(P[j]) : j \in {k \in 1 .. N : \A l \in 1 .. k : l \notin Stop}}
  <2>1. IsFrom(f, 1, N, Stop, P)
    BY <1>3, <1>6, Zenon
  <2> HIDE DEF N, Stop, P, h
  <2> QED BY <1>1, <1>7, <2>1, FromCollects, Zenon
<1>9. \A k \in 1 .. N : (\A l \in 1 .. k : l \notin Stop) <=> (\A l \in 1 .. k : h[l] # NoAttr)
  <2>1. \A k \in 1 .. N : \A l \in 1 .. k : l \in 1 .. N
    BY <1>1
  <2> QED BY <2>1, Zenon
<1>10. Range(f[1]) = Listed(r)
  <2> DEFINE K == {k \in 1 .. N : \A l \in 1 .. k : h[l] # NoAttr}
  <2>1. {k \in 1 .. N : \A l \in 1 .. k : l \notin Stop} = K
    BY <1>9, Zenon
  <2>2. Range(f[1]) = UNION {Range(P[j]) : j \in K}
    BY <1>8, <2>1, Zenon
  <2>3. Listed(r) = {h[j] : j \in K} \ {Zero}
    BY <1>1, Zenon DEF Listed
  <2>4. \A j \in K : Range(P[j]) = {h[j]} \ {Zero}
    BY <1>7, Zenon
  <2> HIDE DEF K, P, h
  <2>5. UNION {Range(P[j]) : j \in K} = {h[j] : j \in K} \ {Zero}
    <3>1. ASSUME NEW x \in UNION {Range(P[j]) : j \in K} PROVE x \in {h[j] : j \in K} \ {Zero}
      <4>1. PICK j \in K : x \in Range(P[j])
        BY <3>1, Zenon
      <4>2. x \in {h[j]} \ {Zero}
        BY <2>4, <4>1, Zenon
      <4> QED BY <4>2, Zenon
    <3>2. ASSUME NEW x \in {h[j] : j \in K} \ {Zero} PROVE x \in UNION {Range(P[j]) : j \in K}
      BY <2>4, <3>2, Zenon
    <3> QED BY <3>1, <3>2, Zenon
  <2> QED BY <2>2, <2>3, <2>5, Zenon
<1>11. f[1] = <<>> <=> Range(f[1]) = {}
  <2> DEFINE v == f[1]
  <2> HIDE DEF v
  <2>1. v \in Seq(Range(h))
    BY <1>8, Zenon DEF v
  <2>2. v = <<>> <=> DOMAIN v = {}
    BY <2>1
  <2>3. DOMAIN v = {} <=> Range(v) = {}
    BY Zenon DEF Range
  <2> QED BY <2>2, <2>3, Zenon DEF v
<1> QED BY <1>6, <1>10, <1>11, Zenon

\* The values that the outer loop collects are those of the measurements with hashes.
LEMMA SwidRight ==
    ASSUME NEW d, d.resources \in Seq(Range(d.resources)), NEW x \in SwidExtractor(d), x # Refused
    PROVE  Range(x) = {<<RvName[d.prefix, r.index], Hashes(r)>> :
                         r \in {s \in Range(d.resources) : s.type = "Measurement" /\ Hashes(s) # <<>>}}
<1> DEFINE rs == d.resources
           N == Len(rs)
           Kept(r) == r.type = "Measurement" /\ Hashes(r) # <<>>
           Pair(r) == <<RvName[d.prefix, r.index], Hashes(r)>>
           Value(r) == IF Kept(r) THEN <<Pair(r)>> ELSE <<>>
           S == {Pair(r) : r \in Range(rs)}
           P == [i \in 1 .. N |-> Value(rs[i])]
           F(f) == [i \in 1 .. N + 1 |-> IF i > N THEN <<>> ELSE Value(rs[i]) \o f[i + 1]]
<1>1. N \in Nat /\ DOMAIN rs = 1 .. N /\ (\A i \in 1 .. N : rs[i] \in Range(rs))
  BY DEF Range
<1>2. \A i \in 1 .. N + 1 : i > N \/ i \in 1 .. N
  BY <1>1
<1>3. ASSUME NEW f PROVE IsFrom(f, 1, N, {}, P) <=> f = F(f)
  <2> DEFINE A == [i \in 1 .. N + 1 |-> IF i > N \/ i \in {} THEN <<>> ELSE P[i] \o f[i + 1]]
  <2> HIDE DEF Value
  <2>1. ASSUME NEW i \in 1 .. N + 1 PROVE A[i] = F(f)[i]
    BY <1>2, Zenon
  <2>2. A = F(f)
    BY <2>1, Zenon
  <2> QED BY <2>2, Zenon DEF IsFrom
<1>4. \E f : IsFrom(f, 1, N, {}, P)
  <2> HIDE DEF N, P
  <2> QED BY <1>1, FromEnds, Zenon
<1>5. \E f : f = F(f)
  BY <1>3, <1>4, Zenon
<1>6. PICK f : f = F(f) /\ x = f[1]
  <2> DEFINE g == CHOOSE f : f = F(f)
  <2>1. g = F(g)
    BY <1>5, Zenon
  <2>2. x = g[1]
    BY Zenon DEF SwidExtractor
  <2> QED BY <2>1, <2>2, Zenon
<1>7. \A i \in 1 .. N : P[i] \in Seq(S) /\ Range(P[i]) = {Pair(r) : r \in {s \in {rs[i]} : Kept(s)}}
  <2>1. \A y \in S : <<>> \in Seq(S) /\ <<y>> \in Seq(S) /\ Range(<<>>) = {} /\ Range(<<y>>) = {y}
    <3> HIDE DEF S
    <3> QED BY DEF Range
  <2>2. ASSUME NEW i \in 1 .. N PROVE P[i] \in Seq(S) /\ Range(P[i]) = {Pair(r) : r \in {s \in {rs[i]} : Kept(s)}}
    <3> HIDE DEF Kept, Pair
    <3>0. P[i] = Value(rs[i]) /\ Pair(rs[i]) \in S
      BY <1>1, Zenon
    <3> HIDE DEF S, P, rs
    <3>1. CASE Kept(rs[i])
      <4>1. P[i] = <<Pair(rs[i])>> /\ {Pair(r) : r \in {s \in {rs[i]} : Kept(s)}} = {Pair(rs[i])}
        BY <3>0, <3>1, Zenon
      <4> QED BY <2>1, <3>0, <4>1, Zenon
    <3>2. CASE ~Kept(rs[i])
      <4>1. P[i] = <<>> /\ {Pair(r) : r \in {s \in {rs[i]} : Kept(s)}} = {}
        BY <3>0, <3>2, Zenon
      <4> QED BY <2>1, <3>0, <4>1, Zenon
    <3> QED BY <3>1, <3>2, Zenon
  <2> QED BY <2>2, Zenon
<1>8. Range(x) = UNION {Range(P[j]) : j \in 1 .. N}
  <2>1. IsFrom(f, 1, N, {}, P) /\ \A i \in 1 .. N : P[i] \in Seq(S)
    BY <1>3, <1>6, <1>7, Zenon
  <2> HIDE DEF N, P, S
  <2>2. Range(f[1]) = UNION {Range(P[j]) : j \in {k \in 1 .. N : \A l \in 1 .. k : l \notin {}}}
    BY <1>1, <2>1, FromCollects, Zenon
  <2>3. {k \in 1 .. N : \A l \in 1 .. k : l \notin {}} = 1 .. N
    BY Zenon
  <2> QED BY <1>6, <2>2, <2>3, Zenon
<1> HIDE DEF Kept, Pair, P, N
<1>9. ASSUME NEW y \in UNION {Range(P[j]) : j \in 1 .. N} PROVE y \in {Pair(r) : r \in {s \in Range(rs) : Kept(s)}}
  <2>1. PICK j \in 1 .. N : y \in Range(P[j])
    BY <1>9, Zenon
  <2>2. y \in {Pair(r) : r \in {s \in {rs[j]} : Kept(s)}}
    BY <1>7, <2>1, Zenon
  <2> QED BY <1>1, <2>2, Zenon
<1>10. ASSUME NEW y \in {Pair(r) : r \in {s \in Range(rs) : Kept(s)}} PROVE y \in UNION {Range(P[j]) : j \in 1 .. N}
  <2>1. PICK j \in 1 .. N : Kept(rs[j]) /\ y = Pair(rs[j])
    BY <1>1, <1>10, Zenon DEF Range
  <2>2. y \in Range(P[j])
    <3>1. y \in {Pair(r) : r \in {s \in {rs[j]} : Kept(s)}}
      BY <2>1, Zenon
    <3>2. Range(P[j]) = {Pair(r) : r \in {s \in {rs[j]} : Kept(s)}}
      BY <1>7, Zenon
    <3> QED BY <3>1, <3>2, Zenon
  <2> QED BY <2>2, Zenon
<1>11. Range(x) = {Pair(r) : r \in {s \in Range(rs) : Kept(s)}}
  BY <1>8, <1>9, <1>10, Zenon
<1> QED BY <1>11, Zenon DEF Pair, Kept

\* The names and values of a call are those that its message gave.
Extracted(vs, x) == DOMAIN vs = DOMAIN x /\ \A i \in DOMAIN x : vs[i].name = x[i][1] /\ vs[i].value = x[i][2]

\* What a call registers came out of its message.
MessageInv ==
    \A c \in Call : rvs[c] # <<>> =>
        msg[c] \in Message /\ \E x \in extract(msg[c]) \ {Refused} : Extracted(rvs[c], x)

\* Every step keeps what is registered as it was extracted.
LEMMA MessageStep == CallInv /\ MessageInv /\ [Next]_vars => MessageInv'
<1> SUFFICES ASSUME CallInv, MessageInv, [Next]_vars PROVE MessageInv'
  BY Zenon
<1>t. Types /\ Coherent
  BY Zenon DEF CallInv
<1>1. ASSUME NEW c \in Call, NEW x \in Message, Register(c, x) PROVE MessageInv'
  <2>1. /\ rvs' = rvs /\ rvs[c] = <<>>
        /\ \A d \in Call \ {c} : msg'[d] = msg[d]
    BY <1>t, <1>1, Zenon DEF Register, Types, Coherent
  <2> QED BY <2>1, Zenon DEF MessageInv
<1>2. ASSUME NEW c \in Call, LockForWrite(c) PROVE MessageInv'
  <2>1. PICK x \in extract(msg[c]) : Extract(c, x)
    BY <1>2, Zenon DEF LockForWrite
  <2>2. msg[c] \in Message /\ x # Refused
    BY <1>t, <1>2, <2>1, Zenon DEF LockForWrite, Extract, Coherent
  <2>3. PICK t : /\ msg' = msg /\ rvs'[c] = Stamped(x, t)
                 /\ \A d \in Call \ {c} : rvs'[d] = rvs[d]
    BY <1>t, <2>1, Zenon DEF Extract, Types
  <2>4. Extracted(Stamped(x, t), x)
    BY Zenon DEF Extracted, Stamped
  <2> QED BY <2>1, <2>2, <2>3, <2>4, Zenon DEF MessageInv
<1>3. CASE UNCHANGED <<msg, rvs>>
  BY <1>3, Zenon DEF MessageInv
<1>4. ASSUME NEW c \in Call,
             \/ RegisterRefused(c) \/ LockForRead(c) \/ Registered(c) \/ JsonRead(c) \/ JsonReadFails(c)
             \/ JsonTruncate(c) \/ JsonFill(c) \/ FsInsert(c) \/ FsFlush(c) \/ Get(c) \/ GetFails(c)
      PROVE  UNCHANGED <<msg, rvs>>
  BY <1>4, ZenonT(40) DEF RegisterRefused, LockForRead, Registered, JsonRead, JsonReadFails, JsonTruncate, JsonFill,
                          FsInsert, FsFlush, Get, GetFails
<1>5. ASSUME NEW c \in Call, Query(c) \/ JsonWriteFails(c) \/ FsFails(c) \/ Drop(c) PROVE UNCHANGED <<msg, rvs>>
  BY <1>5, ZenonT(40) DEF Query, JsonWriteFails, FsFails, Drop
<1>6. Crash \/ Tick \/ UNCHANGED vars => UNCHANGED <<msg, rvs>>
  BY Zenon DEF Crash, Tick, vars
<1> QED
  BY <1>1, <1>2, <1>3, <1>4, <1>5, <1>6, ZenonT(40) DEF Next, Arrive, Proceed, Fail

\* Of a SWID manifest that was registered, each measurement lists exactly its hashes
\* before the first that is missing, except those of zeros, and one without hashes is
\* left out, unless hashes follow one of zeros.  About the two loops of the SWID
\* extractor, for any number of resources and of hashes.
THEOREM ManifestExtracted == Spec => []ManifestIsExtracted
<1>1. Init => CallInv /\ MessageInv
  BY CallInit, Zenon DEF Init, MessageInv
<1>2. (CallInv /\ MessageInv) /\ [Next]_vars => (CallInv /\ MessageInv)'
  BY CallStep, MessageStep, Zenon
<1>3. MessageInv => ManifestIsExtracted
  <2> SUFFICES ASSUME MessageInv, NEW c \in Call, rvs[c] # <<>>, msg[c].type = "swid"
               PROVE  LET d == msg[c].payload
                          ms == {r \in Range(d.resources) : r.type = "Measurement"}
                      IN  {<<v.name, Range(v.value)>> : v \in Range(rvs[c])}
                            = {<<RvName[d.prefix, r.index], Listed(r)>> : r \in {s \in ms : Listed(s) # {}}}
    BY Zenon DEF ManifestIsExtracted
  <2> DEFINE d == msg[c].payload
             rs == Range(d.resources)
             Pair(r) == <<RvName[d.prefix, r.index], Hashes(r)>>
             ms == {r \in rs : r.type = "Measurement"}
  <2>1. PICK x \in extract(msg[c]) \ {Refused} : Extracted(rvs[c], x) /\ msg[c] \in Message
    BY Zenon DEF MessageInv
  <2>2. x \in SwidExtractor(d) /\ d # Malformed
    BY <2>1 DEF extract, process
  <2>3. /\ d.resources \in Seq(rs)
        /\ \A r \in rs : r.hash \in Seq(Range(r.hash))
    BY <2>1, <2>2, RvpsAssumption, Zenon
  <2>4. Range(x) = {Pair(r) : r \in {s \in rs : s.type = "Measurement" /\ Hashes(s) # <<>>}}
    BY <2>1, <2>2, <2>3, SwidRight, Zenon
  <2>5. \A r \in rs : Range(Hashes(r)) = Listed(r) /\ (Hashes(r) = <<>> <=> Listed(r) = {})
    BY <2>3, HashesRight, Zenon
  <2>6. {<<v.name, Range(v.value)>> : v \in Range(rvs[c])} = {<<y[1], Range(y[2])>> : y \in Range(x)}
    <3>0. \A s : Range(s) = {s[i] : i \in DOMAIN s}
      BY Zenon DEF Range
    <3>1. ASSUME NEW z \in {<<v.name, Range(v.value)>> : v \in Range(rvs[c])}
          PROVE  z \in {<<y[1], Range(y[2])>> : y \in Range(x)}
      <4>1. PICK i \in DOMAIN rvs[c] : z = <<rvs[c][i].name, Range(rvs[c][i].value)>>
        <5>1. PICK v \in Range(rvs[c]) : z = <<v.name, Range(v.value)>>
          BY <3>1, Zenon
        <5>2. PICK i \in DOMAIN rvs[c] : v = rvs[c][i]
          BY <3>0, Zenon
        <5> QED BY <5>1, <5>2, Zenon
      <4>2. /\ i \in DOMAIN x /\ x[i] \in Range(x)
            /\ rvs[c][i].name = x[i][1] /\ rvs[c][i].value = x[i][2]
        BY <2>1, <3>0, Zenon DEF Extracted
      <4> QED BY <4>1, <4>2, Zenon
    <3>2. ASSUME NEW z \in {<<y[1], Range(y[2])>> : y \in Range(x)}
          PROVE  z \in {<<v.name, Range(v.value)>> : v \in Range(rvs[c])}
      <4>1. PICK i \in DOMAIN x : z = <<x[i][1], Range(x[i][2])>>
        <5>1. PICK y \in Range(x) : z = <<y[1], Range(y[2])>>
          BY <3>2, Zenon
        <5>2. PICK i \in DOMAIN x : y = x[i]
          BY <3>0, Zenon
        <5> QED BY <5>1, <5>2, Zenon
      <4>2. /\ i \in DOMAIN rvs[c] /\ rvs[c][i] \in Range(rvs[c])
            /\ rvs[c][i].name = x[i][1] /\ rvs[c][i].value = x[i][2]
        BY <2>1, <3>0, Zenon DEF Extracted
      <4> QED BY <4>1, <4>2, Zenon
    <3> QED BY <3>1, <3>2, Zenon
  <2>7. \A r : Pair(r)[1] = RvName[d.prefix, r.index] /\ Pair(r)[2] = Hashes(r)
    OBVIOUS
  <2>8. {s \in rs : s.type = "Measurement" /\ Hashes(s) # <<>>} = {s \in ms : Listed(s) # {}}
    BY <2>5, Zenon
  <2> HIDE DEF d, rs, ms, Pair
  <2>9. {<<y[1], Range(y[2])>> : y \in Range(x)}
          = {<<RvName[d.prefix, r.index], Listed(r)>> : r \in {s \in ms : Listed(s) # {}}}
    <3>1. Range(x) = {Pair(r) : r \in {s \in ms : Listed(s) # {}}}
      BY <2>4, <2>8, Zenon
    <3>2. \A r \in {s \in ms : Listed(s) # {}} :
             <<Pair(r)[1], Range(Pair(r)[2])>> = <<RvName[d.prefix, r.index], Listed(r)>>
      BY <2>5, <2>7, Zenon DEF ms
    <3>3. {<<y[1], Range(y[2])>> : y \in Range(x)}
            = {<<Pair(r)[1], Range(Pair(r)[2])>> : r \in {s \in ms : Listed(s) # {}}}
      BY <3>1, Zenon
    <3> QED BY <3>2, <3>3, Zenon
  <2> QED BY <2>6, <2>9, Zenon DEF d, rs, ms
<1> QED BY <1>1, <1>2, <1>3, PTL DEF Spec
====
