------------------------ MODULE MCAttestationService ------------------------
(***************************************************************************)
(* Instances of AttestationService: a CPU, two GPUs that one piece of      *)
(* evidence speaks for, one more GPU, and a device without a default       *)
(* policy.                                                                 *)
(***************************************************************************)
EXTENDS AttestationService, TLC

CONSTANTS cpuEv, gpuEv, dcuEv, badEv, noEv, p0, p1, r0, r1

MCClass == "cpu0" :> "cpu" @@ "gpu0" :> "gpu" @@ "gpu1" :> "gpu" @@ "dcu0" :> "dcu"

MCDevices ==
    cpuEv :> <<"cpu0">> @@ gpuEv :> <<"gpu0", "gpu1">> @@ dcuEv :> <<"dcu0">>
      @@ badEv :> <<"cpu0">> @@ noEv :> <<>>

Evaluate(batch, ids) == [op |-> "evaluate", batch |-> batch, ids |-> ids]
Set(f, p) == [op |-> "set", file |-> f, policy |-> p]

MCRequests == {
    Evaluate(<<gpuEv, cpuEv>>, <<"default", "default">>),
    Evaluate(<<cpuEv, badEv>>, <<"default">>),
    Evaluate(<<dcuEv>>, <<"default">>),
    Evaluate(<<noEv>>, <<"default">>),
    Evaluate(<<>>, <<"default">>),
    Set(<<"default">>, p1),
    Set(<<"default", "gpu">>, p0),
    Set(<<"default", "gpu">>, p1),
    Set(<<"default", "dcu">>, BadPolicy),
    [op |-> "register", ref |-> r1],
    [op |-> "get", file |-> <<"default", "gpu">>],
    [op |-> "list"], [op |-> "query"], [op |-> "challenge"]}

MCFile == {<<"default">>, <<"default", "cpu">>, <<"default", "gpu">>, <<"default", "dcu">>}

MCDefaults == "Ear" :> {<<"default", "cpu">>, <<"default", "gpu">>} @@ "Simple" :> {<<"default">>}

\* The default policy affirms always, p1 only for the values r1.
MCVerdict ==
    <<p0, r0>> :> "affirming" @@ <<p0, r1>> :> "affirming"
      @@ <<p1, r0>> :> "contraindicated" @@ <<p1, r1>> :> "affirming"

Symmetry == Permutations(Call)
====
