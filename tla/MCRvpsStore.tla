---------------------------- MODULE MCRvpsStore ----------------------------
(***************************************************************************)
(* An instance of RvpsStore: two names, and messages of every type: sample *)
(* provenances with one value and with two, SWID manifests with hashes of  *)
(* zeros, a gap in the hashes and resources without a measurement, an      *)
(* in-toto provenance that verifies, and a manifest that is refused.       *)
(***************************************************************************)
EXTENDS RvpsStore, TLC

CONSTANTS n1, n2, v1, v2, h1, h2, prefix, k1

MCRvName == <<prefix, 0>> :> n1 @@ <<prefix, 1>> :> n2

Msg(t, p) == [version |-> MESSAGE_VERSION, type |-> t, payload |-> p]

Resource(t, i, h) == [type |-> t, index |-> i, hash |-> h]

Manifest ==
    [prefix |-> prefix, payload |-> TRUE,
     resources |-> <<Resource("Measurement", 0, <<Zero, Zero>>),
                     Resource("Other", NoAttr, <<h2>>),
                     Resource("Measurement", 1, <<h1, NoAttr, h2>>)>>]

InToto ==
    [version |-> INTOTO_VERSION,
     files |-> {[kind |-> "layout", envelope |-> TRUE, expires |-> TRUE, signers |-> {k1}],
                [kind |-> "pub", key |-> k1]}]

MCMessage ==
    {Msg("sample", n1 :> v1),
     Msg("sample", n1 :> v2 @@ n2 :> v1),
     Msg("swid", Manifest),
     Msg("swid", [Manifest EXCEPT !.resources[3].hash = <<h1, h2, Zero>>]),
     Msg("swid", [Manifest EXCEPT !.resources[1].index = NoAttr]),
     Msg("in-toto", InToto)}

MCVal == {v1, v2, <<h1, h2>>, <<h1>>}
====
