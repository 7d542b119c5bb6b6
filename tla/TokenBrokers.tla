---------------------------- MODULE TokenBrokers ----------------------------
(***************************************************************************)
(* What the two token brokers of the attestation service put into a token  *)
(* (attestation-service/src/token): the EAR broker makes an appraisal for  *)
(* each device, the simple broker shows the runtime data of the first.     *)
(*                                                                         *)
(* The claims of a device are a record: its tee and tee_class, claims, a   *)
(* function from names to values, and runtime_data_claims, the key that    *)
(* the guest put into its runtime data, or None.                           *)
(***************************************************************************)
EXTENDS Sequences, FiniteSetsExt

CONSTANTS
    IndexRange, \* the values of the u8 that numbers the devices of a class: 256
    None

\* The claims by which a verifier says that it checked the data.
Checked == {"init_data", "report_data"}

\* Mutant: the runtime data is in the appraisal whether it was checked or not.
TransformUnchecked(c) ==
    [checked |-> DOMAIN c.claims \cap Checked,
     runtime_data_claims |-> c.runtime_data_claims,
     rest |-> [n \in DOMAIN c.claims \ Checked |-> c.claims[n]],
     tee |-> c.tee]

\* transform_claims: the runtime data is in the appraisal if the verifier checked
\* the report data, and the rest is under the name of the TEE.
transform_claims(c) ==
    [checked |-> DOMAIN c.claims \cap Checked,
     runtime_data_claims |-> IF "report_data" \in DOMAIN c.claims THEN c.runtime_data_claims ELSE None,
     rest |-> [n \in DOMAIN c.claims \ Checked |-> c.claims[n]],
     tee |-> c.tee]

\* The number of a device in its class, as a u8 that wraps in a release build.
tee_class_index(cs, i) ==
    Cardinality({j \in 1 .. i - 1 : cs[j].tee_class = cs[i].tee_class}) % IndexRange

submod_name(cs, i) == <<cs[i].tee_class, tee_class_index(cs, i)>>

\* A later appraisal replaces one of the same name.
submods(cs) ==
    [n \in {submod_name(cs, i) : i \in DOMAIN cs} |->
        transform_claims(cs[CHOOSE i \in DOMAIN cs :
            /\ submod_name(cs, i) = n
            /\ \A j \in i + 1 .. Len(cs) : submod_name(cs, j) # n])]

\* The places of a token where the KBS looks for the key of the TEE.
Pointer == {"extra", "ita", "ita_vtpm", "coco", "ear", "value"}
NoClaims == [p \in Pointer |-> None]

EarClaims(cs) ==
    LET m == submods(cs)
        cpu0 == <<"cpu", 0>>
    IN  [NoClaims EXCEPT !["ear"] = IF cpu0 \in DOMAIN m THEN m[cpu0].runtime_data_claims ELSE None]

\* The simple token has the runtime data of the first device.
SimpleClaims(cs) == [NoClaims EXCEPT !["coco"] = cs[1].runtime_data_claims]
=============================================================================
