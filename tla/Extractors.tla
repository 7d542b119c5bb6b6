----------------------------- MODULE Extractors -----------------------------
(***************************************************************************)
(* What the RVPS makes of a message (rvps/src/lib.rs and extractors/): the *)
(* extractor for the type of the message turns its payload into a sequence *)
(* of names and values, or refuses the message as a whole.  Every operator *)
(* returns the set of its possible outcomes: the order of a HashMap is not *)
(* determined.                                                             *)
(*                                                                         *)
(* A message is [version, type, payload]; the payload is what the document *)
(* says once it is decoded, or Malformed.                                  *)
(***************************************************************************)
EXTENDS Sequences, FiniteSets, Functions

CONSTANTS
    InTotoFeature,  \* whether the build has the in-toto extractor
    RvName,         \* the name built from a manifest's prefix and an index
    Zero,           \* a hash of which all digits are 0
    NoAttr,         \* an attribute that is missing
    Malformed, Refused

MESSAGE_VERSION == "0.1.0"
INTOTO_VERSION == "0.9"

\* A sample provenance is a map from names to values.
SampleExtractor(rvs) ==
    {[i \in DOMAIN s |-> <<s[i], rvs[s[i]]>>] : s \in Injection(1 .. Cardinality(DOMAIN rvs), DOMAIN rvs)}

\* Mutant: a missing attribute is skipped like a hash of zeros.
HashesPastGap(r) ==
    LET from[i \in 1 .. Len(r.hash) + 1] ==
            IF i > Len(r.hash) THEN <<>>
            ELSE (IF r.hash[i] \in {Zero, NoAttr} THEN <<>> ELSE <<r.hash[i]>>) \o from[i + 1]
    IN  from[1]

\* The attributes Hash0, Hash1, ... of a resource up to the first that is
\* missing, without those of zeros.
Hashes(r) ==
    LET from[i \in 1 .. Len(r.hash) + 1] ==
            IF i > Len(r.hash) \/ r.hash[i] = NoAttr THEN <<>>
            ELSE (IF r.hash[i] = Zero THEN <<>> ELSE <<r.hash[i]>>) \o from[i + 1]
    IN  from[1]

\* A SWID manifest has a Meta element with the prefix of the names, and a Payload
\* with resources; those of type Measurement that have a hash become values.
SwidExtractor(d) ==
    LET Value(r) ==
            IF r.type = "Measurement" /\ Hashes(r) # <<>>
              THEN << <<RvName[d.prefix, r.index], Hashes(r)>> >> ELSE <<>>
        from[i \in 1 .. Len(d.resources) + 1] ==
            IF i > Len(d.resources) THEN <<>> ELSE Value(d.resources[i]) \o from[i + 1]
    IN  IF \/ d.prefix = NoAttr
           \/ ~d.payload
           \/ \E r \in Range(d.resources) : r.type = "Measurement" /\ r.index = NoAttr
          THEN {Refused}
          ELSE {from[1]}

\* in-toto-golang wants the layout signed by every public key of the provenance.
verify(layout, keys) == keys # {} /\ keys \subseteq layout.signers

\* An in-toto provenance is a set of files.  Its layout is only verified: no
\* reference value comes out of it.  With several layouts, any is taken.
InTotoExtractor(p) ==
    LET layouts == {f \in p.files : f.kind = "layout"}
        keys == {f.key : f \in {g \in p.files : g.kind = "pub"}}
    IN  IF p.version # INTOTO_VERSION \/ layouts = {}
          THEN {Refused}
          ELSE {IF l.envelope /\ l.expires /\ verify(l, keys) THEN <<>> ELSE Refused : l \in layouts}

extractor_map == {"sample", "swid"} \cup IF InTotoFeature THEN {"in-toto"} ELSE {}

\* Extractors::process
process(m) ==
    IF m.type \notin extractor_map \/ m.payload = Malformed
      THEN {Refused}
      ELSE CASE m.type = "sample" -> SampleExtractor(m.payload)
             [] m.type = "swid" -> SwidExtractor(m.payload)
             [] m.type = "in-toto" -> InTotoExtractor(m.payload)

\* The checks of Rvps::verify_and_extract before it stores the values.
extract(m) == IF m.version = MESSAGE_VERSION THEN process(m) ELSE {Refused}
====
