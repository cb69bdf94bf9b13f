---------------------------- MODULE TypesProofs ----------------------------
(***************************************************************************)
(* What a type is sure of if its parts are: proofs about TypedValues and   *)
(* TypedSchemas.                                                           *)
(***************************************************************************)
EXTENDS TypedValues, TypedSchemas, FiniteSetTheorems, WellFoundedInduction, TLAPS

\* A set of datex values with all that is in them.
Datexes(R) ==
    \A x \in R :
        /\ x.kind \in {"array", "map"} => x.items \in Seq(R)
        /\ x.kind = "map" => \E n \in Nat : Len(x.items) = 2 * n
        /\ x.kind = "number" => x.number \in Nat

IsDatex(d) == \E R : d \in R /\ Datexes(R)

LEMMA DatexItems ==
    ASSUME NEW d, IsDatex(d), d.kind \in {"array", "map"}
    PROVE  /\ d.items \in Seq(Range(d.items)) /\ Len(d.items) \in Nat
           /\ DOMAIN d.items = 1..Len(d.items)
           /\ \A i \in DOMAIN d.items : IsDatex(d.items[i])
<1>1. PICK R : d \in R /\ Datexes(R) BY DEF IsDatex
<1>2. d.items \in Seq(R) BY <1>1 DEF Datexes
<1>3. \A i \in DOMAIN d.items : d.items[i] \in R BY <1>2
<1>4. \A i \in DOMAIN d.items : d.items[i] \in Range(d.items) BY DEF Range
<1> QED BY <1>1, <1>2, <1>3, <1>4 DEF IsDatex

----------------------------------------------------------------------------
(* What is claimed of the parts, and of the whole.                         *)

Read(r) == r = Refused \/ r = Accepted(r.value)

Done(p) == p = Fails(p.value) \/ p = Accepted(p.value)

\* A set of values, with all that is in them, of which no map has a key twice.
AllClean(R) ==
    \A x \in R :
        /\ x.kind \in {"array", "map"} => \A i \in DOMAIN x.items : x.items[i] \in R
        /\ x.kind = "map" => KeysDiffer(x)

Clean(d) == \E R : d \in R /\ AllClean(R)

PartsLawful ==
    \A T : WellFormedPart(T) =>
        /\ \A d : Read(DecodedPart(T, d))
        /\ \A v, d : Done(PatchedPart(T, v, d))
        /\ \A v, d : ValidatedPart(T, v, d) <=> PatchedPart(T, v, d).ok
        /\ \A v : HasTypePart(T, v) => DecodedPart(T, EncodedPart(T, v)) = Accepted(v)
        /\ \A v, w : HasTypePart(T, v) /\ HasTypePart(T, w) =>
                        PatchedPart(T, v, EncodedPart(T, w)) = Accepted(w)
        /\ \A d : IsDatex(d) /\ DecodedPart(T, d).ok => HasTypePart(T, DecodedPart(T, d).value)
        /\ \A d : DecodedPart(T, d).ok =>
                     PatchedPart(T, DecodedPart(T, d).value, d) = DecodedPart(T, d)
        /\ \A v, d : PatchedPart(T, v, d).ok =>
                        PatchedPart(T, PatchedPart(T, v, d).value, d) = PatchedPart(T, v, d)
        /\ \A d : DecodedPart(T, d) = Accepted(NoneOf) => d.kind = "null"
        /\ \A v : T.form = "uint" /\ HasTypePart(T, v) => v = One(v.of) /\ v.of \in Nat
        /\ T.form = "option" => HasTypePart(T, NoneOf)
        /\ \A v : HasTypePart(T, v) /\ EncodedPart(T, v).kind = "null" => v = NoneOf
        /\ \A v : HasTypePart(T, v) => Clean(EncodedPart(T, v))

Lawful ==
    \A T : WellFormed(T) =>
        /\ \A d : Read(Decoded(T, d))
        /\ \A v, d : Done(Patched(T, v, d))
        /\ \A v, d : Validated(T, v, d) <=> Patched(T, v, d).ok
        /\ \A v : HasType(T, v) => Decoded(T, Encoded(T, v)) = Accepted(v)
        /\ \A v, w : HasType(T, v) /\ HasType(T, w) =>
                        Patched(T, v, Encoded(T, w)) = Accepted(w)
        /\ \A d : IsDatex(d) /\ Decoded(T, d).ok => HasType(T, Decoded(T, d).value)
        /\ \A d : Decoded(T, d).ok => Patched(T, Decoded(T, d).value, d) = Decoded(T, d)
        /\ \A v, d : Patched(T, v, d).ok =>
                        Patched(T, Patched(T, v, d).value, d) = Patched(T, v, d)
        /\ \A d : Decoded(T, d) = Accepted(NoneOf) => d.kind = "null"
        /\ \A v : T.form = "uint" /\ HasType(T, v) => v = One(v.of) /\ v.of \in Nat
        /\ T.form = "option" => HasType(T, NoneOf)
        /\ \A v : HasType(T, v) /\ Encoded(T, v).kind = "null" => v = NoneOf
        /\ \A v : HasType(T, v) => Clean(Encoded(T, v))

Forms ==
    {"uint", "int", "float", "unit", "bool", "string", "bytes", "variant",
     "option", "vec", "map", "tuple", "struct", "enum"}

LEMMA FormKnown == ASSUME NEW T, WellFormed(T) PROVE T.form \in Forms
BY DEF WellFormed, Forms

\* The forms a type may be of tell its operations apart.
LEMMA DecodedByForm ==
    ASSUME NEW T, NEW d
    PROVE  /\ T.form = "uint" => Decoded(T, d) = DecodedUint(T, d)
           /\ T.form = "int" => Decoded(T, d) = DecodedInt(T, d)
           /\ T.form = "float" => Decoded(T, d) = DecodedFloat(T, d)
           /\ T.form = "unit" => Decoded(T, d) = DecodedUnit(d)
           /\ T.form = "bool" => Decoded(T, d) = DecodedBool(d)
           /\ T.form = "string" => Decoded(T, d) = DecodedString(d)
           /\ T.form = "bytes" => Decoded(T, d) = DecodedBytes(d)
           /\ T.form = "variant" => Decoded(T, d) = DecodedVariant(d)
           /\ T.form = "option" => Decoded(T, d) = DecodedOption(T, d)
           /\ T.form = "vec" => Decoded(T, d) = DecodedVec(T, d)
           /\ T.form = "map" => Decoded(T, d) = DecodedMap(T, d)
           /\ T.form = "tuple" => Decoded(T, d) = DecodedTuple(T, d)
           /\ T.form = "struct" => Decoded(T, d) = DecodedStruct(T, d)
           /\ T.form = "enum" => Decoded(T, d) = DecodedEnum(T, d)
BY DEF Decoded

LEMMA EncodedByForm ==
    ASSUME NEW T, NEW v
    PROVE  /\ T.form = "uint" => Encoded(T, v) = NumberValue(v.of)
           /\ T.form = "int" => Encoded(T, v) = SignedValue(v.of)
           /\ T.form = "float" => Encoded(T, v) = FloatValue(T.width, v.of)
           /\ T.form = "unit" => Encoded(T, v) = UnitValue
           /\ T.form = "bool" => Encoded(T, v) = BoolValue(v.of)
           /\ T.form = "string" => Encoded(T, v) = TextValue(v.of)
           /\ T.form = "bytes" => Encoded(T, v) = BytesValue(v.of)
           /\ T.form = "variant" => Encoded(T, v) = BoolValue(TRUE)
           /\ T.form = "option" => Encoded(T, v) = EncodedOption(T, v)
           /\ T.form = "vec" => Encoded(T, v) = EncodedVec(T, v)
           /\ T.form = "map" => Encoded(T, v) = EncodedMap(T, v)
           /\ T.form = "tuple" => Encoded(T, v) = EncodedTuple(T, v)
           /\ T.form = "struct" => Encoded(T, v) = EncodedStruct(T, v)
           /\ T.form = "enum" => Encoded(T, v) = EncodedEnum(T, v)
BY DEF Encoded

LEMMA PatchedByForm ==
    ASSUME NEW T, NEW v, NEW d
    PROVE  /\ T.form = "struct" => Patched(T, v, d) = PatchedStruct(T, v, d)
           /\ T.form = "option" => Patched(T, v, d) = PatchedOption(T, v, d)
           /\ T.form = "bytes" => Patched(T, v, d) = Replaced(v, PatchedBytes(d))
           /\ T.form \notin {"struct", "option", "bytes"} =>
                Patched(T, v, d) = Replaced(v, Decoded(T, d))
BY DEF Patched

----------------------------------------------------------------------------
(* Every read succeeds or is refused.                                      *)

LEMMA AllAcceptedReads ==
    ASSUME NEW reads
    PROVE  /\ Read(AllAccepted(reads))
           /\ AllAccepted(reads).ok <=> \A i \in DOMAIN reads : reads[i].ok
           /\ (\A i \in DOMAIN reads : reads[i].ok) =>
                AllAccepted(reads) = Accepted(Many([i \in DOMAIN reads |-> reads[i].value]))
BY DEF AllAccepted, Read, Refused, Accepted

LEMMA AcceptedIs ==
    ASSUME NEW v
    PROVE  Accepted(v).ok = TRUE /\ Accepted(v).value = v /\ Refused.ok = FALSE
BY DEF Accepted, Refused

LEMMA DecodedReads ==
    ASSUME PartsLawful, NEW T, WellFormed(T), NEW d
    PROVE  Read(Decoded(T, d))
<1>a. \A v : Read(Accepted(v)) BY AcceptedIs DEF Read
<1>b. Read(Refused) BY DEF Read
<1>1. \A k, x, y : Read(InRange(d, k, x, y)) BY <1>a, <1>b DEF InRange
<1>8. CASE T.form = "uint" BY <1>8, <1>1, <1>b, DecodedByForm DEF DecodedUint
<1>9. CASE T.form = "int" BY <1>9, <1>1, <1>b, DecodedByForm DEF DecodedInt
<1>10. CASE T.form = "float" BY <1>10, <1>a, <1>b, DecodedByForm DEF DecodedFloat
<1>11. CASE T.form = "unit" BY <1>11, <1>a, <1>b, DecodedByForm DEF DecodedUnit
<1>12. CASE T.form = "bool" BY <1>12, <1>a, <1>b, DecodedByForm DEF DecodedBool
<1>13. CASE T.form = "string" BY <1>13, <1>a, <1>b, DecodedByForm DEF DecodedString
<1>14. CASE T.form = "bytes" BY <1>14, <1>a, <1>b, DecodedByForm DEF DecodedBytes
<1>15. CASE T.form = "variant" BY <1>15, <1>a, <1>b, DecodedByForm DEF DecodedVariant
<1>2. CASE T.form = "vec" BY <1>2, <1>b, DecodedByForm, AllAcceptedReads DEF DecodedVec
<1>3. CASE T.form = "tuple" BY <1>3, <1>b, DecodedByForm, AllAcceptedReads DEF DecodedTuple
<1>4. CASE T.form = "struct" BY <1>4, <1>b, DecodedByForm, AllAcceptedReads DEF DecodedStruct
<1>5. CASE T.form = "option" BY <1>5, <1>a, <1>b, DecodedByForm DEF DecodedOption
<1>6. CASE T.form = "map" BY <1>6, <1>a, <1>b, DecodedByForm DEF DecodedMap
<1>7. CASE T.form = "enum" BY <1>7, <1>a, <1>b, DecodedByForm DEF DecodedEnum
<1> QED BY <1>2, <1>3, <1>4, <1>5, <1>6, <1>7, <1>8, <1>9, <1>10, <1>11, <1>12, <1>13,
           <1>14, <1>15, FormKnown DEF Forms

\* What a well-formed type has for parts.
LEMMA PartsOf ==
    ASSUME NEW T, WellFormed(T)
    PROVE  /\ T.form \in {"option", "vec"} => WellFormedPart(T.of) /\ T.of.form # "variant"
           /\ T.form = "map" =>
                /\ T.key.form = "uint" /\ WellFormedPart(T.key) /\ WellFormedPart(T.of)
                /\ T.of.form # "variant"
           /\ T.form = "tuple" =>
                /\ T.types \in Seq(Range(T.types)) /\ Len(T.types) \in Nat
                /\ DOMAIN T.types = 1..Len(T.types)
                /\ \A i \in DOMAIN T.types : WellFormedPart(T.types[i]) /\ T.types[i].form # "variant"
           /\ T.form = "struct" =>
                /\ T.fields \in Seq(Range(T.fields)) /\ Len(T.fields) \in Nat
                /\ DOMAIN T.fields = 1..Len(T.fields) /\ T.fields # <<>>
                /\ \A i \in DOMAIN T.fields :
                     /\ T.fields[i].id \in Nat
                     /\ WellFormedPart(T.fields[i].type) /\ T.fields[i].type.form # "variant"
                /\ \A i, j \in DOMAIN T.fields :
                     T.fields[i].id = T.fields[j].id \/ T.fields[i].name = T.fields[j].name => i = j
           /\ T.form = "enum" =>
                /\ T.payloads \in Seq(Range(T.payloads)) /\ Len(T.payloads) \in Nat
                /\ DOMAIN T.payloads = 1..Len(T.payloads)
                /\ \A i \in DOMAIN T.payloads : WellFormedPart(T.payloads[i])
<1>1. \A s : IsSequence(s) => s \in Seq(Range(s)) /\ Len(s) \in Nat /\ DOMAIN s = 1..Len(s)
  BY DEF IsSequence
<1>2. CASE T.form \in {"option", "vec"} BY <1>2 DEF WellFormed, IsPart
<1>3. CASE T.form = "map" BY <1>3 DEF WellFormed, IsPart
<1>4. CASE T.form = "tuple"
  <2>1. IsSequence(T.types) /\ \A i \in DOMAIN T.types : IsPart(T.types[i])
    BY <1>4 DEF WellFormed
  <2> QED BY <1>1, <1>4, <2>1 DEF IsPart
<1>5. CASE T.form = "struct"
  <2>1. /\ IsSequence(T.fields) /\ T.fields # <<>>
        /\ \A i \in DOMAIN T.fields : T.fields[i].id \in Nat /\ IsPart(T.fields[i].type)
        /\ \A i, j \in DOMAIN T.fields :
             T.fields[i].id = T.fields[j].id \/ T.fields[i].name = T.fields[j].name => i = j
    BY <1>5 DEF WellFormed
  <2>2. T.fields \in Seq(Range(T.fields)) /\ Len(T.fields) \in Nat /\ DOMAIN T.fields = 1..Len(T.fields)
    BY <1>1, <2>1
  <2>3. \A i \in DOMAIN T.fields :
            WellFormedPart(T.fields[i].type) /\ T.fields[i].type.form # "variant"
    BY <2>1 DEF IsPart
  <2> QED BY <1>5, <2>1, <2>2, <2>3
<1>6. CASE T.form = "enum"
  <2>1. IsSequence(T.payloads) /\ \A i \in DOMAIN T.payloads : WellFormedPart(T.payloads[i])
    BY <1>6 DEF WellFormed
  <2> QED BY <1>1, <1>6, <2>1
<1> QED BY <1>2, <1>3, <1>4, <1>5, <1>6

----------------------------------------------------------------------------
(* A patch is done or it fails, and validation says which.                 *)

LEMMA BytesRead == ASSUME NEW d PROVE Read(PatchedBytes(d))
<1>1. \A x : Read(Accepted(x)) BY AcceptedIs DEF Read
<1>2. Read(DecodedBytes(d)) BY <1>1 DEF DecodedBytes, Read
<1> QED BY <1>1, <1>2 DEF PatchedBytes, Read

LEMMA ReplacedDone ==
    ASSUME NEW v, NEW r, Read(r)
    PROVE  /\ Done(Replaced(v, r)) /\ (Replaced(v, r).ok <=> r.ok)
           /\ r.ok => Replaced(v, r) = r /\ r = Accepted(r.value)
           /\ ~r.ok => Replaced(v, r) = Fails(v)
<1>1. \A x : /\ Accepted(x).ok = TRUE /\ Accepted(x).value = x
             /\ Fails(x).ok = FALSE /\ Fails(x).value = x
  BY DEF Accepted, Fails
<1>2. CASE r = Refused BY <1>1, <1>2, AcceptedIs DEF Replaced, Done
<1>3. CASE r = Accepted(r.value) BY <1>1, <1>3 DEF Replaced, Done
<1> QED BY <1>2, <1>3 DEF Read

\* What becomes of the fields of a struct, as far as the patch names them.
Patches(T, v, d) ==
    [i \in DOMAIN T.fields |->
        IF EntriesOf(d, T.fields[i].id) # {}
        THEN PatchedPart(T.fields[i].type, v.items[i], EntryOf(d, T.fields[i].id))
        ELSE Accepted(v.items[i])]

LEMMA StructPatched ==
    ASSUME NEW T, NEW v, NEW d
    PROVE  /\ Done(PatchedStruct(T, v, d))
           /\ PatchedStruct(T, v, d).ok <=>
                IsStructMap(T.fields, d) /\ \A i \in DOMAIN T.fields : Patches(T, v, d)[i].ok
           /\ (IsStructMap(T.fields, d) /\ DOMAIN T.fields \subseteq Nat
                 /\ \A i \in DOMAIN T.fields : Patches(T, v, d)[i].ok /\ 1..(i - 1) \subseteq DOMAIN T.fields) =>
                PatchedStruct(T, v, d) =
                    Accepted(Many([i \in DOMAIN T.fields |-> Patches(T, v, d)[i].value]))
<1> DEFINE fields == Patches(T, v, d)
           reached(i) == \A j \in 1..(i - 1) : fields[j].ok
           value == Many([i \in DOMAIN T.fields |-> IF reached(i) THEN fields[i].value ELSE v.items[i]])
           ok == \A i \in DOMAIN T.fields : fields[i].ok
<1>1. PatchedStruct(T, v, d) =
          IF IsStructMap(T.fields, d) THEN [ok |-> ok, value |-> value] ELSE Fails(v)
  BY DEF PatchedStruct, Patches
<1>2. ok \in BOOLEAN OBVIOUS
<1>3. ASSUME DOMAIN T.fields \subseteq Nat,
             \A i \in DOMAIN T.fields : fields[i].ok /\ 1..(i - 1) \subseteq DOMAIN T.fields
      PROVE  value = Many([i \in DOMAIN T.fields |-> fields[i].value]) /\ ok
  <2>1. \A i \in DOMAIN T.fields : reached(i) BY <1>3
  <2>2. [i \in DOMAIN T.fields |-> IF reached(i) THEN fields[i].value ELSE v.items[i]]
            = [i \in DOMAIN T.fields |-> fields[i].value]
    BY <2>1
  <2> QED BY <1>3, <2>2
<1> HIDE DEF fields, value, ok
<1>4. IsStructMap(T.fields, d) /\ ok => PatchedStruct(T, v, d) = Accepted(value)
  BY <1>1, <1>2 DEF Accepted
<1>5. IsStructMap(T.fields, d) /\ ~ok => PatchedStruct(T, v, d) = Fails(value)
  BY <1>1, <1>2 DEF Fails
<1>6. \A x : /\ Accepted(x).ok = TRUE /\ Fails(x).ok = FALSE
             /\ Accepted(x).value = x /\ Fails(x).value = x
  BY DEF Accepted, Fails
<1>7. Done(PatchedStruct(T, v, d)) BY <1>1, <1>4, <1>5, <1>6 DEF Done
<1>8. PatchedStruct(T, v, d).ok <=> IsStructMap(T.fields, d) /\ ok BY <1>1, <1>4, <1>5, <1>6
<1> QED BY <1>3, <1>4, <1>7, <1>8 DEF fields, ok

LEMMA ResultsAre ==
    ASSUME NEW v
    PROVE  /\ Accepted(v).ok = TRUE /\ Accepted(v).value = v
           /\ Fails(v).ok = FALSE /\ Fails(v).value = v
           /\ \A w : Accepted(v) = Accepted(w) => v = w
<1>1. \A x : Accepted(x).value = x BY DEF Accepted
<1>2. \A w : Accepted(v) = Accepted(w) => v = w BY <1>1
<1> QED BY <1>1, <1>2 DEF Accepted, Fails

LEMMA SomeIsNotNone ==
    /\ \A x : One(x) # NoneOf /\ Many(x) # NoneOf /\ Entries(x) # NoneOf
    /\ \A i, x : Variant(i, x) # NoneOf
    /\ \A x, y : One(x) = One(y) => x = y
    /\ \A x : One(x).of = x /\ Many(x).items = x /\ Entries(x).entries = x
    /\ \A i, x : Variant(i, x).variant = i /\ Variant(i, x).with = x
<1>1. \A x : One(x).of = x BY DEF One
<1>2. \A x, y : One(x) = One(y) => x = y BY <1>1
<1> QED BY <1>1, <1>2 DEF One, Many, Entries, Variant, NoneOf

LEMMA PatchedIsDone ==
    ASSUME PartsLawful, NEW T, WellFormed(T), NEW v, NEW d
    PROVE  Done(Patched(T, v, d)) /\ (Validated(T, v, d) <=> Patched(T, v, d).ok)
<1>0. T.form \in Forms BY FormKnown
<1>1. CASE T.form \notin {"struct", "option", "bytes"}
  <2>1. Patched(T, v, d) = Replaced(v, Decoded(T, d)) BY <1>1, PatchedByForm
  <2>2. Validated(T, v, d) <=> Decoded(T, d).ok BY <1>1 DEF Validated
  <2> QED BY <2>1, <2>2, DecodedReads, ReplacedDone
<1>2. CASE T.form = "bytes"
  <2>1. Patched(T, v, d) = Replaced(v, PatchedBytes(d)) BY <1>2, PatchedByForm
  <2>2. Validated(T, v, d) <=> PatchedBytes(d).ok BY <1>2 DEF Validated
  <2> QED BY <2>1, <2>2, BytesRead, ReplacedDone
<1>3. CASE T.form = "option"
  <2> DEFINE item == PatchedPart(T.of, v.of, d)
  <2>1. Patched(T, v, d) = PatchedOption(T, v, d) /\ Decoded(T, d) = DecodedOption(T, d)
    BY <1>3, PatchedByForm, DecodedByForm
  <2>2. Validated(T, v, d) <=> ValidatedOption(T, v, d) BY <1>3 DEF Validated
  <2>3. CASE d.kind = "null" \/ v = NoneOf
    <3>1. PatchedOption(T, v, d) = Replaced(v, DecodedOption(T, d))
      BY <2>3 DEF PatchedOption
    <3>2. ValidatedOption(T, v, d) <=> DecodedOption(T, d).ok BY <2>3 DEF ValidatedOption
    <3> QED BY <2>1, <2>2, <3>1, <3>2, DecodedReads, ReplacedDone
  <2>4. CASE ~(d.kind = "null" \/ v = NoneOf)
    <3>1. PatchedOption(T, v, d) = [ok |-> item.ok, value |-> One(item.value)]
      BY <2>4 DEF PatchedOption
    <3>2. ValidatedOption(T, v, d) <=> ValidatedPart(T.of, v.of, d) BY <2>4 DEF ValidatedOption
    <3>3. Done(item) /\ (ValidatedPart(T.of, v.of, d) <=> item.ok)
      BY <1>3, PartsOf DEF PartsLawful
    <3>4. item = Fails(item.value) => PatchedOption(T, v, d) = Fails(One(item.value))
      BY <3>1, ResultsAre DEF Fails
    <3>5. item = Accepted(item.value) => PatchedOption(T, v, d) = Accepted(One(item.value))
      BY <3>1, ResultsAre DEF Accepted
    <3>6. CASE item = Fails(item.value)
      <4>1. ~item.ok BY <3>6, ResultsAre
      <4>2. ~PatchedOption(T, v, d).ok BY <3>4, <3>6, ResultsAre
      <4>3. Done(PatchedOption(T, v, d)) BY <3>4, <3>6, ResultsAre DEF Done
      <4> QED BY <2>1, <2>2, <3>2, <3>3, <4>1, <4>2, <4>3
    <3>7. CASE item = Accepted(item.value)
      <4>1. item.ok BY <3>7, ResultsAre
      <4>2. PatchedOption(T, v, d).ok BY <3>5, <3>7, ResultsAre
      <4>3. Done(PatchedOption(T, v, d)) BY <3>5, <3>7, ResultsAre DEF Done
      <4> QED BY <2>1, <2>2, <3>2, <3>3, <4>1, <4>2, <4>3
    <3> QED BY <3>3, <3>6, <3>7 DEF Done
  <2> QED BY <2>3, <2>4
<1>4. CASE T.form = "struct"
  <2>1. Patched(T, v, d) = PatchedStruct(T, v, d) BY <1>4, PatchedByForm
  <2>2. Validated(T, v, d) <=> ValidatedStruct(T, v, d) BY <1>4 DEF Validated
  <2>3. \A i \in DOMAIN T.fields :
            Patches(T, v, d)[i].ok <=>
                (EntriesOf(d, T.fields[i].id) # {} =>
                    ValidatedPart(T.fields[i].type, v.items[i], EntryOf(d, T.fields[i].id)))
    <3> SUFFICES ASSUME NEW i \in DOMAIN T.fields
                 PROVE  Patches(T, v, d)[i].ok <=>
                            (EntriesOf(d, T.fields[i].id) # {} =>
                                ValidatedPart(T.fields[i].type, v.items[i], EntryOf(d, T.fields[i].id)))
      OBVIOUS
    <3>1. \A x, e : ValidatedPart(T.fields[i].type, x, e) <=> PatchedPart(T.fields[i].type, x, e).ok
      BY <1>4, PartsOf DEF PartsLawful
    <3>2. Patches(T, v, d)[i] =
              IF EntriesOf(d, T.fields[i].id) # {}
              THEN PatchedPart(T.fields[i].type, v.items[i], EntryOf(d, T.fields[i].id))
              ELSE Accepted(v.items[i])
      BY DEF Patches
    <3>3. CASE EntriesOf(d, T.fields[i].id) # {} BY <3>1, <3>2, <3>3
    <3>4. CASE EntriesOf(d, T.fields[i].id) = {}
      <4>1. Patches(T, v, d)[i] = Accepted(v.items[i]) BY <3>2, <3>4
      <4>2. Patches(T, v, d)[i].ok BY <4>1, ResultsAre
      <4> QED BY <3>4, <4>2
    <3> QED BY <3>3, <3>4
  <2>4. IsStructMap(T.fields, d) <=>
            d.kind = "map" /\ \A i \in Keys(d) : d.items[i].kind = "number"
    BY <1>4, PartsOf DEF IsStructMap
  <2>5. ValidatedStruct(T, v, d) <=>
            IsStructMap(T.fields, d) /\ \A i \in DOMAIN T.fields : Patches(T, v, d)[i].ok
    BY <2>3, <2>4 DEF ValidatedStruct
  <2> QED BY <2>1, <2>2, <2>5, StructPatched
<1> QED BY <1>0, <1>1, <1>2, <1>3, <1>4

LEMMA NoneIsNull ==
    ASSUME PartsLawful, NEW T, WellFormed(T), NEW d, Decoded(T, d) = Accepted(NoneOf)
    PROVE  d.kind = "null"
<1>0. \A x : x # NoneOf => Accepted(x) # Accepted(NoneOf)
  <2>1. \A x : Accepted(x).value = x BY ResultsAre
  <2> QED BY <2>1
<1>1. Refused # Accepted(NoneOf) BY AcceptedIs
<1>2. \A x : /\ Accepted(One(x)) # Accepted(NoneOf) /\ Accepted(Many(x)) # Accepted(NoneOf)
             /\ Accepted(Entries(x)) # Accepted(NoneOf)
  BY <1>0, SomeIsNotNone
<1>3. \A i, x : Accepted(Variant(i, x)) # Accepted(NoneOf) BY <1>0, SomeIsNotNone
<1>4. \A k, x, y : InRange(d, k, x, y) # Accepted(NoneOf) BY <1>1, <1>2 DEF InRange
<1>5. \A reads : AllAccepted(reads) # Accepted(NoneOf) BY <1>1, <1>2 DEF AllAccepted
<1>6. CASE T.form = "uint" BY <1>6, <1>1, <1>4, DecodedByForm DEF DecodedUint
<1>7. CASE T.form = "int" BY <1>7, <1>1, <1>4, DecodedByForm DEF DecodedInt
<1>8. CASE T.form = "float" BY <1>8, <1>1, <1>2, DecodedByForm DEF DecodedFloat
<1>9. CASE T.form = "unit" BY <1>9, <1>1, <1>2, DecodedByForm DEF DecodedUnit
<1>10. CASE T.form = "bool" BY <1>10, <1>1, <1>2, DecodedByForm DEF DecodedBool
<1>11. CASE T.form = "string" BY <1>11, <1>1, <1>2, DecodedByForm DEF DecodedString
<1>12. CASE T.form = "bytes" BY <1>12, <1>1, <1>2, DecodedByForm DEF DecodedBytes
<1>13. CASE T.form = "variant" BY <1>13, <1>1, <1>2, DecodedByForm DEF DecodedVariant
<1>14. CASE T.form = "option" BY <1>14, <1>1, <1>2, DecodedByForm DEF DecodedOption
<1>15. CASE T.form = "vec" BY <1>15, <1>1, <1>5, DecodedByForm DEF DecodedVec
<1>16. CASE T.form = "map"
  <2>1. DecodedMap(T, d) = Refused \/ \E x : DecodedMap(T, d) = Accepted(Entries(x))
    BY DEF DecodedMap
  <2> QED BY <1>16, <1>1, <1>2, <2>1, DecodedByForm
<1>17. CASE T.form = "tuple" BY <1>17, <1>1, <1>5, DecodedByForm DEF DecodedTuple
<1>18. CASE T.form = "struct" BY <1>18, <1>1, <1>5, DecodedByForm DEF DecodedStruct
<1>19. CASE T.form = "enum" BY <1>19, <1>1, <1>3, DecodedByForm DEF DecodedEnum
<1> QED BY <1>6, <1>7, <1>8, <1>9, <1>10, <1>11, <1>12, <1>13, <1>14, <1>15, <1>16, <1>17,
           <1>18, <1>19, FormKnown DEF Forms

----------------------------------------------------------------------------
(* A patch that is applied again changes nothing.                          *)

LEMMA StructDecoded ==
    ASSUME NEW T, NEW d, DecodedStruct(T, d).ok
    PROVE  /\ IsStructMap(T.fields, d)
           /\ \A i \in DOMAIN T.fields : DecodedField(T.fields[i], d).ok
           /\ DecodedStruct(T, d) =
                  Accepted(Many([i \in DOMAIN T.fields |-> DecodedField(T.fields[i], d).value]))
<1> DEFINE reads == [i \in DOMAIN T.fields |-> DecodedField(T.fields[i], d)]
<1>1. IsStructMap(T.fields, d) /\ DecodedStruct(T, d) = AllAccepted(reads)
  BY AcceptedIs DEF DecodedStruct
<1>2. \A i \in DOMAIN reads : reads[i].ok BY <1>1, AllAcceptedReads
<1>3. AllAccepted(reads) = Accepted(Many([i \in DOMAIN reads |-> reads[i].value]))
  BY <1>2, AllAcceptedReads
<1>4. [i \in DOMAIN reads |-> reads[i].value] =
          [i \in DOMAIN T.fields |-> DecodedField(T.fields[i], d).value]
  OBVIOUS
<1> QED BY <1>1, <1>2, <1>3, <1>4

\* A patch of a struct that succeeds.
LEMMA StructMerged ==
    ASSUME NEW T, WellFormed(T), T.form = "struct", NEW v, NEW d, IsStructMap(T.fields, d),
           \A i \in DOMAIN T.fields : Patches(T, v, d)[i].ok
    PROVE  PatchedStruct(T, v, d) =
               Accepted(Many([i \in DOMAIN T.fields |-> Patches(T, v, d)[i].value]))
<1>1. DOMAIN T.fields = 1..Len(T.fields) /\ Len(T.fields) \in Nat BY PartsOf
<1>2. DOMAIN T.fields \subseteq Nat /\ \A i \in DOMAIN T.fields : 1..(i - 1) \subseteq DOMAIN T.fields
  BY <1>1
<1> QED BY <1>2, StructPatched

LEMMA DecodedThenPatched ==
    ASSUME PartsLawful, NEW T, WellFormed(T), NEW d, Decoded(T, d).ok
    PROVE  Patched(T, Decoded(T, d).value, d) = Decoded(T, d)
<1> DEFINE v == Decoded(T, d).value
<1>0. T.form \in Forms BY FormKnown
<1>1. CASE T.form \notin {"struct", "option", "bytes"}
  BY <1>1, PatchedByForm, DecodedReads, ReplacedDone
<1>2. CASE T.form = "bytes"
  <2>1. Decoded(T, d) = DecodedBytes(d) BY <1>2, DecodedByForm
  <2>2. d.kind = "bytes" BY <2>1, AcceptedIs DEF DecodedBytes
  <2>3. PatchedBytes(d) = DecodedBytes(d) BY <2>2 DEF PatchedBytes
  <2> QED BY <1>2, <2>1, <2>3, PatchedByForm, BytesRead, ReplacedDone
<1>3. CASE T.form = "option"
  <2> DEFINE item == DecodedPart(T.of, d)
  <2>1. Decoded(T, d) = DecodedOption(T, d) /\ Patched(T, v, d) = PatchedOption(T, v, d)
    BY <1>3, PatchedByForm, DecodedByForm
  <2>2. CASE d.kind = "null"
    BY <2>1, <2>2, DecodedReads, ReplacedDone DEF PatchedOption
  <2>3. CASE d.kind # "null"
    <3>1. item.ok /\ DecodedOption(T, d) = Accepted(One(item.value))
      BY <2>1, <2>3, AcceptedIs DEF DecodedOption
    <3>a. v = One(item.value) BY <2>1, <3>1, AcceptedIs
    <3>2. v = One(item.value) /\ v # NoneOf /\ v.of = item.value
      BY <3>a DEF One, NoneOf
    <3>3. PatchedPart(T.of, item.value, d) = item /\ Read(item)
      BY <1>3, <3>1, PartsOf DEF PartsLawful
    <3>4. item.ok = TRUE BY <3>1, <3>3, AcceptedIs DEF Read
    <3>5. PatchedOption(T, v, d) = [ok |-> item.ok, value |-> One(item.value)]
      BY <2>3, <3>2, <3>3 DEF PatchedOption
    <3> QED BY <2>1, <3>1, <3>4, <3>5 DEF Accepted
  <2> QED BY <2>2, <2>3
<1>4. CASE T.form = "struct"
  <2>1. Decoded(T, d) = DecodedStruct(T, d) /\ Patched(T, v, d) = PatchedStruct(T, v, d)
    BY <1>4, PatchedByForm, DecodedByForm
  <2>2. /\ IsStructMap(T.fields, d)
        /\ \A i \in DOMAIN T.fields : DecodedField(T.fields[i], d).ok
        /\ DecodedStruct(T, d) =
              Accepted(Many([i \in DOMAIN T.fields |-> DecodedField(T.fields[i], d).value]))
    BY <2>1, StructDecoded
  <2>3. v.items = [i \in DOMAIN T.fields |-> DecodedField(T.fields[i], d).value]
    <3>1. v = Many([i \in DOMAIN T.fields |-> DecodedField(T.fields[i], d).value])
      BY <2>1, <2>2, AcceptedIs
    <3> QED BY <3>1 DEF Many
  <2>4. \A i \in DOMAIN T.fields :
            Patches(T, v, d)[i].ok /\ Patches(T, v, d)[i].value = DecodedField(T.fields[i], d).value
    <3> SUFFICES ASSUME NEW i \in DOMAIN T.fields
                 PROVE  /\ Patches(T, v, d)[i].ok
                        /\ Patches(T, v, d)[i].value = DecodedField(T.fields[i], d).value
      OBVIOUS
    <3> DEFINE U == T.fields[i].type
               e == EntryOf(d, T.fields[i].id)
    <3>1. WellFormedPart(U) BY <1>4, PartsOf
    <3>2. v.items[i] = DecodedField(T.fields[i], d).value BY <2>3
    <3>3. CASE EntriesOf(d, T.fields[i].id) # {}
      <4>1. DecodedField(T.fields[i], d) = DecodedPart(U, e) BY <3>3 DEF DecodedField
      <4>2. Patches(T, v, d)[i] = PatchedPart(U, v.items[i], e) BY <3>3 DEF Patches
      <4>3. DecodedPart(U, e).ok BY <2>2, <4>1
      <4>4. PatchedPart(U, DecodedPart(U, e).value, e) = DecodedPart(U, e)
        BY <3>1, <4>3 DEF PartsLawful
      <4> QED BY <3>2, <4>1, <4>2, <4>3, <4>4
    <3>4. CASE EntriesOf(d, T.fields[i].id) = {}
      <4>1. Patches(T, v, d)[i] = Accepted(v.items[i]) BY <3>4 DEF Patches
      <4> QED BY <3>2, <4>1, AcceptedIs
    <3> QED BY <3>3, <3>4
  <2>5. PatchedStruct(T, v, d) =
            Accepted(Many([i \in DOMAIN T.fields |-> Patches(T, v, d)[i].value]))
    BY <1>4, <2>2, <2>4, StructMerged
  <2>6. [i \in DOMAIN T.fields |-> Patches(T, v, d)[i].value] =
            [i \in DOMAIN T.fields |-> DecodedField(T.fields[i], d).value]
    BY <2>4
  <2> QED BY <2>1, <2>2, <2>5, <2>6
<1> QED BY <1>0, <1>1, <1>2, <1>3, <1>4

LEMMA PatchedTwice ==
    ASSUME PartsLawful, NEW T, WellFormed(T), NEW v, NEW d, Patched(T, v, d).ok
    PROVE  Patched(T, Patched(T, v, d).value, d) = Patched(T, v, d)
<1> DEFINE w == Patched(T, v, d).value
<1>0. T.form \in Forms BY FormKnown
<1>1. CASE T.form \notin {"struct", "option", "bytes"}
  BY <1>1, PatchedByForm, DecodedReads, ReplacedDone
<1>2. CASE T.form = "bytes"
  BY <1>2, PatchedByForm, BytesRead, ReplacedDone
<1>3. CASE T.form = "option"
  <2>1. /\ Decoded(T, d) = DecodedOption(T, d)
        /\ Patched(T, v, d) = PatchedOption(T, v, d) /\ Patched(T, w, d) = PatchedOption(T, w, d)
    BY <1>3, PatchedByForm, DecodedByForm
  <2>2. CASE d.kind = "null" \/ v = NoneOf
    <3>1. Patched(T, v, d) = Replaced(v, Decoded(T, d)) BY <2>1, <2>2 DEF PatchedOption
    <3>2. Decoded(T, d).ok /\ Patched(T, v, d) = Decoded(T, d)
      BY <3>1, DecodedReads, ReplacedDone
    <3> QED BY <3>2, DecodedThenPatched
  <2>3. CASE ~(d.kind = "null" \/ v = NoneOf)
    <3> DEFINE item == PatchedPart(T.of, v.of, d)
    <3>1. PatchedOption(T, v, d) = [ok |-> item.ok, value |-> One(item.value)]
      BY <2>3 DEF PatchedOption
    <3>2. item.ok /\ w = One(item.value) BY <2>1, <3>1
    <3>3. w # NoneOf /\ w.of = item.value BY <3>2, SomeIsNotNone
    <3>4. PatchedPart(T.of, item.value, d) = item BY <1>3, <3>2, PartsOf DEF PartsLawful
    <3> QED BY <2>1, <2>3, <3>1, <3>3, <3>4 DEF PatchedOption
  <2> QED BY <2>2, <2>3
<1>4. CASE T.form = "struct"
  <2>1. Patched(T, v, d) = PatchedStruct(T, v, d) /\ Patched(T, w, d) = PatchedStruct(T, w, d)
    BY <1>4, PatchedByForm
  <2>2. IsStructMap(T.fields, d) /\ \A i \in DOMAIN T.fields : Patches(T, v, d)[i].ok
    BY <2>1, StructPatched
  <2>3. PatchedStruct(T, v, d) =
            Accepted(Many([i \in DOMAIN T.fields |-> Patches(T, v, d)[i].value]))
    BY <1>4, <2>2, StructMerged
  <2>4. w.items = [i \in DOMAIN T.fields |-> Patches(T, v, d)[i].value]
    <3>1. w = Many([i \in DOMAIN T.fields |-> Patches(T, v, d)[i].value])
      BY <2>1, <2>3, AcceptedIs
    <3> QED BY <3>1 DEF Many
  <2>5. \A i \in DOMAIN T.fields : Patches(T, w, d)[i] = Patches(T, v, d)[i]
    <3> SUFFICES ASSUME NEW i \in DOMAIN T.fields
                 PROVE  Patches(T, w, d)[i] = Patches(T, v, d)[i]
      OBVIOUS
    <3> DEFINE U == T.fields[i].type
               e == EntryOf(d, T.fields[i].id)
    <3>1. WellFormedPart(U) BY <1>4, PartsOf
    <3>2. w.items[i] = Patches(T, v, d)[i].value BY <2>4
    <3>3. CASE EntriesOf(d, T.fields[i].id) # {}
      <4>1. /\ Patches(T, v, d)[i] = PatchedPart(U, v.items[i], e)
            /\ Patches(T, w, d)[i] = PatchedPart(U, w.items[i], e)
        BY <3>3 DEF Patches
      <4>2. PatchedPart(U, v.items[i], e).ok BY <2>2, <4>1
      <4>3. PatchedPart(U, PatchedPart(U, v.items[i], e).value, e) = PatchedPart(U, v.items[i], e)
        BY <3>1, <4>2 DEF PartsLawful
      <4> QED BY <3>2, <4>1, <4>3
    <3>4. CASE EntriesOf(d, T.fields[i].id) = {}
      <4>1. /\ Patches(T, v, d)[i] = Accepted(v.items[i])
            /\ Patches(T, w, d)[i] = Accepted(w.items[i])
        BY <3>4 DEF Patches
      <4> QED BY <3>2, <4>1, AcceptedIs
    <3> QED BY <3>3, <3>4
  <2>6. \A i \in DOMAIN T.fields : Patches(T, w, d)[i].ok BY <2>2, <2>5
  <2>7. PatchedStruct(T, w, d) =
            Accepted(Many([i \in DOMAIN T.fields |-> Patches(T, w, d)[i].value]))
    BY <1>4, <2>2, <2>6, StructMerged
  <2>8. [i \in DOMAIN T.fields |-> Patches(T, w, d)[i].value] =
            [i \in DOMAIN T.fields |-> Patches(T, v, d)[i].value]
    BY <2>5
  <2> QED BY <2>1, <2>3, <2>7, <2>8
<1> QED BY <1>0, <1>1, <1>2, <1>3, <1>4

----------------------------------------------------------------------------
(* Numbers in order.                                                       *)

LEMMA LeastExists ==
    ASSUME NEW S, S \subseteq Nat, S # {}
    PROVE  \E x \in S : \A y \in S : x <= y
<1> DEFINE Less == OpToRel(<, Nat)
<1>1. IsWellFoundedOn(Less, Nat)
  BY NatLessThanWellFounded, Zenon
<1>2. \A x, y \in Nat : <<y, x>> \in Less <=> y < x
  BY DEF OpToRel
<1> HIDE DEF Less
<1>3. PICK x \in S : \A y \in S : ~ (<<y, x>> \in Less)
  BY <1>1, WFMin, Zenon
<1>4. \A y \in S : x \in Nat /\ y \in Nat /\ ~(y < x) BY <1>2, <1>3
<1> QED BY <1>3, <1>4

\* What holds of 0 and of the successor of every number it holds of.
LEMMA Induction ==
    ASSUME NEW T, 0 \in T, \A n \in Nat : n \in T => n + 1 \in T
    PROVE  \A n \in Nat : n \in T
<1> DEFINE S == Nat \ T
<1> SUFFICES ASSUME S # {} PROVE FALSE
  OBVIOUS
<1>1. S \subseteq Nat OBVIOUS
<1>2. PICK x \in S : \A y \in S : x <= y
  <2> HIDE DEF S
  <2> QED BY <1>1, LeastExists
<1>3. x \in Nat /\ x # 0 /\ x - 1 \in Nat /\ (x - 1) + 1 = x /\ ~(x <= x - 1) BY <1>2
<1>4. x - 1 \in T BY <1>2, <1>3
<1> QED BY <1>2, <1>3, <1>4

LEMMA AscendingExists ==
    \A n \in Nat : \A S \in SUBSET Nat :
        IsFiniteSet(S) /\ Cardinality(S) = n =>
            \E s \in [1..n -> S] : \A i, j \in 1..n : i < j => s[i] < s[j]
<1> DEFINE Ordered(s, n) == \A i, j \in 1..n : i < j => s[i] < s[j]
           T == {n \in Nat : \A S \in SUBSET Nat :
                    IsFiniteSet(S) /\ Cardinality(S) = n => \E s \in [1..n -> S] : Ordered(s, n)}
<1>1. 0 \in T
  <2> SUFFICES ASSUME NEW S \in SUBSET Nat PROVE \E s \in [1..0 -> S] : Ordered(s, 0)
    OBVIOUS
  <2>1. 1..0 = {} OBVIOUS
  <2>2. [i \in 1..0 |-> i] \in [1..0 -> S] BY <2>1
  <2> QED BY <2>1, <2>2
<1>2. ASSUME NEW n \in Nat, n \in T PROVE n + 1 \in T
  <2> SUFFICES ASSUME NEW S \in SUBSET Nat, IsFiniteSet(S), Cardinality(S) = n + 1
               PROVE  \E s \in [1..(n + 1) -> S] : Ordered(s, n + 1)
    OBVIOUS
  <2>1. S # {} BY FS_EmptySet
  <2>2. PICK m \in S : \A y \in S : m <= y BY <2>1, LeastExists
  <2>3. IsFiniteSet(S \ {m}) /\ Cardinality(S \ {m}) = n
    <3>1. IsFiniteSet(S \ {m}) /\ Cardinality(S \ {m}) = Cardinality(S) - 1
      BY <2>2, FS_RemoveElement
    <3> QED BY <3>1
  <2>4. PICK r \in [1..n -> S \ {m}] : Ordered(r, n) BY <1>2, <2>3
  <2> DEFINE s == [i \in 1..(n + 1) |-> IF i = 1 THEN m ELSE r[i - 1]]
  <2>5. \A i \in 1..(n + 1) : i # 1 => i - 1 \in 1..n /\ s[i] = r[i - 1] /\ r[i - 1] \in S \ {m}
    OBVIOUS
  <2>6. 1 \in 1..(n + 1) /\ s[1] = m OBVIOUS
  <2>7. s \in [1..(n + 1) -> S] BY <2>2, <2>5
  <2>8. ASSUME NEW i \in 1..(n + 1), NEW j \in 1..(n + 1), i < j PROVE s[i] < s[j]
    <3>a. j # 1 BY <2>8
    <3>b. s[j] \in S \ {m}
      <4> HIDE DEF s
      <4> QED BY <2>5, <3>a
    <3>1. j # 1 /\ s[j] \in S \ {m} /\ s[j] \in Nat /\ m \in Nat
      <4> HIDE DEF s
      <4> QED BY <2>2, <3>a, <3>b
    <3>2. CASE i = 1
      <4>1. m <= s[j] /\ m # s[j] BY <2>2, <3>1
      <4> HIDE DEF s
      <4> QED BY <2>6, <3>1, <3>2, <4>1
    <3>3. CASE i # 1
      <4>1. i - 1 \in 1..n /\ j - 1 \in 1..n /\ i - 1 < j - 1 BY <2>8, <3>1, <3>3
      <4> QED BY <2>4, <2>5, <3>1, <3>3, <4>1
    <3> QED BY <3>2, <3>3
  <2> HIDE DEF s
  <2> QED BY <2>7, <2>8
<1> HIDE DEF T
<1>3. \A n \in Nat : n \in T BY <1>1, <1>2, Induction
<1> QED BY <1>3 DEF T

LEMMA AscendingIs ==
    ASSUME NEW S, S \subseteq Nat, IsFiniteSet(S)
    PROVE  /\ Cardinality(S) \in Nat
           /\ Ascending(S) \in [1..Cardinality(S) -> S]
           /\ \A i, j \in 1..Cardinality(S) : i < j => Ascending(S)[i] < Ascending(S)[j]
           /\ \A i, j \in 1..Cardinality(S) : Ascending(S)[i] = Ascending(S)[j] => i = j
           /\ \A x \in S : \E i \in 1..Cardinality(S) : Ascending(S)[i] = x
<1> DEFINE n == Cardinality(S)
           s == Ascending(S)
<1>1. n \in Nat BY FS_CardinalityType
<1>2. \E r \in [1..n -> S] : \A i, j \in 1..n : i < j => r[i] < r[j]
  BY <1>1, AscendingExists
<1>3. s \in [1..n -> S] /\ \A i, j \in 1..n : i < j => s[i] < s[j]
  BY <1>2 DEF Ascending
<1> HIDE DEF s, n
<1>4. ASSUME NEW i \in 1..n, NEW j \in 1..n, s[i] = s[j] PROVE i = j
  <2>0. s[i] \in S /\ s[j] \in S BY <1>3
  <2>a. i \in Nat /\ j \in Nat BY <1>1
  <2>1. s[i] \in Nat /\ s[j] \in Nat /\ i \in Nat /\ j \in Nat BY <2>0, <2>a
  <2>2. ~(i < j) /\ ~(j < i) BY <1>3, <1>4, <2>1
  <2> QED BY <2>1, <2>2
<1>5. s \in Injection(1..n, S)
  <2>1. \A i, j \in 1..n : s[i] = s[j] => i = j BY <1>4
  <2> QED BY <1>3, <2>1 DEF Injection, IsInjective
<1>6. Cardinality(1..n) = n
  <2>1. Cardinality(1..n) = IF 1 > n THEN 0 ELSE n - 1 + 1 BY <1>1, FS_Interval
  <2> QED BY <1>1, <2>1
<1>7. s \in Surjection(1..n, S) BY <1>5, <1>6, FS_Injection DEF n
<1>8. \A x \in S : \E i \in 1..n : s[i] = x BY <1>7 DEF Surjection
<1> QED BY <1>1, <1>3, <1>4, <1>8 DEF s, n

LEMMA SequenceIs ==
    ASSUME NEW n \in Nat, NEW f, f = [i \in 1..n |-> f[i]]
    PROVE  f \in Seq(Range(f)) /\ Len(f) = n /\ DOMAIN f = 1..n
<1>1. DOMAIN f = 1..n OBVIOUS
<1>2. \A i \in 1..n : f[i] \in Range(f) BY <1>1 DEF Range
<1>3. f \in [1..n -> Range(f)] BY <1>2
<1> QED BY <1>1, <1>3

\* The keys of a map stand at the odd places, each before its value.
IsMapOf(d, n, ks, vals) ==
    /\ d.kind = "map"
    /\ d.items \in Seq(Range(d.items)) /\ Len(d.items) = 2 * n /\ DOMAIN d.items = 1..(2 * n)
    /\ \A k \in 1..n :
         /\ 2 * k - 1 \in Keys(d) /\ 2 * k \in DOMAIN d.items
         /\ d.items[2 * k - 1] = ks[k] /\ d.items[2 * k] = vals[k]
    /\ \A i \in Keys(d) : \E k \in 1..n : i = 2 * k - 1

LEMMA MapItems ==
    ASSUME NEW n \in Nat, NEW ks, NEW vals, Len(ks) = n
    PROVE  IsMapOf(MapOf(ks, vals), n, ks, vals)
<1> DEFINE its == [i \in 1..(2 * n) |-> IF i % 2 = 1 THEN ks[(i + 1) \div 2] ELSE vals[i \div 2]]
<1>1. MapOf(ks, vals) = MapValue(its) BY DEF MapOf
<1>2. MapOf(ks, vals).kind = "map" /\ MapOf(ks, vals).items = its
  BY <1>1 DEF MapValue, ContainerValue
<1>3. 2 * n \in Nat /\ its = [i \in 1..(2 * n) |-> its[i]] OBVIOUS
<1>4. its \in Seq(Range(its)) /\ Len(its) = 2 * n /\ DOMAIN its = 1..(2 * n)
  <2> HIDE DEF its
  <2> QED BY <1>3, SequenceIs
<1>5. ASSUME NEW k \in 1..n
      PROVE  /\ 2 * k - 1 \in 1..(2 * n) /\ 2 * k \in 1..(2 * n) /\ (2 * k - 1) % 2 = 1
             /\ its[2 * k - 1] = ks[k] /\ its[2 * k] = vals[k]
  <2>1. /\ 2 * k - 1 \in 1..(2 * n) /\ (2 * k - 1) % 2 = 1
        /\ ((2 * k - 1) + 1) \div 2 = k
    OBVIOUS
  <2>2. 2 * k \in 1..(2 * n) /\ (2 * k) % 2 = 0 /\ (2 * k) \div 2 = k OBVIOUS
  <2> QED BY <2>1, <2>2
<1>6. ASSUME NEW i \in 1..(2 * n), i % 2 = 1 PROVE \E k \in 1..n : i = 2 * k - 1
  <2>1. (i + 1) \div 2 \in 1..n /\ i = 2 * ((i + 1) \div 2) - 1 BY <1>6
  <2> QED BY <2>1
<1> HIDE DEF its
<1>7. Keys(MapOf(ks, vals)) = {i \in 1..(2 * n) : i % 2 = 1} BY <1>2, <1>4 DEF Keys
<1> QED BY <1>2, <1>4, <1>5, <1>6, <1>7 DEF IsMapOf

LEMMA PlacesOf ==
    ASSUME NEW n \in Nat, NEW ks, NEW vals, NEW d, IsMapOf(d, n, ks, vals), NEW i \in DOMAIN d.items
    PROVE  \E k \in 1..n : d.items[i] \in {ks[k], vals[k]}
<1>1. i \in 1..(2 * n) BY DEF IsMapOf
<1>2. \/ (i + 1) \div 2 \in 1..n /\ i = 2 * ((i + 1) \div 2) - 1
      \/ i \div 2 \in 1..n /\ i = 2 * (i \div 2)
  BY <1>1
<1> QED BY <1>2 DEF IsMapOf

LEMMA NumbersDiffer == \A m, n : NumberValue(m) = NumberValue(n) => m = n
<1>1. \A n : NumberValue(n).number = n BY DEF NumberValue
<1> QED BY <1>1

LEMMA ImageFinite ==
    ASSUME NEW f, IsFiniteSet(DOMAIN f), IsFunction(f)
    PROVE  IsFiniteSet({f[x] : x \in DOMAIN f})
<1> DEFINE S == {f[x] : x \in DOMAIN f}
<1>1. f \in Surjection(DOMAIN f, S) BY DEF Surjection, IsFunction
<1> QED BY <1>1, FS_Surjection

LEMMA FieldIdsAre ==
    ASSUME NEW T, WellFormed(T), T.form = "struct"
    PROVE  FieldIds(T.fields) \subseteq Nat /\ IsFiniteSet(FieldIds(T.fields))
<1> DEFINE f == [i \in DOMAIN T.fields |-> T.fields[i].id]
<1>1. Len(T.fields) \in Nat /\ DOMAIN T.fields = 1..Len(T.fields) BY PartsOf
<1>2. IsFiniteSet(1..Len(T.fields)) BY <1>1, FS_Interval
<1>3. DOMAIN f = 1..Len(T.fields) /\ IsFunction(f) BY <1>1 DEF IsFunction
<1>4. IsFiniteSet({f[x] : x \in DOMAIN f})
  <2> HIDE DEF f
  <2> QED BY <1>2, <1>3, ImageFinite
<1>5. {f[x] : x \in DOMAIN f} = FieldIds(T.fields) BY DEF FieldIds
<1>6. \A i \in DOMAIN T.fields : T.fields[i].id \in Nat BY PartsOf
<1> HIDE DEF f
<1> QED BY <1>4, <1>5, <1>6 DEF FieldIds

\* A struct is a map from the ids of its fields to what the fields are encoded as.
LEMMA StructEncoded ==
    ASSUME NEW T, WellFormed(T), T.form = "struct", NEW v
    PROVE  /\ EncodedStruct(T, v).kind = "map"
           /\ IsStructMap(T.fields, EncodedStruct(T, v)) /\ KeysDiffer(EncodedStruct(T, v))
           /\ DOMAIN EncodedStruct(T, v).items = 1..Len(EncodedStruct(T, v).items)
           /\ \A i \in DOMAIN T.fields :
                /\ EntriesOf(EncodedStruct(T, v), T.fields[i].id) # {}
                /\ EntryOf(EncodedStruct(T, v), T.fields[i].id) =
                       EncodedPart(T.fields[i].type, v.items[i])
           /\ \A i \in Keys(EncodedStruct(T, v)) : \E j \in DOMAIN T.fields :
                EncodedStruct(T, v).items[i] = NumberValue(T.fields[j].id)
           /\ \A i \in DOMAIN EncodedStruct(T, v).items : \E j \in DOMAIN T.fields :
                EncodedStruct(T, v).items[i] \in
                    {NumberValue(T.fields[j].id), EncodedPart(T.fields[j].type, v.items[j])}
<1> DEFINE S == FieldIds(T.fields)
           n == Cardinality(S)
           ids == Ascending(S)
           at(id) == CHOOSE i \in DOMAIN T.fields : T.fields[i].id = id
           ks == [k \in DOMAIN ids |-> NumberValue(ids[k])]
           vals == [k \in DOMAIN ids |-> EncodedPart(T.fields[at(ids[k])].type, v.items[at(ids[k])])]
           d == EncodedStruct(T, v)
<1>1. d = MapOf(ks, vals) BY DEF EncodedStruct
<1>2. /\ n \in Nat /\ ids \in [1..n -> S]
      /\ \A i, j \in 1..n : ids[i] = ids[j] => i = j
      /\ \A x \in S : \E i \in 1..n : ids[i] = x
  <2>1. S \subseteq Nat /\ IsFiniteSet(S) BY FieldIdsAre
  <2> HIDE DEF S
  <2> QED BY <2>1, AscendingIs
<1> HIDE DEF ids, n
<1>3. DOMAIN ids = 1..n BY <1>2
<1>4. Len(ks) = n
  <2>1. ks = [k \in 1..n |-> ks[k]] BY <1>3
  <2> HIDE DEF ks
  <2> QED BY <1>2, <2>1, SequenceIs
<1>5. IsMapOf(d, n, ks, vals)
  <2> HIDE DEF ks, vals, d
  <2> QED BY <1>1, <1>2, <1>4, MapItems
<1>6. \A k \in 1..n : ks[k] = NumberValue(ids[k]) BY <1>3
<1>7. \A k \in 1..n : vals[k] = EncodedPart(T.fields[at(ids[k])].type, v.items[at(ids[k])])
  BY <1>3
<1> HIDE DEF ks, vals, d
<1>8. \A k \in 1..n : \E j \in DOMAIN T.fields : ids[k] = T.fields[j].id BY <1>2 DEF FieldIds
<1>9. \A i \in Keys(d) : \E j \in DOMAIN T.fields : d.items[i] = NumberValue(T.fields[j].id)
  BY <1>5, <1>6, <1>8 DEF IsMapOf
<1>0. \A x : NumberValue(x).kind = "number" BY DEF NumberValue
<1>10. IsStructMap(T.fields, d)
  <2>1. \A i \in Keys(d) : d.items[i].kind = "number" BY <1>0, <1>9
  <2> QED BY <1>5, <2>1 DEF IsStructMap, IsMapOf
<1>11. KeysDiffer(d)
  <2> SUFFICES ASSUME NEW i \in Keys(d), NEW j \in Keys(d), d.items[i] = d.items[j] PROVE i = j
    BY DEF KeysDiffer, Keys
  <2>1. PICK k \in 1..n, m \in 1..n : i = 2 * k - 1 /\ j = 2 * m - 1
    BY <1>5 DEF IsMapOf
  <2>a. d.items[2 * k - 1] = ks[k] /\ d.items[2 * m - 1] = ks[m] BY <1>5 DEF IsMapOf
  <2>2. NumberValue(ids[k]) = NumberValue(ids[m]) BY <1>6, <2>1, <2>a
  <2>3. k = m BY <1>2, <2>2, NumbersDiffer
  <2> QED BY <2>1, <2>3
<1>12. ASSUME NEW i \in DOMAIN T.fields
       PROVE  /\ EntriesOf(d, T.fields[i].id) # {}
              /\ EntryOf(d, T.fields[i].id) = EncodedPart(T.fields[i].type, v.items[i])
  <2>1. PICK k \in 1..n : ids[k] = T.fields[i].id BY <1>2 DEF FieldIds
  <2>2. at(ids[k]) = i BY <2>1, PartsOf
  <2>3. EntriesOf(d, T.fields[i].id) = {2 * k - 1}
    <3>1. 2 * k - 1 \in Keys(d) /\ d.items[2 * k - 1] = NumberValue(T.fields[i].id)
      BY <1>5, <1>6, <2>1 DEF IsMapOf
    <3>2. ASSUME NEW j \in Keys(d), d.items[j] = NumberValue(T.fields[i].id) PROVE j = 2 * k - 1
      BY <1>11, <3>1, <3>2 DEF KeysDiffer, Keys
    <3> QED BY <3>1, <3>2 DEF EntriesOf
  <2>4. Max({2 * k - 1}) = 2 * k - 1 BY <1>2 DEF Max
  <2>5. (2 * k - 1) + 1 = 2 * k /\ k \in 1..n BY <1>2
  <2>6. EntryOf(d, T.fields[i].id) = d.items[2 * k] BY <2>3, <2>4, <2>5 DEF EntryOf
  <2> HIDE DEF at
  <2> QED BY <1>5, <1>7, <2>1, <2>2, <2>3, <2>6 DEF IsMapOf
<1>13. d.kind = "map" /\ DOMAIN d.items = 1..Len(d.items) BY <1>5 DEF IsMapOf
<1>14. ASSUME NEW i \in DOMAIN d.items
       PROVE  \E j \in DOMAIN T.fields :
                 d.items[i] \in {NumberValue(T.fields[j].id), EncodedPart(T.fields[j].type, v.items[j])}
  <2>1. PICK k \in 1..n : d.items[i] \in {ks[k], vals[k]} BY <1>2, <1>5, PlacesOf
  <2>2. PICK j \in DOMAIN T.fields : ids[k] = T.fields[j].id BY <1>8
  <2>3. at(ids[k]) = j BY <2>2, PartsOf
  <2> HIDE DEF at
  <2>4. ks[k] = NumberValue(T.fields[j].id) /\ vals[k] = EncodedPart(T.fields[j].type, v.items[j])
    BY <1>6, <1>7, <2>2, <2>3
  <2> QED BY <2>1, <2>4
<1> QED BY <1>9, <1>10, <1>11, <1>12, <1>13, <1>14 DEF d

----------------------------------------------------------------------------
(* What a value of a type is, and what is read is one.                     *)

LEMMA HasTypeByForm ==
    ASSUME NEW T, NEW v
    PROVE  /\ T.form = "uint" => (HasType(T, v) <=> v = One(v.of) /\ v.of \in 0..T.max)
           /\ T.form = "int" => (HasType(T, v) <=> v = One(v.of) /\ v.of \in T.min..T.max)
           /\ T.form \in {"float", "bool", "string", "bytes"} => (HasType(T, v) <=> v = One(v.of))
           /\ T.form \in {"unit", "variant"} => (HasType(T, v) <=> v = One(Nothing))
           /\ T.form = "option" =>
                (HasType(T, v) <=>
                    v = NoneOf \/ (v = One(v.of) /\ v.of # NoneOf /\ HasTypePart(T.of, v.of)))
           /\ T.form = "vec" => (HasType(T, v) <=> HasItems(v, [i \in DOMAIN v.items |-> T.of]))
           /\ T.form = "map" =>
                (HasType(T, v) <=>
                    /\ v = Entries(v.entries) /\ IsFiniteSet(v.entries)
                    /\ \A p \in v.entries :
                         p = <<p[1], p[2]>> /\ HasTypePart(T.key, p[1]) /\ HasTypePart(T.of, p[2])
                    /\ \A p, q \in v.entries : p[1] = q[1] => p = q)
           /\ T.form = "tuple" => (HasType(T, v) <=> HasItems(v, T.types))
           /\ T.form = "struct" => (HasType(T, v) <=> HasItems(v, FieldTypes(T.fields)))
           /\ T.form = "enum" =>
                (HasType(T, v) <=>
                    /\ v = Variant(v.variant, v.with) /\ v.variant \in 0..(Len(T.payloads) - 1)
                    /\ HasTypePart(T.payloads[v.variant + 1], v.with))
BY DEF HasType

\* A BTreeMap is a map from what its keys are encoded as to what its values are.
LEMMA MapEncoded ==
    ASSUME PartsLawful, NEW T, WellFormed(T), T.form = "map", NEW v, HasType(T, v)
    PROVE  /\ EncodedMap(T, v).kind = "map" /\ KeysDiffer(EncodedMap(T, v))
           /\ Len(EncodedMap(T, v).items) \in Nat
           /\ DOMAIN EncodedMap(T, v).items = 1..Len(EncodedMap(T, v).items)
           /\ \A p \in v.entries : \E i \in Keys(EncodedMap(T, v)) :
                /\ EncodedMap(T, v).items[i] = EncodedPart(T.key, p[1])
                /\ EncodedMap(T, v).items[i + 1] = EncodedPart(T.of, p[2])
           /\ \A i \in Keys(EncodedMap(T, v)) : \E p \in v.entries :
                /\ EncodedMap(T, v).items[i] = EncodedPart(T.key, p[1])
                /\ EncodedMap(T, v).items[i + 1] = EncodedPart(T.of, p[2])
           /\ \A i \in DOMAIN EncodedMap(T, v).items : \E p \in v.entries :
                EncodedMap(T, v).items[i] \in {EncodedPart(T.key, p[1]), EncodedPart(T.of, p[2])}
<1> DEFINE S == {p[1].of : p \in v.entries}
           n == Cardinality(S)
           numbers == Ascending(S)
           held(x) == (CHOOSE p \in v.entries : p[1] = One(x))[2]
           ks == [i \in DOMAIN numbers |-> EncodedPart(T.key, One(numbers[i]))]
           vals == [i \in DOMAIN numbers |-> EncodedPart(T.of, held(numbers[i]))]
           d == EncodedMap(T, v)
<1>1. /\ IsFiniteSet(v.entries)
      /\ \A p \in v.entries : HasTypePart(T.key, p[1]) /\ HasTypePart(T.of, p[2])
      /\ \A p, q \in v.entries : p[1] = q[1] => p = q
  BY HasTypeByForm
<1>2. T.key.form = "uint" /\ WellFormedPart(T.key) BY PartsOf
<1>3. \A p \in v.entries : p[1] = One(p[1].of) /\ p[1].of \in Nat
  BY <1>1, <1>2 DEF PartsLawful
<1>4. S \subseteq Nat /\ IsFiniteSet(S)
  <2> DEFINE f == [p \in v.entries |-> p[1].of]
  <2>1. DOMAIN f = v.entries /\ IsFunction(f) BY DEF IsFunction
  <2>2. IsFiniteSet({f[x] : x \in DOMAIN f})
    <3> HIDE DEF f
    <3> QED BY <1>1, <2>1, ImageFinite
  <2>3. {f[x] : x \in DOMAIN f} = S OBVIOUS
  <2> QED BY <1>3, <2>2, <2>3
<1>5. /\ n \in Nat /\ numbers \in [1..n -> S]
      /\ \A i, j \in 1..n : numbers[i] = numbers[j] => i = j
      /\ \A x \in S : \E i \in 1..n : numbers[i] = x
  <2> HIDE DEF S
  <2> QED BY <1>4, AscendingIs
<1>6. d = MapOf(ks, vals) BY DEF EncodedMap
<1> HIDE DEF numbers, n
<1>7. DOMAIN numbers = 1..n BY <1>5
<1>8. Len(ks) = n
  <2>1. ks = [k \in 1..n |-> ks[k]] BY <1>7
  <2> HIDE DEF ks
  <2> QED BY <1>5, <2>1, SequenceIs
<1>9. IsMapOf(d, n, ks, vals)
  <2> HIDE DEF ks, vals, d
  <2> QED BY <1>5, <1>6, <1>8, MapItems
<1>10. \A p \in v.entries : held(p[1].of) = p[2]
  <2> SUFFICES ASSUME NEW p \in v.entries PROVE held(p[1].of) = p[2]
    OBVIOUS
  <2>1. p[1] = One(p[1].of) /\ \A q \in v.entries : q[1] = One(p[1].of) => q = p
    BY <1>1, <1>3
  <2>2. (CHOOSE q \in v.entries : q[1] = One(p[1].of)) = p BY <2>1
  <2> QED BY <2>2
<1> HIDE DEF held
<1>11. ASSUME NEW k \in 1..n, NEW p \in v.entries, numbers[k] = p[1].of
       PROVE  /\ 2 * k - 1 \in Keys(d) /\ d.items[2 * k - 1] = EncodedPart(T.key, p[1])
              /\ d.items[(2 * k - 1) + 1] = EncodedPart(T.of, p[2])
  <2>1. ks[k] = EncodedPart(T.key, One(numbers[k])) /\ vals[k] = EncodedPart(T.of, held(numbers[k]))
    BY <1>7
  <2>2. One(numbers[k]) = p[1] /\ held(numbers[k]) = p[2] BY <1>3, <1>10, <1>11
  <2>3. (2 * k - 1) + 1 = 2 * k BY <1>5
  <2> HIDE DEF ks, vals, d
  <2>4. 2 * k - 1 \in Keys(d) /\ d.items[2 * k - 1] = ks[k] /\ d.items[2 * k] = vals[k]
    BY <1>9 DEF IsMapOf
  <2> QED BY <2>1, <2>2, <2>3, <2>4
<1>12. \A k \in 1..n : \E p \in v.entries : numbers[k] = p[1].of BY <1>5
<1> HIDE DEF d, ks, vals
<1>13. \A p \in v.entries : \E i \in Keys(d) :
          d.items[i] = EncodedPart(T.key, p[1]) /\ d.items[i + 1] = EncodedPart(T.of, p[2])
  <2> SUFFICES ASSUME NEW p \in v.entries
               PROVE  \E i \in Keys(d) : /\ d.items[i] = EncodedPart(T.key, p[1])
                                         /\ d.items[i + 1] = EncodedPart(T.of, p[2])
    OBVIOUS
  <2>1. PICK k \in 1..n : numbers[k] = p[1].of BY <1>5
  <2> QED BY <1>11, <2>1
<1>14. \A i \in Keys(d) : \E p \in v.entries :
          d.items[i] = EncodedPart(T.key, p[1]) /\ d.items[i + 1] = EncodedPart(T.of, p[2])
  <2> SUFFICES ASSUME NEW i \in Keys(d)
               PROVE  \E p \in v.entries : /\ d.items[i] = EncodedPart(T.key, p[1])
                                           /\ d.items[i + 1] = EncodedPart(T.of, p[2])
    OBVIOUS
  <2>1. PICK k \in 1..n : i = 2 * k - 1 BY <1>9 DEF IsMapOf
  <2>2. PICK p \in v.entries : numbers[k] = p[1].of BY <1>12
  <2> QED BY <1>11, <2>1, <2>2
<1>15. KeysDiffer(d)
  <2> SUFFICES ASSUME NEW i \in Keys(d), NEW j \in Keys(d), d.items[i] = d.items[j] PROVE i = j
    BY DEF KeysDiffer, Keys
  <2>1. PICK k \in 1..n, m \in 1..n : i = 2 * k - 1 /\ j = 2 * m - 1
    BY <1>9 DEF IsMapOf
  <2>2. PICK p \in v.entries, q \in v.entries : numbers[k] = p[1].of /\ numbers[m] = q[1].of
    BY <1>12
  <2>3. EncodedPart(T.key, p[1]) = EncodedPart(T.key, q[1]) BY <1>11, <2>1, <2>2
  <2>4. /\ DecodedPart(T.key, EncodedPart(T.key, p[1])) = Accepted(p[1])
        /\ DecodedPart(T.key, EncodedPart(T.key, q[1])) = Accepted(q[1])
    BY <1>1, <1>2 DEF PartsLawful
  <2>a. Accepted(p[1]) = Accepted(q[1]) BY <2>3, <2>4
  <2>5. p[1] = q[1] BY <2>a, ResultsAre
  <2>6. numbers[k] = numbers[m] BY <2>2, <2>5
  <2> QED BY <1>5, <2>1, <2>6
<1>16. d.kind = "map" /\ DOMAIN d.items = 1..Len(d.items) /\ Len(d.items) \in Nat
  BY <1>5, <1>9 DEF IsMapOf
<1>17. ASSUME NEW i \in DOMAIN d.items
       PROVE  \E p \in v.entries : d.items[i] \in {EncodedPart(T.key, p[1]), EncodedPart(T.of, p[2])}
  <2>1. PICK k \in 1..n : d.items[i] \in {ks[k], vals[k]} BY <1>5, <1>9, PlacesOf
  <2>2. PICK p \in v.entries : numbers[k] = p[1].of BY <1>12
  <2>3. d.items[2 * k - 1] = ks[k] /\ d.items[2 * k] = vals[k] BY <1>9 DEF IsMapOf
  <2>4. (2 * k - 1) + 1 = 2 * k BY <1>5
  <2> QED BY <1>11, <2>1, <2>2, <2>3, <2>4
<1> QED BY <1>13, <1>14, <1>15, <1>16, <1>17 DEF d

LEMMA HasItemsMade ==
    ASSUME NEW f, NEW types, IsFunction(f), DOMAIN f = DOMAIN types,
           \A i \in DOMAIN types : HasTypePart(types[i], f[i])
    PROVE  HasItems(Many(f), types)
BY SomeIsNotNone DEF HasItems

\* Decoded parts, put together.
LEMMA AllAcceptedTyped ==
    ASSUME PartsLawful, NEW reads, NEW types, DOMAIN reads = DOMAIN types, AllAccepted(reads).ok,
           \A i \in DOMAIN types : reads[i].ok => HasTypePart(types[i], reads[i].value)
    PROVE  HasItems(AllAccepted(reads).value, types)
<1> DEFINE f == [i \in DOMAIN reads |-> reads[i].value]
<1>1. AllAccepted(reads) = Accepted(Many(f)) /\ \A i \in DOMAIN reads : reads[i].ok
  BY AllAcceptedReads
<1>2. IsFunction(f) /\ DOMAIN f = DOMAIN types BY DEF IsFunction
<1>3. \A i \in DOMAIN types : HasTypePart(types[i], f[i]) BY <1>1
<1> HIDE DEF f
<1>4. HasItems(Many(f), types) BY <1>2, <1>3, HasItemsMade
<1> QED BY <1>1, <1>4, ResultsAre

LEMMA MapTyped ==
    ASSUME PartsLawful, NEW T, WellFormed(T), T.form = "map", NEW d, IsDatex(d), DecodedMap(T, d).ok
    PROVE  HasType(T, DecodedMap(T, d).value)
<1> DEFINE keys == [i \in Keys(d) |-> DecodedPart(T.key, d.items[i])]
           vals == [i \in Keys(d) |-> DecodedPart(T.of, d.items[i + 1])]
           last == {i \in Keys(d) : \A j \in Keys(d) : keys[j] = keys[i] => j <= i}
           entries == {<<keys[i].value, vals[i].value>> : i \in last}
<1>1. /\ d.kind = "map" /\ \A i \in Keys(d) : keys[i].ok /\ vals[i].ok
      /\ DecodedMap(T, d) = Accepted(Entries(entries))
  BY ResultsAre, AcceptedIs DEF DecodedMap
<1>2. PICK R : d \in R /\ Datexes(R) BY DEF IsDatex
<1>3. PICK n \in Nat : Len(d.items) = 2 * n BY <1>1, <1>2 DEF Datexes
<1>4. /\ DOMAIN d.items = 1..Len(d.items)
      /\ \A i \in DOMAIN d.items : IsDatex(d.items[i])
  BY <1>1, DatexItems
<1>5. \A i \in Keys(d) : i \in Nat /\ IsDatex(d.items[i]) /\ IsDatex(d.items[i + 1])
  <2> SUFFICES ASSUME NEW i \in Keys(d)
               PROVE  i \in Nat /\ IsDatex(d.items[i]) /\ IsDatex(d.items[i + 1])
    OBVIOUS
  <2>1. i \in 1..(2 * n) /\ i % 2 = 1 BY <1>3, <1>4 DEF Keys
  <2>2. i + 1 \in 1..(2 * n) BY <2>1
  <2> QED BY <1>3, <1>4, <2>1, <2>2
<1>6. /\ WellFormedPart(T.key) /\ WellFormedPart(T.of) BY PartsOf
<1>7. ASSUME NEW i \in Keys(d)
      PROVE  HasTypePart(T.key, keys[i].value) /\ HasTypePart(T.of, vals[i].value)
  <2>1. keys[i] = DecodedPart(T.key, d.items[i]) /\ vals[i] = DecodedPart(T.of, d.items[i + 1])
    OBVIOUS
  <2> HIDE DEF keys, vals
  <2> QED BY <1>1, <1>5, <1>6, <2>1 DEF PartsLawful
<1>8. \A i \in Keys(d) : keys[i] = Accepted(keys[i].value)
  <2> SUFFICES ASSUME NEW i \in Keys(d) PROVE keys[i] = Accepted(keys[i].value)
    OBVIOUS
  <2>1. keys[i] = DecodedPart(T.key, d.items[i]) OBVIOUS
  <2>2. Read(keys[i])
    <3> HIDE DEF keys
    <3> QED BY <1>6, <2>1 DEF PartsLawful
  <2> HIDE DEF keys
  <2> QED BY <1>1, <2>2, AcceptedIs DEF Read
<1>9. IsFiniteSet(entries)
  <2> DEFINE f == [i \in last |-> <<keys[i].value, vals[i].value>>]
  <2>1. IsFiniteSet(DOMAIN d.items)
    <3>1. 1 \in Int /\ Len(d.items) \in Int BY <1>3
    <3> QED BY <1>4, <3>1, FS_Interval
  <2>2. last \in SUBSET DOMAIN d.items BY DEF Keys
  <2>3. IsFiniteSet(last)
    <3> HIDE DEF last
    <3> QED BY <2>1, <2>2, FS_Subset
  <2>4. DOMAIN f = last /\ IsFunction(f) BY DEF IsFunction
  <2>5. IsFiniteSet({f[x] : x \in DOMAIN f})
    <3> HIDE DEF f
    <3> QED BY <2>3, <2>4, ImageFinite
  <2>6. {f[x] : x \in DOMAIN f} = entries OBVIOUS
  <2> QED BY <2>5, <2>6
<1> HIDE DEF keys, vals
<1>10. \A p \in entries : p = <<p[1], p[2]>> /\ HasTypePart(T.key, p[1]) /\ HasTypePart(T.of, p[2])
  <2>1. last \subseteq Keys(d) OBVIOUS
  <2> QED BY <1>7, <2>1
<1>11. \A p, q \in entries : p[1] = q[1] => p = q
  <2> SUFFICES ASSUME NEW p \in entries, NEW q \in entries, p[1] = q[1] PROVE p = q
    OBVIOUS
  <2>1. PICK i \in last : p = <<keys[i].value, vals[i].value>> OBVIOUS
  <2>2. PICK j \in last : q = <<keys[j].value, vals[j].value>> OBVIOUS
  <2>3. i \in Keys(d) /\ j \in Keys(d) OBVIOUS
  <2>4. keys[i] = keys[j] BY <1>8, <2>1, <2>2, <2>3
  <2>5. i <= j /\ j <= i BY <2>3, <2>4
  <2>6. i = j BY <1>5, <2>3, <2>5
  <2> QED BY <2>1, <2>2, <2>6
<1> HIDE DEF entries
<1>12. Entries(entries).entries = entries BY SomeIsNotNone
<1>13. HasType(T, Entries(entries)) BY <1>9, <1>10, <1>11, <1>12, HasTypeByForm
<1> QED BY <1>1, <1>13, ResultsAre

LEMMA LargestIs ==
    ASSUME NEW S, S \subseteq Nat, S # {}, NEW n \in Nat, \A x \in S : x <= n
    PROVE  Max(S) \in S
<1> DEFINE R == {n - x : x \in S}
<1>1. R \subseteq Nat /\ R # {}
  <2>1. \A x \in S : n - x \in Nat OBVIOUS
  <2>2. PICK x \in S : TRUE OBVIOUS
  <2>3. n - x \in R OBVIOUS
  <2> QED BY <2>1, <2>3
<1>2. PICK r \in R : \A y \in R : r <= y
  <2> HIDE DEF R
  <2> QED BY <1>1, LeastExists
<1>3. PICK x \in S : r = n - x OBVIOUS
<1>4. \A y \in S : x >= y
  <2> SUFFICES ASSUME NEW y \in S PROVE x >= y
    OBVIOUS
  <2>1. n - y \in R OBVIOUS
  <2>2. n - x <= n - y BY <1>2, <1>3, <2>1
  <2>3. x \in Nat /\ y \in Nat OBVIOUS
  <2> QED BY <2>2, <2>3
<1> QED BY <1>4 DEF Max

\* What a struct reads for a field is in the map.
LEMMA EntryDatex ==
    ASSUME NEW d, IsDatex(d), d.kind = "map", NEW id, EntriesOf(d, id) # {}
    PROVE  IsDatex(EntryOf(d, id))
<1>1. PICK R : d \in R /\ Datexes(R) BY DEF IsDatex
<1>2. PICK n \in Nat : Len(d.items) = 2 * n BY <1>1 DEF Datexes
<1>3. DOMAIN d.items = 1..(2 * n) /\ \A i \in DOMAIN d.items : IsDatex(d.items[i])
  BY <1>2, DatexItems
<1>4. \A i \in EntriesOf(d, id) : i \in 1..(2 * n) /\ i % 2 = 1 BY <1>3 DEF EntriesOf, Keys
<1>5. Max(EntriesOf(d, id)) \in EntriesOf(d, id)
  <2>1. EntriesOf(d, id) \subseteq Nat /\ \A i \in EntriesOf(d, id) : i <= 2 * n BY <1>4
  <2>2. 2 * n \in Nat OBVIOUS
  <2> QED BY <2>1, <2>2, LargestIs
<1>6. Max(EntriesOf(d, id)) \in 1..(2 * n) /\ Max(EntriesOf(d, id)) % 2 = 1 BY <1>4, <1>5
<1>7. Max(EntriesOf(d, id)) + 1 \in 1..(2 * n) BY <1>6
<1> QED BY <1>3, <1>7 DEF EntryOf

LEMMA DecodedTyped ==
    ASSUME PartsLawful, NEW T, WellFormed(T), NEW d, IsDatex(d), Decoded(T, d).ok
    PROVE  HasType(T, Decoded(T, d).value)
<1> DEFINE v == Decoded(T, d).value
<1>0. Refused.ok = FALSE BY AcceptedIs
<1>a. ASSUME NEW x, Decoded(T, d) = Accepted(One(x)) PROVE v = One(x) /\ v.of = x
  <2>1. v = One(x) BY <1>a, ResultsAre
  <2> QED BY <2>1 DEF One
<1>1. CASE T.form = "uint"
  <2>1. Decoded(T, d) = DecodedUint(T, d) BY <1>1, DecodedByForm
  <2>2. Decoded(T, d) = Accepted(One(d.number)) /\ d.number \in 0..T.max
    BY <1>0, <2>1 DEF DecodedUint, InRange
  <2>3. v = One(d.number) /\ v.of = d.number BY <1>a, <2>2
  <2> QED BY <1>1, <2>2, <2>3, HasTypeByForm
<1>2. CASE T.form = "int"
  <2>1. Decoded(T, d) = DecodedInt(T, d) BY <1>2, DecodedByForm
  <2>2. Decoded(T, d) = Accepted(One(d.number)) /\ d.number \in T.min..T.max
    BY <1>0, <2>1 DEF DecodedInt, InRange
  <2>3. v = One(d.number) /\ v.of = d.number BY <1>a, <2>2
  <2> QED BY <1>2, <2>2, <2>3, HasTypeByForm
<1>3. CASE T.form = "float"
  <2>1. Decoded(T, d) = DecodedFloat(T, d) BY <1>3, DecodedByForm
  <2>2. Decoded(T, d) = Accepted(One(d.float))
    BY <1>0, <2>1 DEF DecodedFloat
  <2>3. v = One(d.float) /\ v.of = d.float BY <1>a, <2>2
  <2> QED BY <1>3, <2>2, <2>3, HasTypeByForm
<1>4. CASE T.form = "unit"
  <2>1. Decoded(T, d) = DecodedUnit(d) BY <1>4, DecodedByForm
  <2>2. Decoded(T, d) = Accepted(One(Nothing))
    BY <1>0, <2>1 DEF DecodedUnit
  <2>3. v = One(Nothing) /\ v.of = Nothing BY <1>a, <2>2
  <2> QED BY <1>4, <2>2, <2>3, HasTypeByForm
<1>5. CASE T.form = "bool"
  <2>1. Decoded(T, d) = DecodedBool(d) BY <1>5, DecodedByForm
  <2>2. Decoded(T, d) = Accepted(One(d.bool))
    BY <1>0, <2>1 DEF DecodedBool
  <2>3. v = One(d.bool) /\ v.of = d.bool BY <1>a, <2>2
  <2> QED BY <1>5, <2>2, <2>3, HasTypeByForm
<1>6. CASE T.form = "string"
  <2>1. Decoded(T, d) = DecodedString(d) BY <1>6, DecodedByForm
  <2>2. Decoded(T, d) = Accepted(One(d.octets))
    BY <1>0, <2>1 DEF DecodedString
  <2>3. v = One(d.octets) /\ v.of = d.octets BY <1>a, <2>2
  <2> QED BY <1>6, <2>2, <2>3, HasTypeByForm
<1>7. CASE T.form = "bytes"
  <2>1. Decoded(T, d) = DecodedBytes(d) BY <1>7, DecodedByForm
  <2>2. Decoded(T, d) = Accepted(One(d.octets))
    BY <1>0, <2>1 DEF DecodedBytes
  <2>3. v = One(d.octets) /\ v.of = d.octets BY <1>a, <2>2
  <2> QED BY <1>7, <2>2, <2>3, HasTypeByForm
<1>8. CASE T.form = "variant"
  <2>1. Decoded(T, d) = DecodedVariant(d) BY <1>8, DecodedByForm
  <2>2. Decoded(T, d) = Accepted(One(Nothing))
    BY <1>0, <2>1 DEF DecodedVariant
  <2>3. v = One(Nothing) /\ v.of = Nothing BY <1>a, <2>2
  <2> QED BY <1>8, <2>2, <2>3, HasTypeByForm
<1>9. CASE T.form = "option"
  <2> DEFINE item == DecodedPart(T.of, d)
  <2>1. Decoded(T, d) = DecodedOption(T, d) BY <1>9, DecodedByForm
  <2>2. CASE d.kind = "null"
    <3>1. Decoded(T, d) = Accepted(NoneOf) BY <2>1, <2>2 DEF DecodedOption
    <3>2. v = NoneOf BY <3>1, ResultsAre
    <3> QED BY <1>9, <3>2, HasTypeByForm
  <2>3. CASE d.kind # "null"
    <3>1. item.ok /\ Decoded(T, d) = Accepted(One(item.value))
      BY <2>1, <2>3, AcceptedIs DEF DecodedOption
    <3>2. v = One(item.value) /\ v.of = item.value BY <1>a, <3>1
    <3>3. HasTypePart(T.of, item.value) /\ Read(item) /\ (item = Accepted(NoneOf) => d.kind = "null")
      BY <1>9, <3>1, PartsOf DEF PartsLawful
    <3>4. item.value # NoneOf BY <2>3, <3>1, <3>3, AcceptedIs DEF Read
    <3> QED BY <1>9, <3>2, <3>3, <3>4, HasTypeByForm
  <2> QED BY <2>2, <2>3
<1>10. CASE T.form = "vec"
  <2> DEFINE reads == [i \in DOMAIN d.items |-> DecodedPart(T.of, d.items[i])]
             types == [i \in DOMAIN d.items |-> T.of]
  <2>1. d.kind = "array" /\ Decoded(T, d) = AllAccepted(reads)
    BY <1>10, DecodedByForm, AcceptedIs DEF DecodedVec
  <2>2. \A i \in DOMAIN d.items : IsDatex(d.items[i]) BY <2>1, DatexItems
  <2>3. \A i \in DOMAIN types : reads[i].ok => HasTypePart(types[i], reads[i].value)
    BY <1>10, <2>2, PartsOf DEF PartsLawful
  <2>4. DOMAIN reads = DOMAIN types OBVIOUS
  <2>5. HasItems(v, types)
    <3> HIDE DEF reads, types
    <3> QED BY <2>1, <2>3, <2>4, AllAcceptedTyped
  <2>6. DOMAIN v.items = DOMAIN d.items BY <2>5 DEF HasItems
  <2> QED BY <1>10, <2>5, <2>6, HasTypeByForm
<1>11. CASE T.form = "map" BY <1>11, DecodedByForm, MapTyped
<1>12. CASE T.form = "tuple"
  <2> DEFINE reads == [i \in DOMAIN T.types |-> DecodedPart(T.types[i], d.items[i])]
  <2>1. /\ d.kind = "array" /\ Len(d.items) = Len(T.types) /\ Decoded(T, d) = AllAccepted(reads)
    BY <1>12, DecodedByForm, AcceptedIs DEF DecodedTuple
  <2>2. \A i \in DOMAIN T.types : IsDatex(d.items[i])
    <3>1. DOMAIN T.types = 1..Len(T.types) BY <1>12, PartsOf
    <3> QED BY <2>1, <3>1, DatexItems
  <2>3. \A i \in DOMAIN T.types : reads[i].ok => HasTypePart(T.types[i], reads[i].value)
    BY <1>12, <2>2, PartsOf DEF PartsLawful
  <2>4. DOMAIN reads = DOMAIN T.types OBVIOUS
  <2>5. HasItems(v, T.types)
    <3> HIDE DEF reads
    <3> QED BY <2>1, <2>3, <2>4, AllAcceptedTyped
  <2> QED BY <1>12, <2>5, HasTypeByForm
<1>13. CASE T.form = "struct"
  <2> DEFINE reads == [i \in DOMAIN T.fields |-> DecodedField(T.fields[i], d)]
  <2>1. d.kind = "map" /\ Decoded(T, d) = AllAccepted(reads)
    BY <1>13, DecodedByForm, AcceptedIs DEF DecodedStruct, IsStructMap
  <2> DEFINE types == FieldTypes(T.fields)
  <2>2. ASSUME NEW i \in DOMAIN T.fields, reads[i].ok
        PROVE  HasTypePart(T.fields[i].type, reads[i].value)
    <3>1. reads[i] = DecodedField(T.fields[i], d) OBVIOUS
    <3>2. CASE EntriesOf(d, T.fields[i].id) # {}
      <4>1. IsDatex(EntryOf(d, T.fields[i].id)) BY <2>1, <3>2, EntryDatex
      <4> QED BY <1>13, <2>2, <3>1, <3>2, <4>1, PartsOf DEF PartsLawful, DecodedField
    <3>3. CASE EntriesOf(d, T.fields[i].id) = {} /\ T.fields[i].type.form = "option"
      <4>1. reads[i] = Accepted(NoneOf) BY <3>1, <3>3 DEF DecodedField
      <4>2. HasTypePart(T.fields[i].type, NoneOf) BY <1>13, <3>3, PartsOf DEF PartsLawful
      <4> QED BY <4>1, <4>2, ResultsAre
    <3> QED BY <2>2, <3>1, <3>2, <3>3, AcceptedIs DEF DecodedField
  <2>3. \A i \in DOMAIN types : reads[i].ok => HasTypePart(types[i], reads[i].value)
    BY <2>2 DEF FieldTypes
  <2>4. DOMAIN reads = DOMAIN types BY DEF FieldTypes
  <2>5. HasItems(v, types)
    <3> HIDE DEF reads, types
    <3> QED BY <2>1, <2>3, <2>4, AllAcceptedTyped
  <2> QED BY <1>13, <2>5, HasTypeByForm
<1>14. CASE T.form = "enum"
  <2> DEFINE i == d.items[1].number
             payload == DecodedPart(T.payloads[i + 1], d.items[2])
  <2>1. /\ d.kind = "map" /\ Len(d.items) = 2
        /\ d.items[1].kind = "number" /\ ~(i >= Len(T.payloads))
        /\ payload.ok /\ Decoded(T, d) = Accepted(Variant(i, payload.value))
    <3>1. Decoded(T, d) = DecodedEnum(T, d) BY <1>14, DecodedByForm
    <3> QED BY <1>0, <3>1 DEF DecodedEnum
  <2>2. IsDatex(d.items[1]) /\ IsDatex(d.items[2]) BY <2>1, DatexItems
  <2>3. i \in Nat BY <2>1, <2>2 DEF IsDatex, Datexes
  <2>4. i \in 0..(Len(T.payloads) - 1) /\ i + 1 \in DOMAIN T.payloads
    BY <1>14, <2>1, <2>3, PartsOf
  <2>5. HasTypePart(T.payloads[i + 1], payload.value)
    BY <1>14, <2>1, <2>2, <2>4, PartsOf DEF PartsLawful
  <2>6. v = Variant(i, payload.value) BY <2>1, ResultsAre
  <2>7. v.variant = i /\ v.with = payload.value BY <2>6, SomeIsNotNone
  <2> QED BY <1>14, <2>4, <2>5, <2>6, <2>7, HasTypeByForm
<1> QED BY <1>1, <1>2, <1>3, <1>4, <1>5, <1>6, <1>7, <1>8, <1>9, <1>10, <1>11, <1>12, <1>13,
           <1>14, FormKnown DEF Forms

----------------------------------------------------------------------------
(* What is encoded is decoded.                                             *)

LEMMA AllRead ==
    ASSUME NEW reads, NEW f, IsFunction(f), DOMAIN reads = DOMAIN f,
           \A i \in DOMAIN f : reads[i] = Accepted(f[i])
    PROVE  AllAccepted(reads) = Accepted(Many(f))
<1>a. \A x : Accepted(x).ok /\ Accepted(x).value = x BY ResultsAre
<1>1. \A i \in DOMAIN reads : reads[i].ok /\ reads[i].value = f[i] BY <1>a
<1>2. [i \in DOMAIN reads |-> reads[i].value] = [i \in DOMAIN f |-> f[i]] BY <1>1
<1>3. [i \in DOMAIN f |-> f[i]] = f BY DEF IsFunction
<1>4. AllAccepted(reads) = Accepted(Many([i \in DOMAIN reads |-> reads[i].value]))
  BY <1>1, AllAcceptedReads
<1> QED BY <1>2, <1>3, <1>4

LEMMA ContainersAre ==
    ASSUME NEW f
    PROVE  /\ ArrayValue(f).kind = "array" /\ ArrayValue(f).items = f
           /\ MapValue(f).kind = "map" /\ MapValue(f).items = f
BY DEF ArrayValue, MapValue, ContainerValue

LEMMA MapRoundTrip ==
    ASSUME PartsLawful, NEW T, WellFormed(T), T.form = "map", NEW v, HasType(T, v)
    PROVE  DecodedMap(T, EncodedMap(T, v)) = Accepted(v)
<1> DEFINE d == EncodedMap(T, v)
           keys == [i \in Keys(d) |-> DecodedPart(T.key, d.items[i])]
           vals == [i \in Keys(d) |-> DecodedPart(T.of, d.items[i + 1])]
           last == {i \in Keys(d) : \A j \in Keys(d) : keys[j] = keys[i] => j <= i}
           entries == {<<keys[i].value, vals[i].value>> : i \in last}
<1>1. /\ d.kind = "map" /\ KeysDiffer(d) /\ DOMAIN d.items = 1..Len(d.items)
      /\ \A p \in v.entries : \E i \in Keys(d) :
           d.items[i] = EncodedPart(T.key, p[1]) /\ d.items[i + 1] = EncodedPart(T.of, p[2])
      /\ \A i \in Keys(d) : \E p \in v.entries :
           d.items[i] = EncodedPart(T.key, p[1]) /\ d.items[i + 1] = EncodedPart(T.of, p[2])
  BY MapEncoded
<1>2. DecodedMap(T, d) =
          IF d.kind # "map" THEN Refused
          ELSE IF \E i \in Keys(d) : ~keys[i].ok \/ ~vals[i].ok THEN Refused
          ELSE Accepted(Entries(entries))
  BY DEF DecodedMap
<1> HIDE DEF d
<1>3. WellFormedPart(T.key) /\ WellFormedPart(T.of) BY PartsOf
<1>4. /\ v = Entries(v.entries)
      /\ \A p \in v.entries :
           p = <<p[1], p[2]>> /\ HasTypePart(T.key, p[1]) /\ HasTypePart(T.of, p[2])
      /\ \A p, q \in v.entries : p[1] = q[1] => p = q
  BY HasTypeByForm
<1>5. ASSUME NEW i \in Keys(d), NEW p \in v.entries,
             d.items[i] = EncodedPart(T.key, p[1]), d.items[i + 1] = EncodedPart(T.of, p[2])
      PROVE  keys[i] = Accepted(p[1]) /\ vals[i] = Accepted(p[2])
  <2>1. /\ DecodedPart(T.key, EncodedPart(T.key, p[1])) = Accepted(p[1])
        /\ DecodedPart(T.of, EncodedPart(T.of, p[2])) = Accepted(p[2])
    BY <1>3, <1>4 DEF PartsLawful
  <2> QED BY <1>5, <2>1
<1> HIDE DEF keys, vals
<1>6. \A i \in Keys(d) : \E p \in v.entries :
          /\ d.items[i] = EncodedPart(T.key, p[1])
          /\ keys[i] = Accepted(p[1]) /\ vals[i] = Accepted(p[2])
  BY <1>1, <1>5
<1>a. \A x : Accepted(x).ok BY ResultsAre
<1>7. \A i \in Keys(d) : keys[i].ok /\ vals[i].ok BY <1>6, <1>a
<1>8. last = Keys(d)
  <2> SUFFICES ASSUME NEW i \in Keys(d), NEW j \in Keys(d), keys[j] = keys[i] PROVE j <= i
    OBVIOUS
  <2>1. PICK p \in v.entries : d.items[i] = EncodedPart(T.key, p[1]) /\ keys[i] = Accepted(p[1])
    BY <1>6
  <2>2. PICK q \in v.entries : d.items[j] = EncodedPart(T.key, q[1]) /\ keys[j] = Accepted(q[1])
    BY <1>6
  <2>a. Accepted(p[1]) = Accepted(q[1]) BY <2>1, <2>2
  <2>3. p[1] = q[1] BY <2>a, ResultsAre
  <2>4. i = j BY <1>1, <2>1, <2>2, <2>3 DEF KeysDiffer, Keys
  <2>5. i \in Int
    <3>1. i \in 1..Len(d.items) BY <1>1 DEF Keys
    <3> QED BY <3>1
  <2> QED BY <2>4, <2>5
<1>9. entries = v.entries
  <2>1. ASSUME NEW x \in entries PROVE x \in v.entries
    <3>1. PICK i \in Keys(d) : x = <<keys[i].value, vals[i].value>> BY <1>8
    <3>2. PICK p \in v.entries : keys[i] = Accepted(p[1]) /\ vals[i] = Accepted(p[2]) BY <1>6
    <3>3. keys[i].value = p[1] /\ vals[i].value = p[2] BY <3>2, ResultsAre
    <3> QED BY <1>4, <3>1, <3>3
  <2>2. ASSUME NEW p \in v.entries PROVE p \in entries
    <3>1. PICK i \in Keys(d) :
              d.items[i] = EncodedPart(T.key, p[1]) /\ d.items[i + 1] = EncodedPart(T.of, p[2])
      BY <1>1
    <3>2. keys[i] = Accepted(p[1]) /\ vals[i] = Accepted(p[2]) BY <1>5, <3>1
    <3>3. keys[i].value = p[1] /\ vals[i].value = p[2] BY <3>2, ResultsAre
    <3>4. p = <<keys[i].value, vals[i].value>> /\ i \in last BY <1>4, <1>8, <3>3
    <3> QED BY <3>4
  <2> QED BY <2>1, <2>2
<1> HIDE DEF entries
<1>10. DecodedMap(T, d) = Accepted(Entries(entries)) BY <1>1, <1>2, <1>7
<1> QED BY <1>4, <1>9, <1>10 DEF d

LEMMA RoundTrips ==
    ASSUME PartsLawful, NEW T, WellFormed(T), NEW v, HasType(T, v)
    PROVE  Decoded(T, Encoded(T, v)) = Accepted(v)
<1> DEFINE d == Encoded(T, v)
<1>1. CASE T.form = "uint"
  <2>1. v = One(v.of) /\ v.of \in 0..T.max BY <1>1, HasTypeByForm
  <2>2. d = NumberValue(v.of) BY <1>1, EncodedByForm
  <2>3. d.kind = "number" /\ d.number = v.of BY <2>2 DEF NumberValue
  <2>4. Decoded(T, d) = DecodedUint(T, d) BY <1>1, DecodedByForm
  <2> QED BY <2>1, <2>3, <2>4 DEF DecodedUint, InRange
<1>2. CASE T.form = "int"
  <2>1. v = One(v.of) /\ v.of \in T.min..T.max BY <1>2, HasTypeByForm
  <2>2. d = SignedValue(v.of) BY <1>2, EncodedByForm
  <2>3. d.kind = "signed" /\ d.number = v.of BY <2>2 DEF SignedValue
  <2>4. Decoded(T, d) = DecodedInt(T, d) BY <1>2, DecodedByForm
  <2> QED BY <2>1, <2>3, <2>4 DEF DecodedInt, InRange
<1>3. CASE T.form = "float"
  <2>1. v = One(v.of) BY <1>3, HasTypeByForm
  <2>2. d = FloatValue(T.width, v.of) BY <1>3, EncodedByForm
  <2>3. d.kind = "float" /\ d.width = T.width /\ d.float = v.of BY <2>2 DEF FloatValue
  <2>4. Decoded(T, d) = DecodedFloat(T, d) BY <1>3, DecodedByForm
  <2> QED BY <2>1, <2>3, <2>4 DEF DecodedFloat
<1>4. CASE T.form = "unit"
  <2>1. v = One(Nothing) BY <1>4, HasTypeByForm
  <2>2. d = UnitValue BY <1>4, EncodedByForm
  <2>3. d.kind = "unit" BY <2>2 DEF UnitValue
  <2>4. Decoded(T, d) = DecodedUnit(d) BY <1>4, DecodedByForm
  <2> QED BY <2>1, <2>3, <2>4 DEF DecodedUnit
<1>5. CASE T.form = "bool"
  <2>1. v = One(v.of) BY <1>5, HasTypeByForm
  <2>2. d = BoolValue(v.of) BY <1>5, EncodedByForm
  <2>3. d.kind = "bool" /\ d.bool = v.of BY <2>2 DEF BoolValue
  <2>4. Decoded(T, d) = DecodedBool(d) BY <1>5, DecodedByForm
  <2> QED BY <2>1, <2>3, <2>4 DEF DecodedBool
<1>6. CASE T.form = "string"
  <2>1. v = One(v.of) BY <1>6, HasTypeByForm
  <2>2. d = TextValue(v.of) BY <1>6, EncodedByForm
  <2>3. d.kind = "text" /\ d.octets = v.of BY <2>2 DEF TextValue
  <2>4. Decoded(T, d) = DecodedString(d) BY <1>6, DecodedByForm
  <2> QED BY <2>1, <2>3, <2>4 DEF DecodedString
<1>7. CASE T.form = "bytes"
  <2>1. v = One(v.of) BY <1>7, HasTypeByForm
  <2>2. d = BytesValue(v.of) BY <1>7, EncodedByForm
  <2>3. d.kind = "bytes" /\ d.octets = v.of BY <2>2 DEF BytesValue
  <2>4. Decoded(T, d) = DecodedBytes(d) BY <1>7, DecodedByForm
  <2> QED BY <2>1, <2>3, <2>4 DEF DecodedBytes
<1>8. CASE T.form = "variant"
  <2>1. v = One(Nothing) BY <1>8, HasTypeByForm
  <2>2. d = BoolValue(TRUE) BY <1>8, EncodedByForm
  <2>3. Decoded(T, d) = DecodedVariant(d) BY <1>8, DecodedByForm
  <2> QED BY <2>1, <2>2, <2>3 DEF DecodedVariant
<1>9. CASE T.form = "option"
  <2>1. d = EncodedOption(T, v) /\ Decoded(T, d) = DecodedOption(T, d)
    BY <1>9, EncodedByForm, DecodedByForm
  <2>2. CASE v = NoneOf
    <3>1. d.kind = "null" BY <2>1, <2>2 DEF EncodedOption, NullValue
    <3> QED BY <2>1, <2>2, <3>1 DEF DecodedOption
  <2>3. CASE v # NoneOf
    <3>1. v = One(v.of) /\ v.of # NoneOf /\ HasTypePart(T.of, v.of) BY <1>9, <2>3, HasTypeByForm
    <3>2. d = EncodedPart(T.of, v.of) BY <2>1, <2>3 DEF EncodedOption
    <3>3. d.kind # "null" /\ DecodedPart(T.of, d) = Accepted(v.of)
      BY <1>9, <3>1, <3>2, PartsOf DEF PartsLawful
    <3>4. DecodedPart(T.of, d).ok /\ DecodedPart(T.of, d).value = v.of BY <3>3, ResultsAre
    <3> QED BY <2>1, <3>1, <3>3, <3>4 DEF DecodedOption
  <2> QED BY <2>2, <2>3
<1>10. CASE T.form = "vec"
  <2> DEFINE reads == [i \in DOMAIN d.items |-> DecodedPart(T.of, d.items[i])]
  <2>1. v = Many(v.items) /\ IsFunction(v.items) /\ \A i \in DOMAIN v.items : HasTypePart(T.of, v.items[i])
    BY <1>10, HasTypeByForm DEF HasItems
  <2>2. d = ArrayValue([i \in DOMAIN v.items |-> EncodedPart(T.of, v.items[i])])
    BY <1>10, EncodedByForm DEF EncodedVec
  <2>3. d.kind = "array" /\ d.items = [i \in DOMAIN v.items |-> EncodedPart(T.of, v.items[i])]
    BY <2>2, ContainersAre
  <2>4. Decoded(T, d) = AllAccepted(reads) BY <1>10, <2>3, DecodedByForm DEF DecodedVec
  <2>5. \A i \in DOMAIN v.items : reads[i] = Accepted(v.items[i])
    BY <1>10, <2>1, <2>3, PartsOf DEF PartsLawful
  <2>6. DOMAIN reads = DOMAIN v.items BY <2>3
  <2> HIDE DEF reads
  <2> QED BY <2>1, <2>4, <2>5, <2>6, AllRead
<1>11. CASE T.form = "map"
  <2>1. d = EncodedMap(T, v) /\ Decoded(T, d) = DecodedMap(T, d)
    BY <1>11, DecodedByForm, EncodedByForm
  <2> QED BY <1>11, <2>1, MapRoundTrip
<1>12. CASE T.form = "tuple"
  <2> DEFINE reads == [i \in DOMAIN T.types |-> DecodedPart(T.types[i], d.items[i])]
             its == [i \in DOMAIN T.types |-> EncodedPart(T.types[i], v.items[i])]
  <2>1. /\ v = Many(v.items) /\ IsFunction(v.items) /\ DOMAIN v.items = DOMAIN T.types
        /\ \A i \in DOMAIN T.types : HasTypePart(T.types[i], v.items[i])
    BY <1>12, HasTypeByForm DEF HasItems
  <2>2. d = ArrayValue(its) BY <1>12, EncodedByForm DEF EncodedTuple
  <2>3. d.kind = "array" /\ d.items = its BY <2>2, ContainersAre
  <2>4. Len(its) = Len(T.types)
    <3>1. Len(T.types) \in Nat /\ DOMAIN T.types = 1..Len(T.types) BY <1>12, PartsOf
    <3>2. its = [i \in 1..Len(T.types) |-> its[i]] BY <3>1
    <3> HIDE DEF its
    <3> QED BY <3>1, <3>2, SequenceIs
  <2>5. Decoded(T, d) = AllAccepted(reads)
    <3>1. Decoded(T, d) = DecodedTuple(T, d) BY <1>12, DecodedByForm
    <3> QED BY <2>3, <2>4, <3>1 DEF DecodedTuple
  <2>6. \A i \in DOMAIN v.items : reads[i] = Accepted(v.items[i])
    BY <1>12, <2>1, <2>3, PartsOf DEF PartsLawful
  <2>7. DOMAIN reads = DOMAIN v.items BY <2>1
  <2> HIDE DEF reads
  <2> QED BY <2>1, <2>5, <2>6, <2>7, AllRead
<1>13. CASE T.form = "struct"
  <2> DEFINE reads == [i \in DOMAIN T.fields |-> DecodedField(T.fields[i], d)]
  <2>1. /\ v = Many(v.items) /\ IsFunction(v.items) /\ DOMAIN v.items = DOMAIN T.fields
        /\ \A i \in DOMAIN T.fields : HasTypePart(T.fields[i].type, v.items[i])
    BY <1>13, HasTypeByForm DEF HasItems, FieldTypes
  <2>2. d = EncodedStruct(T, v) /\ Decoded(T, d) = DecodedStruct(T, d)
    BY <1>13, EncodedByForm, DecodedByForm
  <2>3. /\ IsStructMap(T.fields, d)
        /\ \A i \in DOMAIN T.fields :
             /\ EntriesOf(d, T.fields[i].id) # {}
             /\ EntryOf(d, T.fields[i].id) = EncodedPart(T.fields[i].type, v.items[i])
    BY <1>13, <2>2, StructEncoded
  <2>4. Decoded(T, d) = AllAccepted(reads) BY <2>2, <2>3 DEF DecodedStruct
  <2>5. \A i \in DOMAIN v.items : reads[i] = Accepted(v.items[i])
    BY <1>13, <2>1, <2>3, PartsOf DEF PartsLawful, DecodedField
  <2>6. DOMAIN reads = DOMAIN v.items BY <2>1
  <2> HIDE DEF reads
  <2> QED BY <2>1, <2>4, <2>5, <2>6, AllRead
<1>14. CASE T.form = "enum"
  <2> DEFINE U == T.payloads[v.variant + 1]
  <2>1. /\ v = Variant(v.variant, v.with) /\ v.variant \in 0..(Len(T.payloads) - 1)
        /\ HasTypePart(U, v.with)
    BY <1>14, HasTypeByForm
  <2>2. d = MapValue(<<NumberValue(v.variant), EncodedPart(U, v.with)>>)
    BY <1>14, EncodedByForm DEF EncodedEnum
  <2>3. d.kind = "map" /\ d.items = <<NumberValue(v.variant), EncodedPart(U, v.with)>>
    BY <2>2, ContainersAre
  <2>4. /\ Len(d.items) = 2 /\ d.items[1] = NumberValue(v.variant)
        /\ d.items[2] = EncodedPart(U, v.with)
    BY <2>3
  <2>5. d.items[1].kind = "number" /\ d.items[1].number = v.variant BY <2>4 DEF NumberValue
  <2>6. v.variant + 1 \in DOMAIN T.payloads /\ ~(v.variant >= Len(T.payloads))
    BY <1>14, <2>1, PartsOf
  <2>7. DecodedPart(U, d.items[2]) = Accepted(v.with)
    BY <1>14, <2>1, <2>4, <2>6, PartsOf DEF PartsLawful
  <2>8. DecodedPart(U, d.items[2]).ok /\ DecodedPart(U, d.items[2]).value = v.with
    BY <2>7, ResultsAre
  <2>9. Decoded(T, d) = DecodedEnum(T, d) BY <1>14, DecodedByForm
  <2> HIDE DEF d
  <2> QED BY <2>1, <2>3, <2>4, <2>5, <2>6, <2>8, <2>9 DEF DecodedEnum, d
<1> QED BY <1>1, <1>2, <1>3, <1>4, <1>5, <1>6, <1>7, <1>8, <1>9, <1>10, <1>11, <1>12, <1>13,
           <1>14, FormKnown DEF Forms

\* A patch that is all of another value makes the one the other.
LEMMA PatchedWhole ==
    ASSUME PartsLawful, NEW T, WellFormed(T), NEW v, HasType(T, v), NEW w, HasType(T, w)
    PROVE  Patched(T, v, Encoded(T, w)) = Accepted(w)
<1> DEFINE d == Encoded(T, w)
<1>0. T.form \in Forms BY FormKnown
<1>a. Accepted(w).ok /\ Accepted(w).value = w BY ResultsAre
<1>b. Decoded(T, d) = Accepted(w) BY RoundTrips
<1>c. \A x : Replaced(x, Accepted(w)) = Accepted(w) BY <1>a DEF Replaced
<1>1. CASE T.form \notin {"struct", "option", "bytes"}
  BY <1>1, <1>b, <1>c, PatchedByForm
<1>2. CASE T.form = "bytes"
  <2>1. d = BytesValue(w.of) BY <1>2, EncodedByForm
  <2>2. d.kind # "array" BY <2>1 DEF BytesValue
  <2>3. PatchedBytes(d) = DecodedBytes(d) BY <2>2 DEF PatchedBytes
  <2>4. Decoded(T, d) = DecodedBytes(d) /\ Patched(T, v, d) = Replaced(v, PatchedBytes(d))
    BY <1>2, DecodedByForm, PatchedByForm
  <2> QED BY <1>b, <1>c, <2>3, <2>4
<1>3. CASE T.form = "option"
  <2>a. d = EncodedOption(T, w) BY <1>3, EncodedByForm
  <2>b. Patched(T, v, d) = PatchedOption(T, v, d)
    <3> HIDE DEF d
    <3> QED BY <1>3, PatchedByForm
  <2>c. Decoded(T, d) = DecodedOption(T, d)
    <3> HIDE DEF d
    <3> QED BY <1>3, DecodedByForm
  <2>1. /\ d = EncodedOption(T, w) /\ Decoded(T, d) = DecodedOption(T, d)
        /\ Patched(T, v, d) = PatchedOption(T, v, d)
    BY <2>a, <2>b, <2>c
  <2>2. CASE d.kind = "null" \/ v = NoneOf
    <3>1. PatchedOption(T, v, d) = Replaced(v, DecodedOption(T, d)) BY <2>2 DEF PatchedOption
    <3> QED BY <1>b, <1>c, <2>1, <3>1
  <2>3. CASE ~(d.kind = "null" \/ v = NoneOf)
    <3> DEFINE item == PatchedPart(T.of, v.of, d)
    <3>1. w # NoneOf BY <2>1, <2>3 DEF EncodedOption, NullValue
    <3>2. w = One(w.of) /\ HasTypePart(T.of, w.of) BY <1>3, <3>1, HasTypeByForm
    <3>3. HasTypePart(T.of, v.of) BY <1>3, <2>3, HasTypeByForm
    <3>4. d = EncodedPart(T.of, w.of) BY <2>1, <3>1 DEF EncodedOption
    <3>5. item = Accepted(w.of) BY <1>3, <3>2, <3>3, <3>4, PartsOf DEF PartsLawful
    <3>6. item.ok = TRUE /\ item.value = w.of BY <3>5, ResultsAre
    <3>7. PatchedOption(T, v, d) = [ok |-> item.ok, value |-> One(item.value)]
      BY <2>3 DEF PatchedOption
    <3>8. PatchedOption(T, v, d) = [ok |-> TRUE, value |-> w] BY <3>2, <3>6, <3>7
    <3> QED BY <2>1, <3>8 DEF Accepted
  <2> QED BY <2>2, <2>3
<1>4. CASE T.form = "struct"
  <2>a. d = EncodedStruct(T, w) BY <1>4, EncodedByForm
  <2>b. Patched(T, v, d) = PatchedStruct(T, v, d)
    <3> HIDE DEF d
    <3> QED BY <1>4, PatchedByForm
  <2>1. d = EncodedStruct(T, w) /\ Patched(T, v, d) = PatchedStruct(T, v, d) BY <2>a, <2>b
  <2>2. /\ IsStructMap(T.fields, d)
        /\ \A i \in DOMAIN T.fields :
             /\ EntriesOf(d, T.fields[i].id) # {}
             /\ EntryOf(d, T.fields[i].id) = EncodedPart(T.fields[i].type, w.items[i])
    BY <1>4, <2>1, StructEncoded
  <2>3. /\ w = Many(w.items) /\ IsFunction(w.items) /\ DOMAIN w.items = DOMAIN T.fields
        /\ \A i \in DOMAIN T.fields :
             HasTypePart(T.fields[i].type, w.items[i]) /\ HasTypePart(T.fields[i].type, v.items[i])
    BY <1>4, HasTypeByForm DEF HasItems, FieldTypes
  <2>4. \A i \in DOMAIN T.fields : Patches(T, v, d)[i] = Accepted(w.items[i])
    BY <1>4, <2>2, <2>3, PartsOf DEF PartsLawful, Patches
  <2>c. \A x : Accepted(x).ok /\ Accepted(x).value = x BY ResultsAre
  <2>5. \A i \in DOMAIN T.fields :
            Patches(T, v, d)[i].ok /\ Patches(T, v, d)[i].value = w.items[i]
    BY <2>4, <2>c
  <2>6. PatchedStruct(T, v, d) =
            Accepted(Many([i \in DOMAIN T.fields |-> Patches(T, v, d)[i].value]))
    BY <1>4, <2>2, <2>5, StructMerged
  <2>7. [i \in DOMAIN T.fields |-> Patches(T, v, d)[i].value] = [i \in DOMAIN w.items |-> w.items[i]]
    BY <2>3, <2>5
  <2>8. [i \in DOMAIN w.items |-> w.items[i]] = w.items BY <2>3 DEF IsFunction
  <2> QED BY <2>1, <2>3, <2>6, <2>7, <2>8
<1> QED BY <1>0, <1>1, <1>2, <1>3, <1>4

\* The kind of datex that a type is written as.
LEMMA EncodedKinds ==
    ASSUME PartsLawful, NEW T, WellFormed(T), NEW v, HasType(T, v)
    PROVE  /\ T.form = "uint" => Encoded(T, v).kind = "number"
           /\ T.form = "int" => Encoded(T, v).kind = "signed"
           /\ T.form = "float" => Encoded(T, v).kind = "float"
           /\ T.form = "unit" => Encoded(T, v).kind = "unit"
           /\ T.form \in {"bool", "variant"} => Encoded(T, v).kind = "bool"
           /\ T.form = "string" => Encoded(T, v).kind = "text"
           /\ T.form = "bytes" => Encoded(T, v).kind = "bytes"
           /\ T.form \in {"vec", "tuple"} => Encoded(T, v).kind = "array"
           /\ T.form \in {"map", "struct", "enum"} => Encoded(T, v).kind = "map"
<1>1. /\ \A x : /\ NumberValue(x).kind = "number" /\ SignedValue(x).kind = "signed"
                /\ BoolValue(x).kind = "bool"
                /\ TextValue(x).kind = "text" /\ BytesValue(x).kind = "bytes"
                /\ ArrayValue(x).kind = "array" /\ MapValue(x).kind = "map"
      /\ \A w, x : FloatValue(w, x).kind = "float"
      /\ UnitValue.kind = "unit"
  BY DEF NumberValue, SignedValue, BoolValue, TextValue, BytesValue, ArrayValue, MapValue,
         ContainerValue, FloatValue, UnitValue
<1>2. CASE T.form = "uint"
  <2>1. Encoded(T, v) = NumberValue(v.of) BY <1>2, EncodedByForm
  <2> QED BY <1>1, <1>2, <2>1
<1>3. CASE T.form = "int"
  <2>1. Encoded(T, v) = SignedValue(v.of) BY <1>3, EncodedByForm
  <2> QED BY <1>1, <1>3, <2>1
<1>4. CASE T.form = "float"
  <2>1. Encoded(T, v) = FloatValue(T.width, v.of) BY <1>4, EncodedByForm
  <2> QED BY <1>1, <1>4, <2>1
<1>5. CASE T.form = "unit"
  <2>1. Encoded(T, v) = UnitValue BY <1>5, EncodedByForm
  <2> QED BY <1>1, <1>5, <2>1
<1>6. CASE T.form = "bool"
  <2>1. Encoded(T, v) = BoolValue(v.of) BY <1>6, EncodedByForm
  <2> QED BY <1>1, <1>6, <2>1
<1>7. CASE T.form = "variant"
  <2>1. Encoded(T, v) = BoolValue(TRUE) BY <1>7, EncodedByForm
  <2> QED BY <1>1, <1>7, <2>1
<1>8. CASE T.form = "string"
  <2>1. Encoded(T, v) = TextValue(v.of) BY <1>8, EncodedByForm
  <2> QED BY <1>1, <1>8, <2>1
<1>9. CASE T.form = "bytes"
  <2>1. Encoded(T, v) = BytesValue(v.of) BY <1>9, EncodedByForm
  <2> QED BY <1>1, <1>9, <2>1
<1>10. CASE T.form = "vec"
  <2>1. Encoded(T, v) = EncodedVec(T, v) BY <1>10, EncodedByForm
  <2> QED BY <1>1, <1>10, <2>1 DEF EncodedVec
<1>11. CASE T.form = "tuple"
  <2>1. Encoded(T, v) = EncodedTuple(T, v) BY <1>11, EncodedByForm
  <2> QED BY <1>1, <1>11, <2>1 DEF EncodedTuple
<1>12. CASE T.form = "enum"
  <2>1. Encoded(T, v) = EncodedEnum(T, v) BY <1>12, EncodedByForm
  <2> QED BY <1>1, <1>12, <2>1 DEF EncodedEnum
<1>13. CASE T.form = "map"
  <2>1. Encoded(T, v) = EncodedMap(T, v) BY <1>13, EncodedByForm
  <2>2. EncodedMap(T, v).kind = "map" BY <1>13, MapEncoded
  <2> QED BY <1>13, <2>1, <2>2
<1>14. CASE T.form = "struct"
  <2>1. Encoded(T, v) = EncodedStruct(T, v) BY <1>14, EncodedByForm
  <2>2. EncodedStruct(T, v).kind = "map" BY <1>14, StructEncoded
  <2> QED BY <1>14, <2>1, <2>2
<1> QED BY <1>2, <1>3, <1>4, <1>5, <1>6, <1>7, <1>8, <1>9, <1>10, <1>11, <1>12, <1>13,
           <1>14

\* Only None goes out as null.
LEMMA NullIsNone ==
    ASSUME PartsLawful, NEW T, WellFormed(T), NEW v, HasType(T, v), Encoded(T, v).kind = "null"
    PROVE  v = NoneOf
<1> DEFINE d == Encoded(T, v)
<1>1. Decoded(T, d) = Accepted(v) BY RoundTrips
<1>2. CASE T.form = "option"
  <2>1. Decoded(T, d) = Accepted(NoneOf) BY <1>2, DecodedByForm DEF DecodedOption
  <2> QED BY <1>1, <2>1, ResultsAre
<1>3. CASE T.form # "option"
  BY <1>3, EncodedKinds, FormKnown DEF Forms
<1> QED BY <1>2, <1>3

LEMMA CleanMade ==
    ASSUME NEW d, d.kind \in {"array", "map"} => \A i \in DOMAIN d.items : Clean(d.items[i]),
           d.kind = "map" => KeysDiffer(d)
    PROVE  Clean(d)
<1>1. CASE d.kind \in {"array", "map"}
  <2> DEFINE set(x) == CHOOSE R : x \in R /\ AllClean(R)
             S == {d} \cup UNION {set(d.items[i]) : i \in DOMAIN d.items}
  <2>1. \A i \in DOMAIN d.items : d.items[i] \in set(d.items[i]) /\ AllClean(set(d.items[i]))
    BY <1>1, Zenon DEF Clean
  <2> HIDE DEF set
  <2>2. \A i \in DOMAIN d.items : d.items[i] \in S BY <2>1
  <2>3. ASSUME NEW i \in DOMAIN d.items, NEW x \in set(d.items[i])
        PROVE  /\ x.kind \in {"array", "map"} => \A j \in DOMAIN x.items : x.items[j] \in S
               /\ x.kind = "map" => KeysDiffer(x)
    <3>1. AllClean(set(d.items[i])) BY <2>1
    <3> QED BY <3>1 DEF AllClean
  <2>4. \A x \in S : x = d \/ \E i \in DOMAIN d.items : x \in set(d.items[i]) OBVIOUS
  <2>5. d \in S OBVIOUS
  <2> HIDE DEF S
  <2>6. AllClean(S) BY <2>2, <2>3, <2>4 DEF AllClean
  <2> QED BY <2>5, <2>6 DEF Clean
<1>2. CASE d.kind \notin {"array", "map"}
  <2>1. d \in {d} /\ AllClean({d}) BY <1>2 DEF AllClean
  <2> QED BY <2>1 DEF Clean
<1> QED BY <1>1, <1>2

\* No key comes twice in a map that is written, at whatever depth.
LEMMA KeysOnce ==
    ASSUME PartsLawful, NEW T, WellFormed(T), NEW v, HasType(T, v)
    PROVE  Clean(Encoded(T, v))
<1>a. /\ \A x : NumberValue(x).kind = "number"
      /\ \A its : ArrayValue(its).kind = "array" /\ ArrayValue(its).items = its
      /\ NullValue.kind = "null"
  BY DEF NumberValue, NullValue, ArrayValue, ContainerValue
<1>b. \A x : Clean(NumberValue(x)) BY <1>a, CleanMade
<1>1. CASE T.form = "map"
  <2> DEFINE d == EncodedMap(T, v)
  <2>1. Encoded(T, v) = d BY <1>1, EncodedByForm
  <2>2. /\ WellFormedPart(T.key) /\ WellFormedPart(T.of)
        /\ \A p \in v.entries : HasTypePart(T.key, p[1]) /\ HasTypePart(T.of, p[2])
    BY <1>1, PartsOf, HasTypeByForm
  <2>3. \A p \in v.entries : Clean(EncodedPart(T.key, p[1])) /\ Clean(EncodedPart(T.of, p[2]))
    BY <2>2 DEF PartsLawful
  <2>4. /\ KeysDiffer(d) /\ \A i \in DOMAIN d.items : \E p \in v.entries :
              d.items[i] \in {EncodedPart(T.key, p[1]), EncodedPart(T.of, p[2])}
    BY <1>1, MapEncoded
  <2> HIDE DEF d
  <2>5. \A i \in DOMAIN d.items : Clean(d.items[i]) BY <2>3, <2>4
  <2> QED BY <2>1, <2>4, <2>5, CleanMade
<1>2. CASE T.form = "struct"
  <2> DEFINE d == EncodedStruct(T, v)
  <2>1. Encoded(T, v) = d BY <1>2, EncodedByForm
  <2>2. \A i \in DOMAIN T.fields :
            WellFormedPart(T.fields[i].type) /\ HasTypePart(T.fields[i].type, v.items[i])
    BY <1>2, PartsOf, HasTypeByForm DEF HasItems, FieldTypes
  <2>3. \A i \in DOMAIN T.fields : Clean(EncodedPart(T.fields[i].type, v.items[i]))
    BY <2>2 DEF PartsLawful
  <2>4. /\ KeysDiffer(d) /\ \A i \in DOMAIN d.items : \E j \in DOMAIN T.fields :
              d.items[i] \in {NumberValue(T.fields[j].id),
                              EncodedPart(T.fields[j].type, v.items[j])}
    BY <1>2, StructEncoded
  <2> HIDE DEF d
  <2>5. \A i \in DOMAIN d.items : Clean(d.items[i]) BY <1>b, <2>3, <2>4
  <2> QED BY <2>1, <2>4, <2>5, CleanMade
<1>3. CASE T.form = "enum"
  <2> DEFINE part == EncodedPart(T.payloads[v.variant + 1], v.with)
             its == <<NumberValue(v.variant), part>>
  <2>1. Encoded(T, v) = MapValue(its) BY <1>3, EncodedByForm DEF EncodedEnum
  <2>2. Encoded(T, v).items = its BY <2>1, ContainersAre
  <2>3. Clean(part)
    <3>1. v.variant \in 0..(Len(T.payloads) - 1) /\ HasTypePart(T.payloads[v.variant + 1], v.with)
      BY <1>3, HasTypeByForm
    <3>2. /\ Len(T.payloads) \in Nat /\ DOMAIN T.payloads = 1..Len(T.payloads)
          /\ \A i \in DOMAIN T.payloads : WellFormedPart(T.payloads[i])
      BY <1>3, PartsOf
    <3>3. v.variant + 1 \in DOMAIN T.payloads BY <3>1, <3>2
    <3> QED BY <3>1, <3>2, <3>3 DEF PartsLawful
  <2>4. DOMAIN its = 1..2 /\ its[1] = NumberValue(v.variant) /\ its[2] = part OBVIOUS
  <2> HIDE DEF its, part
  <2>5. \A i \in DOMAIN its : Clean(its[i]) BY <1>b, <2>3, <2>4
  <2>6. KeysDiffer(Encoded(T, v))
    <3>1. \A i \in DOMAIN its : i % 2 = 1 => i = 1 BY <2>4
    <3> QED BY <2>2, <3>1 DEF KeysDiffer
  <2> QED BY <2>2, <2>5, <2>6, CleanMade
<1>4. CASE T.form = "option"
  <2>1. Encoded(T, v) = EncodedOption(T, v) BY <1>4, EncodedByForm
  <2>2. CASE v = NoneOf
    <3>1. Encoded(T, v) = NullValue BY <2>1, <2>2 DEF EncodedOption
    <3> QED BY <1>a, <3>1, CleanMade
  <2>3. CASE v # NoneOf
    <3>1. HasTypePart(T.of, v.of) BY <1>4, <2>3, HasTypeByForm
    <3>2. Encoded(T, v) = EncodedPart(T.of, v.of) BY <2>1, <2>3 DEF EncodedOption
    <3> QED BY <1>4, <3>1, <3>2, PartsOf DEF PartsLawful
  <2> QED BY <2>2, <2>3
<1>5. CASE T.form = "vec"
  <2> DEFINE its == [i \in DOMAIN v.items |-> EncodedPart(T.of, v.items[i])]
  <2>1. Encoded(T, v) = ArrayValue(its) BY <1>5, EncodedByForm DEF EncodedVec
  <2>2. \A i \in DOMAIN v.items : HasTypePart(T.of, v.items[i])
    BY <1>5, HasTypeByForm DEF HasItems
  <2>3. \A i \in DOMAIN its : Clean(its[i]) BY <1>5, <2>2, PartsOf DEF PartsLawful
  <2> HIDE DEF its
  <2> QED BY <1>a, <2>1, <2>3, CleanMade
<1>6. CASE T.form = "tuple"
  <2> DEFINE its == [i \in DOMAIN T.types |-> EncodedPart(T.types[i], v.items[i])]
  <2>1. Encoded(T, v) = ArrayValue(its) BY <1>6, EncodedByForm DEF EncodedTuple
  <2>2. \A i \in DOMAIN T.types : WellFormedPart(T.types[i]) /\ HasTypePart(T.types[i], v.items[i])
    BY <1>6, PartsOf, HasTypeByForm DEF HasItems
  <2>3. \A i \in DOMAIN its : Clean(its[i]) BY <2>2 DEF PartsLawful
  <2> HIDE DEF its
  <2> QED BY <1>a, <2>1, <2>3, CleanMade
<1>7. CASE T.form \notin {"map", "struct", "enum", "option", "vec", "tuple"}
  <2>1. Encoded(T, v).kind \notin {"array", "map"} BY <1>7, EncodedKinds, FormKnown DEF Forms
  <2> QED BY <2>1, CleanMade
<1> QED BY <1>1, <1>2, <1>3, <1>4, <1>5, <1>6, <1>7

\* What holds of the parts holds of the whole: types nested to any depth keep it.
LEMMA WholeLawful == ASSUME PartsLawful PROVE Lawful
<1> SUFFICES ASSUME NEW T, WellFormed(T)
             PROVE  /\ \A d : Read(Decoded(T, d))
                    /\ \A v, d : Done(Patched(T, v, d))
                    /\ \A v, d : Validated(T, v, d) <=> Patched(T, v, d).ok
                    /\ \A v : HasType(T, v) => Decoded(T, Encoded(T, v)) = Accepted(v)
                    /\ \A v, w : HasType(T, v) /\ HasType(T, w) =>
                                    Patched(T, v, Encoded(T, w)) = Accepted(w)
                    /\ \A d : IsDatex(d) /\ Decoded(T, d).ok => HasType(T, Decoded(T, d).value)
                    /\ \A d : Decoded(T, d).ok =>
                                 Patched(T, Decoded(T, d).value, d) = Decoded(T, d)
                    /\ \A v, d : Patched(T, v, d).ok =>
                                    Patched(T, Patched(T, v, d).value, d) = Patched(T, v, d)
                    /\ \A d : Decoded(T, d) = Accepted(NoneOf) => d.kind = "null"
                    /\ \A v : T.form = "uint" /\ HasType(T, v) => v = One(v.of) /\ v.of \in Nat
                    /\ T.form = "option" => HasType(T, NoneOf)
                    /\ \A v : HasType(T, v) /\ Encoded(T, v).kind = "null" => v = NoneOf
                    /\ \A v : HasType(T, v) => Clean(Encoded(T, v))
  BY DEF Lawful
<1>1. \A d : Read(Decoded(T, d)) BY DecodedReads
<1>2. \A v, d : Done(Patched(T, v, d)) BY PatchedIsDone
<1>3. \A v, d : Validated(T, v, d) <=> Patched(T, v, d).ok BY PatchedIsDone
<1>4. \A v : HasType(T, v) => Decoded(T, Encoded(T, v)) = Accepted(v) BY RoundTrips
<1>5. \A v, w : HasType(T, v) /\ HasType(T, w) => Patched(T, v, Encoded(T, w)) = Accepted(w)
  BY PatchedWhole
<1>6. \A d : IsDatex(d) /\ Decoded(T, d).ok => HasType(T, Decoded(T, d).value) BY DecodedTyped
<1>7. \A d : Decoded(T, d).ok => Patched(T, Decoded(T, d).value, d) = Decoded(T, d)
  BY DecodedThenPatched
<1>8. \A v, d : Patched(T, v, d).ok => Patched(T, Patched(T, v, d).value, d) = Patched(T, v, d)
  BY PatchedTwice
<1>9. \A d : Decoded(T, d) = Accepted(NoneOf) => d.kind = "null" BY NoneIsNull
<1>10. \A v : T.form = "uint" /\ HasType(T, v) => v = One(v.of) /\ v.of \in Nat
  <2> SUFFICES ASSUME NEW v, T.form = "uint", HasType(T, v) PROVE v = One(v.of) /\ v.of \in Nat
    OBVIOUS
  <2>1. T.max \in Nat BY DEF WellFormed
  <2>2. v = One(v.of) /\ v.of \in 0..T.max BY HasTypeByForm
  <2> QED BY <2>1, <2>2
<1>11. T.form = "option" => HasType(T, NoneOf) BY HasTypeByForm
<1>12. \A v : HasType(T, v) /\ Encoded(T, v).kind = "null" => v = NoneOf BY NullIsNone
<1>13. \A v : HasType(T, v) => Clean(Encoded(T, v)) BY KeysOnce
<1> QED BY <1>1, <1>2, <1>3, <1>4, <1>5, <1>6, <1>7, <1>8, <1>9, <1>10, <1>11, <1>12, <1>13

----------------------------------------------------------------------------
(* The tables of a schema.                                                 *)

Builder(errors, strs, tys, fs, procs) ==
    [errors |-> errors, strings |-> strs, types |-> tys, fields |-> fs, procedures |-> procs]

IsBuilder(b) ==
    /\ b = Builder(b.errors, b.strings, b.types, b.fields, b.procedures)
    /\ b.errors \in BOOLEAN
    /\ IsFunction(b.strings) /\ IsFunction(b.types)
    /\ IsFunction(b.fields) /\ IsFunction(b.procedures)

\* Every id in it is one that it knows, unless it has an error.
Shaped(b) == IsBuilder(b) /\ (~b.errors => ReferencesHold(b))

Extends(t, t2) == \A id \in DOMAIN t : id \in DOMAIN t2 /\ t2[id] = t[id]

Grows(b, b2) ==
    /\ b.errors => b2.errors
    /\ Extends(b.strings, b2.strings) /\ Extends(b.types, b2.types)
    /\ Extends(b.fields, b2.fields) /\ Extends(b.procedures, b2.procedures)

LEMMA GrowsSelf == \A b : Grows(b, b)
BY DEF Grows, Extends

LEMMA GrowsOn == ASSUME NEW b, NEW b2, NEW b3, Grows(b, b2), Grows(b2, b3) PROVE Grows(b, b3)
BY DEF Grows, Extends

\* What is inserted under these ids is there.
Has(table, ids, defs) == \A i \in DOMAIN ids : ids[i] \in DOMAIN table /\ table[ids[i]] = defs[i]

LEMMA HasOn ==
    ASSUME NEW t, NEW t2, NEW ids, NEW defs, Has(t, ids, defs), Extends(t, t2)
    PROVE  Has(t2, ids, defs)
BY DEF Has, Extends

LEMMA InsertedIs ==
    ASSUME NEW table, NEW ids, NEW defs
    PROVE  /\ IsFunction(Inserted(table, ids, defs))
           /\ DOMAIN Inserted(table, ids, defs) = DOMAIN table \cup {ids[i] : i \in DOMAIN ids}
           /\ Extends(table, Inserted(table, ids, defs))
           /\ ~Clashes(table, ids, defs) => Has(Inserted(table, ids, defs), ids, defs)
           /\ IsFunction(table) /\ Has(table, ids, defs) =>
                Inserted(table, ids, defs) = table /\ ~Clashes(table, ids, defs)
<1> DEFINE new == Inserted(table, ids, defs)
<1>1. DOMAIN new = DOMAIN table \cup {ids[i] : i \in DOMAIN ids} BY DEF Inserted, Range
<1>2. IsFunction(new) /\ \A id \in DOMAIN table : new[id] = table[id]
  BY DEF Inserted, IsFunction
<1>3. ASSUME ~Clashes(table, ids, defs) PROVE Has(new, ids, defs)
  BY <1>1, <1>3 DEF Clashes, Has
<1>4. ASSUME IsFunction(table), Has(table, ids, defs) PROVE new = table /\ ~Clashes(table, ids, defs)
  <2>1. DOMAIN new = DOMAIN table BY <1>1, <1>4 DEF Has
  <2>2. new = [id \in DOMAIN new |-> new[id]] BY <1>2 DEF IsFunction
  <2>3. table = [id \in DOMAIN table |-> table[id]] BY <1>4 DEF IsFunction
  <2> HIDE DEF new
  <2>4. new = table BY <1>2, <2>1, <2>2, <2>3
  <2> QED BY <1>4, <2>4 DEF Clashes, Has, new
<1> QED BY <1>1, <1>2, <1>3, <1>4 DEF Extends

\* The definitions in a table are those it had and those inserted.
LEMMA InsertedRange ==
    ASSUME NEW table, NEW ids, DOMAIN ids \subseteq Nat, NEW defs,
           NEW id \in DOMAIN Inserted(table, ids, defs)
    PROVE  \/ id \in DOMAIN table /\ Inserted(table, ids, defs)[id] = table[id]
           \/ \E i \in DOMAIN ids : ids[i] = id /\ Inserted(table, ids, defs)[id] = defs[i]
<1>1. CASE id \in DOMAIN table BY <1>1 DEF Inserted
<1>2. CASE id \notin DOMAIN table
  <2>1. Inserted(table, ids, defs)[id] = defs[FirstOf(ids, id)] BY <1>2 DEF Inserted
  <2> DEFINE S == {i \in DOMAIN ids : ids[i] = id}
  <2>2. S # {} /\ S \subseteq Nat BY <1>2 DEF Inserted, Range
  <2>3. PICK i \in S : \A j \in S : i <= j
    <3> HIDE DEF S
    <3> QED BY <2>2, LeastExists
  <2>4. i \in DOMAIN ids /\ ids[i] = id /\ \A j \in DOMAIN ids : ids[j] = id => i <= j
    BY <2>3
  <2>5. FirstOf(ids, id) \in DOMAIN ids /\ ids[FirstOf(ids, id)] = id BY <2>4 DEF FirstOf
  <2> QED BY <2>1, <2>5
<1> QED BY <1>1, <1>2

----------------------------------------------------------------------------
(* The operations of the builder.                                          *)

LEMMA BuilderIs ==
    ASSUME NEW e, NEW s, NEW t, NEW f, NEW p
    PROVE  /\ Builder(e, s, t, f, p).errors = e /\ Builder(e, s, t, f, p).strings = s
           /\ Builder(e, s, t, f, p).types = t /\ Builder(e, s, t, f, p).fields = f
           /\ Builder(e, s, t, f, p).procedures = p
BY DEF Builder

Names(b, names) == Has(b.strings, StringIds(names), names)

TypeDef(name, kind) == [name |-> StringIdOf(name), kind |-> kind]

\* The type of that name is of that kind.
Typed(b, name, kind) ==
    Names(b, <<name>>) /\ Has(b.types, <<IdOf(name)>>, <<TypeDef(name, kind)>>)

FieldDefs(fields) ==
    [i \in DOMAIN fields |-> [name |-> StringIdOf(fields[i].name), type |-> fields[i].type]]

FieldNames(fields) == [i \in DOMAIN fields |-> fields[i].name]
IdsOf(fields) == [i \in DOMAIN fields |-> fields[i].id]

Fielded(b, fields) ==
    Names(b, FieldNames(fields)) /\ Has(b.fields, IdsOf(fields), FieldDefs(fields))

LEMMA InternedIs ==
    ASSUME NEW b, IsBuilder(b), NEW names
    PROVE  /\ Interned(b, names) =
                  Builder(b.errors \/ Clashes(b.strings, StringIds(names), names),
                          Inserted(b.strings, StringIds(names), names),
                          b.types, b.fields, b.procedures)
           /\ IsBuilder(Interned(b, names)) /\ Grows(b, Interned(b, names))
           /\ ~Interned(b, names).errors => Names(Interned(b, names), names)
           /\ ~b.errors /\ Names(b, names) => Interned(b, names) = b
<1> DEFINE strs == Inserted(b.strings, StringIds(names), names)
           e == b.errors \/ Clashes(b.strings, StringIds(names), names)
           c == Interned(b, names)
<1>1. b = Builder(b.errors, b.strings, b.types, b.fields, b.procedures) BY DEF IsBuilder
<1>2. c = Builder(e, strs, b.types, b.fields, b.procedures)
  <2>1. c = [b EXCEPT !.strings = strs, !.errors = e] BY DEF Interned
  <2> HIDE DEF strs, e
  <2> QED BY <1>1, <2>1 DEF Builder
<1>3. e \in BOOLEAN /\ (b.errors => e) OBVIOUS
<1>4. /\ IsFunction(strs) /\ Extends(b.strings, strs)
      /\ ~e => Has(strs, StringIds(names), names)
      /\ IsFunction(b.strings) /\ Has(b.strings, StringIds(names), names) =>
           strs = b.strings /\ ~Clashes(b.strings, StringIds(names), names)
  BY InsertedIs
<1> HIDE DEF strs, c
<1>5. /\ c.errors = e /\ c.strings = strs /\ c.types = b.types /\ c.fields = b.fields
      /\ c.procedures = b.procedures
  BY <1>2, BuilderIs
<1>6. IsBuilder(c) BY <1>2, <1>3, <1>4, <1>5 DEF IsBuilder
<1>7. Grows(b, c) BY <1>3, <1>4, <1>5 DEF Grows, Extends
<1>8. ~c.errors => Names(c, names) BY <1>4, <1>5 DEF Names
<1>9. ASSUME ~b.errors, Names(b, names) PROVE c = b
  <2>1. strs = b.strings /\ ~e BY <1>4, <1>9 DEF Names, IsBuilder
  <2>2. e = b.errors BY <1>3, <1>9, <2>1 DEF IsBuilder
  <2> QED BY <1>1, <1>2, <2>1, <2>2
<1> QED BY <1>2, <1>6, <1>7, <1>8, <1>9 DEF c, strs

\* What validate_schema_references looks at, one definition at a time.
KindHolds(s, kind) ==
    /\ TypesIn(kind) \subseteq DOMAIN s.types
    /\ kind.kind = "struct" => Range(kind.fields) \subseteq DOMAIN s.fields
    /\ kind.kind = "enum" => \A v \in Range(kind.variants) : v.name \in DOMAIN s.strings

TypeHolds(s, t) == t.name \in DOMAIN s.strings /\ KindHolds(s, t.kind)
FieldHolds(s, f) == f.name \in DOMAIN s.strings /\ f.type \in DOMAIN s.types
ProcHolds(s, p) == p.name \in DOMAIN s.strings /\ {p.args, p.result} \subseteq DOMAIN s.types

LEMMA ReferencesAre ==
    \A s : ReferencesHold(s) <=>
              /\ \A id \in DOMAIN s.types : TypeHolds(s, s.types[id])
              /\ \A id \in DOMAIN s.fields : FieldHolds(s, s.fields[id])
              /\ \A id \in DOMAIN s.procedures : ProcHolds(s, s.procedures[id])
BY DEF ReferencesHold, TypeHolds, FieldHolds, ProcHolds, KindHolds, Range

LEMMA HoldsOn ==
    ASSUME NEW s, NEW s2, Grows(s, s2)
    PROVE  /\ \A t : TypeHolds(s, t) => TypeHolds(s2, t)
           /\ \A f : FieldHolds(s, f) => FieldHolds(s2, f)
           /\ \A p : ProcHolds(s, p) => ProcHolds(s2, p)
<1>1. /\ DOMAIN s.strings \subseteq DOMAIN s2.strings /\ DOMAIN s.types \subseteq DOMAIN s2.types
      /\ DOMAIN s.fields \subseteq DOMAIN s2.fields
  BY DEF Grows, Extends
<1> QED BY <1>1 DEF TypeHolds, FieldHolds, ProcHolds, KindHolds

\* A builder that has only got definitions that hold.
LEMMA ShapedOn ==
    ASSUME NEW b, Shaped(b), NEW c, IsBuilder(c), Grows(b, c),
           ~c.errors =>
              /\ \A id \in DOMAIN c.types :
                   (id \in DOMAIN b.types /\ c.types[id] = b.types[id]) \/ TypeHolds(c, c.types[id])
              /\ \A id \in DOMAIN c.fields :
                   (id \in DOMAIN b.fields /\ c.fields[id] = b.fields[id]) \/ FieldHolds(c, c.fields[id])
              /\ \A id \in DOMAIN c.procedures :
                   \/ id \in DOMAIN b.procedures /\ c.procedures[id] = b.procedures[id]
                   \/ ProcHolds(c, c.procedures[id])
    PROVE  Shaped(c)
<1> SUFFICES ASSUME ~c.errors PROVE ReferencesHold(c)
  BY DEF Shaped
<1>1. ~b.errors BY DEF Grows
<1>2. /\ \A id \in DOMAIN b.types : TypeHolds(b, b.types[id])
      /\ \A id \in DOMAIN b.fields : FieldHolds(b, b.fields[id])
      /\ \A id \in DOMAIN b.procedures : ProcHolds(b, b.procedures[id])
  BY <1>1, ReferencesAre DEF Shaped
<1>3. \A id \in DOMAIN c.types : TypeHolds(c, c.types[id]) BY <1>2, HoldsOn
<1>4. \A id \in DOMAIN c.fields : FieldHolds(c, c.fields[id]) BY <1>2, HoldsOn
<1>5. \A id \in DOMAIN c.procedures : ProcHolds(c, c.procedures[id]) BY <1>2, HoldsOn
<1> QED BY <1>3, <1>4, <1>5, ReferencesAre

LEMMA InternedShaped ==
    ASSUME NEW b, Shaped(b), NEW names
    PROVE  Shaped(Interned(b, names))
<1> DEFINE c == Interned(b, names)
<1>1. IsBuilder(c) /\ Grows(b, c) BY InternedIs DEF Shaped
<1>2. c.types = b.types /\ c.fields = b.fields /\ c.procedures = b.procedures
  BY InternedIs, BuilderIs DEF Shaped
<1> HIDE DEF c
<1>3. Shaped(c) BY <1>1, <1>2, ShapedOn
<1> QED BY <1>3 DEF c

LEMMA NamesOn ==
    ASSUME NEW b, NEW b2, Grows(b, b2)
    PROVE  /\ \A names : Names(b, names) => Names(b2, names)
           /\ \A name, kind : Typed(b, name, kind) => Typed(b2, name, kind)
           /\ \A fields : Fielded(b, fields) => Fielded(b2, fields)
BY HasOn DEF Names, Typed, Fielded, Grows

LEMMA OneThere ==
    ASSUME NEW t, NEW id, NEW x
    PROVE  Has(t, <<id>>, <<x>>) <=> id \in DOMAIN t /\ t[id] = x
BY DEF Has

LEMMA TypedIs ==
    ASSUME NEW b, NEW name, NEW kind
    PROVE  /\ Typed(b, name, kind) <=>
                /\ Names(b, <<name>>)
                /\ IdOf(name) \in DOMAIN b.types /\ b.types[IdOf(name)] = TypeDef(name, kind)
           /\ Names(b, <<name>>) => StringIdOf(name) \in DOMAIN b.strings /\ b.strings[StringIdOf(name)] = name
<1>1. StringIds(<<name>>) = <<StringIdOf(name)>> BY DEF StringIds
<1> QED BY <1>1, OneThere DEF Typed, Names

\* c is b with a type of that name.
TypeAdded(b, name, kind, c) ==
    /\ IsBuilder(c) /\ Grows(b, c) /\ Grows(Interned(b, <<name>>), c)
    /\ ~c.errors => Typed(c, name, kind)
    /\ ~b.errors /\ Typed(b, name, kind) => c = b
    /\ c.fields = b.fields /\ c.procedures = b.procedures
    /\ \A id \in DOMAIN c.types :
         (id \in DOMAIN b.types /\ c.types[id] = b.types[id]) \/ c.types[id] = TypeDef(name, kind)

LEMMA WithTypeIs ==
    ASSUME NEW b, IsBuilder(b), NEW name, NEW kind
    PROVE  TypeAdded(b, name, kind, WithType(b, name, kind))
<1> DEFINE a == Interned(b, <<name>>)
           defs == <<TypeDef(name, kind)>>
           tys == Inserted(b.types, <<IdOf(name)>>, defs)
           e == a.errors \/ Clashes(b.types, <<IdOf(name)>>, defs)
           c == WithType(b, name, kind)
<1>1. /\ IsBuilder(a) /\ Grows(b, a) /\ (~a.errors => Names(a, <<name>>))
      /\ ~b.errors /\ Names(b, <<name>>) => a = b
      /\ a.types = b.types /\ a.fields = b.fields /\ a.procedures = b.procedures
  BY InternedIs, BuilderIs
<1>2. c = [a EXCEPT !.types = tys, !.errors = e] BY <1>1 DEF WithType, TypeDef
<1>3. /\ IsFunction(tys) /\ Extends(b.types, tys)
      /\ ~Clashes(b.types, <<IdOf(name)>>, defs) => Has(tys, <<IdOf(name)>>, defs)
      /\ IsFunction(b.types) /\ Has(b.types, <<IdOf(name)>>, defs) =>
           tys = b.types /\ ~Clashes(b.types, <<IdOf(name)>>, defs)
  BY InsertedIs
<1>4. ASSUME NEW id \in DOMAIN tys
      PROVE  (id \in DOMAIN b.types /\ tys[id] = b.types[id]) \/ tys[id] = TypeDef(name, kind)
  <2> DEFINE ids == <<IdOf(name)>>
  <2>1. DOMAIN ids \subseteq Nat /\ id \in DOMAIN Inserted(b.types, ids, defs) OBVIOUS
  <2>2. \A i \in DOMAIN ids : defs[i] = TypeDef(name, kind) OBVIOUS
  <2> HIDE DEF ids, defs
  <2>3. \/ id \in DOMAIN b.types /\ Inserted(b.types, ids, defs)[id] = b.types[id]
        \/ \E i \in DOMAIN ids : ids[i] = id /\ Inserted(b.types, ids, defs)[id] = defs[i]
    BY <2>1, InsertedRange
  <2> QED BY <2>2, <2>3 DEF ids
<1>5. e \in BOOLEAN /\ (a.errors => e) OBVIOUS
<1>a. e <=> a.errors \/ Clashes(b.types, <<IdOf(name)>>, defs) OBVIOUS
<1> HIDE DEF a, tys, c, defs, e
<1>6. c = Builder(e, a.strings, tys, a.fields, a.procedures)
  BY <1>1, <1>2 DEF Builder, IsBuilder
<1>7. /\ c.errors = e /\ c.strings = a.strings /\ c.types = tys /\ c.fields = b.fields
      /\ c.procedures = b.procedures
  BY <1>1, <1>6, BuilderIs
<1>8. IsBuilder(c) BY <1>1, <1>3, <1>5, <1>6, <1>7 DEF IsBuilder
<1>9. Grows(a, c) BY <1>1, <1>3, <1>5, <1>7 DEF Grows, Extends
<1>10. Grows(b, c) BY <1>1, <1>9, GrowsOn
<1>11. ASSUME ~c.errors PROVE Typed(c, name, kind)
  <2>1. Names(c, <<name>>) BY <1>1, <1>5, <1>7, <1>9, <1>11, NamesOn
  <2>2. Has(c.types, <<IdOf(name)>>, defs) BY <1>3, <1>7, <1>a, <1>11
  <2> QED BY <2>1, <2>2 DEF Typed, defs
<1>12. ASSUME ~b.errors, Typed(b, name, kind) PROVE c = b
  <2>1. a = b BY <1>1, <1>12 DEF Typed
  <2>2. tys = b.types /\ ~Clashes(b.types, <<IdOf(name)>>, defs)
    BY <1>3, <1>12, OneThere DEF Typed, IsBuilder, defs
  <2>3. e = FALSE BY <1>5, <1>12, <1>a, <2>1, <2>2
  <2>4. b.errors = FALSE BY <1>12 DEF IsBuilder
  <2> QED BY <1>6, <2>1, <2>2, <2>3, <2>4 DEF IsBuilder
<1>13. \A id \in DOMAIN c.types :
           (id \in DOMAIN b.types /\ c.types[id] = b.types[id]) \/ c.types[id] = TypeDef(name, kind)
  BY <1>4, <1>7
<1>14. TypeAdded(b, name, kind, c)
  BY <1>7, <1>8, <1>9, <1>10, <1>11, <1>12, <1>13 DEF TypeAdded, a
<1> QED BY <1>14 DEF c

\* c is b with these fields.
FieldsAdded(b, fields, c) ==
    /\ IsBuilder(c) /\ Grows(b, c)
    /\ ~c.errors => Fielded(c, fields)
    /\ ~b.errors /\ Fielded(b, fields) => c = b
    /\ c.types = b.types /\ c.procedures = b.procedures
    /\ \A id \in DOMAIN c.fields :
         \/ id \in DOMAIN b.fields /\ c.fields[id] = b.fields[id]
         \/ \E i \in DOMAIN fields :
              c.fields[id] = [name |-> StringIdOf(fields[i].name), type |-> fields[i].type]

LEMMA WithFieldsIs ==
    ASSUME NEW b, IsBuilder(b), NEW fields, DOMAIN fields \subseteq Nat
    PROVE  FieldsAdded(b, fields, WithFields(b, fields))
<1> DEFINE a == Interned(b, FieldNames(fields))
           ids == IdsOf(fields)
           defs == FieldDefs(fields)
           fs == Inserted(b.fields, ids, defs)
           e == a.errors \/ Clashes(b.fields, ids, defs)
           c == WithFields(b, fields)
<1>1. /\ IsBuilder(a) /\ Grows(b, a) /\ (~a.errors => Names(a, FieldNames(fields)))
      /\ ~b.errors /\ Names(b, FieldNames(fields)) => a = b
      /\ a.types = b.types /\ a.fields = b.fields /\ a.procedures = b.procedures
  BY InternedIs, BuilderIs
<1>2. c = [a EXCEPT !.fields = fs, !.errors = e]
  BY <1>1 DEF WithFields, FieldNames, IdsOf, FieldDefs
<1>3. /\ IsFunction(fs) /\ Extends(b.fields, fs)
      /\ ~Clashes(b.fields, ids, defs) => Has(fs, ids, defs)
      /\ IsFunction(b.fields) /\ Has(b.fields, ids, defs) =>
           fs = b.fields /\ ~Clashes(b.fields, ids, defs)
  BY InsertedIs
<1>4. ASSUME NEW id \in DOMAIN fs
      PROVE  \/ id \in DOMAIN b.fields /\ fs[id] = b.fields[id]
             \/ \E i \in DOMAIN fields :
                  fs[id] = [name |-> StringIdOf(fields[i].name), type |-> fields[i].type]
  <2>1. DOMAIN ids \subseteq Nat /\ DOMAIN ids = DOMAIN fields BY DEF IdsOf
  <2>2. \A i \in DOMAIN fields :
            defs[i] = [name |-> StringIdOf(fields[i].name), type |-> fields[i].type]
    BY DEF FieldDefs
  <2> HIDE DEF ids, defs
  <2>3. \/ id \in DOMAIN b.fields /\ Inserted(b.fields, ids, defs)[id] = b.fields[id]
        \/ \E i \in DOMAIN ids : ids[i] = id /\ Inserted(b.fields, ids, defs)[id] = defs[i]
    BY <2>1, InsertedRange
  <2> QED BY <2>1, <2>2, <2>3
<1>5. e \in BOOLEAN /\ (a.errors => e) OBVIOUS
<1>a. e <=> a.errors \/ Clashes(b.fields, ids, defs) OBVIOUS
<1> HIDE DEF a, fs, c, e
<1>6. c = Builder(e, a.strings, a.types, fs, a.procedures)
  BY <1>1, <1>2 DEF Builder, IsBuilder
<1>7. /\ c.errors = e /\ c.strings = a.strings /\ c.types = b.types /\ c.fields = fs
      /\ c.procedures = b.procedures
  BY <1>1, <1>6, BuilderIs
<1>8. IsBuilder(c) BY <1>1, <1>3, <1>5, <1>6, <1>7 DEF IsBuilder
<1>9. Grows(a, c) BY <1>1, <1>3, <1>5, <1>7 DEF Grows, Extends
<1>10. Grows(b, c) BY <1>1, <1>9, GrowsOn
<1>11. ASSUME ~c.errors PROVE Fielded(c, fields)
  <2>1. Names(c, FieldNames(fields)) BY <1>1, <1>5, <1>7, <1>9, <1>11, NamesOn
  <2>2. Has(c.fields, ids, defs) BY <1>3, <1>7, <1>a, <1>11
  <2> QED BY <2>1, <2>2 DEF Fielded
<1>12. ASSUME ~b.errors, Fielded(b, fields) PROVE c = b
  <2>1. a = b BY <1>1, <1>12 DEF Fielded
  <2>2. fs = b.fields /\ ~Clashes(b.fields, ids, defs)
    BY <1>3, <1>12 DEF Fielded, IsBuilder
  <2>3. e = FALSE BY <1>5, <1>12, <1>a, <2>1, <2>2
  <2>4. b.errors = FALSE BY <1>12 DEF IsBuilder
  <2> QED BY <1>6, <2>1, <2>2, <2>3, <2>4 DEF IsBuilder
<1>13. \A id \in DOMAIN c.fields :
           \/ id \in DOMAIN b.fields /\ c.fields[id] = b.fields[id]
           \/ \E i \in DOMAIN fields :
                c.fields[id] = [name |-> StringIdOf(fields[i].name), type |-> fields[i].type]
  BY <1>4, <1>7
<1>14. FieldsAdded(b, fields, c)
  BY <1>7, <1>8, <1>10, <1>11, <1>12, <1>13 DEF FieldsAdded
<1> QED BY <1>14 DEF c

ProcDef(name, args, result) == [name |-> StringIdOf(name), args |-> args, result |-> result]

\* The procedure of that id is of these types.
Proced(b, id, name, args, result) ==
    Names(b, <<name>>) /\ Has(b.procedures, <<id>>, <<ProcDef(name, args, result)>>)

LEMMA WithProcIs ==
    ASSUME NEW b, Shaped(b), NEW id, NEW name, NEW args, NEW result,
           ~b.errors => {args, result} \subseteq DOMAIN b.types
    PROVE  /\ Shaped(WithProcWithId(b, id, name, args, result))
           /\ Grows(b, WithProcWithId(b, id, name, args, result))
           /\ ~WithProcWithId(b, id, name, args, result).errors =>
                /\ id \in DOMAIN WithProcWithId(b, id, name, args, result).procedures
                /\ WithProcWithId(b, id, name, args, result).procedures[id] =
                       ProcDef(name, args, result)
<1> DEFINE a == Interned(b, <<name>>)
           ids == <<id>>
           defs == <<ProcDef(name, args, result)>>
           ps == Inserted(b.procedures, ids, defs)
           e == a.errors \/ Clashes(b.procedures, ids, defs)
           c == WithProcWithId(b, id, name, args, result)
<1>0. IsBuilder(b) BY DEF Shaped
<1>1. /\ IsBuilder(a) /\ Grows(b, a) /\ (~a.errors => Names(a, <<name>>))
      /\ a.types = b.types /\ a.fields = b.fields /\ a.procedures = b.procedures
  BY <1>0, InternedIs, BuilderIs
<1>2. c = [a EXCEPT !.procedures = ps, !.errors = e] BY <1>1 DEF WithProcWithId, ProcDef
<1>3. /\ IsFunction(ps) /\ Extends(b.procedures, ps)
      /\ ~Clashes(b.procedures, ids, defs) => Has(ps, ids, defs)
  BY InsertedIs
<1>4. ASSUME NEW x \in DOMAIN ps
      PROVE  (x \in DOMAIN b.procedures /\ ps[x] = b.procedures[x]) \/ ps[x] = ProcDef(name, args, result)
  <2>1. DOMAIN ids \subseteq Nat /\ x \in DOMAIN Inserted(b.procedures, ids, defs) OBVIOUS
  <2>2. \A i \in DOMAIN ids : defs[i] = ProcDef(name, args, result) OBVIOUS
  <2> HIDE DEF ids, defs
  <2>3. \/ x \in DOMAIN b.procedures /\ Inserted(b.procedures, ids, defs)[x] = b.procedures[x]
        \/ \E i \in DOMAIN ids : ids[i] = x /\ Inserted(b.procedures, ids, defs)[x] = defs[i]
    BY <2>1, InsertedRange
  <2> QED BY <2>2, <2>3 DEF ids
<1>5. e \in BOOLEAN /\ (a.errors => e) OBVIOUS
<1>a. e <=> a.errors \/ Clashes(b.procedures, ids, defs) OBVIOUS
<1> HIDE DEF a, ps, c, e, defs, ids
<1>6. c = Builder(e, a.strings, a.types, a.fields, ps)
  BY <1>1, <1>2 DEF Builder, IsBuilder
<1>7. /\ c.errors = e /\ c.strings = a.strings /\ c.types = b.types /\ c.fields = b.fields
      /\ c.procedures = ps
  BY <1>1, <1>6, BuilderIs
<1>8. IsBuilder(c) BY <1>1, <1>3, <1>5, <1>6, <1>7 DEF IsBuilder
<1>9. Grows(a, c) BY <1>1, <1>3, <1>5, <1>7 DEF Grows, Extends
<1>10. Grows(b, c) BY <1>1, <1>9, GrowsOn
<1>11. ASSUME ~c.errors PROVE Names(c, <<name>>) /\ Has(c.procedures, ids, defs)
  <2>1. Names(c, <<name>>) BY <1>1, <1>5, <1>7, <1>9, <1>11, NamesOn
  <2>2. Has(c.procedures, ids, defs) BY <1>3, <1>7, <1>a, <1>11
  <2> QED BY <2>1, <2>2
<1>12. ASSUME ~c.errors PROVE ProcHolds(c, ProcDef(name, args, result))
  <2>1. StringIdOf(name) \in DOMAIN c.strings BY <1>11, <1>12, TypedIs
  <2>2. ~b.errors BY <1>10, <1>12 DEF Grows
  <2>3. {args, result} \subseteq DOMAIN c.types BY <1>7, <2>2
  <2> QED BY <2>1, <2>3 DEF ProcHolds, ProcDef
<1>13. Shaped(c) BY <1>4, <1>7, <1>8, <1>10, <1>12, ShapedOn
<1>14. ~c.errors => id \in DOMAIN c.procedures /\ c.procedures[id] = ProcDef(name, args, result)
  BY <1>11, OneThere DEF ids, defs
<1> QED BY <1>10, <1>13, <1>14 DEF c

\* A type whose kind names only what is known.
LEMMA WithTypeShaped ==
    ASSUME NEW b, Shaped(b), NEW name, NEW kind,
           ~WithType(b, name, kind).errors => KindHolds(b, kind)
    PROVE  Shaped(WithType(b, name, kind))
<1> DEFINE c == WithType(b, name, kind)
<1>0. IsBuilder(b) BY DEF Shaped
<1>a. TypeAdded(b, name, kind, c) BY <1>0, WithTypeIs
<1>b. ~c.errors => KindHolds(b, kind) OBVIOUS
<1> HIDE DEF c
<1>1. /\ IsBuilder(c) /\ Grows(b, c) /\ (~c.errors => Typed(c, name, kind))
      /\ c.fields = b.fields /\ c.procedures = b.procedures
      /\ \A id \in DOMAIN c.types :
           (id \in DOMAIN b.types /\ c.types[id] = b.types[id]) \/ c.types[id] = TypeDef(name, kind)
  BY <1>a DEF TypeAdded
<1>2. ASSUME ~c.errors PROVE TypeHolds(c, TypeDef(name, kind))
  <2>1. StringIdOf(name) \in DOMAIN c.strings BY <1>1, <1>2, TypedIs
  <2>2. KindHolds(b, kind) BY <1>2, <1>b
  <2>3. KindHolds(c, kind)
    <3>1. /\ DOMAIN b.strings \subseteq DOMAIN c.strings /\ DOMAIN b.types \subseteq DOMAIN c.types
          /\ DOMAIN b.fields \subseteq DOMAIN c.fields
      BY <1>1 DEF Grows, Extends
    <3> QED BY <2>2, <3>1 DEF KindHolds
  <2> QED BY <2>1, <2>3 DEF TypeHolds, TypeDef
<1>3. Shaped(c) BY <1>1, <1>2, ShapedOn
<1> QED BY <1>3 DEF c

\* Fields whose types are known.
LEMMA WithFieldsShaped ==
    ASSUME NEW b, Shaped(b), NEW fields, DOMAIN fields \subseteq Nat,
           ~b.errors => \A i \in DOMAIN fields : fields[i].type \in DOMAIN b.types
    PROVE  Shaped(WithFields(b, fields))
<1> DEFINE c == WithFields(b, fields)
<1>0. IsBuilder(b) BY DEF Shaped
<1>1. FieldsAdded(b, fields, c) BY <1>0, WithFieldsIs
<1> HIDE DEF c
<1>2. /\ IsBuilder(c) /\ Grows(b, c) /\ (~c.errors => Fielded(c, fields)) /\ c.types = b.types
      /\ c.procedures = b.procedures
      /\ \A id \in DOMAIN c.fields :
           \/ id \in DOMAIN b.fields /\ c.fields[id] = b.fields[id]
           \/ \E i \in DOMAIN fields :
                c.fields[id] = [name |-> StringIdOf(fields[i].name), type |-> fields[i].type]
  BY <1>1 DEF FieldsAdded
<1>3. ASSUME ~c.errors, NEW i \in DOMAIN fields
      PROVE  FieldHolds(c, [name |-> StringIdOf(fields[i].name), type |-> fields[i].type])
  <2>1. ~b.errors BY <1>2, <1>3 DEF Grows
  <2>2. fields[i].type \in DOMAIN c.types BY <1>2, <1>3, <2>1
  <2>3. Names(c, FieldNames(fields)) BY <1>2, <1>3 DEF Fielded
  <2>4. StringIdOf(fields[i].name) \in DOMAIN c.strings
    BY <1>3, <2>3 DEF Names, Has, StringIds, FieldNames
  <2> QED BY <2>2, <2>4 DEF FieldHolds
<1>4. Shaped(c) BY <1>2, <1>3, ShapedOn
<1> QED BY <1>4 DEF c

\* The name of a type that is known stays what it is.
LEMMA NameStays ==
    ASSUME NEW b, Shaped(b), ~b.errors, NEW c, Grows(b, c), NEW id \in DOMAIN b.types
    PROVE  NameIn(c, id) = NameIn(b, id) /\ id \in DOMAIN c.types
<1>1. TypeHolds(b, b.types[id]) BY ReferencesAre DEF Shaped
<1>2. b.types[id].name \in DOMAIN b.strings BY <1>1 DEF TypeHolds
<1>3. id \in DOMAIN c.types /\ c.types[id] = b.types[id] BY DEF Grows, Extends
<1>4. c.strings[b.types[id].name] = b.strings[b.types[id].name] BY <1>2 DEF Grows, Extends
<1> QED BY <1>3, <1>4 DEF NameIn, Known

\* A type named after types that it is made of.
DerivedAdded(b, ids, name, kind, c) ==
    /\ Shaped(c) /\ Grows(b, c)
    /\ ~c.errors => Typed(c, name, kind) /\ ids \subseteq DOMAIN b.types
    /\ ~b.errors /\ ids \subseteq DOMAIN b.types /\ Typed(b, name, kind) => c = b

LEMMA WithDerivedIs ==
    ASSUME NEW b, Shaped(b), NEW ids, NEW name, NEW kind,
           TypesIn(kind) = ids, kind.kind \notin {"struct", "enum"}
    PROVE  DerivedAdded(b, ids, name, kind, WithDerived(b, ids, name, kind))
<1> DEFINE e == b.errors \/ \E id \in ids : ~Known(b, id)
           a == [b EXCEPT !.errors = e]
           c == WithDerived(b, ids, name, kind)
<1>1. c = WithType(a, name, kind) BY DEF WithDerived
<1>2. e \in BOOLEAN /\ (b.errors => e) /\ (~e => ids \subseteq DOMAIN b.types) BY DEF Known
<1>3. b = Builder(b.errors, b.strings, b.types, b.fields, b.procedures) /\ b.errors \in BOOLEAN
  BY DEF Shaped, IsBuilder
<1>4. ids \subseteq DOMAIN b.types /\ ~b.errors => e = b.errors BY <1>3 DEF Known
<1> HIDE DEF e
<1>5. a = Builder(e, b.strings, b.types, b.fields, b.procedures) BY <1>3 DEF Builder
<1> HIDE DEF a, c
<1>6. /\ a.errors = e /\ a.strings = b.strings /\ a.types = b.types /\ a.fields = b.fields
      /\ a.procedures = b.procedures
  BY <1>5, BuilderIs
<1>7. IsBuilder(a) BY <1>2, <1>5, <1>6 DEF Shaped, IsBuilder
<1>8. Grows(b, a) BY <1>2, <1>6 DEF Grows, Extends
<1>9. Shaped(a) BY <1>6, <1>7, <1>8, ShapedOn
<1>10. TypeAdded(a, name, kind, c) BY <1>1, <1>7, WithTypeIs
<1>11. ~c.errors => ~e BY <1>6, <1>10 DEF TypeAdded, Grows
<1>12. ~c.errors => KindHolds(a, kind) BY <1>2, <1>6, <1>11 DEF KindHolds
<1>13. Shaped(c) BY <1>1, <1>9, <1>12, WithTypeShaped
<1>14. Grows(b, c) BY <1>8, <1>10, GrowsOn DEF TypeAdded
<1>15. ~c.errors => Typed(c, name, kind) /\ ids \subseteq DOMAIN b.types
  BY <1>2, <1>10, <1>11 DEF TypeAdded
<1>16. ASSUME ~b.errors, ids \subseteq DOMAIN b.types, Typed(b, name, kind) PROVE c = b
  <2>1. a = b BY <1>3, <1>4, <1>5, <1>16
  <2> QED BY <1>10, <1>16, <2>1 DEF TypeAdded
<1>17. DerivedAdded(b, ids, name, kind, c) BY <1>13, <1>14, <1>15, <1>16 DEF DerivedAdded
<1> QED BY <1>17 DEF c

\* A type that is made of no others, or of those that are known.
PlainAdded(b, name, kind, c) ==
    /\ Shaped(c) /\ Grows(b, c)
    /\ ~c.errors => Typed(c, name, kind)
    /\ ~b.errors /\ Typed(b, name, kind) => c = b

LEMMA WithPlainIs ==
    ASSUME NEW b, Shaped(b), NEW name, NEW kind, ~b.errors => KindHolds(b, kind)
    PROVE  PlainAdded(b, name, kind, WithType(b, name, kind))
<1> DEFINE c == WithType(b, name, kind)
<1>1. IsBuilder(b) BY DEF Shaped
<1>2. TypeAdded(b, name, kind, c) BY <1>1, WithTypeIs
<1>3. ~c.errors => ~b.errors BY <1>2 DEF TypeAdded, Grows
<1>4. Shaped(c) BY <1>3, WithTypeShaped
<1> HIDE DEF c
<1>5. PlainAdded(b, name, kind, c) BY <1>2, <1>4 DEF PlainAdded, TypeAdded
<1> QED BY <1>5 DEF c

----------------------------------------------------------------------------
(* Registrations: what is claimed of the parts, and of the whole.          *)

\* T has been registered in b, and has the id there: to register it again changes nothing.
SettledPart(b, T, id) == RegisteredPart(b, T) = Gives(b, id)

PartsRegistered ==
    /\ \A T : WellFormedPart(T) /\ T.form # "variant" =>
         /\ \A b : Shaped(b) =>
              LET r == RegisteredPart(b, T)
              IN  /\ Shaped(r.builder) /\ Grows(b, r.builder)
                  /\ ~r.builder.errors => SettledPart(r.builder, T, r.id)
         /\ \A b, c, id :
              Shaped(b) /\ SettledPart(b, T, id) /\ Shaped(c) /\ Grows(b, c) /\ ~c.errors =>
                 SettledPart(c, T, id)
         /\ \A b, id : Shaped(b) /\ ~b.errors /\ SettledPart(b, T, id) =>
              /\ id \in DOMAIN b.types
              /\ \A s, v : s.types = b.types /\ s.fields = b.fields /\ HasTypePart(T, v) =>
                    ConformsPart(s, id, EncodedPart(T, v))
    /\ \A T, v : WellFormedPart(T) /\ T.form = "variant" => EncodedPart(T, v) = BoolValue(TRUE)

Settled(b, T, id) == Registered(b, T) = Gives(b, id)

TypesRegistered ==
    /\ \A T : WellFormed(T) /\ T.form # "variant" =>
         /\ \A b : Shaped(b) =>
              LET r == Registered(b, T)
              IN  /\ Shaped(r.builder) /\ Grows(b, r.builder)
                  /\ ~r.builder.errors => Settled(r.builder, T, r.id)
         /\ \A b, c, id :
              Shaped(b) /\ Settled(b, T, id) /\ Shaped(c) /\ Grows(b, c) /\ ~c.errors =>
                 Settled(c, T, id)
         /\ \A b, id : Shaped(b) /\ ~b.errors /\ Settled(b, T, id) =>
              /\ id \in DOMAIN b.types
              /\ \A s, v : s.types = b.types /\ s.fields = b.fields /\ HasType(T, v) =>
                    Conforms(s, id, Encoded(T, v))
    /\ \A T, v : WellFormed(T) /\ T.form = "variant" => Encoded(T, v) = BoolValue(TRUE)

LEMMA RegisteredByForm ==
    ASSUME NEW b, NEW T
    PROVE  /\ T.form = "option" => Registered(b, T) = RegisteredOption(b, T)
           /\ T.form = "vec" => Registered(b, T) = RegisteredVec(b, T)
           /\ T.form = "map" => Registered(b, T) = RegisteredMap(b, T)
           /\ T.form = "tuple" => Registered(b, T) = RegisteredTuple(b, T)
           /\ T.form = "struct" => Registered(b, T) = RegisteredStruct(b, T)
           /\ T.form = "enum" => Registered(b, T) = RegisteredEnum(b, T)
           /\ T.form \notin {"option", "vec", "map", "tuple", "struct", "enum"} =>
                Registered(b, T) = RegisteredPrimitive(b, T)
BY DEF Registered

LEMMA GivesIs ==
    ASSUME NEW b, NEW id
    PROVE  /\ Gives(b, id).builder = b /\ Gives(b, id).id = id
           /\ \A c, i : Gives(b, id) = Gives(c, i) => b = c /\ id = i
<1>1. \A c, i : Gives(c, i).builder = c /\ Gives(c, i).id = i BY DEF Gives
<1>2. \A c, i : Gives(b, id) = Gives(c, i) => b = c /\ id = i BY <1>1
<1> QED BY <1>1, <1>2

\* One type within: a builder that knows what it names.
LEMMA PartRegistered ==
    ASSUME PartsRegistered, NEW T, WellFormedPart(T), T.form # "variant", NEW b, Shaped(b)
    PROVE  /\ Shaped(RegisteredPart(b, T).builder) /\ Grows(b, RegisteredPart(b, T).builder)
           /\ \A c : Shaped(c) /\ Grows(RegisteredPart(b, T).builder, c) /\ ~c.errors =>
                /\ SettledPart(c, T, RegisteredPart(b, T).id)
                /\ RegisteredPart(b, T).id \in DOMAIN RegisteredPart(b, T).builder.types
<1> DEFINE r == RegisteredPart(b, T)
<1>1. /\ Shaped(r.builder) /\ Grows(b, r.builder)
      /\ ~r.builder.errors => SettledPart(r.builder, T, r.id)
  BY DEF PartsRegistered
<1> HIDE DEF r
<1>2. ASSUME NEW c, Shaped(c), Grows(r.builder, c), ~c.errors
      PROVE  SettledPart(c, T, r.id) /\ r.id \in DOMAIN r.builder.types
  <2>1. ~r.builder.errors BY <1>2 DEF Grows
  <2>2. SettledPart(r.builder, T, r.id) BY <1>1, <2>1
  <2>3. SettledPart(c, T, r.id) BY <1>1, <1>2, <2>2 DEF PartsRegistered
  <2>4. r.id \in DOMAIN r.builder.types BY <1>1, <2>1, <2>2 DEF PartsRegistered
  <2> QED BY <2>3, <2>4
<1> QED BY <1>1, <1>2 DEF r

LEMMA PartSettled ==
    ASSUME PartsRegistered, NEW T, WellFormedPart(T), T.form # "variant", NEW b, Shaped(b),
           NEW id, SettledPart(b, T, id), ~b.errors
    PROVE  /\ RegisteredPart(b, T).builder = b /\ RegisteredPart(b, T).id = id
           /\ id \in DOMAIN b.types
           /\ \A c : Shaped(c) /\ Grows(b, c) /\ ~c.errors => SettledPart(c, T, id)
           /\ \A s, v : s.types = b.types /\ s.fields = b.fields /\ HasTypePart(T, v) =>
                ConformsPart(s, id, EncodedPart(T, v))
<1>1. RegisteredPart(b, T).builder = b /\ RegisteredPart(b, T).id = id
  BY GivesIs DEF SettledPart
<1>2. /\ id \in DOMAIN b.types
      /\ \A s, v : s.types = b.types /\ s.fields = b.fields /\ HasTypePart(T, v) =>
           ConformsPart(s, id, EncodedPart(T, v))
  BY DEF PartsRegistered
<1>3. \A c : Shaped(c) /\ Grows(b, c) /\ ~c.errors => SettledPart(c, T, id)
  BY DEF PartsRegistered
<1> QED BY <1>1, <1>2, <1>3

----------------------------------------------------------------------------
(* What is in the tables once a type is registered, for each form of type. *)

Scalars == {"uint", "int", "float", "unit", "bool", "string", "bytes"}

DescribedScalar(b, T, id) ==
    /\ Typed(b, PrimitiveName(T), [kind |-> "primitive", prim |-> T])
    /\ id = IdOf(PrimitiveName(T))

DescribedOption(b, T, id) ==
    \E i : /\ SettledPart(b, T.of, i)
           /\ Typed(b, OptionName(b, i), [kind |-> "option", some |-> i])
           /\ id = IdOf(OptionName(b, i))

DescribedVec(b, T, id) ==
    \E i : /\ SettledPart(b, T.of, i)
           /\ Typed(b, VecName(b, i), [kind |-> "array", items |-> i])
           /\ id = IdOf(VecName(b, i))

DescribedMap(b, T, id) ==
    \E k, i : /\ SettledPart(b, T.key, k) /\ SettledPart(b, T.of, i)
              /\ Typed(b, MapName(b, k, i), [kind |-> "map", key |-> k, value |-> i])
              /\ id = IdOf(MapName(b, k, i))

LEMMA ScalarRegistered ==
    ASSUME NEW b, Shaped(b), NEW T
    PROVE  /\ LET r == RegisteredPrimitive(b, T)
              IN  /\ Shaped(r.builder) /\ Grows(b, r.builder)
                  /\ ~r.builder.errors => DescribedScalar(r.builder, T, r.id)
           /\ \A id : ~b.errors /\ DescribedScalar(b, T, id) => RegisteredPrimitive(b, T) = Gives(b, id)
<1> DEFINE name == PrimitiveName(T)
           kind == [kind |-> "primitive", prim |-> T]
           c == WithType(b, name, kind)
           r == RegisteredPrimitive(b, T)
<1>1. KindHolds(b, kind)
  <2>1. TypesIn(kind) = {} BY DEF TypesIn
  <2> QED BY <2>1 DEF KindHolds
<1>2. PlainAdded(b, name, kind, c)
  <2> HIDE DEF name, kind
  <2> QED BY <1>1, WithPlainIs
<1>3. r = Gives(c, IdOf(name)) BY DEF RegisteredPrimitive, WithPrimitive
<1>4. \A d, id : DescribedScalar(d, T, id) <=> Typed(d, name, kind) /\ id = IdOf(name)
  BY DEF DescribedScalar
<1> HIDE DEF name, kind, c, r
<1>5. r.builder = c /\ r.id = IdOf(name) BY <1>3, GivesIs
<1>6. Shaped(c) /\ Grows(b, c) /\ (~c.errors => DescribedScalar(c, T, r.id))
  BY <1>2, <1>4, <1>5 DEF PlainAdded
<1>7. \A id : ~b.errors /\ DescribedScalar(b, T, id) => r = Gives(b, id)
  BY <1>2, <1>3, <1>4 DEF PlainAdded
<1> QED BY <1>5, <1>6, <1>7 DEF r

LEMMA OptionRegistered ==
    ASSUME PartsRegistered, NEW T, WellFormedPart(T.of), T.of.form # "variant",
           NEW b, Shaped(b)
    PROVE  /\ LET r == RegisteredOption(b, T)
              IN  /\ Shaped(r.builder) /\ Grows(b, r.builder)
                  /\ ~r.builder.errors => DescribedOption(r.builder, T, r.id)
           /\ \A id : ~b.errors /\ DescribedOption(b, T, id) => RegisteredOption(b, T) = Gives(b, id)
<1> DEFINE item == RegisteredPart(b, T.of)
           a == item.builder
           i == item.id
           name(d, x) == OptionName(d, x)
           kind(x) == [kind |-> "option", some |-> x]
           c == WithDerived(a, {i}, name(a, i), kind(i))
           r == RegisteredOption(b, T)
<1>1. r = Gives(c, IdOf(name(a, i))) BY DEF RegisteredOption, WithOption
<1>2. /\ Shaped(a) /\ Grows(b, a)
      /\ \A d : Shaped(d) /\ Grows(a, d) /\ ~d.errors => SettledPart(d, T.of, i) /\ i \in DOMAIN a.types
  BY PartRegistered
<1>3. \A x : TypesIn(kind(x)) = {x} /\ kind(x).kind \notin {"struct", "enum"} BY DEF TypesIn
<1>4. \A d, id : DescribedOption(d, T, id) <=>
                    \E x : SettledPart(d, T.of, x) /\ Typed(d, name(d, x), kind(x)) /\ id = IdOf(name(d, x))
  BY DEF DescribedOption
<1>5. \A d, x : WithOption(d, x) = WithDerived(d, {x}, name(d, x), kind(x)) BY DEF WithOption
<1>6. \A d, e, x : NameIn(d, x) = NameIn(e, x) => name(d, x) = name(e, x) BY DEF OptionName
<1>7. RegisteredOption(b, T) = Gives(WithOption(a, i), IdOf(name(a, i))) BY DEF RegisteredOption
<1> HIDE DEF kind, name, item
<1>8. ASSUME NEW d, Shaped(d), NEW x PROVE DerivedAdded(d, {x}, name(d, x), kind(x), WithOption(d, x))
  <2>1. DerivedAdded(d, {x}, name(d, x), kind(x), WithDerived(d, {x}, name(d, x), kind(x)))
    <3> DEFINE ids == {x}
    <3>1. TypesIn(kind(x)) = ids BY <1>3
    <3> HIDE DEF ids
    <3>2. DerivedAdded(d, ids, name(d, x), kind(x), WithDerived(d, ids, name(d, x), kind(x)))
      BY <1>3, <1>8, <3>1, WithDerivedIs
    <3> QED BY <3>2 DEF ids
  <2> QED BY <1>5, <2>1
<1>9. DerivedAdded(a, {i}, name(a, i), kind(i), c)
  <2>1. WithOption(a, i) = c BY <1>5
  <2> QED BY <1>2, <1>8, <2>1
<1> HIDE DEF c, r
<1>10. r.builder = c /\ r.id = IdOf(name(a, i)) BY <1>1, GivesIs
<1>11. Shaped(c) /\ Grows(a, c) /\ Grows(b, c) BY <1>2, <1>9, GrowsOn DEF DerivedAdded
<1>12. ASSUME ~c.errors PROVE DescribedOption(c, T, r.id)
  <2>1. SettledPart(c, T.of, i) /\ i \in DOMAIN a.types BY <1>2, <1>11, <1>12
  <2>2. ~a.errors BY <1>11, <1>12 DEF Grows
  <2>3. NameIn(c, i) = NameIn(a, i) BY <1>2, <1>11, <2>1, <2>2, NameStays
  <2>4. name(c, i) = name(a, i) BY <1>6, <2>3
  <2>5. Typed(c, name(a, i), kind(i)) BY <1>9, <1>12 DEF DerivedAdded
  <2> QED BY <1>4, <1>10, <2>1, <2>4, <2>5
<1>13. ASSUME NEW id, ~b.errors, DescribedOption(b, T, id) PROVE r = Gives(b, id)
  <2>1. PICK x : SettledPart(b, T.of, x) /\ Typed(b, name(b, x), kind(x)) /\ id = IdOf(name(b, x))
    BY <1>4, <1>13
  <2>2. a = b /\ i = x /\ x \in DOMAIN b.types BY <1>13, <2>1, PartSettled DEF item
  <2>3. DerivedAdded(b, {x}, name(b, x), kind(x), c) BY <1>9, <2>2
  <2>4. c = b BY <1>13, <2>1, <2>2, <2>3 DEF DerivedAdded
  <2> QED BY <1>1, <2>1, <2>2, <2>4
<1> QED BY <1>10, <1>11, <1>12, <1>13 DEF r

LEMMA VecRegistered ==
    ASSUME PartsRegistered, NEW T, WellFormedPart(T.of), T.of.form # "variant",
           NEW b, Shaped(b)
    PROVE  /\ LET r == RegisteredVec(b, T)
              IN  /\ Shaped(r.builder) /\ Grows(b, r.builder)
                  /\ ~r.builder.errors => DescribedVec(r.builder, T, r.id)
           /\ \A id : ~b.errors /\ DescribedVec(b, T, id) => RegisteredVec(b, T) = Gives(b, id)
<1> DEFINE item == RegisteredPart(b, T.of)
           a == item.builder
           i == item.id
           name(d, x) == VecName(d, x)
           kind(x) == [kind |-> "array", items |-> x]
           c == WithDerived(a, {i}, name(a, i), kind(i))
           r == RegisteredVec(b, T)
<1>1. r = Gives(c, IdOf(name(a, i))) BY DEF RegisteredVec, WithVec
<1>2. /\ Shaped(a) /\ Grows(b, a)
      /\ \A d : Shaped(d) /\ Grows(a, d) /\ ~d.errors => SettledPart(d, T.of, i) /\ i \in DOMAIN a.types
  BY PartRegistered
<1>3. \A x : TypesIn(kind(x)) = {x} /\ kind(x).kind \notin {"struct", "enum"} BY DEF TypesIn
<1>4. \A d, id : DescribedVec(d, T, id) <=>
                    \E x : SettledPart(d, T.of, x) /\ Typed(d, name(d, x), kind(x)) /\ id = IdOf(name(d, x))
  BY DEF DescribedVec
<1>5. \A d, x : WithVec(d, x) = WithDerived(d, {x}, name(d, x), kind(x)) BY DEF WithVec
<1>6. \A d, e, x : NameIn(d, x) = NameIn(e, x) => name(d, x) = name(e, x) BY DEF VecName
<1>7. RegisteredVec(b, T) = Gives(WithVec(a, i), IdOf(name(a, i))) BY DEF RegisteredVec
<1> HIDE DEF kind, name, item
<1>8. ASSUME NEW d, Shaped(d), NEW x PROVE DerivedAdded(d, {x}, name(d, x), kind(x), WithVec(d, x))
  <2>1. DerivedAdded(d, {x}, name(d, x), kind(x), WithDerived(d, {x}, name(d, x), kind(x)))
    <3> DEFINE ids == {x}
    <3>1. TypesIn(kind(x)) = ids BY <1>3
    <3> HIDE DEF ids
    <3>2. DerivedAdded(d, ids, name(d, x), kind(x), WithDerived(d, ids, name(d, x), kind(x)))
      BY <1>3, <1>8, <3>1, WithDerivedIs
    <3> QED BY <3>2 DEF ids
  <2> QED BY <1>5, <2>1
<1>9. DerivedAdded(a, {i}, name(a, i), kind(i), c)
  <2>1. WithVec(a, i) = c BY <1>5
  <2> QED BY <1>2, <1>8, <2>1
<1> HIDE DEF c, r
<1>10. r.builder = c /\ r.id = IdOf(name(a, i)) BY <1>1, GivesIs
<1>11. Shaped(c) /\ Grows(a, c) /\ Grows(b, c) BY <1>2, <1>9, GrowsOn DEF DerivedAdded
<1>12. ASSUME ~c.errors PROVE DescribedVec(c, T, r.id)
  <2>1. SettledPart(c, T.of, i) /\ i \in DOMAIN a.types BY <1>2, <1>11, <1>12
  <2>2. ~a.errors BY <1>11, <1>12 DEF Grows
  <2>3. NameIn(c, i) = NameIn(a, i) BY <1>2, <1>11, <2>1, <2>2, NameStays
  <2>4. name(c, i) = name(a, i) BY <1>6, <2>3
  <2>5. Typed(c, name(a, i), kind(i)) BY <1>9, <1>12 DEF DerivedAdded
  <2> QED BY <1>4, <1>10, <2>1, <2>4, <2>5
<1>13. ASSUME NEW id, ~b.errors, DescribedVec(b, T, id) PROVE r = Gives(b, id)
  <2>1. PICK x : SettledPart(b, T.of, x) /\ Typed(b, name(b, x), kind(x)) /\ id = IdOf(name(b, x))
    BY <1>4, <1>13
  <2>2. a = b /\ i = x /\ x \in DOMAIN b.types BY <1>13, <2>1, PartSettled DEF item
  <2>3. DerivedAdded(b, {x}, name(b, x), kind(x), c) BY <1>9, <2>2
  <2>4. c = b BY <1>13, <2>1, <2>2, <2>3 DEF DerivedAdded
  <2> QED BY <1>1, <2>1, <2>2, <2>4
<1> QED BY <1>10, <1>11, <1>12, <1>13 DEF r

LEMMA MapRegistered ==
    ASSUME PartsRegistered, NEW T, WellFormedPart(T.key), T.key.form = "uint",
           WellFormedPart(T.of), T.of.form # "variant", NEW b, Shaped(b)
    PROVE  /\ LET r == RegisteredMap(b, T)
              IN  /\ Shaped(r.builder) /\ Grows(b, r.builder)
                  /\ ~r.builder.errors => DescribedMap(r.builder, T, r.id)
           /\ \A id : ~b.errors /\ DescribedMap(b, T, id) => RegisteredMap(b, T) = Gives(b, id)
<1> DEFINE key == RegisteredPart(b, T.key)
           k == key.id
           val == RegisteredPart(key.builder, T.of)
           a == val.builder
           i == val.id
           name(d, x, y) == MapName(d, x, y)
           kind(x, y) == [kind |-> "map", key |-> x, value |-> y]
           c == WithMap(a, k, i)
           r == RegisteredMap(b, T)
<1>1. r = Gives(c, IdOf(name(a, k, i))) BY DEF RegisteredMap
<1>2. /\ Shaped(key.builder) /\ Grows(b, key.builder)
      /\ \A d : Shaped(d) /\ Grows(key.builder, d) /\ ~d.errors =>
           SettledPart(d, T.key, k) /\ k \in DOMAIN key.builder.types
  BY PartRegistered
<1>3. /\ Shaped(a) /\ Grows(key.builder, a)
      /\ \A d : Shaped(d) /\ Grows(a, d) /\ ~d.errors => SettledPart(d, T.of, i) /\ i \in DOMAIN a.types
  BY <1>2, PartRegistered
<1>4. \A x, y : TypesIn(kind(x, y)) = {x, y} /\ kind(x, y).kind \notin {"struct", "enum"}
  BY DEF TypesIn
<1>5. \A d, id : DescribedMap(d, T, id) <=>
                    \E x, y : /\ SettledPart(d, T.key, x) /\ SettledPart(d, T.of, y)
                              /\ Typed(d, name(d, x, y), kind(x, y)) /\ id = IdOf(name(d, x, y))
  BY DEF DescribedMap
<1>6. \A d, x, y : WithMap(d, x, y) = WithDerived(d, {x, y}, name(d, x, y), kind(x, y)) BY DEF WithMap
<1>7. \A d, e, x, y : NameIn(d, x) = NameIn(e, x) /\ NameIn(d, y) = NameIn(e, y) =>
                         name(d, x, y) = name(e, x, y)
  BY DEF MapName
<1> HIDE DEF kind, name, key, val
<1>8. ASSUME NEW d, Shaped(d), NEW x, NEW y
      PROVE  DerivedAdded(d, {x, y}, name(d, x, y), kind(x, y), WithMap(d, x, y))
  <2>1. DerivedAdded(d, {x, y}, name(d, x, y), kind(x, y), WithDerived(d, {x, y}, name(d, x, y), kind(x, y)))
    <3> DEFINE ids == {x, y}
    <3>1. TypesIn(kind(x, y)) = ids BY <1>4
    <3> HIDE DEF ids
    <3>2. DerivedAdded(d, ids, name(d, x, y), kind(x, y), WithDerived(d, ids, name(d, x, y), kind(x, y)))
      BY <1>4, <1>8, <3>1, WithDerivedIs
    <3> QED BY <3>2 DEF ids
  <2> QED BY <1>6, <2>1
<1>9. DerivedAdded(a, {k, i}, name(a, k, i), kind(k, i), c) BY <1>3, <1>8
<1> HIDE DEF c, r
<1>10. r.builder = c /\ r.id = IdOf(name(a, k, i)) BY <1>1, GivesIs
<1>11. Shaped(c) /\ Grows(a, c) /\ Grows(key.builder, c) /\ Grows(b, c)
  BY <1>2, <1>3, <1>9, GrowsOn DEF DerivedAdded
<1>12. ASSUME ~c.errors PROVE DescribedMap(c, T, r.id)
  <2>1. SettledPart(c, T.of, i) /\ i \in DOMAIN a.types BY <1>3, <1>11, <1>12
  <2>2. SettledPart(c, T.key, k) /\ k \in DOMAIN key.builder.types BY <1>2, <1>11, <1>12
  <2>3. ~a.errors BY <1>11, <1>12 DEF Grows
  <2>4. k \in DOMAIN a.types BY <1>3, <2>2 DEF Grows, Extends
  <2>5. NameIn(c, i) = NameIn(a, i) /\ NameIn(c, k) = NameIn(a, k)
    BY <1>3, <1>11, <2>1, <2>3, <2>4, NameStays
  <2>6. name(c, k, i) = name(a, k, i) BY <1>7, <2>5
  <2>7. Typed(c, name(a, k, i), kind(k, i)) BY <1>9, <1>12 DEF DerivedAdded
  <2> QED BY <1>5, <1>10, <2>1, <2>2, <2>6, <2>7
<1>13. ASSUME NEW id, ~b.errors, DescribedMap(b, T, id) PROVE r = Gives(b, id)
  <2>1. PICK x, y : /\ SettledPart(b, T.key, x) /\ SettledPart(b, T.of, y)
                    /\ Typed(b, name(b, x, y), kind(x, y)) /\ id = IdOf(name(b, x, y))
    BY <1>5, <1>13
  <2>2. key.builder = b /\ k = x /\ x \in DOMAIN b.types BY <1>13, <2>1, PartSettled DEF key
  <2>3. a = b /\ i = y /\ y \in DOMAIN b.types BY <1>13, <2>1, <2>2, PartSettled DEF val
  <2>4. DerivedAdded(b, {x, y}, name(b, x, y), kind(x, y), c) BY <1>9, <2>2, <2>3
  <2>5. c = b BY <1>13, <2>1, <2>2, <2>3, <2>4 DEF DerivedAdded
  <2> QED BY <1>1, <2>1, <2>2, <2>3, <2>5
<1> QED BY <1>10, <1>11, <1>12, <1>13 DEF r

----------------------------------------------------------------------------
(* Several types, one after the other.                                     *)

SettledWithin(b, T, id) == RegisteredWithin(b, T) = Gives(b, id)

LEMMA WithinRegistered ==
    ASSUME PartsRegistered, NEW T, WellFormedPart(T), NEW b, Shaped(b)
    PROVE  /\ Shaped(RegisteredWithin(b, T).builder) /\ Grows(b, RegisteredWithin(b, T).builder)
           /\ \A c : Shaped(c) /\ Grows(RegisteredWithin(b, T).builder, c) /\ ~c.errors =>
                SettledWithin(c, T, RegisteredWithin(b, T).id)
           /\ \A id, c : SettledWithin(b, T, id) /\ Shaped(c) /\ Grows(b, c) /\ ~c.errors =>
                SettledWithin(c, T, id)
<1>1. CASE T.form = "variant"
  <2>1. \A c : RegisteredWithin(c, T) = Gives(c, Nothing) BY <1>1 DEF RegisteredWithin
  <2>2. RegisteredWithin(b, T).builder = b /\ RegisteredWithin(b, T).id = Nothing BY <2>1, GivesIs
  <2>3. \A c : SettledWithin(c, T, Nothing) BY <2>1 DEF SettledWithin
  <2>4. \A c, id : SettledWithin(c, T, id) => id = Nothing BY <2>1, GivesIs DEF SettledWithin
  <2> QED BY <2>2, <2>3, <2>4, GrowsSelf
<1>2. CASE T.form # "variant"
  <2>1. \A c : RegisteredWithin(c, T) = RegisteredPart(c, T) BY <1>2 DEF RegisteredWithin
  <2>2. \A c, id : SettledWithin(c, T, id) <=> SettledPart(c, T, id)
    BY <2>1 DEF SettledWithin, SettledPart
  <2>3. /\ Shaped(RegisteredPart(b, T).builder) /\ Grows(b, RegisteredPart(b, T).builder)
        /\ \A c : Shaped(c) /\ Grows(RegisteredPart(b, T).builder, c) /\ ~c.errors =>
             SettledPart(c, T, RegisteredPart(b, T).id)
    BY <1>2, PartRegistered
  <2>4. \A id, c : SettledPart(b, T, id) /\ Shaped(c) /\ Grows(b, c) /\ ~c.errors =>
                      SettledPart(c, T, id)
    BY <1>2 DEF PartsRegistered
  <2> QED BY <2>1, <2>2, <2>3, <2>4
<1> QED BY <1>1, <1>2

\* The recursive definition of RegisteredParts, at 0 and at i + 1.
LEMMA RegisteredPartsSteps ==
    ASSUME NEW b, NEW types, Len(types) \in Nat
    PROVE  \E f : /\ f[0] = Gives(b, <<>>)
                  /\ \A i \in Nat : i < Len(types) => f[i + 1] = WithOneMore(f[i], types[i + 1])
                  /\ RegisteredParts(b, types) = f[Len(types)]
<1> DEFINE m == Len(types)
           First == Gives(b, <<>>)
           Step(x, n) == WithOneMore(x, types[n])
           Is(f, k) == f = [i \in 0..k |-> IF i = 0 THEN First ELSE Step(f[i - 1], i)]
<1>1. RegisteredParts(b, types) = (CHOOSE f : Is(f, m))[m]
  BY DEF RegisteredParts
<1>2. First = Gives(b, <<>>) /\ \A x, n : Step(x, n) = WithOneMore(x, types[n])
  OBVIOUS
<1> HIDE DEF First, Step, m
<1>3. ASSUME NEW k \in Nat, NEW f, Is(f, k)
      PROVE  /\ f[0] = First
             /\ \A i \in Nat : i < k => f[i + 1] = Step(f[i], i + 1)
  <2>1. 0 \in 0..k /\ \A i \in Nat : i < k => i + 1 \in 0..k /\ i + 1 # 0 /\ (i + 1) - 1 = i
    OBVIOUS
  <2> QED BY <1>3, <2>1
<1>4. \A k \in Nat : \E f : Is(f, k)
  <2> DEFINE S == {k \in Nat : \E f : Is(f, k)}
  <2>1. 0 \in S
    <3>1. Is([i \in 0..0 |-> First], 0)
      <4>1. \A i \in 0..0 : i = 0 OBVIOUS
      <4> QED BY <4>1
    <3> QED BY <3>1
  <2>2. ASSUME NEW k \in Nat, k \in S PROVE k + 1 \in S
    <3>1. PICK f : Is(f, k) BY <2>2
    <3> DEFINE last == Step(f[k], k + 1)
               g == [i \in 0..(k + 1) |-> IF i = k + 1 THEN last ELSE f[i]]
    <3>2. k + 1 \in 0..(k + 1) /\ \A i \in 0..k : i \in 0..(k + 1) /\ i # k + 1
      OBVIOUS
    <3>3. g[k + 1] = last /\ \A i \in 0..k : g[i] = f[i]
      <4> HIDE DEF last
      <4> QED BY <3>2
    <3>4. ASSUME NEW i \in 0..(k + 1)
          PROVE  g[i] = IF i = 0 THEN First ELSE Step(g[i - 1], i)
      <4>1. CASE i = k + 1
        <5>1. i # 0 /\ i - 1 = k /\ k \in 0..k BY <4>1
        <5>2. g[i - 1] = f[k] BY <3>3, <5>1
        <5> QED BY <3>3, <4>1, <5>1, <5>2
      <4>2. CASE i \in 0..k /\ i = 0
        <5>1. g[i] = f[0] BY <3>3, <4>2
        <5> QED BY <1>3, <3>1, <4>2, <5>1
      <4>3. CASE i \in 0..k /\ i # 0
        <5>1. i - 1 \in 0..k /\ i - 1 \in Nat /\ i - 1 < k /\ (i - 1) + 1 = i BY <4>3
        <5>2. g[i] = f[i] /\ g[i - 1] = f[i - 1] BY <3>3, <4>3, <5>1
        <5>3. f[i] = Step(f[i - 1], i) BY <1>3, <3>1, <5>1
        <5> QED BY <4>3, <5>2, <5>3
      <4> QED BY <4>1, <4>2, <4>3
    <3>5. g = [i \in 0..(k + 1) |-> g[i]] OBVIOUS
    <3> HIDE DEF g
    <3>6. Is(g, k + 1) BY <3>4, <3>5
    <3> QED BY <3>6
  <2> HIDE DEF S
  <2>3. \A k \in Nat : k \in S BY <2>1, <2>2, Induction
  <2> QED BY <2>3 DEF S
<1> DEFINE f == CHOOSE f : Is(f, m)
<1>5. Is(f, m) /\ m \in Nat
  <2>1. m \in Nat BY DEF m
  <2>2. \E h : Is(h, m) BY <1>4, <2>1
  <2> HIDE DEF Is
  <2> QED BY <2>1, <2>2
<1> HIDE DEF f, Is
<1>6. f[0] = First /\ \A i \in Nat : i < m => f[i + 1] = Step(f[i], i + 1) BY <1>3, <1>5
<1>7. RegisteredParts(b, types) = f[m] BY <1>1 DEF f
<1> QED BY <1>2, <1>6, <1>7 DEF m

\* Each of the types is registered, and these are their ids.
AllSettled(b, types, ids) ==
    /\ ids = [i \in 1..Len(types) |-> ids[i]]
    /\ \A i \in 1..Len(types) : SettledWithin(b, types[i], ids[i])

LEMMA PartsSettled ==
    ASSUME NEW b, NEW types, Len(types) \in Nat, NEW ids, AllSettled(b, types, ids)
    PROVE  RegisteredParts(b, types) = Gives(b, ids)
<1> DEFINE m == Len(types)
           upTo(i) == [j \in 1..i |-> ids[j]]
<1>1. PICK f : /\ f[0] = Gives(b, <<>>)
               /\ \A i \in Nat : i < m => f[i + 1] = WithOneMore(f[i], types[i + 1])
               /\ RegisteredParts(b, types) = f[m]
  BY RegisteredPartsSteps
<1> DEFINE Q == {i \in Nat : i <= m => f[i] = Gives(b, upTo(i))}
<1>2. 0 \in Q
  <2>1. upTo(0) = <<>> OBVIOUS
  <2> QED BY <1>1, <2>1
<1>3. ASSUME NEW i \in Nat, i \in Q PROVE i + 1 \in Q
  <2> SUFFICES ASSUME i + 1 <= m PROVE f[i + 1] = Gives(b, upTo(i + 1))
    OBVIOUS
  <2>1. i < m /\ f[i] = Gives(b, upTo(i)) /\ i + 1 \in 1..m BY <1>3
  <2>2. f[i + 1] = WithOneMore(f[i], types[i + 1]) BY <1>1, <2>1
  <2>3. f[i].builder = b /\ f[i].id = upTo(i) BY <2>1, GivesIs
  <2>4. RegisteredWithin(b, types[i + 1]) = Gives(b, ids[i + 1])
    BY <2>1 DEF AllSettled, SettledWithin
  <2>5. RegisteredWithin(b, types[i + 1]).builder = b /\ RegisteredWithin(b, types[i + 1]).id = ids[i + 1]
    BY <2>4, GivesIs
  <2>6. f[i + 1] = Gives(b, Append(upTo(i), ids[i + 1])) BY <2>2, <2>3, <2>5 DEF WithOneMore
  <2>7. Append(upTo(i), ids[i + 1]) = upTo(i + 1)
    <3>1. \A j \in 1..i : ids[j] \in {ids[k] : k \in 1..m} /\ j \in 1..(i + 1) BY <2>1
    <3>2. upTo(i) \in Seq({ids[k] : k \in 1..m}) /\ Len(upTo(i)) = i BY <3>1
    <3> QED BY <3>1, <3>2
  <2> QED BY <2>6, <2>7
<1> HIDE DEF Q, upTo
<1>4. \A i \in Nat : i \in Q BY <1>2, <1>3, Induction
<1>5. f[m] = Gives(b, upTo(m)) BY <1>4 DEF Q
<1>6. upTo(m) = ids BY DEF upTo, AllSettled
<1> QED BY <1>1, <1>5, <1>6

LEMMA PartsRegisteredInOrder ==
    ASSUME PartsRegistered, NEW b, Shaped(b), NEW types, Len(types) \in Nat,
           \A i \in 1..Len(types) : WellFormedPart(types[i])
    PROVE  LET all == RegisteredParts(b, types)
           IN  /\ Shaped(all.builder) /\ Grows(b, all.builder)
               /\ \A c : Shaped(c) /\ Grows(all.builder, c) /\ ~c.errors => AllSettled(c, types, all.id)
               /\ all.id = [i \in 1..Len(types) |-> all.id[i]]
<1> DEFINE m == Len(types)
<1>1. PICK f : /\ f[0] = Gives(b, <<>>)
               /\ \A i \in Nat : i < m => f[i + 1] = WithOneMore(f[i], types[i + 1])
               /\ RegisteredParts(b, types) = f[m]
  BY RegisteredPartsSteps
<1> DEFINE one(i) == RegisteredWithin(f[i - 1].builder, types[i])
           ids(i) == [j \in 1..i |-> one(j).id]
           Good(i) ==
               /\ Shaped(f[i].builder) /\ Grows(b, f[i].builder)
               /\ f[i].id = ids(i)
               /\ \A c : Shaped(c) /\ Grows(f[i].builder, c) /\ ~c.errors =>
                    \A j \in 1..i : SettledWithin(c, types[j], one(j).id)
           Q == {i \in Nat : i <= m => Good(i)}
<1>2. 0 \in Q
  <2>1. f[0].builder = b /\ f[0].id = <<>> BY <1>1, GivesIs
  <2>2. ids(0) = <<>> OBVIOUS
  <2>3. Good(0) BY <2>1, <2>2, GrowsSelf
  <2> HIDE DEF Good
  <2> QED BY <2>3
<1>3. ASSUME NEW i \in Nat, i \in Q PROVE i + 1 \in Q
  <2> SUFFICES ASSUME i + 1 <= m PROVE Good(i + 1)
    <3> HIDE DEF Good
    <3> QED OBVIOUS
  <2>1. i < m /\ i + 1 \in 1..m /\ (i + 1) - 1 = i BY <1>3
  <2>2. Good(i)
    <3> HIDE DEF Good
    <3> QED BY <1>3, <2>1
  <2> DEFINE r == one(i + 1)
  <2>3. r = RegisteredWithin(f[i].builder, types[i + 1]) BY <2>1
  <2>4. f[i + 1] = Gives(r.builder, Append(f[i].id, r.id)) BY <1>1, <2>1, <2>3 DEF WithOneMore
  <2>5. WellFormedPart(types[i + 1]) /\ Shaped(f[i].builder) BY <2>1, <2>2
  <2>6. /\ Shaped(r.builder) /\ Grows(f[i].builder, r.builder)
        /\ \A c : Shaped(c) /\ Grows(r.builder, c) /\ ~c.errors => SettledWithin(c, types[i + 1], r.id)
    BY <2>3, <2>5, WithinRegistered
  <2>7. \A j \in 1..(i + 1) : j \in 1..i \/ j = i + 1 OBVIOUS
  <2> HIDE DEF one
  <2>8. Append(ids(i), r.id) = ids(i + 1)
    <3> DEFINE U == {one(k).id : k \in 1..m}
    <3>1. \A j \in 1..i : one(j).id \in U /\ j \in 1..(i + 1) BY <2>1
    <3>2. ids(i) \in Seq(U) /\ Len(ids(i)) = i BY <3>1
    <3> QED BY <3>1, <3>2
  <2> HIDE DEF r, ids
  <2>9. f[i + 1].builder = r.builder /\ f[i + 1].id = ids(i + 1)
    BY <2>2, <2>4, <2>8, GivesIs
  <2>10. Grows(b, r.builder) BY <2>2, <2>6, GrowsOn
  <2>11. ASSUME NEW c, Shaped(c), Grows(r.builder, c), ~c.errors, NEW j \in 1..(i + 1)
         PROVE  SettledWithin(c, types[j], one(j).id)
    <3>1. Grows(f[i].builder, c) BY <2>6, <2>11, GrowsOn
    <3>2. \A k \in 1..i : SettledWithin(c, types[k], one(k).id) BY <2>2, <2>11, <3>1
    <3>3. SettledWithin(c, types[i + 1], one(i + 1).id) BY <2>6, <2>11 DEF r
    <3> QED BY <2>7, <2>11, <3>2, <3>3
  <2> QED BY <2>6, <2>9, <2>10, <2>11
<1>4. m \in Nat OBVIOUS
<1> HIDE DEF Q, m
<1>5. \A i \in Nat : i \in Q BY <1>2, <1>3, Induction
<1>6. Good(m) BY <1>4, <1>5 DEF Q
<1> DEFINE all == RegisteredParts(b, types)
<1>7. all = f[m] BY <1>1
<1>8. all.id = [i \in 1..m |-> all.id[i]] /\ \A j \in 1..m : all.id[j] = one(j).id
  <2>1. all.id = ids(m) BY <1>6, <1>7
  <2> HIDE DEF one, all
  <2> QED BY <2>1
<1> HIDE DEF one, all, ids
<1>9. \A c : Shaped(c) /\ Grows(all.builder, c) /\ ~c.errors => AllSettled(c, types, all.id)
  BY <1>6, <1>7, <1>8 DEF AllSettled, m
<1> QED BY <1>6, <1>7, <1>8, <1>9 DEF all, m

LEMMA AllSettledOn ==
    ASSUME PartsRegistered, NEW b, Shaped(b), NEW types, NEW ids, AllSettled(b, types, ids),
           \A i \in 1..Len(types) : WellFormedPart(types[i])
    PROVE  /\ \A c : Shaped(c) /\ Grows(b, c) /\ ~c.errors => AllSettled(c, types, ids)
           /\ ~b.errors => \A i \in 1..Len(types) : types[i].form # "variant" =>
                /\ SettledPart(b, types[i], ids[i]) /\ ids[i] \in DOMAIN b.types
                /\ \A s, v : s.types = b.types /\ s.fields = b.fields /\ HasTypePart(types[i], v) =>
                     ConformsPart(s, ids[i], EncodedPart(types[i], v))
<1>1. ASSUME NEW c, Shaped(c), Grows(b, c), ~c.errors PROVE AllSettled(c, types, ids)
  <2>1. \A i \in 1..Len(types) : SettledWithin(c, types[i], ids[i])
    BY <1>1, WithinRegistered DEF AllSettled
  <2> QED BY <2>1 DEF AllSettled
<1>2. ASSUME ~b.errors, NEW i \in 1..Len(types), types[i].form # "variant"
      PROVE  /\ SettledPart(b, types[i], ids[i]) /\ ids[i] \in DOMAIN b.types
             /\ \A s, v : s.types = b.types /\ s.fields = b.fields /\ HasTypePart(types[i], v) =>
                  ConformsPart(s, ids[i], EncodedPart(types[i], v))
  <2>1. SettledPart(b, types[i], ids[i])
    BY <1>2 DEF AllSettled, SettledWithin, RegisteredWithin, SettledPart
  <2>2. WellFormedPart(types[i]) BY <1>2
  <2> QED BY <1>2, <2>1, <2>2, PartSettled
<1> QED BY <1>1, <1>2

TupleKind(ids) == [kind |-> "tuple", items |-> ids]

DescribedTuple(b, T, id) ==
    \E ids : /\ AllSettled(b, T.types, ids)
             /\ Typed(b, T.name, TupleKind(ids))
             /\ id = IdOf(T.name)

LEMMA TupleRegistered ==
    ASSUME PartsRegistered, NEW T, WellFormed(T), T.form = "tuple", NEW b, Shaped(b)
    PROVE  /\ LET r == RegisteredTuple(b, T)
              IN  /\ Shaped(r.builder) /\ Grows(b, r.builder)
                  /\ ~r.builder.errors => DescribedTuple(r.builder, T, r.id)
           /\ \A id : ~b.errors /\ DescribedTuple(b, T, id) => RegisteredTuple(b, T) = Gives(b, id)
<1> DEFINE all == RegisteredParts(b, T.types)
           a == all.builder
           c == WithType(a, T.name, TupleKind(all.id))
           r == RegisteredTuple(b, T)
<1>0. /\ Len(T.types) \in Nat /\ DOMAIN T.types = 1..Len(T.types)
      /\ \A i \in 1..Len(T.types) : WellFormedPart(T.types[i]) /\ T.types[i].form # "variant"
  BY PartsOf
<1>1. r = Gives(c, IdOf(T.name)) BY DEF RegisteredTuple, WithTuple, TupleKind
<1>2. /\ Shaped(a) /\ Grows(b, a)
      /\ \A d : Shaped(d) /\ Grows(a, d) /\ ~d.errors => AllSettled(d, T.types, all.id)
      /\ all.id = [i \in 1..Len(T.types) |-> all.id[i]]
  BY <1>0, PartsRegisteredInOrder
<1> HIDE DEF all
<1>3. ~a.errors => KindHolds(a, TupleKind(all.id))
  <2> SUFFICES ASSUME ~a.errors PROVE KindHolds(a, TupleKind(all.id))
    OBVIOUS
  <2>1. AllSettled(a, T.types, all.id) BY <1>2, GrowsSelf
  <2>2. \A i \in 1..Len(T.types) : all.id[i] \in DOMAIN a.types
    BY <1>0, <1>2, <2>1, AllSettledOn
  <2>3. Range(all.id) \subseteq DOMAIN a.types
    <3>1. DOMAIN all.id = 1..Len(T.types) BY <1>2
    <3> QED BY <2>2, <3>1 DEF Range
  <2>4. TypesIn(TupleKind(all.id)) = Range(all.id) BY DEF TypesIn, TupleKind
  <2> QED BY <2>3, <2>4 DEF KindHolds, TupleKind
<1>4. PlainAdded(a, T.name, TupleKind(all.id), c) BY <1>2, <1>3, WithPlainIs
<1> HIDE DEF c, r
<1>5. r.builder = c /\ r.id = IdOf(T.name) BY <1>1, GivesIs
<1>6. Shaped(c) /\ Grows(a, c) /\ Grows(b, c) BY <1>2, <1>4, GrowsOn DEF PlainAdded
<1>7. ASSUME ~c.errors PROVE DescribedTuple(c, T, r.id)
  <2>1. AllSettled(c, T.types, all.id) BY <1>2, <1>6, <1>7
  <2>2. Typed(c, T.name, TupleKind(all.id)) BY <1>4, <1>7 DEF PlainAdded
  <2> QED BY <1>5, <2>1, <2>2 DEF DescribedTuple
<1>8. ASSUME NEW id, ~b.errors, DescribedTuple(b, T, id) PROVE r = Gives(b, id)
  <2>1. PICK ids : AllSettled(b, T.types, ids) /\ Typed(b, T.name, TupleKind(ids)) /\ id = IdOf(T.name)
    BY <1>8 DEF DescribedTuple
  <2>2. all = Gives(b, ids) BY <1>0, <2>1, PartsSettled DEF all
  <2>3. a = b /\ all.id = ids BY <2>2, GivesIs
  <2>4. c = b BY <1>4, <1>8, <2>1, <2>3 DEF PlainAdded
  <2> QED BY <1>1, <2>1, <2>4
<1> QED BY <1>5, <1>6, <1>7, <1>8 DEF r

FieldsWith(T, ids) ==
    [i \in DOMAIN T.fields |->
        [id |-> T.fields[i].id, name |-> T.fields[i].name, type |-> ids[i]]]

StructKind(T) == [kind |-> "struct", fields |-> Ascending(FieldIds(T.fields))]

DescribedStruct(b, T, id) ==
    \E ids : /\ AllSettled(b, FieldTypes(T.fields), ids)
             /\ Fielded(b, FieldsWith(T, ids))
             /\ Typed(b, T.name, StructKind(T))
             /\ id = IdOf(T.name)

\* The fields of a struct and their types, one by one.
PartsOfStruct(T) ==
    /\ Len(FieldTypes(T.fields)) = Len(T.fields) /\ Len(T.fields) \in Nat
    /\ DOMAIN T.fields = 1..Len(T.fields)
    /\ \A i \in 1..Len(T.fields) :
         /\ FieldTypes(T.fields)[i] = T.fields[i].type
         /\ WellFormedPart(T.fields[i].type) /\ T.fields[i].type.form # "variant"
    /\ \A ids : /\ DOMAIN FieldsWith(T, ids) = DOMAIN T.fields
                /\ FieldIds(FieldsWith(T, ids)) = FieldIds(T.fields)
                /\ \A i \in DOMAIN T.fields :
                     FieldsWith(T, ids)[i] =
                         [id |-> T.fields[i].id, name |-> T.fields[i].name, type |-> ids[i]]

LEMMA StructParts ==
    ASSUME NEW T, WellFormed(T), T.form = "struct"
    PROVE  PartsOfStruct(T)
<1>1. /\ Len(T.fields) \in Nat /\ DOMAIN T.fields = 1..Len(T.fields)
      /\ \A i \in DOMAIN T.fields :
           WellFormedPart(T.fields[i].type) /\ T.fields[i].type.form # "variant"
  BY PartsOf
<1> DEFINE ft == FieldTypes(T.fields)
<1>2. ft = [i \in 1..Len(T.fields) |-> T.fields[i].type] BY <1>1 DEF FieldTypes
<1>3. Len(ft) = Len(T.fields) /\ \A i \in 1..Len(T.fields) : ft[i] = T.fields[i].type
  <2>1. ft = [i \in 1..Len(T.fields) |-> ft[i]] /\ \A i \in 1..Len(T.fields) : ft[i] = T.fields[i].type
    BY <1>2
  <2> HIDE DEF ft
  <2> QED BY <1>1, <2>1, SequenceIs
<1>4. ASSUME NEW ids
      PROVE  /\ DOMAIN FieldsWith(T, ids) = DOMAIN T.fields
             /\ \A i \in DOMAIN T.fields :
                  FieldsWith(T, ids)[i] =
                      [id |-> T.fields[i].id, name |-> T.fields[i].name, type |-> ids[i]]
  BY DEF FieldsWith
<1>5. ASSUME NEW ids PROVE FieldIds(FieldsWith(T, ids)) = FieldIds(T.fields)
  <2> DEFINE g == FieldsWith(T, ids)
  <2>1. /\ DOMAIN g = DOMAIN T.fields
        /\ \A i \in DOMAIN T.fields :
             g[i] = [id |-> T.fields[i].id, name |-> T.fields[i].name, type |-> ids[i]]
    BY <1>4
  <2> HIDE DEF g
  <2>2. ASSUME NEW i \in DOMAIN T.fields PROVE g[i].id = T.fields[i].id
    <3>1. g[i] = [id |-> T.fields[i].id, name |-> T.fields[i].name, type |-> ids[i]] BY <2>1
    <3> QED BY <3>1
  <2>3. FieldIds(g) = FieldIds(T.fields) BY <2>1, <2>2 DEF FieldIds
  <2> QED BY <2>3 DEF g
<1> QED BY <1>1, <1>3, <1>4, <1>5 DEF PartsOfStruct

LEMMA StructRegistered ==
    ASSUME PartsRegistered, NEW T, WellFormed(T), T.form = "struct", NEW b, Shaped(b)
    PROVE  /\ LET r == RegisteredStruct(b, T)
              IN  /\ Shaped(r.builder) /\ Grows(b, r.builder)
                  /\ ~r.builder.errors => DescribedStruct(r.builder, T, r.id)
           /\ \A id : ~b.errors /\ DescribedStruct(b, T, id) => RegisteredStruct(b, T) = Gives(b, id)
<1> DEFINE types == FieldTypes(T.fields)
           all == RegisteredParts(b, types)
           a == all.builder
           fields == FieldsWith(T, all.id)
           named == Interned(a, <<T.name>>)
           fielded == WithFields(named, fields)
           c == WithType(fielded, T.name, StructKind(T))
           r == RegisteredStruct(b, T)
<1>0. /\ Len(types) = Len(T.fields) /\ Len(T.fields) \in Nat
      /\ DOMAIN T.fields = 1..Len(T.fields)
      /\ \A i \in 1..Len(T.fields) :
           /\ types[i] = T.fields[i].type
           /\ WellFormedPart(T.fields[i].type) /\ T.fields[i].type.form # "variant"
      /\ \A ids : /\ DOMAIN FieldsWith(T, ids) = DOMAIN T.fields
                  /\ FieldIds(FieldsWith(T, ids)) = FieldIds(T.fields)
                  /\ \A i \in DOMAIN T.fields :
                       FieldsWith(T, ids)[i] =
                           [id |-> T.fields[i].id, name |-> T.fields[i].name, type |-> ids[i]]
  <2>1. PartsOfStruct(T) BY StructParts
  <2> QED BY <2>1 DEF PartsOfStruct
<1>1. r = Gives(c, IdOf(T.name))
  <2>1. r = Gives(WithStruct(a, T.name, fields), IdOf(T.name))
    BY DEF RegisteredStruct, FieldsWith
  <2>2. FieldIds(fields) = FieldIds(T.fields) BY <1>0
  <2> HIDE DEF fields
  <2>3. WithStruct(a, T.name, fields) = c BY <2>2 DEF WithStruct, StructKind
  <2> QED BY <2>1, <2>3
<1>a. Len(types) \in Nat /\ \A i \in 1..Len(types) : WellFormedPart(types[i]) /\ types[i].form # "variant"
  <2> HIDE DEF types
  <2> QED BY <1>0
<1> HIDE DEF types
<1>2. /\ Shaped(a) /\ Grows(b, a)
      /\ \A d : Shaped(d) /\ Grows(a, d) /\ ~d.errors => AllSettled(d, types, all.id)
  BY <1>a, PartsRegisteredInOrder
<1> HIDE DEF all
<1>3. Shaped(named) /\ Grows(a, named) /\ IsBuilder(named) /\ named.types = a.types
  <2>1. IsBuilder(a) BY <1>2 DEF Shaped
  <2> QED BY <1>2, <2>1, InternedIs, InternedShaped, BuilderIs
<1>4. ~named.errors => \A i \in DOMAIN T.fields : all.id[i] \in DOMAIN named.types
  <2> SUFFICES ASSUME ~named.errors PROVE \A i \in DOMAIN T.fields : all.id[i] \in DOMAIN named.types
    OBVIOUS
  <2>1. ~a.errors BY <1>3 DEF Grows
  <2>2. AllSettled(a, types, all.id) BY <1>2, <2>1, GrowsSelf
  <2>3. \A i \in 1..Len(types) : all.id[i] \in DOMAIN a.types
    BY <1>2, <1>a, <2>1, <2>2, AllSettledOn
  <2> QED BY <1>0, <1>3, <2>3
<1>5. /\ DOMAIN fields = DOMAIN T.fields /\ DOMAIN fields \subseteq Nat
      /\ \A i \in DOMAIN fields : fields[i].type = all.id[i] /\ fields[i].id = T.fields[i].id
  <2>1. /\ DOMAIN fields = DOMAIN T.fields
        /\ \A i \in DOMAIN T.fields :
             fields[i] = [id |-> T.fields[i].id, name |-> T.fields[i].name, type |-> all.id[i]]
    BY <1>0
  <2> HIDE DEF fields
  <2>2. ASSUME NEW i \in DOMAIN T.fields
        PROVE  fields[i].type = all.id[i] /\ fields[i].id = T.fields[i].id
    <3>1. fields[i] = [id |-> T.fields[i].id, name |-> T.fields[i].name, type |-> all.id[i]] BY <2>1
    <3> QED BY <3>1
  <2> QED BY <1>0, <2>1, <2>2
<1> HIDE DEF fields
<1>6. Shaped(fielded)
  BY <1>3, <1>4, <1>5, WithFieldsShaped
<1>7. FieldsAdded(named, fields, fielded)
  BY <1>3, <1>5, WithFieldsIs
<1>8. ~fielded.errors => KindHolds(fielded, StructKind(T))
  <2> SUFFICES ASSUME ~fielded.errors PROVE KindHolds(fielded, StructKind(T))
    OBVIOUS
  <2>1. Fielded(fielded, fields) BY <1>7 DEF FieldsAdded
  <2>2. \A i \in DOMAIN fields : fields[i].id \in DOMAIN fielded.fields
    BY <2>1 DEF Fielded, Has, IdsOf
  <2>3. FieldIds(T.fields) \subseteq DOMAIN fielded.fields BY <1>5, <2>2 DEF FieldIds
  <2>4. Range(Ascending(FieldIds(T.fields))) \subseteq FieldIds(T.fields)
    <3> DEFINE S == FieldIds(T.fields)
    <3>1. S \subseteq Nat /\ IsFiniteSet(S) BY FieldIdsAre
    <3> HIDE DEF S
    <3>2. Ascending(S) \in [1..Cardinality(S) -> S] BY <3>1, AscendingIs
    <3>3. Range(Ascending(S)) \subseteq S BY <3>2 DEF Range
    <3> QED BY <3>3 DEF S
  <2>5. TypesIn(StructKind(T)) = {} BY DEF TypesIn, StructKind
  <2>6. StructKind(T).kind = "struct" /\ StructKind(T).fields = Ascending(FieldIds(T.fields))
    BY DEF StructKind
  <2> QED BY <2>3, <2>4, <2>5, <2>6 DEF KindHolds
<1>9. PlainAdded(fielded, T.name, StructKind(T), c) BY <1>6, <1>8, WithPlainIs
<1> HIDE DEF named, fielded, c, r
<1>10. r.builder = c /\ r.id = IdOf(T.name) BY <1>1, GivesIs
<1>11. /\ Shaped(c) /\ Grows(fielded, c) /\ Grows(named, fielded) /\ Grows(named, c)
       /\ Grows(a, c) /\ Grows(b, c)
  BY <1>2, <1>3, <1>7, <1>9, GrowsOn DEF PlainAdded, FieldsAdded
<1>12. ASSUME ~c.errors PROVE DescribedStruct(c, T, r.id)
  <2>1. AllSettled(c, types, all.id) BY <1>2, <1>11, <1>12
  <2>2. Typed(c, T.name, StructKind(T)) BY <1>9, <1>12 DEF PlainAdded
  <2>3. ~fielded.errors BY <1>11, <1>12 DEF Grows
  <2>4. Fielded(c, fields) BY <1>7, <1>11, <2>3, NamesOn DEF FieldsAdded
  <2> QED BY <1>10, <2>1, <2>2, <2>4 DEF DescribedStruct, types, fields
<1>13. ASSUME NEW id, ~b.errors, DescribedStruct(b, T, id) PROVE r = Gives(b, id)
  <2>1. PICK ids : /\ AllSettled(b, types, ids) /\ Fielded(b, FieldsWith(T, ids))
                   /\ Typed(b, T.name, StructKind(T)) /\ id = IdOf(T.name)
    BY <1>13 DEF DescribedStruct, types
  <2>2. all = Gives(b, ids) BY <1>a, <2>1, PartsSettled DEF all
  <2>3. a = b /\ all.id = ids BY <2>2, GivesIs
  <2>4. named = b
    <3>1. IsBuilder(b) /\ Names(b, <<T.name>>) BY <2>1 DEF Shaped, Typed
    <3> QED BY <1>13, <2>3, <3>1, InternedIs DEF named
  <2>5. fielded = b BY <1>7, <1>13, <2>1, <2>3, <2>4 DEF FieldsAdded, fields
  <2>6. c = b BY <1>9, <1>13, <2>1, <2>5 DEF PlainAdded
  <2> QED BY <1>1, <2>1, <2>6
<1> QED BY <1>10, <1>11, <1>12, <1>13 DEF r

VariantName(i) == <<"variant", ToString(i)>>

PayloadAt(T, ids, i) ==
    IF T.payloads[i].form = "variant" THEN NoPayload ELSE PayloadOf(ids[i])

VariantsWith(T, ids) ==
    [i \in DOMAIN T.payloads |-> [name |-> VariantName(i), payload |-> PayloadAt(T, ids, i)]]

EnumNames(T) == <<T.name>> \o [i \in DOMAIN T.payloads |-> VariantName(i)]

VariantDef(T, ids, i) ==
    [name |-> StringIdOf(VariantName(i)), payload |-> PayloadAt(T, ids, i)]

EnumKind(T, ids) ==
    [kind |-> "enum", variants |-> [i \in DOMAIN T.payloads |-> VariantDef(T, ids, i)]]

DescribedEnum(b, T, id) ==
    \E ids : /\ AllSettled(b, T.payloads, ids)
             /\ Names(b, EnumNames(T))
             /\ Typed(b, T.name, EnumKind(T, ids))
             /\ id = IdOf(T.name)

LEMMA EnumIs ==
    ASSUME NEW T, NEW a, NEW ids
    PROVE  WithEnum(a, T.name, VariantsWith(T, ids)) =
               WithType(Interned(a, EnumNames(T)), T.name, EnumKind(T, ids))
<1> DEFINE vs == VariantsWith(T, ids)
<1>1. DOMAIN vs = DOMAIN T.payloads BY DEF VariantsWith
<1>2. ASSUME NEW i \in DOMAIN T.payloads
      PROVE  vs[i].name = VariantName(i) /\ vs[i].payload = PayloadAt(T, ids, i)
  <2>1. vs[i] = [name |-> VariantName(i), payload |-> PayloadAt(T, ids, i)] BY DEF VariantsWith
  <2> QED BY <2>1
<1> HIDE DEF vs
<1>3. [i \in DOMAIN vs |-> vs[i].name] = [i \in DOMAIN T.payloads |-> VariantName(i)]
  BY <1>1, <1>2
<1>4. [i \in DOMAIN vs |-> [name |-> StringIdOf(vs[i].name), payload |-> vs[i].payload]]
          = [i \in DOMAIN T.payloads |-> VariantDef(T, ids, i)]
  <2>1. ASSUME NEW i \in DOMAIN T.payloads
        PROVE  [name |-> StringIdOf(vs[i].name), payload |-> vs[i].payload] = VariantDef(T, ids, i)
    <3>1. vs[i].name = VariantName(i) /\ vs[i].payload = PayloadAt(T, ids, i) BY <1>2
    <3> QED BY <3>1 DEF VariantDef
  <2> QED BY <1>1, <2>1
<1>5. WithEnum(a, T.name, vs) = WithType(Interned(a, EnumNames(T)), T.name, EnumKind(T, ids))
  BY <1>3, <1>4 DEF WithEnum, EnumNames, EnumKind
<1> QED BY <1>5 DEF vs

\* The variants of an enum have names that the schema has, and payloads that it has.
LEMMA EnumKindHolds ==
    ASSUME PartsRegistered, NEW T, WellFormed(T), T.form = "enum", NEW b, Shaped(b), ~b.errors,
           NEW ids, AllSettled(b, T.payloads, ids), Names(b, EnumNames(T))
    PROVE  KindHolds(b, EnumKind(T, ids))
<1>1. /\ Len(T.payloads) \in Nat /\ DOMAIN T.payloads = 1..Len(T.payloads)
      /\ \A i \in 1..Len(T.payloads) : WellFormedPart(T.payloads[i])
  BY PartsOf
<1> DEFINE vs == [i \in DOMAIN T.payloads |-> VariantDef(T, ids, i)]
           names == [i \in DOMAIN T.payloads |-> VariantName(i)]
<1>2. EnumKind(T, ids).kind = "enum" /\ EnumKind(T, ids).variants = vs BY DEF EnumKind
<1>3. ASSUME NEW i \in DOMAIN T.payloads PROVE StringIdOf(VariantName(i)) \in DOMAIN b.strings
  <2>1. names \in Seq(Range(names)) /\ Len(names) = Len(T.payloads) /\ DOMAIN names = 1..Len(T.payloads)
    <3>1. names = [k \in 1..Len(T.payloads) |-> names[k]] BY <1>1
    <3> HIDE DEF names
    <3> QED BY <1>1, <3>1, SequenceIs
  <2>2. names[i] = VariantName(i) OBVIOUS
  <2> HIDE DEF names
  <2>3. /\ i + 1 \in DOMAIN (<<T.name>> \o names) /\ (<<T.name>> \o names)[i + 1] = names[i]
    BY <1>1, <2>1
  <2>4. i + 1 \in DOMAIN EnumNames(T) /\ EnumNames(T)[i + 1] = VariantName(i)
    BY <2>2, <2>3 DEF EnumNames, names
  <2> QED BY <2>4 DEF Names, Has, StringIds
<1>4. ASSUME NEW i \in DOMAIN T.payloads PROVE Range(PayloadAt(T, ids, i)) \subseteq DOMAIN b.types
  <2>1. CASE T.payloads[i].form = "variant"
    <3>1. PayloadAt(T, ids, i) = <<>> BY <2>1 DEF PayloadAt, NoPayload
    <3>2. DOMAIN PayloadAt(T, ids, i) = {} BY <3>1
    <3> QED BY <3>2 DEF Range
  <2>2. CASE T.payloads[i].form # "variant"
    <3>1. PayloadAt(T, ids, i) = <<ids[i]>> BY <2>2 DEF PayloadAt, PayloadOf
    <3>2. ids[i] \in DOMAIN b.types BY <1>1, <2>2, AllSettledOn
    <3>3. Range(PayloadAt(T, ids, i)) \subseteq {ids[i]}
      <4> DEFINE p == PayloadAt(T, ids, i)
      <4>1. DOMAIN p = 1..1 /\ p[1] = ids[i] BY <3>1
      <4> HIDE DEF p
      <4>2. Range(p) \subseteq {ids[i]} BY <4>1 DEF Range
      <4> QED BY <4>2 DEF p
    <3> QED BY <3>2, <3>3
  <2> QED BY <2>1, <2>2
<1>5. ASSUME NEW v \in Range(vs)
      PROVE  v.name \in DOMAIN b.strings /\ Range(v.payload) \subseteq DOMAIN b.types
  <2>1. PICK i \in DOMAIN T.payloads : v = VariantDef(T, ids, i) BY DEF Range
  <2>2. v.name = StringIdOf(VariantName(i)) /\ v.payload = PayloadAt(T, ids, i)
    BY <2>1 DEF VariantDef
  <2> QED BY <1>3, <1>4, <2>2
<1> HIDE DEF vs
<1>6. TypesIn(EnumKind(T, ids)) = UNION {Range(v.payload) : v \in Range(vs)}
  BY <1>2 DEF TypesIn
<1> QED BY <1>2, <1>5, <1>6 DEF KindHolds

LEMMA EnumRegistered ==
    ASSUME PartsRegistered, NEW T, WellFormed(T), T.form = "enum", NEW b, Shaped(b)
    PROVE  /\ LET r == RegisteredEnum(b, T)
              IN  /\ Shaped(r.builder) /\ Grows(b, r.builder)
                  /\ ~r.builder.errors => DescribedEnum(r.builder, T, r.id)
           /\ \A id : ~b.errors /\ DescribedEnum(b, T, id) => RegisteredEnum(b, T) = Gives(b, id)
<1> DEFINE all == RegisteredParts(b, T.payloads)
           a == all.builder
           named == Interned(a, EnumNames(T))
           c == WithType(named, T.name, EnumKind(T, all.id))
           r == RegisteredEnum(b, T)
<1>0. /\ Len(T.payloads) \in Nat /\ DOMAIN T.payloads = 1..Len(T.payloads)
      /\ \A i \in 1..Len(T.payloads) : WellFormedPart(T.payloads[i])
  BY PartsOf
<1>1. r = Gives(c, IdOf(T.name))
  <2>1. r = Gives(WithEnum(a, T.name, VariantsWith(T, all.id)), IdOf(T.name))
    BY DEF RegisteredEnum, VariantsWith, VariantName, PayloadAt
  <2> QED BY <2>1, EnumIs
<1>2. /\ Shaped(a) /\ Grows(b, a)
      /\ \A d : Shaped(d) /\ Grows(a, d) /\ ~d.errors => AllSettled(d, T.payloads, all.id)
  BY <1>0, PartsRegisteredInOrder
<1> HIDE DEF all
<1>3. /\ Shaped(named) /\ Grows(a, named) /\ IsBuilder(named)
      /\ (~named.errors => Names(named, EnumNames(T)))
  <2>1. IsBuilder(a) BY <1>2 DEF Shaped
  <2> QED BY <1>2, <2>1, InternedIs, InternedShaped
<1>4. ~named.errors => KindHolds(named, EnumKind(T, all.id))
  BY <1>2, <1>3, EnumKindHolds
<1>5. PlainAdded(named, T.name, EnumKind(T, all.id), c)
  <2> HIDE DEF named
  <2> QED BY <1>3, <1>4, WithPlainIs
<1> HIDE DEF named, c, r
<1>6. r.builder = c /\ r.id = IdOf(T.name) BY <1>1, GivesIs
<1>7. Shaped(c) /\ Grows(named, c) /\ Grows(a, c) /\ Grows(b, c)
  BY <1>2, <1>3, <1>5, GrowsOn DEF PlainAdded
<1>8. ASSUME ~c.errors PROVE DescribedEnum(c, T, r.id)
  <2>1. AllSettled(c, T.payloads, all.id) BY <1>2, <1>7, <1>8
  <2>2. Typed(c, T.name, EnumKind(T, all.id)) BY <1>5, <1>8 DEF PlainAdded
  <2>3. Names(c, EnumNames(T)) BY <1>3, <1>7, <1>8, NamesOn DEF Grows
  <2> QED BY <1>6, <2>1, <2>2, <2>3 DEF DescribedEnum
<1>9. ASSUME NEW id, ~b.errors, DescribedEnum(b, T, id) PROVE r = Gives(b, id)
  <2>1. PICK ids : /\ AllSettled(b, T.payloads, ids) /\ Names(b, EnumNames(T))
                   /\ Typed(b, T.name, EnumKind(T, ids)) /\ id = IdOf(T.name)
    BY <1>9 DEF DescribedEnum
  <2>2. all = Gives(b, ids) BY <1>0, <2>1, PartsSettled DEF all
  <2>3. a = b /\ all.id = ids BY <2>2, GivesIs
  <2>4. named = b BY <1>9, <2>1, <2>3, InternedIs DEF named, Shaped
  <2>5. c = b BY <1>5, <1>9, <2>1, <2>3, <2>4 DEF PlainAdded
  <2> QED BY <1>1, <2>1, <2>5
<1> QED BY <1>6, <1>7, <1>8, <1>9 DEF r

----------------------------------------------------------------------------
(* The forms together.                                                     *)

Described(b, T, id) ==
    \/ T.form \in Scalars /\ DescribedScalar(b, T, id)
    \/ T.form = "option" /\ DescribedOption(b, T, id)
    \/ T.form = "vec" /\ DescribedVec(b, T, id)
    \/ T.form = "map" /\ DescribedMap(b, T, id)
    \/ T.form = "tuple" /\ DescribedTuple(b, T, id)
    \/ T.form = "struct" /\ DescribedStruct(b, T, id)
    \/ T.form = "enum" /\ DescribedEnum(b, T, id)

LEMMA DescribedByForm ==
    ASSUME NEW b, NEW T, NEW id
    PROVE  /\ T.form \in Scalars => (Described(b, T, id) <=> DescribedScalar(b, T, id))
           /\ T.form = "option" => (Described(b, T, id) <=> DescribedOption(b, T, id))
           /\ T.form = "vec" => (Described(b, T, id) <=> DescribedVec(b, T, id))
           /\ T.form = "map" => (Described(b, T, id) <=> DescribedMap(b, T, id))
           /\ T.form = "tuple" => (Described(b, T, id) <=> DescribedTuple(b, T, id))
           /\ T.form = "struct" => (Described(b, T, id) <=> DescribedStruct(b, T, id))
           /\ T.form = "enum" => (Described(b, T, id) <=> DescribedEnum(b, T, id))
BY DEF Described, Scalars

LEMMA DescribedIs ==
    ASSUME PartsRegistered, NEW T, WellFormed(T), T.form # "variant", NEW b, Shaped(b)
    PROVE  /\ Shaped(Registered(b, T).builder) /\ Grows(b, Registered(b, T).builder)
           /\ ~Registered(b, T).builder.errors =>
                Described(Registered(b, T).builder, T, Registered(b, T).id)
           /\ \A id : ~b.errors /\ Described(b, T, id) => Registered(b, T) = Gives(b, id)
<1>0. T.form \in Forms BY FormKnown
<1>1. CASE T.form \in Scalars
  <2>1. Registered(b, T) = RegisteredPrimitive(b, T) BY <1>1, RegisteredByForm DEF Scalars
  <2> QED BY <1>1, <2>1, ScalarRegistered, DescribedByForm
<1>2. CASE T.form = "option"
  <2>1. Registered(b, T) = RegisteredOption(b, T) BY <1>2, RegisteredByForm
  <2>2. WellFormedPart(T.of) /\ T.of.form # "variant" BY <1>2, PartsOf
  <2> QED BY <1>2, <2>1, <2>2, OptionRegistered, DescribedByForm
<1>3. CASE T.form = "vec"
  <2>1. Registered(b, T) = RegisteredVec(b, T) BY <1>3, RegisteredByForm
  <2>2. WellFormedPart(T.of) /\ T.of.form # "variant" BY <1>3, PartsOf
  <2> QED BY <1>3, <2>1, <2>2, VecRegistered, DescribedByForm
<1>4. CASE T.form = "map"
  <2>1. Registered(b, T) = RegisteredMap(b, T) BY <1>4, RegisteredByForm
  <2>2. /\ WellFormedPart(T.key) /\ T.key.form = "uint"
        /\ WellFormedPart(T.of) /\ T.of.form # "variant"
    BY <1>4, PartsOf
  <2> QED BY <1>4, <2>1, <2>2, MapRegistered, DescribedByForm
<1>5. CASE T.form = "tuple"
  <2>1. Registered(b, T) = RegisteredTuple(b, T) BY <1>5, RegisteredByForm
  <2> QED BY <1>5, <2>1, TupleRegistered, DescribedByForm
<1>6. CASE T.form = "struct"
  <2>1. Registered(b, T) = RegisteredStruct(b, T) BY <1>6, RegisteredByForm
  <2> QED BY <1>6, <2>1, StructRegistered, DescribedByForm
<1>7. CASE T.form = "enum"
  <2>1. Registered(b, T) = RegisteredEnum(b, T) BY <1>7, RegisteredByForm
  <2> QED BY <1>7, <2>1, EnumRegistered, DescribedByForm
<1> QED BY <1>0, <1>1, <1>2, <1>3, <1>4, <1>5, <1>6, <1>7 DEF Forms, Scalars

\* What a schema says of a type stays, whatever is registered later.
LEMMA DescribedOn ==
    ASSUME PartsRegistered, NEW T, WellFormed(T), T.form # "variant", NEW b, Shaped(b), ~b.errors,
           NEW c, Shaped(c), Grows(b, c), ~c.errors, NEW id, Described(b, T, id)
    PROVE  Described(c, T, id)
<1>0. T.form \in Forms BY FormKnown
<1>a. \A name, kind : Typed(b, name, kind) => Typed(c, name, kind) BY NamesOn
<1>b. \A U, i : WellFormedPart(U) /\ U.form # "variant" /\ SettledPart(b, U, i) =>
                  SettledPart(c, U, i) /\ NameIn(c, i) = NameIn(b, i)
  BY PartSettled, NameStays
<1>1. CASE T.form \in Scalars
  BY <1>1, <1>a, DescribedByForm DEF DescribedScalar
<1>2. CASE T.form = "option"
  <2>1. WellFormedPart(T.of) /\ T.of.form # "variant" BY <1>2, PartsOf
  <2>2. PICK i : /\ SettledPart(b, T.of, i)
                 /\ Typed(b, OptionName(b, i), [kind |-> "option", some |-> i])
                 /\ id = IdOf(OptionName(b, i))
    BY <1>2, DescribedByForm DEF DescribedOption
  <2>3. SettledPart(c, T.of, i) /\ NameIn(c, i) = NameIn(b, i) BY <1>b, <2>1, <2>2
  <2>4. OptionName(c, i) = OptionName(b, i) BY <2>3 DEF OptionName
  <2>5. DescribedOption(c, T, id) BY <1>a, <2>2, <2>3, <2>4 DEF DescribedOption
  <2> QED BY <1>2, <2>5, DescribedByForm
<1>3. CASE T.form = "vec"
  <2>1. WellFormedPart(T.of) /\ T.of.form # "variant" BY <1>3, PartsOf
  <2>2. PICK i : /\ SettledPart(b, T.of, i)
                 /\ Typed(b, VecName(b, i), [kind |-> "array", items |-> i])
                 /\ id = IdOf(VecName(b, i))
    BY <1>3, DescribedByForm DEF DescribedVec
  <2>3. SettledPart(c, T.of, i) /\ NameIn(c, i) = NameIn(b, i) BY <1>b, <2>1, <2>2
  <2>4. VecName(c, i) = VecName(b, i) BY <2>3 DEF VecName
  <2>5. DescribedVec(c, T, id) BY <1>a, <2>2, <2>3, <2>4 DEF DescribedVec
  <2> QED BY <1>3, <2>5, DescribedByForm
<1>4. CASE T.form = "map"
  <2>1. /\ WellFormedPart(T.key) /\ T.key.form # "variant"
        /\ WellFormedPart(T.of) /\ T.of.form # "variant"
    BY <1>4, PartsOf
  <2>2. PICK k, i : /\ SettledPart(b, T.key, k) /\ SettledPart(b, T.of, i)
                    /\ Typed(b, MapName(b, k, i), [kind |-> "map", key |-> k, value |-> i])
                    /\ id = IdOf(MapName(b, k, i))
    BY <1>4, DescribedByForm DEF DescribedMap
  <2>3. /\ SettledPart(c, T.key, k) /\ NameIn(c, k) = NameIn(b, k)
        /\ SettledPart(c, T.of, i) /\ NameIn(c, i) = NameIn(b, i)
    BY <1>b, <2>1, <2>2
  <2>4. MapName(c, k, i) = MapName(b, k, i) BY <2>3 DEF MapName
  <2>5. DescribedMap(c, T, id) BY <1>a, <2>2, <2>3, <2>4 DEF DescribedMap
  <2> QED BY <1>4, <2>5, DescribedByForm
<1>5. CASE T.form = "tuple"
  <2>1. PICK ids : AllSettled(b, T.types, ids) /\ Typed(b, T.name, TupleKind(ids)) /\ id = IdOf(T.name)
    BY <1>5, DescribedByForm DEF DescribedTuple
  <2>2. \A i \in 1..Len(T.types) : WellFormedPart(T.types[i]) BY <1>5, PartsOf
  <2>3. AllSettled(c, T.types, ids) BY <2>1, <2>2, AllSettledOn
  <2>4. DescribedTuple(c, T, id) BY <1>a, <2>1, <2>3 DEF DescribedTuple
  <2> QED BY <1>5, <2>4, DescribedByForm
<1>6. CASE T.form = "struct"
  <2> DEFINE types == FieldTypes(T.fields)
  <2>1. PICK ids : /\ AllSettled(b, types, ids) /\ Fielded(b, FieldsWith(T, ids))
                   /\ Typed(b, T.name, StructKind(T)) /\ id = IdOf(T.name)
    BY <1>6, DescribedByForm DEF DescribedStruct
  <2>2. \A i \in 1..Len(types) : WellFormedPart(types[i]) BY <1>6, StructParts DEF PartsOfStruct
  <2> HIDE DEF types
  <2>3. AllSettled(c, types, ids) BY <2>1, <2>2, AllSettledOn
  <2>4. Fielded(c, FieldsWith(T, ids)) BY <2>1, NamesOn
  <2>5. DescribedStruct(c, T, id) BY <1>a, <2>1, <2>3, <2>4 DEF DescribedStruct, types
  <2> QED BY <1>6, <2>5, DescribedByForm
<1>7. CASE T.form = "enum"
  <2>1. PICK ids : /\ AllSettled(b, T.payloads, ids) /\ Names(b, EnumNames(T))
                   /\ Typed(b, T.name, EnumKind(T, ids)) /\ id = IdOf(T.name)
    BY <1>7, DescribedByForm DEF DescribedEnum
  <2>2. \A i \in 1..Len(T.payloads) : WellFormedPart(T.payloads[i]) BY <1>7, PartsOf
  <2>3. AllSettled(c, T.payloads, ids) BY <2>1, <2>2, AllSettledOn
  <2>4. Names(c, EnumNames(T)) BY <2>1, NamesOn
  <2>5. DescribedEnum(c, T, id) BY <1>a, <2>1, <2>3, <2>4 DEF DescribedEnum
  <2> QED BY <1>7, <2>5, DescribedByForm
<1> QED BY <1>0, <1>1, <1>2, <1>3, <1>4, <1>5, <1>6, <1>7 DEF Forms, Scalars

----------------------------------------------------------------------------
(* A value is what the schema says of its type.                            *)

LEMMA ScalarConforms ==
    ASSUME PartsLawful, NEW T, WellFormed(T), T.form \in Scalars, NEW s, NEW id,
           s.types[id].kind = [kind |-> "primitive", prim |-> T], NEW v, HasType(T, v)
    PROVE  Conforms(s, id, Encoded(T, v))
<1> DEFINE kind == [kind |-> "primitive", prim |-> T]
<1>1. kind.kind = "primitive" /\ kind.prim = T OBVIOUS
<1>2. Encoded(T, v).kind = DatexKinds[T.form]
  <2>1. /\ DatexKinds["uint"] = "number" /\ DatexKinds["int"] = "signed"
        /\ DatexKinds["float"] = "float" /\ DatexKinds["unit"] = "unit"
        /\ DatexKinds["bool"] = "bool" /\ DatexKinds["string"] = "text"
        /\ DatexKinds["bytes"] = "bytes"
    BY DEF DatexKinds
  <2> QED BY <2>1, EncodedKinds DEF Scalars
<1> HIDE DEF kind
<1>3. ConformsKind(s, kind, Encoded(T, v)) BY <1>1, <1>2 DEF ConformsKind
<1> QED BY <1>3 DEF Conforms, kind

LEMMA OptionConforms ==
    ASSUME NEW T, T.form = "option", NEW s, NEW id, NEW i,
           s.types[id].kind = [kind |-> "option", some |-> i], NEW v, HasType(T, v),
           \A w : HasTypePart(T.of, w) => ConformsPart(s, i, EncodedPart(T.of, w))
    PROVE  Conforms(s, id, Encoded(T, v))
<1> DEFINE kind == [kind |-> "option", some |-> i]
<1>1. kind.kind = "option" /\ kind.some = i OBVIOUS
<1>2. Encoded(T, v) = EncodedOption(T, v) BY EncodedByForm
<1>3. Encoded(T, v).kind = "null" \/ ConformsPart(s, i, Encoded(T, v))
  <2>1. CASE v = NoneOf
    <3>1. Encoded(T, v) = NullValue BY <1>2, <2>1 DEF EncodedOption
    <3> QED BY <3>1 DEF NullValue
  <2>2. CASE v # NoneOf
    <3>1. Encoded(T, v) = EncodedPart(T.of, v.of) BY <1>2, <2>2 DEF EncodedOption
    <3>2. HasTypePart(T.of, v.of) BY <2>2, HasTypeByForm
    <3> QED BY <3>1, <3>2
  <2> QED BY <2>1, <2>2
<1> HIDE DEF kind
<1>4. ConformsKind(s, kind, Encoded(T, v)) BY <1>1, <1>3 DEF ConformsKind
<1> QED BY <1>4 DEF Conforms, kind

LEMMA VecConforms ==
    ASSUME NEW T, T.form = "vec", NEW s, NEW id, NEW i,
           s.types[id].kind = [kind |-> "array", items |-> i], NEW v, HasType(T, v),
           \A w : HasTypePart(T.of, w) => ConformsPart(s, i, EncodedPart(T.of, w))
    PROVE  Conforms(s, id, Encoded(T, v))
<1> DEFINE kind == [kind |-> "array", items |-> i]
           its == [k \in DOMAIN v.items |-> EncodedPart(T.of, v.items[k])]
<1>1. kind.kind = "array" /\ kind.items = i OBVIOUS
<1>2. Encoded(T, v) = ArrayValue(its) BY EncodedByForm DEF EncodedVec
<1>3. Encoded(T, v).kind = "array" /\ Encoded(T, v).items = its
  <2> HIDE DEF its
  <2> QED BY <1>2, ContainersAre
<1>4. HasItems(v, [k \in DOMAIN v.items |-> T.of]) BY HasTypeByForm
<1>5. \A k \in DOMAIN its : ConformsPart(s, i, its[k]) BY <1>4 DEF HasItems
<1> HIDE DEF kind, its
<1>6. ConformsKind(s, kind, Encoded(T, v)) BY <1>1, <1>3, <1>5 DEF ConformsKind
<1> QED BY <1>6 DEF Conforms, kind

LEMMA MapConforms ==
    ASSUME PartsLawful, NEW T, WellFormed(T), T.form = "map", NEW s, NEW id, NEW k, NEW i,
           s.types[id].kind = [kind |-> "map", key |-> k, value |-> i], NEW v, HasType(T, v),
           \A w : HasTypePart(T.key, w) => ConformsPart(s, k, EncodedPart(T.key, w)),
           \A w : HasTypePart(T.of, w) => ConformsPart(s, i, EncodedPart(T.of, w))
    PROVE  Conforms(s, id, Encoded(T, v))
<1> DEFINE kind == [kind |-> "map", key |-> k, value |-> i]
           d == Encoded(T, v)
<1>1. kind.kind = "map" /\ kind.key = k /\ kind.value = i OBVIOUS
<1>2. d = EncodedMap(T, v) BY EncodedByForm
<1> HIDE DEF d
<1>3. /\ d.kind = "map" /\ Len(d.items) \in Nat /\ DOMAIN d.items = 1..Len(d.items)
      /\ \A j \in Keys(d) : \E p \in v.entries :
           d.items[j] = EncodedPart(T.key, p[1]) /\ d.items[j + 1] = EncodedPart(T.of, p[2])
  BY <1>2, MapEncoded
<1>4. \A p \in v.entries : HasTypePart(T.key, p[1]) /\ HasTypePart(T.of, p[2]) BY HasTypeByForm
<1>5. \A j \in Keys(d) : ConformsPart(s, k, d.items[j]) /\ ConformsPart(s, i, d.items[j + 1])
  BY <1>3, <1>4
<1>6. ASSUME NEW j \in DOMAIN d.items
      PROVE  ConformsPart(s, IF j % 2 = 1 THEN k ELSE i, d.items[j])
  <2>1. CASE j % 2 = 1
    <3>1. j \in Keys(d) BY <2>1 DEF Keys
    <3> QED BY <1>5, <2>1, <3>1
  <2>2. CASE j % 2 # 1
    <3>1. j - 1 \in DOMAIN d.items /\ (j - 1) % 2 = 1 /\ (j - 1) + 1 = j BY <1>3, <2>2
    <3>2. j - 1 \in Keys(d) BY <3>1 DEF Keys
    <3> QED BY <1>5, <2>2, <3>1, <3>2
  <2> QED BY <2>1, <2>2
<1> HIDE DEF kind
<1>7. ConformsMap(s, kind, d) BY <1>1, <1>3, <1>6 DEF ConformsMap
<1>8. ConformsKind(s, kind, d) BY <1>1, <1>7 DEF ConformsKind
<1> QED BY <1>8 DEF Conforms, kind, d

LEMMA TupleConforms ==
    ASSUME NEW T, WellFormed(T), T.form = "tuple", NEW s, NEW id, NEW ids,
           ids = [i \in 1..Len(T.types) |-> ids[i]],
           s.types[id].kind = TupleKind(ids), NEW v, HasType(T, v),
           \A i \in 1..Len(T.types) : \A w :
               HasTypePart(T.types[i], w) => ConformsPart(s, ids[i], EncodedPart(T.types[i], w))
    PROVE  Conforms(s, id, Encoded(T, v))
<1> DEFINE kind == TupleKind(ids)
           its == [i \in DOMAIN T.types |-> EncodedPart(T.types[i], v.items[i])]
<1>0. Len(T.types) \in Nat /\ DOMAIN T.types = 1..Len(T.types) BY PartsOf
<1>1. kind.kind = "tuple" /\ kind.items = ids BY DEF TupleKind
<1>2. Encoded(T, v) = ArrayValue(its) BY EncodedByForm DEF EncodedTuple
<1>3. Encoded(T, v).kind = "array" /\ Encoded(T, v).items = its
  <2> HIDE DEF its
  <2> QED BY <1>2, ContainersAre
<1>4. HasItems(v, T.types) BY HasTypeByForm
<1>5. \A i \in 1..Len(T.types) : ConformsPart(s, ids[i], its[i]) BY <1>0, <1>4 DEF HasItems
<1>6. Len(its) = Len(T.types)
  <2>1. its = [i \in 1..Len(T.types) |-> its[i]] BY <1>0
  <2> HIDE DEF its
  <2> QED BY <1>0, <2>1, SequenceIs
<1>7. Len(ids) = Len(T.types) /\ DOMAIN ids = 1..Len(T.types) BY <1>0, SequenceIs
<1> HIDE DEF kind, its
<1>8. ConformsTuple(s, kind, Encoded(T, v)) BY <1>1, <1>3, <1>5, <1>6, <1>7 DEF ConformsTuple
<1>9. ConformsKind(s, kind, Encoded(T, v)) BY <1>1, <1>8 DEF ConformsKind
<1> QED BY <1>9 DEF Conforms, kind

LEMMA StructConforms ==
    ASSUME NEW T, WellFormed(T), T.form = "struct", NEW s, NEW id, NEW ids,
           s.types[id].kind = StructKind(T), NEW v, HasType(T, v),
           \A i \in DOMAIN T.fields : s.fields[T.fields[i].id].type = ids[i],
           \A i \in DOMAIN T.fields : \A w :
               HasTypePart(T.fields[i].type, w) =>
                   ConformsPart(s, ids[i], EncodedPart(T.fields[i].type, w))
    PROVE  Conforms(s, id, Encoded(T, v))
<1> DEFINE kind == StructKind(T)
           d == Encoded(T, v)
           S == FieldIds(T.fields)
<1>1. kind.kind = "struct" /\ kind.fields = Ascending(S) BY DEF StructKind
<1>2. Range(kind.fields) = S
  <2>1. S \subseteq Nat /\ IsFiniteSet(S) BY FieldIdsAre
  <2> HIDE DEF S
  <2>2. /\ Ascending(S) \in [1..Cardinality(S) -> S]
        /\ \A x \in S : \E i \in 1..Cardinality(S) : Ascending(S)[i] = x
    BY <2>1, AscendingIs
  <2>3. Range(Ascending(S)) = S BY <2>2 DEF Range
  <2> QED BY <1>1, <2>3
<1>3. d = EncodedStruct(T, v) BY EncodedByForm
<1> HIDE DEF d, kind
<1>4. /\ d.kind = "map"
      /\ \A i \in DOMAIN T.fields :
           /\ EntriesOf(d, T.fields[i].id) # {}
           /\ EntryOf(d, T.fields[i].id) = EncodedPart(T.fields[i].type, v.items[i])
      /\ \A i \in Keys(d) : \E j \in DOMAIN T.fields : d.items[i] = NumberValue(T.fields[j].id)
  BY <1>3, StructEncoded
<1>5. HasItems(v, FieldTypes(T.fields)) BY HasTypeByForm
<1>6. \A i \in DOMAIN T.fields : HasTypePart(T.fields[i].type, v.items[i])
  BY <1>5 DEF HasItems, FieldTypes
<1>7. \A x \in S : \E i \in DOMAIN T.fields : x = T.fields[i].id BY DEF FieldIds
<1>8. \A i \in DOMAIN T.fields : T.fields[i].id \in S BY DEF FieldIds
<1> HIDE DEF S
<1>9. ASSUME NEW x \in S PROVE ConformsPart(s, s.fields[x].type, EntryOf(d, x))
  <2>1. PICK i \in DOMAIN T.fields : x = T.fields[i].id BY <1>7
  <2>2. EntryOf(d, x) = EncodedPart(T.fields[i].type, v.items[i]) BY <1>4, <2>1
  <2>3. s.fields[x].type = ids[i] BY <2>1
  <2>4. HasTypePart(T.fields[i].type, v.items[i]) BY <1>6
  <2>5. ConformsPart(s, ids[i], EncodedPart(T.fields[i].type, v.items[i])) BY <2>4
  <2> QED BY <2>2, <2>3, <2>5
<1>10. \A x \in S : \E i \in Keys(d) : d.items[i] = NumberValue(x) BY <1>4, <1>7 DEF EntriesOf
<1>11. {d.items[i] : i \in Keys(d)} = {NumberValue(x) : x \in S}
  BY <1>4, <1>8, <1>10
<1>12. ConformsStruct(s, kind, d) BY <1>2, <1>4, <1>9, <1>11 DEF ConformsStruct
<1>13. ConformsKind(s, kind, d) BY <1>1, <1>12 DEF ConformsKind
<1> QED BY <1>13 DEF Conforms, kind, d

LEMMA EnumConforms ==
    ASSUME PartsRegistered, NEW T, WellFormed(T), T.form = "enum", NEW s, NEW id, NEW ids,
           s.types[id].kind = EnumKind(T, ids), NEW v, HasType(T, v),
           \A i \in 1..Len(T.payloads) : T.payloads[i].form # "variant" => \A w :
               HasTypePart(T.payloads[i], w) =>
                   ConformsPart(s, ids[i], EncodedPart(T.payloads[i], w))
    PROVE  Conforms(s, id, Encoded(T, v))
<1> DEFINE kind == EnumKind(T, ids)
           vs == [i \in DOMAIN T.payloads |-> VariantDef(T, ids, i)]
           d == Encoded(T, v)
           n == v.variant + 1
           e == EncodedPart(T.payloads[n], v.with)
<1>0. /\ Len(T.payloads) \in Nat /\ DOMAIN T.payloads = 1..Len(T.payloads)
      /\ \A i \in 1..Len(T.payloads) : WellFormedPart(T.payloads[i])
  BY PartsOf
<1>1. kind.kind = "enum" /\ kind.variants = vs BY DEF EnumKind
<1>2. v.variant \in 0..(Len(T.payloads) - 1) /\ HasTypePart(T.payloads[n], v.with)
  BY HasTypeByForm
<1>3. d = MapValue(<<NumberValue(v.variant), e>>) BY EncodedByForm DEF EncodedEnum
<1>4. d.kind = "map" /\ d.items = <<NumberValue(v.variant), e>>
  <2> HIDE DEF e
  <2> QED BY <1>3, ContainersAre
<1> HIDE DEF d
<1>5. /\ Len(d.items) = 2 /\ d.items[1] = NumberValue(v.variant) /\ d.items[2] = e BY <1>4
<1>6. d.items[1].kind = "number" /\ d.items[1].number = v.variant
  <2>1. \A x : NumberValue(x).kind = "number" /\ NumberValue(x).number = x BY DEF NumberValue
  <2> QED BY <1>5, <2>1
<1>7. Len(vs) = Len(T.payloads)
  <2>1. vs = [i \in 1..Len(T.payloads) |-> vs[i]] BY <1>0
  <2> HIDE DEF vs
  <2> QED BY <1>0, <2>1, SequenceIs
<1>8. n \in DOMAIN T.payloads /\ v.variant < Len(T.payloads) BY <1>0, <1>2
<1>9. vs[n].payload = PayloadAt(T, ids, n)
  <2>1. vs[n] = VariantDef(T, ids, n) BY <1>8
  <2> QED BY <2>1 DEF VariantDef
<1>10. ConformsPayload(s, vs[n].payload, e)
  <2>1. CASE T.payloads[n].form = "variant"
    <3>1. vs[n].payload = NoPayload BY <1>9, <2>1 DEF PayloadAt
    <3>2. e = BoolValue(TRUE) BY <1>0, <1>8, <2>1 DEF PartsRegistered
    <3> QED BY <3>1, <3>2 DEF ConformsPayload
  <2>2. CASE T.payloads[n].form # "variant"
    <3>1. vs[n].payload = PayloadOf(ids[n]) BY <1>9, <2>2 DEF PayloadAt
    <3>2. vs[n].payload # NoPayload /\ vs[n].payload[1] = ids[n]
      <4>1. PayloadOf(ids[n])[1] = ids[n] /\ Len(PayloadOf(ids[n])) = 1 BY DEF PayloadOf
      <4>2. Len(NoPayload) = 0 BY DEF NoPayload
      <4> HIDE DEF vs
      <4> QED BY <3>1, <4>1, <4>2
    <3>3. ConformsPart(s, ids[n], e) BY <1>0, <1>2, <1>8, <2>2
    <3> QED BY <3>2, <3>3 DEF ConformsPayload
  <2> QED BY <2>1, <2>2
<1> HIDE DEF kind, vs, e
<1>11. ConformsEnum(s, kind, d)
  BY <1>1, <1>4, <1>5, <1>6, <1>7, <1>8, <1>10 DEF ConformsEnum
<1>12. ConformsKind(s, kind, d) BY <1>1, <1>11 DEF ConformsKind
<1> QED BY <1>12 DEF Conforms, kind, d

LEMMA TypedKind ==
    ASSUME NEW b, NEW name, NEW kind, Typed(b, name, kind)
    PROVE  IdOf(name) \in DOMAIN b.types /\ b.types[IdOf(name)].kind = kind
<1>1. IdOf(name) \in DOMAIN b.types /\ b.types[IdOf(name)] = TypeDef(name, kind) BY TypedIs
<1> QED BY <1>1 DEF TypeDef

LEMMA DescribedConforms ==
    ASSUME PartsLawful, PartsRegistered, NEW T, WellFormed(T), T.form # "variant",
           NEW b, Shaped(b), ~b.errors, NEW id, Described(b, T, id)
    PROVE  /\ id \in DOMAIN b.types
           /\ \A s, v : s.types = b.types /\ s.fields = b.fields /\ HasType(T, v) =>
                Conforms(s, id, Encoded(T, v))
<1>0. T.form \in Forms BY FormKnown
<1>a. \A U, i : WellFormedPart(U) /\ U.form # "variant" /\ SettledPart(b, U, i) =>
                  \A s, v : s.types = b.types /\ s.fields = b.fields /\ HasTypePart(U, v) =>
                      ConformsPart(s, i, EncodedPart(U, v))
  BY PartSettled
<1>1. CASE T.form \in Scalars
  <2>1. Typed(b, PrimitiveName(T), [kind |-> "primitive", prim |-> T]) /\ id = IdOf(PrimitiveName(T))
    BY <1>1, DescribedByForm DEF DescribedScalar
  <2>2. id \in DOMAIN b.types /\ b.types[id].kind = [kind |-> "primitive", prim |-> T]
    BY <2>1, TypedKind
  <2>3. ASSUME NEW s, NEW v, s.types = b.types, s.fields = b.fields, HasType(T, v)
        PROVE  Conforms(s, id, Encoded(T, v))
    <3>1. s.types[id].kind = [kind |-> "primitive", prim |-> T] BY <2>2, <2>3
    <3> QED BY <1>1, <2>3, <3>1, ScalarConforms
  <2> QED BY <2>2, <2>3
<1>2. CASE T.form = "option"
  <2>1. WellFormedPart(T.of) /\ T.of.form # "variant" BY <1>2, PartsOf
  <2>2. PICK i : /\ SettledPart(b, T.of, i)
                 /\ Typed(b, OptionName(b, i), [kind |-> "option", some |-> i])
                 /\ id = IdOf(OptionName(b, i))
    BY <1>2, DescribedByForm DEF DescribedOption
  <2>3. id \in DOMAIN b.types /\ b.types[id].kind = [kind |-> "option", some |-> i]
    BY <2>2, TypedKind
  <2>4. ASSUME NEW s, NEW v, s.types = b.types, s.fields = b.fields, HasType(T, v)
        PROVE  Conforms(s, id, Encoded(T, v))
    <3>1. s.types[id].kind = [kind |-> "option", some |-> i] BY <2>3, <2>4
    <3>2. \A w : HasTypePart(T.of, w) => ConformsPart(s, i, EncodedPart(T.of, w))
      BY <1>a, <2>1, <2>2, <2>4
    <3> QED BY <1>2, <2>4, <3>1, <3>2, OptionConforms
  <2> QED BY <2>3, <2>4
<1>3. CASE T.form = "vec"
  <2>1. WellFormedPart(T.of) /\ T.of.form # "variant" BY <1>3, PartsOf
  <2>2. PICK i : /\ SettledPart(b, T.of, i)
                 /\ Typed(b, VecName(b, i), [kind |-> "array", items |-> i])
                 /\ id = IdOf(VecName(b, i))
    BY <1>3, DescribedByForm DEF DescribedVec
  <2>3. id \in DOMAIN b.types /\ b.types[id].kind = [kind |-> "array", items |-> i]
    BY <2>2, TypedKind
  <2>4. ASSUME NEW s, NEW v, s.types = b.types, s.fields = b.fields, HasType(T, v)
        PROVE  Conforms(s, id, Encoded(T, v))
    <3>1. s.types[id].kind = [kind |-> "array", items |-> i] BY <2>3, <2>4
    <3>2. \A w : HasTypePart(T.of, w) => ConformsPart(s, i, EncodedPart(T.of, w))
      BY <1>a, <2>1, <2>2, <2>4
    <3> QED BY <1>3, <2>4, <3>1, <3>2, VecConforms
  <2> QED BY <2>3, <2>4
<1>4. CASE T.form = "map"
  <2>1. /\ WellFormedPart(T.key) /\ T.key.form # "variant"
        /\ WellFormedPart(T.of) /\ T.of.form # "variant"
    BY <1>4, PartsOf
  <2>2. PICK k, i : /\ SettledPart(b, T.key, k) /\ SettledPart(b, T.of, i)
                    /\ Typed(b, MapName(b, k, i), [kind |-> "map", key |-> k, value |-> i])
                    /\ id = IdOf(MapName(b, k, i))
    BY <1>4, DescribedByForm DEF DescribedMap
  <2>3. id \in DOMAIN b.types /\ b.types[id].kind = [kind |-> "map", key |-> k, value |-> i]
    BY <2>2, TypedKind
  <2>4. ASSUME NEW s, NEW v, s.types = b.types, s.fields = b.fields, HasType(T, v)
        PROVE  Conforms(s, id, Encoded(T, v))
    <3>1. s.types[id].kind = [kind |-> "map", key |-> k, value |-> i] BY <2>3, <2>4
    <3>2. \A w : HasTypePart(T.key, w) => ConformsPart(s, k, EncodedPart(T.key, w))
      BY <1>a, <2>1, <2>2, <2>4
    <3>3. \A w : HasTypePart(T.of, w) => ConformsPart(s, i, EncodedPart(T.of, w))
      BY <1>a, <2>1, <2>2, <2>4
    <3> QED BY <1>4, <2>4, <3>1, <3>2, <3>3, MapConforms
  <2> QED BY <2>3, <2>4
<1>5. CASE T.form = "tuple"
  <2>1. PICK ids : AllSettled(b, T.types, ids) /\ Typed(b, T.name, TupleKind(ids)) /\ id = IdOf(T.name)
    BY <1>5, DescribedByForm DEF DescribedTuple
  <2>2. id \in DOMAIN b.types /\ b.types[id].kind = TupleKind(ids) BY <2>1, TypedKind
  <2>3. \A i \in 1..Len(T.types) : WellFormedPart(T.types[i]) /\ T.types[i].form # "variant"
    BY <1>5, PartsOf
  <2>4. ASSUME NEW s, NEW v, s.types = b.types, s.fields = b.fields, HasType(T, v)
        PROVE  Conforms(s, id, Encoded(T, v))
    <3>1. s.types[id].kind = TupleKind(ids) BY <2>2, <2>4
    <3>2. \A i \in 1..Len(T.types) : \A w :
            HasTypePart(T.types[i], w) => ConformsPart(s, ids[i], EncodedPart(T.types[i], w))
      BY <2>1, <2>3, <2>4, AllSettledOn
    <3>3. ids = [i \in 1..Len(T.types) |-> ids[i]] BY <2>1 DEF AllSettled
    <3> QED BY <1>5, <2>4, <3>1, <3>2, <3>3, TupleConforms
  <2> QED BY <2>2, <2>4
<1>6. CASE T.form = "struct"
  <2> DEFINE types == FieldTypes(T.fields)
  <2>1. PICK ids : /\ AllSettled(b, types, ids) /\ Fielded(b, FieldsWith(T, ids))
                   /\ Typed(b, T.name, StructKind(T)) /\ id = IdOf(T.name)
    BY <1>6, DescribedByForm DEF DescribedStruct
  <2>2. id \in DOMAIN b.types /\ b.types[id].kind = StructKind(T) BY <2>1, TypedKind
  <2>3. /\ DOMAIN T.fields = 1..Len(types)
        /\ \A i \in 1..Len(types) :
             types[i] = T.fields[i].type /\ WellFormedPart(types[i]) /\ types[i].form # "variant"
        /\ DOMAIN FieldsWith(T, ids) = DOMAIN T.fields
        /\ \A i \in DOMAIN T.fields :
             FieldsWith(T, ids)[i] =
                 [id |-> T.fields[i].id, name |-> T.fields[i].name, type |-> ids[i]]
    <3>1. /\ Len(types) = Len(T.fields) /\ DOMAIN T.fields = 1..Len(T.fields)
          /\ \A i \in 1..Len(T.fields) :
               /\ types[i] = T.fields[i].type
               /\ WellFormedPart(T.fields[i].type) /\ T.fields[i].type.form # "variant"
      BY <1>6, StructParts DEF PartsOfStruct
    <3>2. /\ DOMAIN FieldsWith(T, ids) = DOMAIN T.fields
          /\ \A i \in DOMAIN T.fields :
               FieldsWith(T, ids)[i] =
                   [id |-> T.fields[i].id, name |-> T.fields[i].name, type |-> ids[i]]
      BY DEF FieldsWith
    <3> HIDE DEF types
    <3> QED BY <3>1, <3>2
  <2> HIDE DEF types
  <2>4. ASSUME NEW i \in DOMAIN T.fields PROVE b.fields[T.fields[i].id].type = ids[i]
    <3> DEFINE fs == FieldsWith(T, ids)
    <3>1. fs[i] = [id |-> T.fields[i].id, name |-> T.fields[i].name, type |-> ids[i]] /\ i \in DOMAIN fs
      BY <2>3
    <3> HIDE DEF fs
    <3>2. fs[i].id = T.fields[i].id /\ fs[i].type = ids[i] BY <3>1
    <3>3. Has(b.fields, IdsOf(fs), FieldDefs(fs)) BY <2>1 DEF Fielded, fs
    <3>4. DOMAIN IdsOf(fs) = DOMAIN fs /\ IdsOf(fs)[i] = fs[i].id BY <3>1 DEF IdsOf
    <3>5. FieldDefs(fs)[i] = [name |-> StringIdOf(fs[i].name), type |-> fs[i].type]
      BY <3>1 DEF FieldDefs
    <3>6. b.fields[fs[i].id] = [name |-> StringIdOf(fs[i].name), type |-> fs[i].type]
      BY <3>1, <3>3, <3>4, <3>5 DEF Has
    <3>7. b.fields[fs[i].id].type = fs[i].type BY <3>6
    <3> QED BY <3>2, <3>7
  <2>5. ASSUME NEW s, NEW v, s.types = b.types, s.fields = b.fields, HasType(T, v)
        PROVE  Conforms(s, id, Encoded(T, v))
    <3>1. s.types[id].kind = StructKind(T) BY <2>2, <2>5
    <3>2. \A i \in 1..Len(types) : \A w :
            HasTypePart(types[i], w) => ConformsPart(s, ids[i], EncodedPart(types[i], w))
      BY <2>1, <2>3, <2>5, AllSettledOn
    <3>3. \A i \in DOMAIN T.fields : \A w :
            HasTypePart(T.fields[i].type, w) =>
                ConformsPart(s, ids[i], EncodedPart(T.fields[i].type, w))
      BY <2>3, <3>2
    <3>4. \A i \in DOMAIN T.fields : s.fields[T.fields[i].id].type = ids[i] BY <2>4, <2>5
    <3> QED BY <1>6, <2>5, <3>1, <3>3, <3>4, StructConforms
  <2> QED BY <2>2, <2>5
<1>7. CASE T.form = "enum"
  <2>1. PICK ids : /\ AllSettled(b, T.payloads, ids) /\ Names(b, EnumNames(T))
                   /\ Typed(b, T.name, EnumKind(T, ids)) /\ id = IdOf(T.name)
    BY <1>7, DescribedByForm DEF DescribedEnum
  <2>2. id \in DOMAIN b.types /\ b.types[id].kind = EnumKind(T, ids) BY <2>1, TypedKind
  <2>3. \A i \in 1..Len(T.payloads) : WellFormedPart(T.payloads[i]) BY <1>7, PartsOf
  <2>4. ASSUME NEW s, NEW v, s.types = b.types, s.fields = b.fields, HasType(T, v)
        PROVE  Conforms(s, id, Encoded(T, v))
    <3>1. s.types[id].kind = EnumKind(T, ids) BY <2>2, <2>4
    <3>2. \A i \in 1..Len(T.payloads) : T.payloads[i].form # "variant" => \A w :
            HasTypePart(T.payloads[i], w) => ConformsPart(s, ids[i], EncodedPart(T.payloads[i], w))
      BY <2>1, <2>3, <2>4, AllSettledOn
    <3> QED BY <1>7, <2>4, <3>1, <3>2, EnumConforms
  <2> QED BY <2>2, <2>4
<1> QED BY <1>0, <1>1, <1>2, <1>3, <1>4, <1>5, <1>6, <1>7 DEF Forms, Scalars

\* What holds of the registrations of the parts holds of those of the whole.
LEMMA WholeRegistered == ASSUME PartsLawful, PartsRegistered PROVE TypesRegistered
<1>1. ASSUME NEW T, WellFormed(T), T.form # "variant", NEW b, Shaped(b)
      PROVE  LET r == Registered(b, T)
             IN  /\ Shaped(r.builder) /\ Grows(b, r.builder)
                 /\ ~r.builder.errors => Settled(r.builder, T, r.id)
  <2> DEFINE r == Registered(b, T)
  <2>1. /\ Shaped(r.builder) /\ Grows(b, r.builder)
        /\ ~r.builder.errors => Described(r.builder, T, r.id)
    BY <1>1, DescribedIs
  <2> HIDE DEF r
  <2>2. ~r.builder.errors => Settled(r.builder, T, r.id)
    BY <1>1, <2>1, DescribedIs DEF Settled
  <2> QED BY <2>1, <2>2 DEF r
<1>2. ASSUME NEW T, WellFormed(T), T.form # "variant", NEW b, Shaped(b), NEW id,
             Settled(b, T, id), ~b.errors
      PROVE  Described(b, T, id)
  <2>1. Registered(b, T).builder = b /\ Registered(b, T).id = id BY <1>2, GivesIs DEF Settled
  <2> QED BY <1>2, <2>1, DescribedIs
<1>3. ASSUME NEW T, WellFormed(T), T.form # "variant", NEW b, Shaped(b), NEW id, Settled(b, T, id),
             NEW c, Shaped(c), Grows(b, c), ~c.errors
      PROVE  Settled(c, T, id)
  <2>1. ~b.errors BY <1>3 DEF Grows
  <2>2. Described(b, T, id) BY <1>2, <1>3, <2>1
  <2>3. Described(c, T, id) BY <1>3, <2>1, <2>2, DescribedOn
  <2> QED BY <1>3, <2>3, DescribedIs DEF Settled
<1>4. ASSUME NEW T, WellFormed(T), T.form # "variant", NEW b, Shaped(b), ~b.errors, NEW id,
             Settled(b, T, id)
      PROVE  /\ id \in DOMAIN b.types
             /\ \A s, v : s.types = b.types /\ s.fields = b.fields /\ HasType(T, v) =>
                   Conforms(s, id, Encoded(T, v))
  BY <1>2, <1>4, DescribedConforms
<1>5. \A T, v : WellFormed(T) /\ T.form = "variant" => Encoded(T, v) = BoolValue(TRUE)
  BY EncodedByForm
<1> QED BY <1>1, <1>3, <1>4, <1>5 DEF TypesRegistered
=============================================================================
