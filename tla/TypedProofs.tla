---------------------------- MODULE TypedProofs ----------------------------
(***************************************************************************)
(* What TypesProofs proves of a type whose parts are lawful, for the types *)
(* of NestedTypes; and with it what was only a matter of these types:      *)
(* values that were received and are read and applied as patches           *)
(* (DatexTyped), the world as clients reach it (TypedWorld), and the       *)
(* schema and the handlers of a process (Process).                         *)
(***************************************************************************)
EXTENDS Process, DatexTyped, DatexValuesProofs

----------------------------------------------------------------------------
(* From one level of nesting to the next: the types of one are the parts   *)
(* of the other.                                                           *)

LEMMA NoParts == T0!PartsLawful /\ T0!PartsRegistered
BY DEF T0!PartsLawful, T0!PartsRegistered, NoType

LEMMA Level1 ==
    /\ T0!Lawful => T1!PartsLawful
    /\ T0!TypesRegistered => T1!PartsRegistered
<1>1. T0!Lawful => T1!PartsLawful
  BY Zenon
     DEF T0!Lawful, T1!PartsLawful,
         T0!Read, T1!Read, T0!Done, T1!Done, T0!Fails, T1!Fails, T0!Accepted, T1!Accepted,
         T0!Refused, T1!Refused, T0!NoneOf, T1!NoneOf, T0!IsDatex, T1!IsDatex,
         T0!Datexes, T1!Datexes, T0!Range, T1!Range, T0!One, T1!One,
         T0!Clean, T1!Clean, T0!AllClean, T1!AllClean,
         T0!KeysDiffer, T1!KeysDiffer
<1>2. T0!TypesRegistered => T1!PartsRegistered
  BY Zenon
     DEF T0!TypesRegistered, T1!PartsRegistered, T0!Settled, T1!SettledPart,
         T0!Gives, T1!Gives, T0!BoolValue, T1!BoolValue, T0!Shaped, T1!Shaped,
         T0!Grows, T1!Grows, T0!IsBuilder, T1!IsBuilder,
         T0!ReferencesHold, T1!ReferencesHold, T0!Extends, T1!Extends,
         T0!Builder, T1!Builder, T0!IsFunction, T1!IsFunction, T0!Range, T1!Range,
         T0!TypesIn, T1!TypesIn
<1> QED BY <1>1, <1>2

LEMMA Level2 ==
    /\ T1!Lawful => T2!PartsLawful
    /\ T1!TypesRegistered => T2!PartsRegistered
<1>1. T1!Lawful => T2!PartsLawful
  BY Zenon
     DEF T1!Lawful, T2!PartsLawful,
         T1!Read, T2!Read, T1!Done, T2!Done, T1!Fails, T2!Fails, T1!Accepted, T2!Accepted,
         T1!Refused, T2!Refused, T1!NoneOf, T2!NoneOf, T1!IsDatex, T2!IsDatex,
         T1!Datexes, T2!Datexes, T1!Range, T2!Range, T1!One, T2!One,
         T1!Clean, T2!Clean, T1!AllClean, T2!AllClean,
         T1!KeysDiffer, T2!KeysDiffer
<1>2. T1!TypesRegistered => T2!PartsRegistered
  BY Zenon
     DEF T1!TypesRegistered, T2!PartsRegistered, T1!Settled, T2!SettledPart,
         T1!Gives, T2!Gives, T1!BoolValue, T2!BoolValue, T1!Shaped, T2!Shaped,
         T1!Grows, T2!Grows, T1!IsBuilder, T2!IsBuilder,
         T1!ReferencesHold, T2!ReferencesHold, T1!Extends, T2!Extends,
         T1!Builder, T2!Builder, T1!IsFunction, T2!IsFunction, T1!Range, T2!Range,
         T1!TypesIn, T2!TypesIn
<1> QED BY <1>1, <1>2

LEMMA Level3 ==
    /\ T2!Lawful => T3!PartsLawful
    /\ T2!TypesRegistered => T3!PartsRegistered
<1>1. T2!Lawful => T3!PartsLawful
  BY Zenon
     DEF T2!Lawful, T3!PartsLawful,
         T2!Read, T3!Read, T2!Done, T3!Done, T2!Fails, T3!Fails, T2!Accepted, T3!Accepted,
         T2!Refused, T3!Refused, T2!NoneOf, T3!NoneOf, T2!IsDatex, T3!IsDatex,
         T2!Datexes, T3!Datexes, T2!Range, T3!Range, T2!One, T3!One,
         T2!Clean, T3!Clean, T2!AllClean, T3!AllClean,
         T2!KeysDiffer, T3!KeysDiffer
<1>2. T2!TypesRegistered => T3!PartsRegistered
  BY Zenon
     DEF T2!TypesRegistered, T3!PartsRegistered, T2!Settled, T3!SettledPart,
         T2!Gives, T3!Gives, T2!BoolValue, T3!BoolValue, T2!Shaped, T3!Shaped,
         T2!Grows, T3!Grows, T2!IsBuilder, T3!IsBuilder,
         T2!ReferencesHold, T3!ReferencesHold, T2!Extends, T3!Extends,
         T2!Builder, T3!Builder, T2!IsFunction, T3!IsFunction, T2!Range, T3!Range,
         T2!TypesIn, T3!TypesIn
<1> QED BY <1>1, <1>2

LEMMA Whole == T3!Lawful /\ T3!TypesRegistered
<1>1. T0!Lawful /\ T0!TypesRegistered BY NoParts, T0!WholeLawful, T0!WholeRegistered
<1>2. T1!Lawful /\ T1!TypesRegistered BY <1>1, Level1, T1!WholeLawful, T1!WholeRegistered
<1>3. T2!Lawful /\ T2!TypesRegistered BY <1>2, Level2, T2!WholeLawful, T2!WholeRegistered
<1>4. T3!Lawful /\ T3!TypesRegistered BY <1>3, Level3, T3!WholeLawful, T3!WholeRegistered
<1> QED BY <1>4

\* No map in a set that has all that is in d has a key twice, so that none in d has.
LEMMA CleanWithin ==
    ASSUME NEW d, T3!Clean(d)
    PROVE  Clean(d)
<1>1. PICK R : d \in R /\ T3!AllClean(R) BY DEF T3!Clean
<1> DEFINE S == {n \in Nat : Within(d, n) \subseteq R}
<1>2. Within(d, 0) = {d} /\ \A n \in Nat : Within(d, n + 1) = ItemsOf(Within(d, n)) BY WithinSteps
<1>3. 0 \in S BY <1>1, <1>2
<1>4. ASSUME NEW n \in Nat, n \in S PROVE n + 1 \in S
  <2>1. ASSUME NEW x \in Within(d, n + 1) PROVE x \in R
    <3>1. PICK y \in Within(d, n) : y.kind \in {"array", "map"} /\ \E i \in DOMAIN y.items : x = y.items[i]
      BY <1>2 DEF ItemsOf
    <3>2. y \in R BY <1>4
    <3> QED BY <1>1, <3>1, <3>2 DEF T3!AllClean
  <2> QED BY <2>1
<1> HIDE DEF S
<1>5. \A n \in Nat : n \in S BY <1>3, <1>4, Induction
<1>6. \A x \in R : x.kind = "map" => KeysDiffer(x)
  BY <1>1 DEF T3!AllClean, T3!KeysDiffer, KeysDiffer
<1> QED BY <1>5, <1>6 DEF Clean, S

\* The operations of a type agree with one another.
LEMMA TypesLawful ==
    ASSUME NEW T, WellFormed(T)
    PROVE  /\ \A v, d : Validated(T, v, d) <=> Patched(T, v, d).ok
           /\ \A v : HasType(T, v) => Decoded(T, Encoded(T, v)) = Accepted(v)
           /\ \A v, w : HasType(T, v) /\ HasType(T, w) =>
                            Patched(T, v, Encoded(T, w)) = Accepted(w)
           /\ \A d : Decoded(T, d).ok => Decoded(T, d) = Accepted(Decoded(T, d).value)
           /\ \A d : IsDatex(d) /\ Decoded(T, d).ok => HasType(T, Decoded(T, d).value)
           /\ \A v, d : Patched(T, v, d).ok =>
                            Patched(T, Patched(T, v, d).value, d) = Patched(T, v, d)
           /\ \A v, d : ~Patched(T, v, d).ok \/ Patched(T, v, d) = Accepted(Patched(T, v, d).value)
           /\ \A v : HasType(T, v) => Clean(Encoded(T, v))
<1>0. T3!WellFormed(T) BY DEF WellFormed, T3!IsWholeType
<1>1. \A d : T3!IsDatex(d) <=> IsDatex(d) BY DEF T3!IsDatex, T3!Datexes, IsDatex, Datexes
<1>2. \A v : T3!Accepted(v) = Accepted(v) BY DEF T3!Accepted, Accepted
<1>3. \A v : T3!Fails(v).ok = FALSE /\ T3!Refused.ok = FALSE BY DEF T3!Fails, T3!Refused
<1>5. /\ \A v, d : T3!Validated(T, v, d) <=> T3!Patched(T, v, d).ok
      /\ \A v : T3!HasType(T, v) => T3!Decoded(T, T3!Encoded(T, v)) = Accepted(v)
      /\ \A v, w : T3!HasType(T, v) /\ T3!HasType(T, w) =>
                       T3!Patched(T, v, T3!Encoded(T, w)) = Accepted(w)
      /\ \A d : IsDatex(d) /\ T3!Decoded(T, d).ok => T3!HasType(T, T3!Decoded(T, d).value)
      /\ \A v, d : T3!Patched(T, v, d).ok =>
                       T3!Patched(T, T3!Patched(T, v, d).value, d) = T3!Patched(T, v, d)
  BY <1>0, <1>1, <1>2, Whole DEF T3!Lawful
<1>6. \A d : T3!Decoded(T, d).ok => T3!Decoded(T, d) = Accepted(T3!Decoded(T, d).value)
  <2>1. \A d : T3!Read(T3!Decoded(T, d)) BY <1>0, Whole DEF T3!Lawful
  <2> QED BY <1>2, <1>3, <2>1 DEF T3!Read
<1>7. \A v, d : ~T3!Patched(T, v, d).ok \/ T3!Patched(T, v, d) = Accepted(T3!Patched(T, v, d).value)
  <2>1. \A v, d : T3!Done(T3!Patched(T, v, d)) BY <1>0, Whole DEF T3!Lawful
  <2> QED BY <1>2, <1>3, <2>1 DEF T3!Done
<1>8. \A v : T3!HasType(T, v) => Clean(T3!Encoded(T, v))
  <2>1. \A v : T3!HasType(T, v) => T3!Clean(T3!Encoded(T, v)) BY <1>0, Whole DEF T3!Lawful
  <2> QED BY <2>1, CleanWithin
<1> QED BY <1>5, <1>6, <1>7, <1>8 DEF Validated, Patched, HasType, Decoded, Encoded

LEMMA AcceptedFacts == \A v : Accepted(v).ok = TRUE /\ Accepted(v).value = v
BY DEF Accepted

\* A patch of a struct that succeeds leaves the fields it does not name.
LEMMA StructUntouched ==
    ASSUME NEW T, WellFormed(T), T.form = "struct", NEW v, NEW d, Patched(T, v, d).ok
    PROVE  Untouched(T, Patched(T, v, d).value, d) = Untouched(T, v, d)
<1> DEFINE results == T3!Patches(T, v, d)
           left == {i \in DOMAIN T.fields : EntriesOf(d, T.fields[i].id) = {}}
<1>0. T3!WellFormed(T) BY DEF WellFormed, T3!IsWholeType
<1>1. T3!Patched(T, v, d) = T3!PatchedStruct(T, v, d) BY DEF T3!Patched
<1>2. /\ T3!IsStructMap(T.fields, d) /\ \A i \in DOMAIN T.fields : results[i].ok
  BY <1>1, T3!StructPatched DEF Patched
<1>3. T3!PatchedStruct(T, v, d) = T3!Accepted(T3!Many([i \in DOMAIN T.fields |-> results[i].value]))
  BY <1>0, <1>2, T3!StructMerged
<1>4. Patched(T, v, d).value.items = [i \in DOMAIN T.fields |-> results[i].value]
  BY <1>1, <1>3 DEF Patched, T3!Accepted, T3!Many
<1>5. ASSUME NEW i \in left PROVE results[i].value = v.items[i]
  <2>1. T3!EntriesOf(d, T.fields[i].id) = {}
    BY DEF T3!EntriesOf, EntriesOf, T3!Keys, Keys, T3!NumberValue, NumberValue
  <2>2. results[i] = T3!Accepted(v.items[i]) BY <2>1 DEF T3!Patches
  <2> QED BY <2>2 DEF T3!Accepted
<1> HIDE DEF results
<1>6. \A i \in left : Patched(T, v, d).value.items[i] = v.items[i] BY <1>4, <1>5
<1>7. [i \in left |-> Patched(T, v, d).value.items[i]] = [i \in left |-> v.items[i]] BY <1>6
<1> QED BY <1>7 DEF Untouched

----------------------------------------------------------------------------
(* Values that were received.                                              *)

\* Whatever an encoder sends, what a type reads from it is what it reads from its own
\* encoding of that, with its fields in another order, with keys that came twice and
\* with options left out (the derived Encode and Decode, and traits.rs).
THEOREM ReadsWhatItWrites == EncoderSpec => []ReadsItself
<1>1. ASSUME EncoderTypeOK, ContentInv PROVE ReadsItself
  <2> SUFFICES ASSUME status = "done", NEW sample \in Samples, Decoded(sample.type, value).ok
               PROVE  Decoded(sample.type, Encoded(sample.type, Decoded(sample.type, value).value))
                          = Decoded(sample.type, value)
    BY DEF ReadsItself
  <2> DEFINE T == sample.type
  <2>1. IsDatex(value) BY <1>1, Written DEF Fine
  <2>2. WellFormed(T) BY SamplesAssumption
  <2> HIDE DEF T
  <2>3. Decoded(T, value).ok BY DEF T
  <2>4. HasType(T, Decoded(T, value).value) /\ Decoded(T, value) = Accepted(Decoded(T, value).value)
    BY <2>1, <2>2, <2>3, TypesLawful
  <2>5. Decoded(T, Encoded(T, Decoded(T, value).value)) = Decoded(T, value)
    BY <2>2, <2>4, TypesLawful
  <2> QED BY <2>5 DEF T
<1> QED BY <1>1, EncoderContent, PTL

\* Whatever an encoder sends as a patch: checked, it does not fail half way through;
\* applied again it changes nothing; it leaves the fields it does not name; and the
\* encoding of another value makes the one the other (the derived Patch and
\* PatchValidate, and traits.rs).
THEOREM PatchesMerge == EncoderSpec => []PatchMerges
<1>1. ASSUME EncoderTypeOK, ContentInv PROVE PatchMerges
  <2> SUFFICES ASSUME status = "done", NEW sample \in Samples, NEW v \in sample.values
               PROVE  LET T     == sample.type
                          other == Decoded(T, value)
                          again == Encoded(T, other.value)
                          done  == Patched(T, v, value)
                      IN  /\ Validated(T, v, value) <=> done.ok
                          /\ done.ok => Patched(T, done.value, value) = done
                          /\ (done.ok /\ T.form = "struct") =>
                                Untouched(T, done.value, value) = Untouched(T, v, value)
                          /\ other.ok => Patched(T, v, again) = Accepted(other.value)
    BY DEF PatchMerges
  <2> DEFINE T == sample.type
  <2>1. IsDatex(value) BY <1>1, Written DEF Fine
  <2>2. WellFormed(T) /\ HasType(T, v) BY SamplesAssumption
  <2> HIDE DEF T
  <2>3. Validated(T, v, value) <=> Patched(T, v, value).ok BY <2>2, TypesLawful
  <2>4. Patched(T, v, value).ok => Patched(T, Patched(T, v, value).value, value) = Patched(T, v, value)
    BY <2>2, TypesLawful
  <2>5. Patched(T, v, value).ok /\ T.form = "struct" =>
            Untouched(T, Patched(T, v, value).value, value) = Untouched(T, v, value)
    BY <2>2, StructUntouched
  <2>6. Decoded(T, value).ok =>
            Patched(T, v, Encoded(T, Decoded(T, value).value)) = Accepted(Decoded(T, value).value)
    <3>1. Decoded(T, value).ok => HasType(T, Decoded(T, value).value) BY <2>1, <2>2, TypesLawful
    <3> QED BY <2>2, <3>1, TypesLawful
  <2> QED BY <2>3, <2>4, <2>5, <2>6 DEF T
<1> QED BY <1>1, EncoderContent, PTL

----------------------------------------------------------------------------
(* Types in a schema.                                                      *)

Shaped(b) == T3!Shaped(b)
Grows(b, c) == T3!Grows(b, c)

\* T has been registered in b, and has the id there.
Settled(b, T, id) == T3!Settled(b, T, id)

LEMMA ShapedIs ==
    ASSUME NEW b
    PROVE  /\ Shaped(b) => b.errors \in BOOLEAN /\ (~b.errors => ReferencesHold(b))
           /\ Shaped(b) => b = [errors |-> b.errors, strings |-> b.strings, types |-> b.types,
                                fields |-> b.fields, procedures |-> b.procedures]
<1>1. T3!ReferencesHold(b) <=> ReferencesHold(b)
  BY Zenon DEF T3!ReferencesHold, ReferencesHold, T3!TypesIn, TypesIn, T3!Range, Range
<1> QED BY <1>1 DEF Shaped, T3!Shaped, T3!IsBuilder, T3!Builder

LEMMA GrowsIs ==
    ASSUME NEW b, NEW c, Grows(b, c)
    PROVE  /\ b.errors => c.errors
           /\ \A id \in DOMAIN b.strings : id \in DOMAIN c.strings /\ c.strings[id] = b.strings[id]
           /\ \A id \in DOMAIN b.types : id \in DOMAIN c.types /\ c.types[id] = b.types[id]
           /\ \A id \in DOMAIN b.fields : id \in DOMAIN c.fields /\ c.fields[id] = b.fields[id]
           /\ \A id \in DOMAIN b.procedures :
                id \in DOMAIN c.procedures /\ c.procedures[id] = b.procedures[id]
BY DEF Grows, T3!Grows, T3!Extends

LEMMA GrowsOn ==
    /\ \A b : Grows(b, b)
    /\ \A b, c, d : Grows(b, c) /\ Grows(c, d) => Grows(b, d)
BY T3!GrowsSelf, T3!GrowsOn DEF Grows

LEMMA EmptyShaped == Shaped(EmptySchema) /\ EmptySchema.errors = FALSE
<1> DEFINE b == EmptySchema
<1>1. /\ b.errors = FALSE /\ b.strings = NoTable /\ b.types = NoTable
      /\ b.fields = NoTable /\ b.procedures = NoTable
      /\ b = [errors |-> b.errors, strings |-> b.strings, types |-> b.types,
              fields |-> b.fields, procedures |-> b.procedures]
  BY DEF EmptySchema
<1>2. DOMAIN NoTable = {} /\ NoTable = [id \in DOMAIN NoTable |-> NoTable[id]] BY DEF NoTable
<1> HIDE DEF b
<1>3. T3!IsBuilder(b) BY <1>1, <1>2 DEF T3!IsBuilder, T3!Builder, T3!IsFunction
<1>4. T3!ReferencesHold(b)
  BY <1>1, <1>2, T3!ReferencesAre
<1> QED BY <1>1, <1>3, <1>4 DEF Shaped, T3!Shaped, b

\* What a registration leaves.
LEMMA TypeRegistered ==
    ASSUME NEW T, WellFormed(T), NEW b, Shaped(b)
    PROVE  /\ Shaped(Registered(b, T).builder) /\ Grows(b, Registered(b, T).builder)
           /\ ~Registered(b, T).builder.errors =>
                Settled(Registered(b, T).builder, T, Registered(b, T).id)
<1>1. T3!WellFormed(T) /\ T.form # "variant" BY DEF WellFormed, T3!IsWholeType
<1> QED BY <1>1, Whole DEF T3!TypesRegistered, Registered, Shaped, Grows, Settled

\* What is registered is registered, whatever comes behind it.
LEMMA SettledStays ==
    ASSUME NEW T, WellFormed(T), NEW b, NEW c, NEW id, Shaped(b), Settled(b, T, id),
           Shaped(c), Grows(b, c), ~c.errors
    PROVE  Settled(c, T, id)
<1>1. T3!WellFormed(T) /\ T.form # "variant" BY DEF WellFormed, T3!IsWholeType
<1> QED BY <1>1, Whole DEF T3!TypesRegistered, Shaped, Grows, Settled

\* What a schema has of a type that is registered is true of its values.
LEMMA SettledTells ==
    ASSUME NEW T, WellFormed(T), NEW b, NEW id, Shaped(b), ~b.errors, Settled(b, T, id)
    PROVE  /\ id \in DOMAIN b.types /\ Registered(b, T).id = id
           /\ \A s, v : s.types = b.types /\ s.fields = b.fields /\ HasType(T, v) =>
                            Conforms(s, id, Encoded(T, v))
<1>1. T3!WellFormed(T) /\ T.form # "variant" BY DEF WellFormed, T3!IsWholeType
<1>2. Registered(b, T).id = id BY T3!GivesIs DEF Settled, T3!Settled, Registered
<1>3. /\ id \in DOMAIN b.types
      /\ \A s, v : s.types = b.types /\ s.fields = b.fields /\ T3!HasType(T, v) =>
                       T3!Conforms(s, id, T3!Encoded(T, v))
  BY <1>1, Whole DEF T3!TypesRegistered, Shaped, Settled
<1> QED BY <1>2, <1>3 DEF HasType, Conforms, Encoded

LEMMA ProcedureAdded ==
    ASSUME NEW b, Shaped(b), NEW id, NEW name, NEW args, NEW result,
           ~b.errors => {args, result} \subseteq DOMAIN b.types
    PROVE  /\ Shaped(WithProcWithId(b, id, name, args, result))
           /\ Grows(b, WithProcWithId(b, id, name, args, result))
           /\ ~WithProcWithId(b, id, name, args, result).errors =>
                /\ id \in DOMAIN WithProcWithId(b, id, name, args, result).procedures
                /\ WithProcWithId(b, id, name, args, result).procedures[id].args = args
                /\ WithProcWithId(b, id, name, args, result).procedures[id].result = result
<1> DEFINE c == WithProcWithId(b, id, name, args, result)
<1>1. T3!WithProcWithId(b, id, name, args, result) = c
  BY Zenon
     DEF T3!WithProcWithId, WithProcWithId, T3!Interned, Interned, T3!Inserted, Inserted,
         T3!Clashes, Clashes, T3!StringIds, StringIds, T3!FirstOf, FirstOf, T3!Range, Range
<1> HIDE DEF c
<1>2. \A n, x, y : T3!ProcDef(n, x, y).args = x /\ T3!ProcDef(n, x, y).result = y BY DEF T3!ProcDef
<1>3. /\ Shaped(c) /\ Grows(b, c)
      /\ ~c.errors => id \in DOMAIN c.procedures /\ c.procedures[id] = T3!ProcDef(name, args, result)
  BY <1>1, T3!WithProcIs DEF Shaped, Grows
<1> QED BY <1>2, <1>3 DEF c

----------------------------------------------------------------------------
(* The registries of a process.                                            *)

\* Entries have capabilities the code knows, and components are of types that there
\* are values of and that the schema has.
ComponentsIn(b, ts) ==
    \A name \in DOMAIN ts :
        /\ ts[name] = [caps |-> ts[name].caps, component |-> ts[name].component]
        /\ ts[name].caps \subseteq Caps
        /\ ts[name].component.handlers # {} =>
             /\ ts[name].component.of \in DOMAIN TypeValues
             /\ ~b.errors => \E id : Settled(b, ts[name].component.of, id)

\* Procedures are in the schema with the types their handlers decode and encode.
HandlersIn(b, hs) ==
    \A i \in DOMAIN hs :
        /\ WellFormed(hs[i].args) /\ WellFormed(hs[i].result)
        /\ ~b.errors =>
             /\ i \in DOMAIN b.procedures
             /\ Settled(b, hs[i].args, b.procedures[i].args)
             /\ Settled(b, hs[i].result, b.procedures[i].result)

RegistriesWith(ts, s, hs, names) == [types |-> ts, schema |-> s, handlers |-> hs, procNames |-> names]

RegistriesOK(reg) ==
    /\ reg = RegistriesWith(reg.types, reg.schema, reg.handlers, reg.procNames)
    /\ Shaped(reg.schema)
    /\ ComponentsIn(reg.schema, reg.types)
    /\ HandlersIn(reg.schema, reg.handlers)

LEMMA RegistriesAre ==
    ASSUME NEW ts, NEW s, NEW hs, NEW names,
           Shaped(s), ComponentsIn(s, ts), HandlersIn(s, hs)
    PROVE  RegistriesOK(RegistriesWith(ts, s, hs, names))
BY DEF RegistriesOK, RegistriesWith

LEMMA StillInSchema ==
    ASSUME NEW b, NEW c, Shaped(b), Shaped(c), Grows(b, c), NEW ts, ComponentsIn(b, ts),
           NEW hs, HandlersIn(b, hs)
    PROVE  ComponentsIn(c, ts) /\ HandlersIn(c, hs)
<1>1. ~c.errors => ~b.errors BY GrowsIs
<1>2. \A T, id : ~c.errors /\ WellFormed(T) /\ Settled(b, T, id) => Settled(c, T, id) BY SettledStays
<1>3. \A i \in DOMAIN b.procedures : i \in DOMAIN c.procedures /\ c.procedures[i] = b.procedures[i]
  BY GrowsIs
<1>4. ComponentsIn(c, ts) BY <1>1, <1>2, TypeValuesAssumption DEF ComponentsIn
<1>5. HandlersIn(c, hs) BY <1>1, <1>2, <1>3 DEF HandlersIn
<1> QED BY <1>4, <1>5

\* A name that becomes one of a type of the schema is no other component for it.
LEMMA RootKept ==
    ASSUME NEW b, NEW ts, ComponentsIn(b, ts), NEW name
    PROVE  ComponentsIn(b, WithRoot(ts, name))
<1> DEFINE entry == EntryFor(ts, name)
           rooted == [entry EXCEPT !.caps = @ \cup {"is_schema_root"}]
<1>1. /\ entry = [caps |-> entry.caps, component |-> entry.component] /\ entry.caps \subseteq Caps
      /\ entry.component = IF name \in DOMAIN ts THEN ts[name].component ELSE NotAComponent
  BY DEF EntryFor, NewEntry, ComponentsIn
<1>2. NotAComponent.handlers = {} BY DEF NotAComponent
<1> HIDE DEF entry
<1>3. /\ rooted = [caps |-> rooted.caps, component |-> rooted.component]
      /\ rooted.component = entry.component
      /\ rooted.caps \subseteq Caps
  BY <1>1 DEF Caps
<1>4. WithRoot(ts, name) = [n \in DOMAIN ts \cup {name} |-> IF n = name THEN rooted ELSE ts[n]]
  BY DEF WithRoot, WithEntry, entry
<1> HIDE DEF rooted
<1> QED BY <1>1, <1>2, <1>3, <1>4 DEF ComponentsIn

LEMMA BaseAdded ==
    ASSUME NEW b, NEW ts, ComponentsIn(b, ts), NEW name, NEW T, T \in DOMAIN TypeValues,
           ~b.errors => \E id : Settled(b, T, id)
    PROVE  /\ ComponentsIn(b, WithBase(ts, name, T))
           /\ ComponentsIn(b, WithHandlers(WithBase(ts, name, T), name))
<1> DEFINE anew == [caps |-> EntryFor(ts, name).caps \cup {"is_component", "can_remove"},
                    component |-> [handlers |-> {"has", "remove"}, of |-> T]]
           added == WithBase(ts, name, T)
           full == [caps |-> anew.caps \cup {"can_read", "can_write", "can_patch"},
                    component |-> [handlers |-> {"has", "remove"} \cup {"snapshot", "set", "patch"},
                                   of |-> T]]
<1>1. added = [n \in DOMAIN ts \cup {name} |-> IF n = name THEN anew ELSE ts[n]]
  BY DEF WithBase, WithEntry
<1>2. /\ anew = [caps |-> anew.caps, component |-> anew.component] /\ anew.component.of = T
      /\ full = [caps |-> full.caps, component |-> full.component] /\ full.component.of = T
  OBVIOUS
<1>c. EntryFor(ts, name).caps \subseteq Caps BY DEF EntryFor, NewEntry, ComponentsIn
<1>d. anew.caps \subseteq Caps /\ full.caps \subseteq Caps BY <1>c DEF Caps
<1>3. /\ [anew EXCEPT !.caps = full.caps] = [caps |-> full.caps, component |-> anew.component]
      /\ [anew.component EXCEPT !.handlers = @ \cup {"snapshot", "set", "patch"}] = full.component
      /\ anew.caps \cup {"can_read", "can_write", "can_patch"} = full.caps
  OBVIOUS
<1> HIDE DEF anew, full, added
<1>4. ComponentsIn(b, added) BY <1>1, <1>2, <1>d DEF ComponentsIn
<1>5. WithHandlers(added, name) = [n \in DOMAIN ts \cup {name} |-> IF n = name THEN full ELSE ts[n]]
  <2> DEFINE mid == [added EXCEPT ![name].caps = @ \cup {"can_read", "can_write", "can_patch"}]
             last == [mid EXCEPT ![name].component.handlers = @ \cup {"snapshot", "set", "patch"}]
  <2>1. added[name] = anew /\ DOMAIN added = DOMAIN ts \cup {name} /\ name \in DOMAIN added BY <1>1
  <2>2. WithHandlers(added, name) = last BY DEF WithHandlers
  <2>3. /\ DOMAIN mid = DOMAIN added /\ mid[name] = [caps |-> full.caps, component |-> anew.component]
        /\ \A n \in DOMAIN added : n # name => mid[n] = added[n]
    BY <1>3, <2>1
  <2> HIDE DEF mid
  <2>4. last = [mid EXCEPT ![name] = [mid[name] EXCEPT !.component = full.component]]
    BY <1>3, <2>3
  <2>5. [mid[name] EXCEPT !.component = full.component] = full BY <1>2, <2>3
  <2> HIDE DEF last
  <2> QED BY <1>1, <2>1, <2>2, <2>3, <2>4, <2>5
<1>6. ComponentsIn(b, WithHandlers(added, name)) BY <1>2, <1>5, <1>d DEF ComponentsIn
<1> QED BY <1>4, <1>6 DEF added

\* What registering a type leaves.
LEMMA TypeAdded ==
    ASSUME NEW reg, RegistriesOK(reg), NEW name, NEW T, T \in DOMAIN TypeValues
    PROVE  /\ RegistriesOK(RegisterType(reg, name, T))
           /\ Grows(reg.schema, RegisterType(reg, name, T).schema)
           /\ ~RegisterType(reg, name, T).schema.errors =>
                \E id : Settled(RegisterType(reg, name, T).schema, T, id)
<1> DEFINE c == Registered(reg.schema, T).builder
           ts == WithRoot(reg.types, name)
<1>1. RegisterType(reg, name, T) = RegistriesWith(ts, c, reg.handlers, reg.procNames)
  <2>1. reg = RegistriesWith(reg.types, reg.schema, reg.handlers, reg.procNames) BY DEF RegistriesOK
  <2>2. RegisterType(reg, name, T) = [reg EXCEPT !.types = ts, !.schema = c]
    BY <2>1 DEF RegisterType, RegistriesWith
  <2> HIDE DEF ts, c
  <2> QED BY <2>1, <2>2 DEF RegistriesWith
<1>2. WellFormed(T) BY TypeValuesAssumption
<1>3. Shaped(c) /\ Grows(reg.schema, c) /\ (~c.errors => \E id : Settled(c, T, id))
  BY <1>2, TypeRegistered DEF RegistriesOK
<1>4. ComponentsIn(c, ts) /\ HandlersIn(c, reg.handlers)
  <2>1. ComponentsIn(reg.schema, ts) BY RootKept DEF RegistriesOK
  <2> HIDE DEF c, ts
  <2> QED BY <1>3, <2>1, StillInSchema DEF RegistriesOK
<1> HIDE DEF c, ts
<1>5. RegisterType(reg, name, T).schema = c BY <1>1 DEF RegistriesWith
<1> QED BY <1>1, <1>3, <1>4, <1>5, RegistriesAre

\* What registering a component leaves.
LEMMA ComponentAdded ==
    ASSUME NEW reg, RegistriesOK(reg), NEW name, NEW T, T \in DOMAIN TypeValues
    PROVE  /\ RegistriesOK(RegisterComponent(reg, name, T))
           /\ Grows(reg.schema, RegisterComponent(reg, name, T).schema)
           /\ RegistriesOK(RegisterOpaque(reg, name, T))
           /\ Grows(reg.schema, RegisterOpaque(reg, name, T).schema)
<1> DEFINE rooted == RegisterType(reg, name, T)
           full == WithComponent(rooted.types, name, T)
           opaque == WithOpaqueComponent(rooted.types, name, T)
<1>1. /\ RegistriesOK(rooted) /\ Grows(reg.schema, rooted.schema)
      /\ ~rooted.schema.errors => \E id : Settled(rooted.schema, T, id)
  BY TypeAdded
<1> HIDE DEF rooted
<1>2. RegisterComponent(reg, name, T) = RegistriesWith(full, rooted.schema, rooted.handlers, rooted.procNames)
  BY <1>1 DEF RegisterComponent, RegistriesOK, RegistriesWith, rooted
<1>3. RegisterOpaque(reg, name, T) = RegistriesWith(opaque, rooted.schema, rooted.handlers, rooted.procNames)
  BY <1>1 DEF RegisterOpaque, RegistriesOK, RegistriesWith, rooted
<1>4. ComponentsIn(rooted.schema, full) /\ ComponentsIn(rooted.schema, opaque)
  BY <1>1, BaseAdded DEF WithComponent, WithOpaqueComponent, RegistriesOK
<1> HIDE DEF full, opaque
<1>5. \A ts : RegistriesWith(ts, rooted.schema, rooted.handlers, rooted.procNames).schema = rooted.schema
  BY DEF RegistriesWith
<1> QED BY <1>1, <1>2, <1>3, <1>4, <1>5, RegistriesAre DEF RegistriesOK

\* What registering a procedure leaves.
LEMMA ProcAdded ==
    ASSUME NEW reg, RegistriesOK(reg), NEW proc, WellFormed(proc.args), WellFormed(proc.result)
    PROVE  RegistriesOK(RegisterProc(reg, proc)) /\ Grows(reg.schema, RegisterProc(reg, proc).schema)
<1> DEFINE s == reg.schema
           a == Registered(s, proc.args)
           r == Registered(a.builder, proc.result)
           id == IdOf(proc.name)
           c == WithProcWithId(r.builder, id, proc.name, a.id, r.id)
           names == [i \in DOMAIN reg.procNames \cup {id} |->
                        IF i = id THEN proc.name ELSE reg.procNames[i]]
           handler == [args |-> proc.args, result |-> proc.result]
           hs == [i \in DOMAIN reg.handlers \cup {id} |-> IF i = id THEN handler ELSE reg.handlers[i]]
<1>1. RegisterProc(reg, proc) = RegistriesWith(reg.types, c, hs, names)
  <2>1. reg = RegistriesWith(reg.types, reg.schema, reg.handlers, reg.procNames) BY DEF RegistriesOK
  <2>2. RegisterProc(reg, proc) = [reg EXCEPT !.schema = c, !.procNames = names, !.handlers = hs]
    BY <2>1 DEF RegisterProc, WithProc, RegistriesWith
  <2> HIDE DEF c, names, hs
  <2> QED BY <2>1, <2>2 DEF RegistriesWith
<1>2. Shaped(s) BY DEF RegistriesOK
<1> HIDE DEF s, a, r, id
<1>3. Shaped(a.builder) /\ Grows(s, a.builder) /\ (~a.builder.errors => Settled(a.builder, proc.args, a.id))
  BY <1>2, TypeRegistered DEF a
<1>4. /\ Shaped(r.builder) /\ Grows(a.builder, r.builder)
      /\ ~r.builder.errors => Settled(r.builder, proc.result, r.id)
  BY <1>3, TypeRegistered DEF r
<1>5. ~r.builder.errors => Settled(r.builder, proc.args, a.id) /\ {a.id, r.id} \subseteq DOMAIN r.builder.types
  <2> SUFFICES ASSUME ~r.builder.errors
               PROVE  Settled(r.builder, proc.args, a.id) /\ {a.id, r.id} \subseteq DOMAIN r.builder.types
    OBVIOUS
  <2>1. ~a.builder.errors BY <1>4, GrowsIs
  <2>2. Settled(r.builder, proc.args, a.id) BY <1>3, <1>4, <2>1, SettledStays
  <2>3. a.id \in DOMAIN r.builder.types BY <1>4, <2>2, SettledTells
  <2>4. r.id \in DOMAIN r.builder.types BY <1>4, SettledTells
  <2> QED BY <2>2, <2>3, <2>4
<1>6. /\ Shaped(c) /\ Grows(r.builder, c)
      /\ ~c.errors => id \in DOMAIN c.procedures /\ c.procedures[id].args = a.id
                      /\ c.procedures[id].result = r.id
  BY <1>4, <1>5, ProcedureAdded
<1> HIDE DEF c
<1>7. Grows(s, c) BY <1>3, <1>4, <1>6, GrowsOn
<1>8. ComponentsIn(c, reg.types) /\ HandlersIn(c, reg.handlers)
  BY <1>2, <1>6, <1>7, StillInSchema DEF RegistriesOK, s
<1>9. ~c.errors => Settled(c, proc.args, a.id) /\ Settled(c, proc.result, r.id)
  <2> SUFFICES ASSUME ~c.errors PROVE Settled(c, proc.args, a.id) /\ Settled(c, proc.result, r.id)
    OBVIOUS
  <2>1. ~r.builder.errors BY <1>6, GrowsIs
  <2> QED BY <1>4, <1>5, <1>6, <2>1, SettledStays
<1>10. HandlersIn(c, hs)
  <2>1. handler.args = proc.args /\ handler.result = proc.result OBVIOUS
  <2> HIDE DEF handler
  <2> QED BY <1>6, <1>8, <1>9, <2>1 DEF HandlersIn
<1> HIDE DEF hs, names
<1>11. RegisterProc(reg, proc).schema = c BY <1>1 DEF RegistriesWith
<1> QED BY <1>1, <1>6, <1>7, <1>8, <1>10, <1>11, RegistriesAre DEF s

\* The types of the procedures a process starts with.
LEMMA BuiltinTypes ==
    /\ WellFormed(UnitType) /\ WellFormed(ByteVecType)
    /\ WellFormed(ListProcedures.args) /\ WellFormed(ListProcedures.result)
<1>1. WellFormed(UnitType) /\ WellFormed(ByteVecType)
  BY DEF WellFormed, T3!IsWholeType, T3!WellFormed, UnitType, ByteVecType
<1>2. T1!WellFormed(StringType) /\ StringType.form = "string" BY DEF T1!WellFormed, StringType
<1> DEFINE vec == VecType(StringType)
           field == Field(3, <<"procs">>, vec)
           T == StructType(<<"ListProceduresResult">>, <<field>>)
<1>3. vec.form = "vec" /\ vec.of = StringType BY DEF VecType
<1> HIDE DEF vec
<1>4. T2!WellFormed(vec) BY <1>2, <1>3 DEF T2!WellFormed, T2!IsPart
<1>5. field.id = 3 /\ field.type = vec BY DEF Field
<1> HIDE DEF field
<1>6. T.form = "struct" /\ T.fields = <<field>> BY DEF StructType
<1> HIDE DEF T
<1>7. DOMAIN T.fields = {1} /\ T.fields[1] = field /\ T.fields # <<>>
  <2>1. DOMAIN <<field>> = {1} /\ <<field>>[1] = field /\ Len(<<field>>) = 1 /\ Len(<<>>) = 0 OBVIOUS
  <2> QED BY <1>6, <2>1
<1>8. T3!IsSequence(T.fields)
  <2>1. field \in T3!Range(T.fields) BY <1>7 DEF T3!Range
  <2> QED BY <1>6, <2>1 DEF T3!IsSequence
<1>9. T3!WellFormed(T)
  BY <1>3, <1>4, <1>5, <1>6, <1>7, <1>8 DEF T3!WellFormed, T3!IsPart
<1>10. WellFormed(T) BY <1>6, <1>9 DEF WellFormed, T3!IsWholeType
<1>11. ListProcedures.args = UnitType /\ ListProcedures.result = T
  BY DEF ListProcedures, T, field, vec
<1> QED BY <1>1, <1>10, <1>11

LEMMA NewRegistriesOK == RegistriesOK(NewRegistries)
<1> DEFINE a == Registered(EmptySchema, UnitType)
           r == Registered(a.builder, ByteVecType)
           zero == <<"0">>
           c == WithProcWithId(r.builder, zero, GetSchema, a.id, r.id)
           ts == [n \in {} |-> n]
           names == [i \in {zero} |-> GetSchema]
<1>1. NewRegistries = RegistriesWith(ts, c, ts, names)
  BY DEF NewRegistries, RegistriesWith
<1> HIDE DEF a, r, zero
<1>2. Shaped(a.builder) /\ (~a.builder.errors => Settled(a.builder, UnitType, a.id))
  BY EmptyShaped, BuiltinTypes, TypeRegistered DEF a
<1>3. /\ Shaped(r.builder) /\ Grows(a.builder, r.builder)
      /\ ~r.builder.errors => Settled(r.builder, ByteVecType, r.id)
  BY <1>2, BuiltinTypes, TypeRegistered DEF r
<1>4. ~r.builder.errors => {a.id, r.id} \subseteq DOMAIN r.builder.types
  <2> SUFFICES ASSUME ~r.builder.errors PROVE {a.id, r.id} \subseteq DOMAIN r.builder.types
    OBVIOUS
  <2>1. ~a.builder.errors BY <1>3, GrowsIs
  <2>2. Settled(r.builder, UnitType, a.id) BY <1>2, <1>3, <2>1, BuiltinTypes, SettledStays
  <2>3. a.id \in DOMAIN r.builder.types BY <1>3, <2>2, BuiltinTypes, SettledTells
  <2>4. r.id \in DOMAIN r.builder.types BY <1>3, BuiltinTypes, SettledTells
  <2> QED BY <2>3, <2>4
<1>5. Shaped(c) BY <1>3, <1>4, ProcedureAdded
<1> HIDE DEF c
<1>6. ComponentsIn(c, ts) /\ HandlersIn(c, ts) BY DEF ComponentsIn, HandlersIn
<1> HIDE DEF ts, names
<1> QED BY <1>1, <1>5, <1>6, RegistriesAre

\* What is discovered is registered, one component after the other.
LEMMA FoundSteps ==
    ASSUME NEW found, Len(found) \in Nat
    PROVE  \E f : /\ f[0] = RegisterComponent(NewRegistries, <<"Name">>, NameType)
                  /\ \A i \in Nat : i < Len(found) => f[i + 1] = RegisterFound(f[i], found[i + 1])
                  /\ NewProcess(found) = RegisterProc(f[Len(found)], ListProcedures)
<1> DEFINE m == Len(found)
           First == RegisterComponent(NewRegistries, <<"Name">>, NameType)
           Step(x, n) == RegisterFound(x, found[n])
           Is(f, k) == f = [i \in 0..k |-> IF i = 0 THEN First ELSE Step(f[i - 1], i)]
<1>1. NewProcess(found) = RegisterProc((CHOOSE f : Is(f, m))[m], ListProcedures)
  BY DEF NewProcess
<1>2. First = RegisterComponent(NewRegistries, <<"Name">>, NameType) /\ \A x, n : Step(x, n) = RegisterFound(x, found[n])
  OBVIOUS
<1> HIDE DEF First, Step, m
<1>3. ASSUME NEW k \in Nat, NEW f, Is(f, k)
      PROVE  /\ f[0] = First
             /\ \A i \in Nat : i < k => f[i + 1] = Step(f[i], i + 1)
  <2>1. 0 \in 0..k /\ \A i \in Nat : i < k => i + 1 \in 0..k /\ i + 1 # 0 /\ (i + 1) - 1 = i
    OBVIOUS
  <2> QED BY <1>3, <2>1
<1>4. \A k \in Nat : \E f : Is(f, k)
  <2> DEFINE S == {k \in Nat : \E f : Is(f, k)}
  <2>1. 0 \in S
    <3>1. Is([i \in 0..0 |-> First], 0)
      <4>1. \A i \in 0..0 : i = 0 OBVIOUS
      <4> QED BY <4>1
    <3> QED BY <3>1
  <2>2. ASSUME NEW k \in Nat, k \in S PROVE k + 1 \in S
    <3>1. PICK f : Is(f, k) BY <2>2
    <3> DEFINE last == Step(f[k], k + 1)
               g == [i \in 0..(k + 1) |-> IF i = k + 1 THEN last ELSE f[i]]
    <3>2. k + 1 \in 0..(k + 1) /\ \A i \in 0..k : i \in 0..(k + 1) /\ i # k + 1
      OBVIOUS
    <3>3. g[k + 1] = last /\ \A i \in 0..k : g[i] = f[i]
      <4> HIDE DEF last
      <4> QED BY <3>2
    <3>4. ASSUME NEW i \in 0..(k + 1)
          PROVE  g[i] = IF i = 0 THEN First ELSE Step(g[i - 1], i)
      <4>1. CASE i = k + 1
        <5>1. i # 0 /\ i - 1 = k /\ k \in 0..k BY <4>1
        <5>2. g[i - 1] = f[k] BY <3>3, <5>1
        <5> QED BY <3>3, <4>1, <5>1, <5>2
      <4>2. CASE i \in 0..k /\ i = 0
        <5>1. g[i] = f[0] BY <3>3, <4>2
        <5> QED BY <1>3, <3>1, <4>2, <5>1
      <4>3. CASE i \in 0..k /\ i # 0
        <5>1. i - 1 \in 0..k /\ i - 1 \in Nat /\ i - 1 < k /\ (i - 1) + 1 = i BY <4>3
        <5>2. g[i] = f[i] /\ g[i - 1] = f[i - 1] BY <3>3, <4>3, <5>1
        <5>3. f[i] = Step(f[i - 1], i) BY <1>3, <3>1, <5>1
        <5> QED BY <4>3, <5>2, <5>3
      <4> QED BY <4>1, <4>2, <4>3
    <3>5. g = [i \in 0..(k + 1) |-> g[i]] OBVIOUS
    <3> HIDE DEF g
    <3>6. Is(g, k + 1) BY <3>4, <3>5
    <3> QED BY <3>6
  <2> HIDE DEF S
  <2>3. \A k \in Nat : k \in S BY <2>1, <2>2, Induction
  <2> QED BY <2>3 DEF S
<1> DEFINE f == CHOOSE f : Is(f, m)
<1>5. Is(f, m) /\ m \in Nat
  <2>1. m \in Nat BY DEF m
  <2>2. \E h : Is(h, m) BY <1>4, <2>1
  <2> HIDE DEF Is
  <2> QED BY <2>1, <2>2
<1> HIDE DEF f, Is
<1>6. f[0] = First /\ \A i \in Nat : i < m => f[i + 1] = Step(f[i], i + 1) BY <1>3, <1>5
<1>7. NewProcess(found) = RegisterProc(f[m], ListProcedures) BY <1>1 DEF f
<1> QED BY <1>2, <1>6, <1>7 DEF m

LEMMA NewProcessOK == ASSUME NEW found \in Discovered PROVE RegistriesOK(NewProcess(found))
<1>1. /\ Len(found) \in Nat /\ DOMAIN found = 1..Len(found)
      /\ \A i \in DOMAIN found : found[i].type \in DOMAIN TypeValues
  BY RegisteredAssumption
<1>2. PICK f : /\ f[0] = RegisterComponent(NewRegistries, <<"Name">>, NameType)
               /\ \A i \in Nat : i < Len(found) => f[i + 1] = RegisterFound(f[i], found[i + 1])
               /\ NewProcess(found) = RegisterProc(f[Len(found)], ListProcedures)
  BY <1>1, FoundSteps
<1> DEFINE S == {i \in Nat : i <= Len(found) => RegistriesOK(f[i])}
<1>3. 0 \in S BY <1>2, NewRegistriesOK, RegisteredAssumption, ComponentAdded
<1>4. ASSUME NEW i \in Nat, i \in S PROVE i + 1 \in S
  <2> SUFFICES ASSUME i + 1 <= Len(found) PROVE RegistriesOK(f[i + 1])
    OBVIOUS
  <2>1. i < Len(found) /\ i <= Len(found) /\ i + 1 \in DOMAIN found BY <1>1
  <2>2. RegistriesOK(f[i]) /\ found[i + 1].type \in DOMAIN TypeValues BY <1>1, <1>4, <2>1
  <2>3. f[i + 1] = RegisterFound(f[i], found[i + 1]) BY <1>2, <2>1
  <2> QED BY <2>2, <2>3, ComponentAdded DEF RegisterFound
<1> HIDE DEF S
<1>5. \A i \in Nat : i \in S BY <1>3, <1>4, Induction
<1>6. RegistriesOK(f[Len(found)]) BY <1>1, <1>5 DEF S
<1> QED BY <1>2, <1>6, BuiltinTypes, ProcAdded

----------------------------------------------------------------------------
(* The state of a process.                                                 *)

\* What an entity may hold: of some types with values, one value each.
IsHolding(h) ==
    /\ h = [T \in DOMAIN h |-> h[T]]
    /\ \A T \in DOMAIN h : T \in DOMAIN TypeValues /\ h[T] \in TypeValues[T]

LEMMA HoldingIs == \A h : h \in Holdings <=> IsHolding(h)
<1> DEFINE some == {T \in DOMAIN TypeValues : TypeValues[T] # {}}
           all == UNION Range(TypeValues)
           with(S) == {content \in [S -> all] : \A T \in S : content[T] \in TypeValues[T]}
<1>1. Holdings = UNION {with(S) : S \in SUBSET some} BY HoldingsAssumption DEF HoldingsOf
<1>2. ASSUME NEW h, h \in Holdings PROVE IsHolding(h)
  <2>1. PICK S \in SUBSET some : h \in with(S) BY <1>1, <1>2
  <2>2. h \in [S -> all] /\ \A T \in S : h[T] \in TypeValues[T] BY <2>1
  <2> HIDE DEF with, all
  <2> QED BY <2>2 DEF IsHolding
<1>3. ASSUME NEW h, IsHolding(h) PROVE h \in Holdings
  <2>1. DOMAIN h \in SUBSET some BY <1>3 DEF IsHolding
  <2>2. \A T \in DOMAIN h : h[T] \in all BY <1>3 DEF IsHolding, Range
  <2> HIDE DEF all, some
  <2>3. h \in [DOMAIN h -> all] BY <1>3, <2>2 DEF IsHolding
  <2>4. h \in with(DOMAIN h) BY <1>3, <2>3 DEF IsHolding
  <2> HIDE DEF with
  <2> QED BY <1>1, <2>1, <2>4
<1> QED BY <1>2, <1>3

\* The schema has the types of what is held.
HeldIn(b, h) == ~b.errors => \A T \in DOMAIN h : \E id : Settled(b, T, id)

WorldIn(b, living, cs) ==
    /\ living \subseteq Entities
    /\ cs = [e \in Entities |-> [Parent |-> None, Data |-> cs[e].Data]]
    /\ \A e \in living : cs[e].Data \in Holdings /\ HeldIn(b, cs[e].Data)

\* What was listed is still in the listing.
ListedIn(b, shown) == ~b.errors => shown \subseteq Listing(b)

ProcessInv ==
    /\ RegistriesOK(Registries)
    /\ WorldIn(schema, alive, comps)
    /\ ListedIn(schema, listed)

LEMMA ShownStays ==
    ASSUME NEW b, NEW c, ReferencesHold(b), Grows(b, c), NEW id \in DOMAIN b.types
    PROVE  TypeShown(c, id) = TypeShown(b, id)
<1> DEFINE kind == b.types[id].kind
           inB(of) == b.strings[b.types[of].name]
           inC(of) == c.strings[c.types[of].name]
<1>1. \A i \in DOMAIN b.types : i \in DOMAIN c.types /\ c.types[i] = b.types[i] BY GrowsIs
<1>2. \A i \in DOMAIN b.fields : i \in DOMAIN c.fields /\ c.fields[i] = b.fields[i] BY GrowsIs
<1>3. \A i \in DOMAIN b.strings : i \in DOMAIN c.strings /\ c.strings[i] = b.strings[i] BY GrowsIs
<1>4. \A i \in DOMAIN b.types : b.types[i].name \in DOMAIN b.strings
  BY DEF ReferencesHold, Range
<1>5. \A i \in DOMAIN b.types : inC(i) = inB(i) BY <1>1, <1>3, <1>4
<1>6. /\ kind.kind = "struct" => Range(kind.fields) \subseteq DOMAIN b.fields
      /\ TypesIn(kind) \subseteq DOMAIN b.types
  BY DEF ReferencesHold, Range
<1>7. c.types[id].kind = kind BY <1>1
<1>8. \A i \in DOMAIN b.fields : b.fields[i].name \in DOMAIN b.strings /\ b.fields[i].type \in DOMAIN b.types
  BY DEF ReferencesHold, Range
<1>9. \A i \in DOMAIN b.fields :
        c.strings[c.fields[i].name] = b.strings[b.fields[i].name] /\ inC(c.fields[i].type) = inB(b.fields[i].type)
  BY <1>2, <1>3, <1>5, <1>8
<1> HIDE DEF kind, inB, inC
<1>10. CASE kind.kind = "struct"
  <2>1. \A i \in DOMAIN kind.fields : kind.fields[i] \in DOMAIN b.fields BY <1>6, <1>10 DEF Range
  <2>2. [i \in DOMAIN kind.fields |->
            <<c.strings[c.fields[kind.fields[i]].name], inC(c.fields[kind.fields[i]].type)>>]
      = [i \in DOMAIN kind.fields |->
            <<b.strings[b.fields[kind.fields[i]].name], inB(b.fields[kind.fields[i]].type)>>]
    BY <1>9, <2>1
  <2> QED BY <1>7, <1>10, <2>2 DEF TypeShown, kind, inB, inC
<1>11. CASE kind.kind = "tuple"
  <2>1. \A i \in DOMAIN kind.items : kind.items[i] \in DOMAIN b.types BY <1>6, <1>11 DEF TypesIn, Range
  <2>2. [i \in DOMAIN kind.items |-> inC(kind.items[i])] = [i \in DOMAIN kind.items |-> inB(kind.items[i])]
    BY <1>5, <2>1
  <2> QED BY <1>7, <1>11, <2>2 DEF TypeShown, kind, inB, inC
<1>12. CASE kind.kind \notin {"struct", "tuple"}
  <2>1. inC(id) = inB(id) BY <1>5
  <2> QED BY <1>7, <1>12, <2>1 DEF TypeShown, kind, inB, inC
<1> QED BY <1>10, <1>11, <1>12

LEMMA ListingStays ==
    ASSUME NEW b, NEW c, Shaped(b), Grows(b, c), NEW shown, ListedIn(b, shown)
    PROVE  ListedIn(c, shown)
<1> SUFFICES ASSUME ~c.errors, NEW p \in Range(b.procedures)
             PROVE  [name |-> b.strings[p.name], args |-> TypeShown(b, p.args),
                     result |-> TypeShown(b, p.result)] \in Listing(c)
  <2>1. ~c.errors => ~b.errors BY GrowsIs
  <2> QED BY <2>1 DEF ListedIn, Listing
<1>1. ~b.errors BY GrowsIs
<1>2. ReferencesHold(b) BY <1>1, ShapedIs
<1>3. p.name \in DOMAIN b.strings /\ p.args \in DOMAIN b.types /\ p.result \in DOMAIN b.types
  BY <1>2 DEF ReferencesHold
<1>4. c.strings[p.name] = b.strings[p.name] BY <1>3, GrowsIs
<1>5. TypeShown(c, p.args) = TypeShown(b, p.args) /\ TypeShown(c, p.result) = TypeShown(b, p.result)
  BY <1>2, <1>3, ShownStays
<1>6. p \in Range(c.procedures) BY GrowsIs DEF Range
<1> QED BY <1>4, <1>5, <1>6 DEF Listing

LEMMA HeldStays ==
    ASSUME NEW b, NEW c, Shaped(b), Shaped(c), Grows(b, c), NEW living, NEW cs, WorldIn(b, living, cs)
    PROVE  WorldIn(c, living, cs)
<1>1. ASSUME NEW h \in Holdings, HeldIn(b, h) PROVE HeldIn(c, h)
  <2> SUFFICES ASSUME ~c.errors, NEW T \in DOMAIN h PROVE \E id : Settled(c, T, id)
    BY DEF HeldIn
  <2>1. ~b.errors BY GrowsIs
  <2>2. PICK id : Settled(b, T, id) BY <1>1, <2>1 DEF HeldIn
  <2>3. WellFormed(T) BY HoldingIs, TypeValuesAssumption DEF IsHolding
  <2> QED BY <2>2, <2>3, SettledStays
<1> QED BY <1>1 DEF WorldIn

\* What a process starts with.
LEMMA ProcessStarts == ProcessInit => ProcessInv
<1> SUFFICES ASSUME ProcessInit PROVE ProcessInv
  OBVIOUS
<1>1. PICK found \in Discovered :
         /\ types = NewProcess(found).types /\ schema = NewProcess(found).schema
         /\ handlers = NewProcess(found).handlers /\ procNames = NewProcess(found).procNames
         /\ listed = Listing(NewProcess(found).schema)
  BY DEF ProcessInit
<1>2. Registries = NewProcess(found)
  BY <1>1, NewProcessOK DEF Registries, RegistriesOK, RegistriesWith
<1>3. RegistriesOK(Registries) BY <1>2, NewProcessOK
<1>4. alive = {} /\ comps = [e \in Entities |-> [Parent |-> None, Data |-> None]] BY DEF ProcessInit
<1>5. WorldIn(schema, alive, comps) BY <1>4 DEF WorldIn
<1>6. ListedIn(schema, listed) BY <1>1 DEF ListedIn
<1> QED BY <1>3, <1>5, <1>6 DEF ProcessInv

LEMMA Registers ==
    ASSUME ProcessInv, NEW new, RegistriesOK(new), Grows(schema, new.schema), Register(new)
    PROVE  ProcessInv' /\ Grows(schema, schema')
<1>1. schema' = new.schema /\ Registries' = new
  BY DEF Register, Registries, RegistriesOK, RegistriesWith
<1>2. alive' = alive /\ comps' = comps /\ listed' = listed BY DEF Register, worldVars
<1>3. Shaped(schema) /\ Shaped(new.schema) BY DEF ProcessInv, RegistriesOK, Registries
<1>4. WorldIn(new.schema, alive, comps) BY <1>3, HeldStays DEF ProcessInv
<1>5. ListedIn(new.schema, listed) BY <1>3, ListingStays DEF ProcessInv
<1> QED BY <1>1, <1>2, <1>4, <1>5 DEF ProcessInv

\* What a registration finds and leaves.
LEMMA Registrations ==
    ASSUME ProcessInv,
           \/ Process_register_type \/ Process_register_component
           \/ Process_register_component_opaque \/ Process_register_rpc
    PROVE  ProcessInv' /\ Grows(schema, schema')
<1>1. RegistriesOK(Registries) /\ Registries.schema = schema BY DEF ProcessInv, Registries
<1>2. CASE Process_register_type
  <2>1. PICK c \in Components : Register(RegisterType(Registries, c[1], c[2]))
    BY <1>2 DEF Process_register_type
  <2> QED BY <1>1, <2>1, RegisteredAssumption, TypeAdded, Registers
<1>3. CASE Process_register_component
  <2>1. PICK c \in Components : Register(RegisterComponent(Registries, c[1], c[2]))
    BY <1>3 DEF Process_register_component
  <2> QED BY <1>1, <2>1, RegisteredAssumption, ComponentAdded, Registers
<1>4. CASE Process_register_component_opaque
  <2>1. PICK c \in Components : Register(RegisterOpaque(Registries, c[1], c[2]))
    BY <1>4 DEF Process_register_component_opaque
  <2> QED BY <1>1, <2>1, RegisteredAssumption, ComponentAdded, Registers
<1>5. CASE Process_register_rpc
  <2>1. PICK proc \in Procedures : Register(RegisterProc(Registries, proc))
    BY <1>5 DEF Process_register_rpc
  <2> QED BY <1>1, <2>1, RegisteredAssumption, ProcAdded, Registers
<1> QED BY <1>2, <1>3, <1>4, <1>5

----------------------------------------------------------------------------
(* Calls, and the world they are calls of.                                 *)

LEMMA SameLog ==
    /\ \A ch, e, p : W!BumpWithParent(ch, e, p) = BumpWithParent(ch, e, p)
    /\ \A ch, e : W!RemoveRevision(ch, e) = RemoveRevision(ch, e)
    /\ \A ch, e : W!LogDespawn(ch, e) = LogDespawn(ch, e)
    /\ \A ch : W!Now(ch) = Now(ch)
    /\ W!EmptyChangeLog = EmptyChangeLog
BY Zenon
   DEF W!BumpWithParent, BumpWithParent, W!RemoveRevision, RemoveRevision, W!LogDespawn, LogDespawn,
       W!PushChangeEvent, PushChangeEvent, W!Now, Now, W!EmptyChangeLog, EmptyChangeLog

\* What clients send, for components.
IsSent(d) == d \in Inputs \cup {c[2] : c \in UNION {Range(given) : given \in Spawns}}

LEMMA HandledTypes ==
    ASSUME ComponentsIn(schema, types), NEW name, NEW cap, NEW handler, Handles(name, cap, handler)
    PROVE  /\ TypeOf(name) \in DOMAIN TypeValues /\ WellFormed(TypeOf(name))
           /\ ~schema.errors => \E id : Settled(schema, TypeOf(name), id)
BY TypeValuesAssumption DEF Handles, TypeOf, ComponentsIn

LEMMA ReadIs ==
    ASSUME ComponentsIn(schema, types), NEW name, NEW d, IsSent(d), ReadAs(name, d).ok
    PROVE  /\ TypeOf(name) \in DOMAIN TypeValues
           /\ ReadAs(name, d).value \in TypeValues[TypeOf(name)]
           /\ ~schema.errors => \E id : Settled(schema, TypeOf(name), id)
<1>1. Unknown.ok = FALSE BY DEF Unknown
<1>2. Handles(name, "can_write", "set") /\ ReadAs(name, d) = SetTo(TypeOf(name), d) BY <1>1 DEF ReadAs
<1>3. /\ TypeOf(name) \in DOMAIN TypeValues
      /\ ~schema.errors => \E id : Settled(schema, TypeOf(name), id)
  BY <1>2, HandledTypes
<1> QED BY <1>2, <1>3, SentAssumption DEF IsSent

LEMMA HoldingMade ==
    ASSUME NEW b, NEW h \in Holdings, HeldIn(b, h), NEW T
    PROVE  /\ \A v : /\ T \in DOMAIN TypeValues /\ v \in TypeValues[T]
                     /\ ~b.errors => \E id : Settled(b, T, id)
                     => Holding(h, T, v) \in Holdings /\ HeldIn(b, Holding(h, T, v))
           /\ Dropping(h, T) \in Holdings /\ HeldIn(b, Dropping(h, T))
           /\ T \in DOMAIN h => Holding(h, T, h[T]) = h
<1>1. IsHolding(h) BY HoldingIs
<1>2. ASSUME NEW v, T \in DOMAIN TypeValues, v \in TypeValues[T], ~b.errors => \E id : Settled(b, T, id)
      PROVE  Holding(h, T, v) \in Holdings /\ HeldIn(b, Holding(h, T, v))
  <2>1. IsHolding(Holding(h, T, v)) BY <1>1, <1>2 DEF IsHolding, Holding
  <2>2. HeldIn(b, Holding(h, T, v)) BY <1>2 DEF HeldIn, Holding
  <2> QED BY <2>1, <2>2, HoldingIs
<1>3. Dropping(h, T) \in Holdings /\ HeldIn(b, Dropping(h, T))
  <2>1. IsHolding(Dropping(h, T)) BY <1>1 DEF IsHolding, Dropping
  <2>2. HeldIn(b, Dropping(h, T)) BY DEF HeldIn, Dropping
  <2> QED BY <2>1, <2>2, HoldingIs
<1>4. ASSUME T \in DOMAIN h PROVE Holding(h, T, h[T]) = h
  <2>1. DOMAIN h \cup {T} = DOMAIN h BY <1>4
  <2>2. Holding(h, T, h[T]) = [U \in DOMAIN h |-> h[U]] BY <2>1 DEF Holding
  <2> QED BY <1>1, <2>2 DEF IsHolding
<1> QED BY <1>2, <1>3, <1>4

\* One entity that holds something else, or nothing any more.
WithData(cs, e, h) == [cs EXCEPT ![e].Data = h]

LEMMA WorldWith ==
    ASSUME NEW b, NEW living, NEW cs, WorldIn(b, living, cs), NEW e \in Entities, NEW h,
           NEW left, left \subseteq living \cup {e},
           e \in left => h \in Holdings /\ HeldIn(b, h)
    PROVE  /\ WorldIn(b, left, WithData(cs, e, h))
           /\ WithData(cs, e, h) = [cs EXCEPT ![e] = [Parent |-> None, Data |-> h]]
           /\ WithData(cs, e, h)[e].Parent = None
<1> DEFINE after == [x \in Entities |-> [Parent |-> None, Data |-> IF x = e THEN h ELSE cs[x].Data]]
<1>1. DOMAIN cs = Entities /\ \A x \in Entities : cs[x] = [Parent |-> None, Data |-> cs[x].Data]
  BY DEF WorldIn
<1>2. [cs[e] EXCEPT !.Data = h] = [Parent |-> None, Data |-> h] BY <1>1
<1>3. \A x \in Entities : after[x] = IF x = e THEN [Parent |-> None, Data |-> h] ELSE cs[x]
  BY <1>1
<1>4. WithData(cs, e, h) = [cs EXCEPT ![e] = [Parent |-> None, Data |-> h]]
  BY <1>1, <1>2 DEF WithData
<1>5. [cs EXCEPT ![e] = [Parent |-> None, Data |-> h]] = after BY <1>1, <1>3
<1>6. \A x \in Entities : after[x].Parent = None /\ after[x].Data = IF x = e THEN h ELSE cs[x].Data
  OBVIOUS
<1>7. after = [x \in Entities |-> [Parent |-> None, Data |-> after[x].Data]] BY <1>6
<1> HIDE DEF after
<1>8. left \subseteq Entities BY DEF WorldIn
<1>9. WorldIn(b, left, after)
  <2>1. ASSUME NEW x \in left PROVE after[x].Data \in Holdings /\ HeldIn(b, after[x].Data)
    <3>1. CASE x = e BY <1>6, <1>8, <3>1
    <3>2. CASE x # e
      <4>1. x \in living /\ after[x].Data = cs[x].Data BY <1>6, <1>8, <3>2
      <4> QED BY <4>1 DEF WorldIn
    <3> QED BY <3>1, <3>2
  <2> QED BY <1>7, <1>8, <2>1 DEF WorldIn
<1> QED BY <1>4, <1>5, <1>6, <1>9

\* Nothing is registered in a call.
LEMMA InvAfterCall ==
    ASSUME ProcessInv, UNCHANGED <<types, rpcVars>>, WorldIn(schema, alive', comps')
    PROVE  ProcessInv'
<1>1. schema' = schema /\ listed' = listed /\ types' = types /\ handlers' = handlers /\ procNames' = procNames
  BY DEF rpcVars
<1>2. Registries' = Registries BY <1>1 DEF Registries
<1> QED BY <1>1, <1>2 DEF ProcessInv

\* A write of a client: to World, the one component is written.
LEMMA Writes ==
    ASSUME ProcessInv, NEW e \in alive, NEW h \in Holdings, HeldIn(schema, h), Now(changes) < MaxSeq,
           comps' = WithHeld(e, h), changes' = Logged(changes, e),
           UNCHANGED <<alive, born, types, rpcVars>>
    PROVE  ProcessInv' /\ W!Next
<1>1. WorldIn(schema, alive, comps) /\ e \in Entities BY DEF ProcessInv, WorldIn
<1>2. WorldIn(schema, alive, comps') /\ comps'[e].Parent = None
  <2>1. WorldIn(schema, alive, WithData(comps, e, h)) /\ WithData(comps, e, h)[e].Parent = None
    BY <1>1, WorldWith
  <2>2. comps' = WithData(comps, e, h) BY DEF WithHeld, WithData
  <2> QED BY <2>1, <2>2
<1>3. ProcessInv' BY <1>2, InvAfterCall
<1>4. W!SetComponent(e, "Data", h)
  <2>1. comps' = W!With(e, "Data", h) BY DEF WithHeld, W!With
  <2>2. changes' = W!Bump(changes, comps', e) BY <1>2, SameLog DEF Logged, W!Bump
  <2> QED BY <2>1, <2>2 DEF W!SetComponent
<1>5. W!Mutate
  <2>1. W!Idle /\ W!Now(changes) < MaxSeq BY SameLog DEF W!Idle
  <2>2. "Data" \in W!ComponentTypes /\ h \in W!ValuesOf("Data") BY DEF W!ComponentTypes, W!ValuesOf
  <2> QED BY <1>1, <1>4, <2>1, <2>2 DEF W!Mutate
<1> QED BY <1>3, <1>5 DEF W!Next

\* A patch that is refused changes nothing: it was validated before it was applied.
LEMMA PatchedToIs ==
    ASSUME NEW T, WellFormed(T), NEW v, NEW d
    PROVE  PatchedTo(T, v, d).ok \in BOOLEAN /\ (~PatchedTo(T, v, d).ok => PatchedTo(T, v, d).value = v)
<1>1. Fails(v).ok = FALSE /\ Fails(v).value = v BY DEF Fails
<1>2. \A x : Validated(T, v, x) => Patched(T, v, x).ok = TRUE
  BY TypesLawful, AcceptedFacts
<1> QED BY <1>1, <1>2 DEF PatchedTo

LEMMA SetImplements ==
    ASSUME ProcessInv, NEW e \in Entities, NEW name, NEW d \in Inputs, SetComponent(e, name, d),
           Now(changes) < MaxSeq, UNCHANGED <<types, rpcVars>>
    PROVE  ProcessInv' /\ (W!Next \/ UNCHANGED worldVars)
<1> DEFINE T == TypeOf(name)
           read == ReadAs(name, d)
           h == Holding(Held(e), T, read.value)
<1>1. e \in alive /\ alive' = alive /\ born' = born BY DEF SetComponent
<1>2. WorldIn(schema, alive, comps) /\ ComponentsIn(schema, types)
  BY DEF ProcessInv, RegistriesOK, Registries
<1>3. Held(e) \in Holdings /\ HeldIn(schema, Held(e)) BY <1>1, <1>2 DEF WorldIn, Held
<1>4. CASE read.ok
  <2>1. /\ T \in DOMAIN TypeValues /\ read.value \in TypeValues[T]
        /\ ~schema.errors => \E id : Settled(schema, T, id)
    <3>1. IsSent(d) BY DEF IsSent
    <3> QED BY <1>2, <1>4, <3>1, ReadIs
  <2>2. comps' = WithHeld(e, h) /\ changes' = Logged(changes, e) BY <1>4 DEF SetComponent
  <2> HIDE DEF T, read
  <2>3. h \in Holdings /\ HeldIn(schema, h) BY <1>3, <2>1, HoldingMade
  <2> HIDE DEF h
  <2> QED BY <1>1, <2>2, <2>3, Writes
<1>5. CASE ~read.ok
  <2>1. comps' = comps /\ changes' = changes BY <1>5 DEF SetComponent
  <2> QED BY <1>1, <1>2, <2>1, InvAfterCall DEF worldVars
<1> QED BY <1>4, <1>5

LEMMA PatchImplements ==
    ASSUME ProcessInv, NEW e \in Entities, NEW name, NEW d \in Inputs, PatchComponent(e, name, d),
           Now(changes) < MaxSeq, UNCHANGED <<types, rpcVars>>
    PROVE  ProcessInv' /\ (W!Next \/ UNCHANGED worldVars)
<1> DEFINE T == TypeOf(name)
           v == Held(e)[T]
           done == PatchedTo(T, v, d)
           h == Holding(Held(e), T, done.value)
<1>1. e \in alive /\ alive' = alive /\ born' = born /\ T \in DOMAIN Held(e) BY DEF PatchComponent
<1>2. WorldIn(schema, alive, comps) /\ ComponentsIn(schema, types)
  BY DEF ProcessInv, RegistriesOK, Registries
<1>3. Held(e) \in Holdings /\ HeldIn(schema, Held(e)) BY <1>1, <1>2 DEF WorldIn, Held
<1>4. Handles(name, "can_patch", "patch") BY DEF PatchComponent
<1>5. /\ T \in DOMAIN TypeValues /\ WellFormed(T)
      /\ ~schema.errors => \E id : Settled(schema, T, id)
  BY <1>2, <1>4, HandledTypes
<1>6. comps' = WithHeld(e, h) /\ changes' = IF done.ok THEN Logged(changes, e) ELSE changes
  BY DEF PatchComponent
<1>7. v \in TypeValues[T] BY <1>1, <1>3, HoldingIs DEF IsHolding
<1>8. done.ok => done.value \in TypeValues[T] BY <1>5, <1>7, SentAssumption
<1>9. done.ok \in BOOLEAN /\ (~done.ok => done.value = v) BY <1>5, PatchedToIs
<1> HIDE DEF done, T
<1>10. CASE done.ok
  <2>1. h \in Holdings /\ HeldIn(schema, h) BY <1>3, <1>5, <1>8, <1>10, HoldingMade
  <2>2. changes' = Logged(changes, e) BY <1>6, <1>10
  <2> HIDE DEF h
  <2> QED BY <1>1, <1>6, <2>1, <2>2, Writes
<1>11. CASE ~done.ok
  <2>1. h = Held(e) BY <1>1, <1>3, <1>9, <1>11, HoldingMade
  <2>2. comps' = comps
    <3> HIDE DEF h
    <3>1. comps' = [comps EXCEPT ![e].Data = comps[e].Data] BY <1>6, <2>1 DEF WithHeld, Held
    <3>2. comps = [x \in Entities |-> [Parent |-> None, Data |-> comps[x].Data]] BY <1>2 DEF WorldIn
    <3>3. [comps[e] EXCEPT !.Data = comps[e].Data] = comps[e] BY <3>2
    <3> QED BY <3>1, <3>2, <3>3
  <2>3. changes' = changes BY <1>6, <1>11
  <2> QED BY <1>1, <1>2, <2>2, <2>3, InvAfterCall DEF worldVars
<1> QED BY <1>9, <1>10, <1>11

LEMMA RemoveImplements ==
    ASSUME ProcessInv, NEW e \in Entities, NEW name, RemoveComponent(e, name),
           Now(changes) < MaxSeq, UNCHANGED <<types, rpcVars>>
    PROVE  ProcessInv' /\ (W!Next \/ UNCHANGED worldVars)
<1> DEFINE h == Dropping(Held(e), TypeOf(name))
<1>1. e \in alive /\ alive' = alive /\ born' = born BY DEF RemoveComponent
<1>2. WorldIn(schema, alive, comps) BY DEF ProcessInv
<1>3. Held(e) \in Holdings /\ HeldIn(schema, Held(e)) BY <1>1, <1>2 DEF WorldIn, Held
<1>4. comps' = WithHeld(e, h) /\ changes' = Logged(changes, e) BY DEF RemoveComponent
<1>5. h \in Holdings /\ HeldIn(schema, h) BY <1>3, HoldingMade
<1> HIDE DEF h
<1> QED BY <1>1, <1>4, <1>5, Writes

LEMMA DespawnImplements ==
    ASSUME ProcessInv, NEW e \in Entities, Despawn(e), Now(changes) < MaxSeq, UNCHANGED <<types, rpcVars>>
    PROVE  ProcessInv' /\ (W!Next \/ UNCHANGED worldVars)
<1>1. /\ e \in alive /\ alive' = alive \ {e} /\ born' = born
      /\ changes' = LogDespawn(RemoveRevision(changes, e), e)
  BY DEF Despawn
<1>2. WorldIn(schema, alive, comps) BY DEF ProcessInv
<1> DEFINE after == WithData(comps, e, None)
<1>3. /\ WorldIn(schema, alive \ {e}, after)
      /\ after = [comps EXCEPT ![e] = [Parent |-> None, Data |-> None]]
  <2>1. alive \ {e} \subseteq alive \cup {e} /\ e \notin alive \ {e} OBVIOUS
  <2> QED BY <1>2, <2>1, WorldWith
<1>4. comps' = after BY DEF Despawn, WithHeld, WithData
<1> HIDE DEF after
<1>5. ProcessInv' BY <1>1, <1>3, <1>4, InvAfterCall
<1>6. W!Despawn(e) BY <1>1, <1>3, <1>4, SameLog DEF W!Despawn, W!Empty
<1>7. W!Mutate
  <2>1. W!Idle /\ W!Now(changes) < MaxSeq BY SameLog DEF W!Idle
  <2> QED BY <1>6, <2>1 DEF W!Mutate
<1> QED BY <1>5, <1>7 DEF W!Next

\* Of those given for one type there is a last.
LEMMA LastGivenIs ==
    ASSUME NEW given, Len(given) \in Nat, DOMAIN given = 1..Len(given), NEW T,
           NEW i \in DOMAIN given, TypeOf(given[i][1]) = T
    PROVE  LastGiven(given, T) \in DOMAIN given /\ TypeOf(given[LastGiven(given, T)][1]) = T
<1> DEFINE n == Len(given)
           S == {j \in 1..n : TypeOf(given[j][1]) = T}
           R == {n - j : j \in S}
<1>1. R \subseteq Nat /\ R # {}
  <2>1. n - i \in R OBVIOUS
  <2> QED BY <2>1
<1>2. PICK r \in R : \A y \in R : r <= y
  <2> HIDE DEF R
  <2> QED BY <1>1, T3!LeastExists
<1>3. PICK j \in S : r = n - j OBVIOUS
<1>4. ASSUME NEW k \in S PROVE k <= j
  <2>1. n - k \in R OBVIOUS
  <2>2. n - j <= n - k BY <1>2, <1>3, <2>1
  <2> QED BY <2>2
<1>5. /\ j \in DOMAIN given /\ TypeOf(given[j][1]) = T
      /\ \A k \in DOMAIN given : TypeOf(given[k][1]) = T => k <= j
  BY <1>4
<1> QED BY <1>5 DEF LastGiven

LEMMA SpawnImplements ==
    ASSUME ProcessInv, NEW e \in Entities, NEW given \in Spawns, Spawn(e, given),
           Now(changes) < MaxSeq, UNCHANGED <<types, rpcVars>>
    PROVE  ProcessInv' /\ (W!Next \/ UNCHANGED worldVars)
<1> DEFINE reads == [i \in DOMAIN given |-> ReadAs(given[i][1], given[i][2])]
           content == [T \in {TypeOf(given[i][1]) : i \in DOMAIN given} |->
                          reads[LastGiven(given, T)].value]
<1>1. WorldIn(schema, alive, comps) /\ ComponentsIn(schema, types)
  BY DEF ProcessInv, RegistriesOK, Registries
<1>2. Len(given) \in Nat /\ DOMAIN given = 1..Len(given) BY SentAssumption
<1>3. /\ e \notin born /\ born' = born \cup {e}
      /\ IF \A i \in DOMAIN given : reads[i].ok
         THEN /\ alive' = alive \cup {e} /\ comps' = WithHeld(e, content)
              /\ changes' = Logged(changes, e)
         ELSE /\ changes' = LogDespawn(RemoveRevision(Logged(changes, e), e), e)
              /\ alive' = alive /\ comps' = comps
  BY DEF Spawn
<1>4. W!Idle /\ W!Now(changes) < MaxSeq BY SameLog DEF W!Idle
<1>5. CASE \A i \in DOMAIN given : reads[i].ok
  <2>1. ASSUME NEW i \in DOMAIN given
        PROVE  LET T == TypeOf(given[i][1])
               IN  /\ T \in DOMAIN TypeValues /\ reads[i].value \in TypeValues[T]
                   /\ ~schema.errors => \E id : Settled(schema, T, id)
    <3>1. IsSent(given[i][2]) BY DEF IsSent, Range
    <3>2. ReadAs(given[i][1], given[i][2]).ok BY <1>5
    <3> QED BY <1>1, <3>1, <3>2, ReadIs
  <2>2. ASSUME NEW T \in DOMAIN content
        PROVE  /\ T \in DOMAIN TypeValues /\ content[T] \in TypeValues[T]
               /\ ~schema.errors => \E id : Settled(schema, T, id)
    <3>1. PICK i \in DOMAIN given : TypeOf(given[i][1]) = T OBVIOUS
    <3> DEFINE last == LastGiven(given, T)
    <3>2. last \in DOMAIN given /\ TypeOf(given[last][1]) = T BY <1>2, <3>1, LastGivenIs
    <3>3. content[T] = reads[last].value OBVIOUS
    <3> HIDE DEF last, reads, content
    <3> QED BY <2>1, <3>2, <3>3
  <2>3. content \in Holdings /\ HeldIn(schema, content)
    <3>1. content = [T \in DOMAIN content |-> content[T]] OBVIOUS
    <3> HIDE DEF content
    <3>2. IsHolding(content) BY <2>2, <3>1 DEF IsHolding
    <3> QED BY <2>2, <3>2, HoldingIs DEF HeldIn
  <2> DEFINE after == WithData(comps, e, content)
             whole == [Parent |-> None, Data |-> content]
  <2>4. alive' = alive \cup {e} /\ comps' = after /\ changes' = Logged(changes, e)
    BY <1>3, <1>5 DEF WithHeld, WithData
  <2> HIDE DEF content, reads
  <2>5. WorldIn(schema, alive \cup {e}, after) /\ after = [comps EXCEPT ![e] = whole]
    BY <1>1, <2>3, WorldWith
  <2>6. whole \in W!Contents BY <2>3 DEF W!Contents
  <2> HIDE DEF after, whole
  <2>7. ProcessInv' BY <2>4, <2>5, InvAfterCall
  <2>8. W!RpcSpawn(e, whole) BY <1>3, <2>4, <2>5, SameLog DEF W!RpcSpawn, Logged
  <2>9. W!Mutate BY <1>4, <2>6, <2>8 DEF W!Mutate
  <2> QED BY <2>7, <2>9 DEF W!Next
<1>6. CASE ~\A i \in DOMAIN given : reads[i].ok
  <2>1. /\ changes' = LogDespawn(RemoveRevision(Logged(changes, e), e), e)
        /\ alive' = alive /\ comps' = comps
    BY <1>3, <1>6
  <2>2. ProcessInv' BY <1>1, <2>1, InvAfterCall
  <2>3. W!RpcSpawnFails(e) BY <1>3, <2>1, SameLog DEF W!RpcSpawnFails, Logged
  <2>4. W!Mutate BY <1>4, <2>3 DEF W!Mutate
  <2> QED BY <2>2, <2>4 DEF W!Next
<1> QED BY <1>5, <1>6

LEMMA CallImplements ==
    ASSUME ProcessInv, Call PROVE ProcessInv' /\ (W!Next \/ UNCHANGED worldVars) /\ schema' = schema
<1>1. Now(changes) < MaxSeq /\ UNCHANGED <<types, rpcVars>> /\ schema' = schema
  BY DEF Call, rpcVars
<1>2. PICK e \in Entities :
         \/ \E given \in Spawns : Spawn(e, given)
         \/ Despawn(e)
         \/ \E name \in Called :
              \/ RemoveComponent(e, name)
              \/ \E d \in Inputs : SetComponent(e, name, d) \/ PatchComponent(e, name, d)
  BY DEF Call
<1>3. CASE \E given \in Spawns : Spawn(e, given) BY <1>1, <1>3, SpawnImplements
<1>4. CASE Despawn(e) BY <1>1, <1>4, DespawnImplements
<1>5. CASE \E name \in Called : RemoveComponent(e, name) BY <1>1, <1>5, RemoveImplements
<1>6. CASE \E name \in Called, d \in Inputs : SetComponent(e, name, d)
  BY <1>1, <1>6, SetImplements
<1>7. CASE \E name \in Called, d \in Inputs : PatchComponent(e, name, d)
  BY <1>1, <1>7, PatchImplements
<1> QED BY <1>2, <1>3, <1>4, <1>5, <1>6, <1>7

LEMMA ProcessStep ==
    ProcessInv /\ [ProcessNext]_processVars =>
        ProcessInv' /\ Grows(schema, schema') /\ (W!Next \/ UNCHANGED worldVars)
<1> SUFFICES ASSUME ProcessInv, [ProcessNext]_processVars
             PROVE  ProcessInv' /\ Grows(schema, schema') /\ (W!Next \/ UNCHANGED worldVars)
  OBVIOUS
<1>1. CASE Call BY <1>1, CallImplements, GrowsOn
<1>2. CASE \/ Process_register_type \/ Process_register_component
           \/ Process_register_component_opaque \/ Process_register_rpc
  <2>1. UNCHANGED worldVars
    BY <1>2 DEF Process_register_type, Process_register_component,
                Process_register_component_opaque, Process_register_rpc, Register
  <2> QED BY <1>2, <2>1, Registrations
<1>3. CASE UNCHANGED processVars
  <2>1. UNCHANGED <<types, rpcVars>> /\ UNCHANGED worldVars /\ schema' = schema
    BY <1>3 DEF processVars, rpcVars, worldVars
  <2>2. WorldIn(schema, alive', comps') BY <2>1 DEF ProcessInv, worldVars
  <2>3. ProcessInv' BY <2>1, <2>2, InvAfterCall
  <2> QED BY <2>1, <2>3, GrowsOn
<1> QED BY <1>1, <1>2, <1>3 DEF ProcessNext

LEMMA ProcessInvariant == ProcessSpec => []ProcessInv
<1>1. ProcessInv /\ [ProcessNext]_processVars => ProcessInv' BY ProcessStep
<1> QED BY <1>1, ProcessStarts, PTL DEF ProcessSpec

----------------------------------------------------------------------------
(* The types of the state.                                                 *)

LEMMA PushTyped ==
    ASSUME NEW events \in Seq(ChangeEvents), NEW ev \in ChangeEvents
    PROVE  PushChangeEvent(events, ev) \in Seq(ChangeEvents)
<1>1. /\ Append(events, ev) \in Seq(ChangeEvents)
      /\ Len(Append(events, ev)) = Len(events) + 1 /\ Len(events) \in Nat
  OBVIOUS
<1>2. Tail(Append(events, ev)) \in Seq(ChangeEvents)
  <2>1. Append(events, ev) # <<>> BY <1>1
  <2> QED BY <1>1, <2>1
<1>3. events # <<>> => [events EXCEPT ![Len(events)] = ev] \in Seq(ChangeEvents) OBVIOUS
<1> QED BY <1>1, <1>2, <1>3 DEF PushChangeEvent

LEMMA LogTyped ==
    ASSUME NEW ch \in ChangeLogs, NEW e \in Entities
    PROVE  /\ Logged(ch, e) \in ChangeLogs /\ RemoveRevision(ch, e) \in ChangeLogs
           /\ LogDespawn(ch, e) \in ChangeLogs
<1>1. /\ ch = [nextSeq |-> ch.nextSeq, revisions |-> ch.revisions, log |-> ch.log]
      /\ ch.nextSeq \in Nat \ {0} /\ ch.nextSeq + 1 \in Nat \ {0}
      /\ ch.revisions \in [Entities -> Nat] /\ ch.log \in Seq(ChangeEvents)
  BY DEF ChangeLogs
<1>2. /\ [seq |-> ch.nextSeq, entity |-> e, revision |-> ch.nextSeq,
           parent |-> None, kind |-> "Upserted"] \in ChangeEvents
      /\ [seq |-> ch.nextSeq, entity |-> e, revision |-> 0,
           parent |-> None, kind |-> "Despawned"] \in ChangeEvents
  BY <1>1 DEF ChangeEvents, Kinds
<1>3. /\ [ch.revisions EXCEPT ![e] = ch.nextSeq] \in [Entities -> Nat]
      /\ [ch.revisions EXCEPT ![e] = 0] \in [Entities -> Nat]
  BY <1>1
<1>4. Logged(ch, e) \in ChangeLogs
  BY <1>1, <1>2, <1>3, PushTyped DEF Logged, BumpWithParent, ChangeLogs
<1>5. RemoveRevision(ch, e) \in ChangeLogs BY <1>1, <1>3 DEF RemoveRevision, ChangeLogs
<1>6. LogDespawn(ch, e) \in ChangeLogs
  BY <1>1, <1>2, PushTyped DEF LogDespawn, ChangeLogs
<1> QED BY <1>4, <1>5, <1>6

\* What a call may do to the entities, of which it touches one.
LEMMA CallTouches ==
    ASSUME ProcessInv, TypedTypeOK, Call
    PROVE  \E e \in Entities :
             /\ born' \subseteq born \cup {e} /\ alive' \subseteq born' /\ alive \ {e} \subseteq alive'
             /\ e \notin alive' => comps'[e].Data = None
             /\ \A x \in Entities : x # e => comps'[x] = comps[x]
             /\ changes' \in ChangeLogs
<1>1. /\ alive \subseteq born /\ DOMAIN comps = Entities /\ changes \in ChangeLogs
      /\ \A e \in Entities : e \notin alive => comps[e].Data = None
  BY DEF TypedTypeOK, Held
<1>2. \A e \in Entities : \A h :
        /\ \A x \in Entities : x # e => WithHeld(e, h)[x] = comps[x]
        /\ h = None => WithHeld(e, h)[e].Data = None
  <2> TAKE e \in Entities
  <2> TAKE h
  <2>1. comps[e] = [Parent |-> None, Data |-> comps[e].Data] BY DEF ProcessInv, WorldIn
  <2>2. WithHeld(e, h)[e] = [comps[e] EXCEPT !.Data = h] BY <1>1 DEF WithHeld
  <2>3. [comps[e] EXCEPT !.Data = h].Data = h BY <2>1
  <2> QED BY <1>1, <2>2, <2>3 DEF WithHeld
<1>3. PICK e \in Entities :
         \/ \E given \in Spawns : Spawn(e, given)
         \/ Despawn(e)
         \/ \E name \in Called :
              \/ RemoveComponent(e, name)
              \/ \E d \in Inputs : SetComponent(e, name, d) \/ PatchComponent(e, name, d)
  BY DEF Call
<1>4. /\ Logged(changes, e) \in ChangeLogs
      /\ LogDespawn(RemoveRevision(changes, e), e) \in ChangeLogs
      /\ LogDespawn(RemoveRevision(Logged(changes, e), e), e) \in ChangeLogs
  BY <1>1, LogTyped
<1>5. CASE \E given \in Spawns : Spawn(e, given)
  BY <1>1, <1>2, <1>4, <1>5 DEF Spawn
<1>6. CASE Despawn(e)
  BY <1>1, <1>2, <1>4, <1>6 DEF Despawn
<1>7. CASE \E name \in Called :
              \/ RemoveComponent(e, name)
              \/ \E d \in Inputs : SetComponent(e, name, d) \/ PatchComponent(e, name, d)
  <2>1. /\ alive' = alive /\ born' = born /\ e \in alive
        /\ changes' = changes \/ changes' = Logged(changes, e)
        /\ comps' = comps \/ \E h : comps' = WithHeld(e, h)
    BY <1>7 DEF RemoveComponent, SetComponent, PatchComponent
  <2> QED BY <1>1, <1>2, <1>4, <2>1
<1> QED BY <1>3, <1>5, <1>6, <1>7

\* Entities hold components of their types or, once they are gone, nothing; the log is
\* one of events, and the entries of the type registry have capabilities it knows
\* (WorldTypeRegistry, the procedures of builtins.rs).
THEOREM ProcessTypes == ProcessSpec => []TypedTypeOK
<1>1. ProcessInit => TypedTypeOK
  <2> SUFFICES ASSUME ProcessInit PROVE TypedTypeOK
    OBVIOUS
  <2>1. ComponentsIn(schema, types)
    BY ProcessStarts DEF ProcessInv, RegistriesOK, Registries
  <2>2. /\ alive = {} /\ born = {} /\ changes = EmptyChangeLog
        /\ comps = [e \in Entities |-> [Parent |-> None, Data |-> None]]
    BY DEF ProcessInit
  <2>3. EmptyChangeLog \in ChangeLogs BY DEF EmptyChangeLog, ChangeLogs
  <2> QED BY <2>1, <2>2, <2>3 DEF TypedTypeOK, Held, ComponentsIn
<1>2. ASSUME ProcessInv, ProcessInv', TypedTypeOK, [ProcessNext]_processVars PROVE TypedTypeOK'
  <2>1. CASE UNCHANGED worldVars
    <3>1. ComponentsIn(schema', types') BY <1>2 DEF ProcessInv, RegistriesOK, Registries
    <3> QED BY <1>2, <2>1, <3>1 DEF TypedTypeOK, Held, worldVars, ComponentsIn
  <2>2. CASE Call
    <3>1. PICK e \in Entities :
             /\ born' \subseteq born \cup {e} /\ alive' \subseteq born' /\ alive \ {e} \subseteq alive'
             /\ e \notin alive' => comps'[e].Data = None
             /\ \A x \in Entities : x # e => comps'[x] = comps[x]
             /\ changes' \in ChangeLogs
      BY <1>2, <2>2, CallTouches
    <3>2. /\ comps' = [x \in Entities |-> [Parent |-> None, Data |-> comps'[x].Data]]
          /\ \A x \in alive' : comps'[x].Data \in Holdings
      BY <1>2 DEF ProcessInv, WorldIn
    <3>3. DOMAIN comps' = Entities BY <3>2
    <3>4. \A x \in Entities : x \notin alive' => comps'[x].Data = None
      BY <1>2, <3>1 DEF TypedTypeOK, Held
    <3>5. types' = types BY <2>2 DEF Call
    <3> QED BY <1>2, <3>1, <3>2, <3>3, <3>4, <3>5 DEF TypedTypeOK, Held
  <2>3. ProcessNext => Call \/ UNCHANGED worldVars
    BY DEF ProcessNext, Process_register_type, Process_register_component,
           Process_register_component_opaque, Process_register_rpc, Register
  <2>4. UNCHANGED processVars => UNCHANGED worldVars BY DEF processVars, worldVars
  <2> QED BY <1>2, <2>1, <2>2, <2>3, <2>4
<1> QED BY <1>1, <1>2, ProcessInvariant, PTL DEF ProcessSpec

----------------------------------------------------------------------------

\* No call of a client, whatever it names and whatever value it brings, does to the
\* world what is no call of World: one that is refused has left no field changed, and
\* no component is changed and not logged (awrk.spawn, set_component_by_entity,
\* the patch handler, with the datex values and the Rust types of components behind
\* them).
THEOREM CallsImplementWorld == ProcessSpec => ImplementsWorld
<1>1. ProcessInit => W!Init
  BY SameLog DEF ProcessInit, W!Init, W!Empty, W!NotIterating
<1>2. ProcessInv /\ [ProcessNext]_processVars => [W!Next]_(W!vars)
  BY ProcessStep DEF W!vars, worldVars
<1> QED BY <1>1, <1>2, ProcessInvariant, PTL DEF ProcessSpec, ImplementsWorld, W!Spec

\* Whatever is registered, under names with whichever ids, no definition that clients
\* may have is replaced, and an error stays (insert_type, insert_proc and the like).
THEOREM SchemaKeepsGrowing == ProcessSpec => SchemaOnlyGrows
<1>1. ProcessInv /\ [ProcessNext]_processVars =>
         [/\ schema.errors => schema'.errors
          /\ \A id \in DOMAIN schema.types : schema'.types[id] = schema.types[id]
          /\ \A id \in DOMAIN schema.procedures :
                schema'.procedures[id] = schema.procedures[id]]_processVars
  BY ProcessStep, GrowsIs
<1> QED BY <1>1, ProcessInvariant, PTL DEF ProcessSpec, SchemaOnlyGrows

LEMMA ServedIs ==
    ASSUME Served.ok
    PROVE  /\ schema.errors = FALSE
           /\ Served = [ok |-> TRUE, strings |-> schema.strings, types |-> schema.types,
                        fields |-> schema.fields, procedures |-> schema.procedures]
BY DEF Served, Built

\* However often and with whichever types procedures are registered: as long as a
\* schema is served, it has for each handler the types it decodes and encodes, and what
\* was listed is in it (register_typed, register_proc, list_procedures_from_schema).
THEOREM HandlersKeepToSchema == ProcessSpec => []HandlersMatchSchema
<1>1. ASSUME ProcessInv PROVE HandlersMatchSchema
  <2> SUFFICES ASSUME Served.ok
               PROVE  /\ \A id \in DOMAIN handlers :
                           /\ id \in DOMAIN schema.procedures
                           /\ Registered(schema, handlers[id].args).id = schema.procedures[id].args
                           /\ Registered(schema, handlers[id].result).id = schema.procedures[id].result
                      /\ listed \subseteq Listing(Served)
    BY DEF HandlersMatchSchema
  <2>1. ~schema.errors BY ServedIs
  <2>2. Shaped(schema) /\ HandlersIn(schema, handlers) BY <1>1 DEF ProcessInv, RegistriesOK, Registries
  <2>3. ASSUME NEW id \in DOMAIN handlers
        PROVE  /\ id \in DOMAIN schema.procedures
               /\ Registered(schema, handlers[id].args).id = schema.procedures[id].args
               /\ Registered(schema, handlers[id].result).id = schema.procedures[id].result
    BY <2>1, <2>2, SettledTells DEF HandlersIn
  <2>4. listed \subseteq Listing(schema) BY <1>1, <2>1 DEF ProcessInv, ListedIn
  <2>5. /\ Served.strings = schema.strings /\ Served.types = schema.types
        /\ Served.fields = schema.fields /\ Served.procedures = schema.procedures
    BY ServedIs
  <2>6. Listing(Served) = Listing(schema) BY <2>5 DEF Listing, TypeShown
  <2> QED BY <2>3, <2>4, <2>6
<1> QED BY <1>1, ProcessInvariant, PTL

\* A table is what its entries make.
LEMMA TableSent ==
    ASSUME NEW t, t = [id \in DOMAIN t |-> t[id]]
    PROVE  TableOf(Pairs(t)) = t /\ Unique(Pairs(t))
<1>1. \A id \in DOMAIN t : <<id, t[id]>> \in Pairs(t) BY DEF Pairs
<1>2. \A p \in Pairs(t) : p[1] \in DOMAIN t /\ p = <<p[1], t[p[1]]>> BY DEF Pairs
<1>3. Unique(Pairs(t)) BY <1>2 DEF Unique
<1>4. {p[1] : p \in Pairs(t)} = DOMAIN t
  <2>1. ASSUME NEW id \in DOMAIN t PROVE id \in {p[1] : p \in Pairs(t)}
    <3>1. <<id, t[id]>>[1] = id OBVIOUS
    <3> QED BY <1>1, <3>1
  <2>2. \A p \in Pairs(t) : p[1] \in DOMAIN t BY <1>2
  <2> QED BY <2>1, <2>2
<1>5. ASSUME NEW id \in DOMAIN t PROVE (CHOOSE p \in Pairs(t) : p[1] = id)[2] = t[id]
  <2> DEFINE q == CHOOSE p \in Pairs(t) : p[1] = id
  <2>1. <<id, t[id]>> \in Pairs(t) /\ <<id, t[id]>>[1] = id BY <1>1
  <2>2. q \in Pairs(t) /\ q[1] = id BY <2>1
  <2> HIDE DEF q
  <2>3. q = <<q[1], t[q[1]]>> BY <1>2, <2>2
  <2>4. q[2] = t[q[1]]
    <3> DEFINE x == q[1]
               y == t[x]
    <3>1. q = <<x, y>> BY <2>3
    <3> HIDE DEF x, y
    <3>2. q[2] = y BY <3>1
    <3> QED BY <3>2 DEF x, y
  <2>5. q[2] = t[id] BY <2>2, <2>4
  <2> QED BY <2>5 DEF q
<1>6. TableOf(Pairs(t)) = [id \in DOMAIN t |-> t[id]] BY <1>4, <1>5 DEF TableOf
<1> QED BY <1>3, <1>6

LEMMA TablesAre ==
    ASSUME NEW b, Shaped(b)
    PROVE  /\ b.strings = [id \in DOMAIN b.strings |-> b.strings[id]]
           /\ b.types = [id \in DOMAIN b.types |-> b.types[id]]
           /\ b.fields = [id \in DOMAIN b.fields |-> b.fields[id]]
           /\ b.procedures = [id \in DOMAIN b.procedures |-> b.procedures[id]]
BY DEF Shaped, T3!Shaped, T3!IsBuilder, T3!IsFunction

\* As long as a schema is served a client takes it, and reads with it whatever
\* component an entity has (encode_schema, decode_schema, the derived Schema and
\* Encode): of every type that a component was ever registered with.
THEOREM SchemaKeepsDescribing == ProcessSpec => []SchemaDescribes
<1>1. ASSUME ProcessInv PROVE SchemaDescribes
  <2> SUFFICES ASSUME Served.ok
               PROVE  /\ DecodedSchema(EncodedSchema(Served)) =
                            IF Fits(Served) THEN Served ELSE [ok |-> FALSE]
                      /\ \A e \in alive : \A T \in DOMAIN Held(e) :
                           Conforms(Served, Registered(schema, T).id, Encoded(T, Held(e)[T]))
    BY DEF SchemaDescribes
  <2>1. ~schema.errors /\ Shaped(schema) BY <1>1, ServedIs DEF ProcessInv, RegistriesOK, Registries
  <2>2. DecodedSchema(EncodedSchema(Served)) = IF Fits(Served) THEN Served ELSE [ok |-> FALSE]
    <3> DEFINE s == Served
               sent == EncodedSchema(s)
    <3>1. /\ s.strings = schema.strings /\ s.types = schema.types
          /\ s.fields = schema.fields /\ s.procedures = schema.procedures
          /\ s = [ok |-> TRUE, strings |-> s.strings, types |-> s.types,
                  fields |-> s.fields, procedures |-> s.procedures]
      BY ServedIs
    <3> HIDE DEF s
    <3>2. /\ sent.strings = Pairs(s.strings) /\ sent.types = Pairs(s.types)
          /\ sent.fields = Pairs(s.fields) /\ sent.procedures = Pairs(s.procedures)
          /\ (\A n \in sent.counts : n <= MaxTableEntries) <=> Fits(s)
      BY DEF EncodedSchema, Fits
    <3> HIDE DEF sent
    <3>3. /\ TableOf(sent.strings) = s.strings /\ Unique(sent.strings)
          /\ TableOf(sent.types) = s.types /\ Unique(sent.types)
          /\ TableOf(sent.fields) = s.fields /\ Unique(sent.fields)
          /\ TableOf(sent.procedures) = s.procedures /\ Unique(sent.procedures)
      <4>1. TableOf(Pairs(s.strings)) = s.strings /\ Unique(Pairs(s.strings))
        BY <2>1, <3>1, TablesAre, TableSent
      <4>2. TableOf(Pairs(s.types)) = s.types /\ Unique(Pairs(s.types))
        BY <2>1, <3>1, TablesAre, TableSent
      <4>3. TableOf(Pairs(s.fields)) = s.fields /\ Unique(Pairs(s.fields))
        BY <2>1, <3>1, TablesAre, TableSent
      <4>4. TableOf(Pairs(s.procedures)) = s.procedures /\ Unique(Pairs(s.procedures))
        BY <2>1, <3>1, TablesAre, TableSent
      <4> QED BY <3>2, <4>1, <4>2, <4>3, <4>4
    <3>4. ReferencesHold(s)
      <4>1. ReferencesHold(schema) BY <2>1, ShapedIs
      <4> QED BY <3>1, <4>1 DEF ReferencesHold
    <3> QED BY <3>1, <3>2, <3>3, <3>4 DEF DecodedSchema, s, sent
  <2>3. ASSUME NEW e \in alive, NEW T \in DOMAIN Held(e)
        PROVE  Conforms(Served, Registered(schema, T).id, Encoded(T, Held(e)[T]))
    <3>1. Held(e) \in Holdings /\ HeldIn(schema, Held(e)) BY <1>1 DEF ProcessInv, WorldIn, Held
    <3>2. T \in DOMAIN TypeValues /\ Held(e)[T] \in TypeValues[T]
      BY <3>1, HoldingIs DEF IsHolding
    <3>3. WellFormed(T) /\ HasType(T, Held(e)[T]) BY <3>2, TypeValuesAssumption
    <3>4. PICK id : Settled(schema, T, id) BY <2>1, <3>1 DEF HeldIn
    <3>5. Registered(schema, T).id = id BY <2>1, <3>3, <3>4, SettledTells
    <3>6. Served.types = schema.types /\ Served.fields = schema.fields BY ServedIs
    <3>7. Conforms(Served, id, Encoded(T, Held(e)[T])) BY <2>1, <3>3, <3>4, <3>6, SettledTells
    <3> QED BY <3>5, <3>7
  <2> QED BY <2>2, <2>3
<1> QED BY <1>1, ProcessInvariant, PTL

----------------------------------------------------------------------------
(* What a client was given, given back.                                    *)

\* The encoding of a struct.
LEMMA StructSnapshot ==
    ASSUME NEW T, WellFormed(T), T.form = "struct", NEW v
    PROVE  LET s == Encoded(T, v)
           IN  /\ s.kind = "map" /\ s = MapValue([i \in DOMAIN s.items |-> s.items[i]])
               /\ \A i \in Keys(s) : \E f \in Range(T.fields) : s.items[i] = NumberValue(f.id)
<1> DEFINE s == T3!EncodedStruct(T, v)
<1>1. T3!WellFormed(T) BY DEF WellFormed, T3!IsWholeType
<1>2. Encoded(T, v) = s BY T3!EncodedByForm DEF Encoded
<1>3. s.kind = "map" /\ \A i \in T3!Keys(s) : \E j \in DOMAIN T.fields : s.items[i] = T3!NumberValue(T.fields[j].id)
  BY <1>1, T3!StructEncoded
<1>4. \A n : T3!NumberValue(n) = NumberValue(n) BY DEF T3!NumberValue, NumberValue
<1>5. \A i \in Keys(s) : \E f \in Range(T.fields) : s.items[i] = NumberValue(f.id)
  BY <1>3, <1>4 DEF T3!Keys, Keys, Range
<1>6. \E n, g : s = MapValue([i \in 1..n |-> g[i]])
  <2>1. \A ks, vals : \E n, g : T3!MapOf(ks, vals) = MapValue([i \in 1..n |-> g[i]])
    <3> SUFFICES ASSUME NEW ks, NEW vals
                 PROVE  \E n, g : T3!MapOf(ks, vals) = MapValue([i \in 1..n |-> g[i]])
      OBVIOUS
    <3> DEFINE n == 2 * Len(ks)
               g == [i \in 1..n |-> IF i % 2 = 1 THEN ks[(i + 1) \div 2] ELSE vals[i \div 2]]
    <3>1. T3!MapOf(ks, vals) = MapValue(g)
      BY Zenon DEF T3!MapOf, T3!MapValue, MapValue, T3!ContainerValue, ContainerValue
    <3>2. g = [i \in 1..n |-> g[i]] OBVIOUS
    <3> HIDE DEF g, n
    <3> QED BY <3>1, <3>2
  <2> QED BY <2>1 DEF T3!EncodedStruct
<1> HIDE DEF s
<1>7. s = MapValue([i \in DOMAIN s.items |-> s.items[i]])
  <2>1. PICK n, g : s = MapValue([i \in 1..n |-> g[i]]) BY <1>6
  <2> DEFINE its == [i \in 1..n |-> g[i]]
  <2>2. its = [i \in DOMAIN its |-> its[i]] OBVIOUS
  <2> HIDE DEF its
  <2>3. s.items = its BY <2>1 DEF MapValue, ContainerValue, its
  <2> QED BY <2>1, <2>2, <2>3 DEF its
<1> QED BY <1>2, <1>3, <1>5, <1>7

\* With ids or with names, a struct that a client was given is taken for what it was.
LEMMA StructGivenBack ==
    ASSUME NEW T, WellFormed(T), T.form = "struct", NEW v, NEW d,
           d \in {Encoded(T, v), ByName(T, Encoded(T, v))}
    PROVE  CoercedStruct(T, d) = Accepted(Encoded(T, v)) /\ d.kind = "map"
<1> DEFINE s == Encoded(T, v)
           chosen(i) == CHOOSE f \in Range(T.fields) : s.items[i] = NumberValue(f.id)
           its == [i \in DOMAIN s.items |-> s.items[i]]
           byName == [i \in DOMAIN s.items |-> IF i \in Keys(s) THEN TextValue(chosen(i).name) ELSE s.items[i]]
           named(x) == {i \in Keys(x) : x.items[i].kind = "text"}
           idOf(x, i) == NumberValue((CHOOSE f \in FieldsNamed(T, x.items[i].octets) : TRUE).id)
           back(x) == [i \in DOMAIN x.items |-> IF i \in named(x) THEN idOf(x, i) ELSE x.items[i]]
<1>1. /\ s.kind = "map" /\ s = MapValue(its)
      /\ \A i \in Keys(s) : \E f \in Range(T.fields) : s.items[i] = NumberValue(f.id)
  BY StructSnapshot
<1>2. \A i \in Keys(s) : chosen(i) \in Range(T.fields) /\ s.items[i] = NumberValue(chosen(i).id)
  BY <1>1
<1>3. \A n : NumberValue(n).kind = "number" BY DEF NumberValue
<1>4. \A o : TextValue(o).kind = "text" /\ TextValue(o).octets = o BY DEF TextValue
<1>5. \A x : MapValue(x).kind = "map" /\ MapValue(x).items = x BY DEF MapValue, ContainerValue
<1>6. \A f, g \in Range(T.fields) : f.name = g.name => f = g
  <2>1. T3!WellFormed(T) BY DEF WellFormed, T3!IsWholeType
  <2>2. \A i, j \in DOMAIN T.fields : T.fields[i].name = T.fields[j].name => i = j
    BY <2>1, T3!PartsOf
  <2> QED BY <2>2 DEF Range
<1>7. ByName(T, s) = MapValue(byName) BY DEF ByName
<1> HIDE DEF s, chosen
<1>8. ASSUME NEW x, x.kind = "map",
             \A i \in Keys(x) : x.items[i].kind \in {"text", "number"},
             \A i \in named(x) : FieldsNamed(T, x.items[i].octets) # {}
      PROVE  CoercedStruct(T, x) = Accepted(MapValue(back(x)))
  BY <1>8 DEF CoercedStruct
<1>9. CASE d = s
  <2>1. named(d) = {} /\ \A i \in Keys(d) : d.items[i].kind = "number" BY <1>1, <1>3, <1>9
  <2>2. back(d) = its BY <1>9, <2>1
  <2>3. CoercedStruct(T, d) = Accepted(MapValue(back(d)))
    <3> HIDE DEF named, back
    <3> QED BY <1>1, <1>8, <1>9, <2>1
  <2> QED BY <1>1, <1>9, <2>2, <2>3 DEF s
<1>10. CASE d = ByName(T, s)
  <2>1. d.kind = "map" /\ d.items = byName /\ DOMAIN d.items = DOMAIN s.items
    BY <1>5, <1>7, <1>10
  <2>2. Keys(d) = Keys(s) BY <2>1 DEF Keys
  <2>3. \A i \in Keys(s) : i \in DOMAIN s.items BY DEF Keys
  <2>4. \A i \in Keys(s) : d.items[i] = TextValue(chosen(i).name) BY <2>1, <2>3
  <2>5. \A i \in Keys(s) : d.items[i].kind = "text" /\ d.items[i].octets = chosen(i).name
    BY <1>4, <2>4
  <2>6. named(d) = Keys(s) BY <2>2, <2>5
  <2>7. ASSUME NEW i \in Keys(s)
        PROVE  FieldsNamed(T, d.items[i].octets) # {} /\ idOf(d, i) = s.items[i]
    <3>1. FieldsNamed(T, d.items[i].octets) = {chosen(i)} BY <1>2, <1>6, <2>5 DEF FieldsNamed
    <3> QED BY <1>2, <3>1
  <2>8. \A i \in DOMAIN s.items : i \notin Keys(s) => d.items[i] = s.items[i] BY <2>1
  <2>9. back(d) = its
    <3> HIDE DEF named, idOf, byName
    <3>1. ASSUME NEW i \in DOMAIN s.items
          PROVE  (IF i \in named(d) THEN idOf(d, i) ELSE d.items[i]) = s.items[i]
      BY <2>6, <2>7, <2>8
    <3> QED BY <2>1, <3>1
  <2>10. CoercedStruct(T, d) = Accepted(MapValue(back(d)))
    <3> HIDE DEF named, back
    <3> QED BY <1>8, <2>1, <2>2, <2>5, <2>6, <2>7
  <2> QED BY <1>1, <2>1, <2>9, <2>10 DEF s
<1> QED BY <1>9, <1>10 DEF s

LEMMA GivenBack ==
    ASSUME NEW T, WellFormed(T), NEW v, HasType(T, v), NEW w, HasType(T, w),
           NEW d, d \in {Encoded(T, v), ByName(T, Encoded(T, v))}
    PROVE  SetTo(T, d) = Accepted(v) /\ PatchedTo(T, w, d) = Accepted(v)
<1> DEFINE s == Encoded(T, v)
<1>1. Coerced(T, d) = Accepted(s) /\ CoercedPatch(T, d) = Accepted(s)
  <2>1. CASE T.form = "struct"
    <3>1. CoercedStruct(T, d) = Accepted(s) /\ d.kind = "map" BY <2>1, StructGivenBack
    <3> QED BY <2>1, <3>1 DEF Coerced, CoercedPatch
  <2>2. CASE T.form # "struct"
    <3>1. d = s BY <2>2 DEF ByName
    <3>2. CASE T.form = "tuple"
      <4>1. s = T3!EncodedTuple(T, v) BY <3>2, T3!EncodedByForm DEF Encoded
      <4>2. s.kind = "array" BY <4>1 DEF T3!EncodedTuple, T3!ArrayValue, T3!ContainerValue
      <4> HIDE DEF s
      <4> QED BY <3>1, <3>2, <4>2 DEF Coerced, CoercedPatch, CoercedTuple
    <3>3. CASE T.form # "tuple"
      <4> HIDE DEF s
      <4> QED BY <2>2, <3>1, <3>3 DEF Coerced, CoercedPatch
    <3> QED BY <3>2, <3>3
  <2> QED BY <2>1, <2>2
<1>2. Rewritten(s) = Accepted(s)
  <2>1. Clean(s) BY TypesLawful
  <2> HIDE DEF s
  <2>2. \A n \in 0..MaxNesting : n \in Nat BY MaxNestingAssumption
  <2> QED BY <2>1, <2>2 DEF Rewritten, Clean
<1>3. Decoded(T, s) = Accepted(v) /\ Patched(T, w, s) = Accepted(v) BY TypesLawful
<1>4. Validated(T, w, s)
  <2>1. Validated(T, w, s) <=> Patched(T, w, s).ok BY TypesLawful
  <2> QED BY <1>3, <2>1, AcceptedFacts
<1> HIDE DEF s
<1>5. Accepted(s).ok = TRUE /\ Accepted(s).value = s BY AcceptedFacts
<1>6. SetTo(T, d) = Accepted(v) BY <1>1, <1>2, <1>3, <1>5 DEF SetTo
<1>7. PatchedTo(T, w, d) = Accepted(v) BY <1>1, <1>2, <1>3, <1>4, <1>5 DEF PatchedTo
<1> QED BY <1>6, <1>7

\* Whatever clients did to it, what a client was given for a component it can give back,
\* with the ids of its fields or their names, to set or to patch a component of the type
\* (snapshot_component, coerce_component_value_for_decode, with_value_ref).
THEOREM SnapshotsRestore == ProcessSpec => []SnapshotRestores
<1>1. ASSUME ProcessInv PROVE SnapshotRestores
  <2> SUFFICES ASSUME NEW e \in alive, NEW T \in DOMAIN Held(e),
                      NEW d \in {Encoded(T, Held(e)[T]), ByName(T, Encoded(T, Held(e)[T]))}
               PROVE  /\ SetTo(T, d) = Accepted(Held(e)[T])
                      /\ \A v \in TypeValues[T] : PatchedTo(T, v, d) = Accepted(Held(e)[T])
    BY DEF SnapshotRestores
  <2>1. IsHolding(Held(e)) BY <1>1, HoldingIs DEF ProcessInv, WorldIn, Held
  <2>2. T \in DOMAIN TypeValues /\ Held(e)[T] \in TypeValues[T] BY <2>1 DEF IsHolding
  <2>3. /\ WellFormed(T) /\ HasType(T, Held(e)[T])
        /\ \A v \in TypeValues[T] : HasType(T, v)
    BY <2>2, TypeValuesAssumption
  <2>4. SetTo(T, d) = Accepted(Held(e)[T]) BY <2>3, GivenBack
  <2>5. ASSUME NEW v \in TypeValues[T] PROVE PatchedTo(T, v, d) = Accepted(Held(e)[T])
    BY <2>3, GivenBack
  <2> QED BY <2>4, <2>5
<1> QED BY <1>1, ProcessInvariant, PTL
=============================================================================
