---------------------------- MODULE NestedTypes ----------------------------
(***************************************************************************)
(* The types of TypedValues and their traits, in a schema too,             *)
(* instantiated for one another as the compiler does it: T0 has the types  *)
(* without parts, and each further one the types whose parts are those of  *)
(* the one before.  TypesProofs, which adds to TypedSchemas what is proved *)
(* of it, is what is instantiated, for the proofs about each instance.     *)
(***************************************************************************)
EXTENDS Schema

\* What there is of a type that is nested too deep: no values, and no schema.
NoEncoded(T, v) == NullValue
NoDecoded(T, d) == Refused
NoPatched(T, v, d) == Fails(v)
NoValidated(T, v, d) == FALSE
NoType(T) == FALSE
NoValue(T, v) == FALSE
NoRegistered(b, T) == [builder |-> [b EXCEPT !.errors = TRUE], id |-> Nothing]
NoConforms(s, id, d) == FALSE

T0 == INSTANCE TypesProofs WITH
        EncodedPart <- NoEncoded, DecodedPart <- NoDecoded,
        PatchedPart <- NoPatched, ValidatedPart <- NoValidated,
        WellFormedPart <- NoType, HasTypePart <- NoValue,
        RegisteredPart <- NoRegistered, ConformsPart <- NoConforms

T1 == INSTANCE TypesProofs WITH
        EncodedPart <- T0!Encoded, DecodedPart <- T0!Decoded,
        PatchedPart <- T0!Patched, ValidatedPart <- T0!Validated,
        WellFormedPart <- T0!WellFormed, HasTypePart <- T0!HasType,
        RegisteredPart <- T0!Registered, ConformsPart <- T0!Conforms

T2 == INSTANCE TypesProofs WITH
        EncodedPart <- T1!Encoded, DecodedPart <- T1!Decoded,
        PatchedPart <- T1!Patched, ValidatedPart <- T1!Validated,
        WellFormedPart <- T1!WellFormed, HasTypePart <- T1!HasType,
        RegisteredPart <- T1!Registered, ConformsPart <- T1!Conforms

T3 == INSTANCE TypesProofs WITH
        EncodedPart <- T2!Encoded, DecodedPart <- T2!Decoded,
        PatchedPart <- T2!Patched, ValidatedPart <- T2!Validated,
        WellFormedPart <- T2!WellFormed, HasTypePart <- T2!HasType,
        RegisteredPart <- T2!Registered, ConformsPart <- T2!Conforms

----------------------------------------------------------------------------
(* Types that are nested three deep at most.                               *)

Encoded(T, v) == T3!Encoded(T, v)
Decoded(T, d) == T3!Decoded(T, d)
Patched(T, v, d) == T3!Patched(T, v, d)
Validated(T, v, d) == T3!Validated(T, v, d)
HasType(T, v) == T3!HasType(T, v)
WellFormed(T) == T3!IsWholeType(T)
Registered(b, T) == T3!Registered(b, T)
Conforms(s, id, d) == T3!Conforms(s, id, d)

\* The schema of a type alone (component_shape_meta).
Alone(T) == Registered(EmptySchema, T)
=============================================================================
