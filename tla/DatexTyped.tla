----------------------------- MODULE DatexTyped -----------------------------
(***************************************************************************)
(* What a component makes of a value that was received: the values the     *)
(* datex encoder has written, read and applied as patches by the types of  *)
(* NestedTypes.                                                            *)
(***************************************************************************)
EXTENDS DatexValues, NestedTypes

CONSTANT Samples    \* types, each with some of its values

ASSUME SamplesAssumption ==
    \A sample \in Samples :
        WellFormed(sample.type) /\ \A v \in sample.values : HasType(sample.type, v)

\* The same value of a struct, without the fields that d says nothing of.
Untouched(T, v, d) ==
    [i \in {i \in DOMAIN T.fields : EntriesOf(d, T.fields[i].id) = {}} |-> v.items[i]]

\* What a type reads from a value that was received is what it reads again from the
\* value it writes itself, with the fields in another order, keys that came twice
\* and options left out (the derived Encode and Decode, and traits.rs).
ReadsItself ==
    status = "done" =>
        \A sample \in Samples :
            LET T     == sample.type
                first == Decoded(T, value)
            IN  first.ok => Decoded(T, Encoded(T, first.value)) = first

\* Two-step patching is all or nothing: a patch that is validated does not fail half
\* way through, where a field would stay changed; one that is refused would fail.  A
\* patch leaves the fields it does not name as they are, may be applied again without
\* changing anything, and one that is all of another value turns the one into the
\* other (the derived Patch and PatchValidate, and traits.rs).
PatchMerges ==
    status = "done" =>
        \A sample \in Samples :
            LET T     == sample.type
                other == Decoded(T, value)
                again == Encoded(T, other.value)
            IN  \A v \in sample.values :
                  LET done == Patched(T, v, value)
                  IN  /\ Validated(T, v, value) <=> done.ok
                      /\ done.ok => Patched(T, done.value, value) = done
                      /\ (done.ok /\ T.form = "struct") =>
                            Untouched(T, done.value, value) = Untouched(T, v, value)
                      /\ other.ok => Patched(T, v, again) = Accepted(other.value)
=============================================================================
