------------------------------ MODULE MCDatex ------------------------------
(* Small instances of DatexValues and DatexTyped. *)
EXTENDS DatexTyped

\* Text whose length, and the length of a container of it, are the last that fit a
\* width or the first that do not: 1 and 2, 12 and 13 with a base of 4.
TextLengths == {1, 2, 12, 13}
SomeTexts == {[i \in 1..n |-> 11] : n \in TextLengths}

\* The first numbers that do not fit a width.
SomeNumbers == {4, 16}
MCIdOf(n) == n

\* What is written follows the header of a message.
SomeFronts == {<<1, 0>>}

Number == UintType(16)
Inner == StructType("Inner", <<Field(16, "n", Number)>>)
Outer == StructType("Outer", <<Field(16, "list", VecType(Number)),
                               Field(4, "inner", OptionType(Inner))>>)
Pair == StructType("Pair", <<Field(16, "a", OptionType(UintType(4))), Field(4, "b", Number)>>)
InnerOf(n) == Many(<<One(n)>>)

\* Numbers are ids of fields; an enum has its fifth variant picked by 4.
SomeSamples ==
    {[type |-> OptionType(StringType), values |-> {NoneOf, One(One(<<>>))}],
     [type |-> VecType(OptionType(Number)), values |-> {Many(<<>>), Many(<<NoneOf>>)}],
     [type |-> ByteVecType, values |-> {One(<<7>>)}],
     [type |-> MapType(Number, OptionType(Number)), values |-> {Entries({})}],
     [type |-> TupleType("Tuple", <<Number, OptionType(Number)>>),
      values |-> {Many(<<One(7), NoneOf>>)}],
     [type |-> EnumType("Enum", <<UnitVariant, UnitVariant, UnitVariant, UnitVariant, Inner>>),
      values |-> {Variant(0, One(Nothing)), Variant(4, InnerOf(7))}],
     [type |-> Pair, values |-> {Many(<<NoneOf, One(7)>>), Many(<<One(One(2)), One(4)>>)}],
     [type |-> Outer, values |-> {Many(<<Many(<<>>), NoneOf>>),
                                  Many(<<Many(<<One(7)>>), One(InnerOf(7))>>)}]}
=============================================================================
