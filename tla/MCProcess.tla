----------------------------- MODULE MCProcess -----------------------------
(* Small instances of Process. *)
EXTENDS Process

\* Two names have one id; two others one string id.
MCIdOf(name) == IF name = <<"Other">> THEN <<"Same">> ELSE name
MCStringIdOf(name) == IF name = <<"echo">> THEN <<"Kind">> ELSE name

\* A hash under which no two names collide.
FreshIdOf(name) == name

Number == UintType(16)
Bound == StructType(<<"Bound">>, <<Field(2, <<"max">>, Number)>>)
Place == StructType(<<"Place">>, <<Field(9, <<"x">>, Number),
                                   Field(4, <<"bound">>, OptionType(Bound))>>)
\* The same name with another shape.
Place2 == StructType(<<"Place">>, <<Field(9, <<"x">>, BoolType)>>)
List == TupleType(<<"List">>, <<VecType(Number)>>)
Kind == EnumType(<<"Kind">>, <<UnitVariant, Number>>)
Same == TupleType(<<"Same">>, <<>>)
Other == TupleType(<<"Other">>, <<BoolType>>)

PlaceOf(x, b) == Many(<<One(x), b>>)
Limit(n) == One(Many(<<One(n)>>))

SomeValues ==
    [T \in {Place, Place2, List, Kind, Same, Other, NameType} |->
        CASE T = Place -> {PlaceOf(1, NoneOf), PlaceOf(2, Limit(3)), PlaceOf(1, Limit(3)), PlaceOf(2, NoneOf)}
          [] T = List  -> {Many(<<Many(<<>>)>>), Many(<<Many(<<One(1)>>)>>)}
          [] T = Kind  -> {Variant(0, One(Nothing))}
          [] OTHER     -> {}]

SomeHoldings == HoldingsOf(SomeValues)

Component(name, T) == [name |-> name, type |-> T, opaque |-> FALSE]

SomeDiscovered ==
    {<<Component(<<"Place">>, Place), Component(<<"Kind">>, Kind)>>,
     <<Component(<<"List">>, List), [name |-> <<"Place">>, type |-> Place, opaque |-> TRUE]>>,
     <<Component(<<"Same">>, Same), Component(<<"Other">>, Other)>>}

SomeComponents ==
    {<<<<"Place">>, Place>>, <<<<"Position">>, Place>>, <<<<"Place">>, Place2>>,
     <<<<"Same">>, Same>>, <<<<"Other">>, Other>>, <<<<"Kind">>, Kind>>}

Proc(name, args, result) == [name |-> name, args |-> args, result |-> result]
SomeProcedures ==
    {Proc(<<"echo">>, Number, Number), Proc(<<"echo">>, List, Number),
     Proc(<<"move">>, Place, UnitType)}

\* Two names of one type, one of them not always registered.
SomeCalled == {<<"Place">>, <<"Position">>, <<"List">>}

\* Whole values, by id and by name; parts of them; a part that does not fit behind
\* one that does, in the order of the fields; names of no field; a key twice,
\* further in; a list in the tuple it is the item of, and without it.
SomeInputs ==
    {Encoded(Place, PlaceOf(1, NoneOf)),
     MapValue(<<TextValue(<<"x">>), NumberValue(2)>>),
     MapValue(<<TextValue(<<"x">>), NumberValue(2), NumberValue(4), NumberValue(7)>>),
     MapValue(<<TextValue(<<"x">>), NumberValue(1), NumberValue(9), NumberValue(2)>>),
     MapValue(<<NumberValue(4), NullValue>>),
     MapValue(<<NumberValue(4), MapValue(<<NumberValue(2), NumberValue(3), NumberValue(2), NumberValue(3)>>)>>),
     ArrayValue(<<ArrayValue(<<NumberValue(1)>>)>>),
     ArrayValue(<<NumberValue(1)>>)}

SomeSpawns ==
    {<<>>,
     <<<<<<"List">>, ArrayValue(<<ArrayValue(<<>>)>>)>>>>,
     <<<<<<"Place">>, Encoded(Place, PlaceOf(2, Limit(3)))>>,
       <<<<"Kind">>, MapValue(<<NumberValue(0), BoolValue(TRUE)>>)>>>>,
     <<<<<<"Place">>, Encoded(Place, PlaceOf(1, NoneOf))>>, <<<<"None">>, UnitValue>>>>}
=============================================================================
