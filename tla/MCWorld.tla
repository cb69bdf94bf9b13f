------------------------------ MODULE MCWorld ------------------------------
(* A small instance of EntityQuery, and of World in it. *)
EXTENDS EntityQuery

\* Handles count up by their bits: a new one may be before or after an old one.
SomeBits == [e \in Entities |-> e]

Query(all, any, none, n) == [allOf |-> all, anyOf |-> any, noneOf |-> none, limit |-> n]

\* Everybody; two filters that a write may enter and leave; pages that nobody fits
\* in, that are full with one, and that are full with all.
SomeQueries ==
    {Query({}, {}, {}, 0), Query({}, {"Parent", "Data"}, {}, 1), Query({"Data"}, {}, {"Parent"}, 1),
     Query({}, {}, {}, 2)}
=============================================================================
