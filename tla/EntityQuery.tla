---------------------------- MODULE EntityQuery ----------------------------
(***************************************************************************)
(* awrk.query_entities of crates/world/src/rpc/builtins.rs, asked page by  *)
(* page by a client that goes on from next_after as long as has_more, over *)
(* a world that changes between any two pages.                             *)
(*                                                                         *)
(* A page is one step of the process.  Entities are ordered by their bits  *)
(* (generation, then index), in which a new entity may come before or      *)
(* after any other.                                                        *)
(***************************************************************************)
EXTENDS World, FiniteSets

CONSTANTS
    Bits,       \* Entity::to_bits, never 0
    Queries,    \* the queries that are asked: all_of, any_of, none_of and limit
    MaxQuerySeq \* bound: no call starts during a query once this many changes are logged

ASSUME EntitiesAssumption == IsFiniteSet(Entities)

ASSUME BitsAssumption ==
    /\ Bits \in [Entities -> Nat \ {0}]
    /\ \A d, e \in Entities : Bits[d] = Bits[e] => d = e

ASSUME QueriesAssumption ==
    Queries \subseteq [allOf : SUBSET ComponentTypes, anyOf : SUBSET ComponentTypes,
                       noneOf : SUBSET ComponentTypes, limit : Nat]

ASSUME MaxQuerySeqAssumption == MaxQuerySeq \in Nat

VARIABLES
    query,      \* what is asked, or NotAsking
    after,      \* next_after of the last page
    more,       \* has_more of the last page
    got,        \* history: the entities that the pages gave
    given,      \* history: how many times they gave one
    steady      \* history: the entities that matched all along

queryVars == <<query, after, more, got, given, steady>>

NotAsking == [asked |-> FALSE]

QueryTypeOK ==
    /\ query \in Queries \cup {NotAsking}
    /\ after \in Nat
    /\ more \in BOOLEAN
    /\ got \subseteq Entities
    /\ given \in Nat
    /\ steady \subseteq Entities

QueryInit ==
    /\ Init
    /\ query = NotAsking
    /\ after = 0 /\ more = FALSE
    /\ got = {} /\ given = 0 /\ steady = {}

----------------------------------------------------------------------------

\* The entities that all_of, any_of and none_of let pass.
Matches(q, e) ==
    /\ \A t \in q.allOf : Has(e, t)
    /\ q.anyOf = {} \/ \E t \in q.anyOf : Has(e, t)
    /\ \A t \in q.noneOf : ~Has(e, t)

Matching(q) == {e \in alive : Matches(q, e)}

\* page is the first n of some entities, in the order of their bits.
IsFirst(page, some, n) ==
    /\ \A e \in page, d \in some \ page : Bits[e] < Bits[d]
    /\ Cardinality(page) <= n
    /\ Cardinality(page) < n => page = some

\* The entities that are left behind cursor.
Behind(q, cursor) == {e \in Matching(q) : Bits[e] > cursor}

\* The loop looks at the limit once an entity is in the page.
PageSize(q) == IF q.limit = 0 THEN 1 ELSE q.limit

\* Mutated form: the limit is looked at after the loop.
MutHasMore(q, page) == Cardinality(page) >= q.limit

HasMore(q, page) == page # {} /\ Cardinality(page) >= q.limit

\* Mutated form: the first of a page is taken for its last.
MutLastOf(page) == {e \in page : \A d \in page : Bits[d] >= Bits[e]}

\* out.last().
LastOf(page) == {e \in page : \A d \in page : Bits[d] <= Bits[e]}

\* next_after; a page that gave nothing is the last.
NextAfter(page) == IF page = {} THEN {after} ELSE {Bits[e] : e \in LastOf(page)}

Ask ==
    /\ query = NotAsking /\ Now(changes) <= MaxQuerySeq
    /\ query' \in Queries
    /\ after' = 0 /\ more' = TRUE
    /\ got' = {} /\ given' = 0
    /\ steady' = Matching(query')

NextPage ==
    /\ more
    /\ \E page \in SUBSET Behind(query, after) :
         /\ IsFirst(page, Behind(query, after), PageSize(query))
         /\ after' \in NextAfter(page)
         /\ more' = HasMore(query, page)
         /\ got' = got \cup page
         /\ given' = given + Cardinality(page)
    /\ UNCHANGED <<query, steady>>

\* The client is done with the answer.
Finish ==
    /\ query # NotAsking /\ ~more
    /\ query' = NotAsking
    /\ after' = 0 /\ more' = FALSE
    /\ got' = {} /\ given' = 0 /\ steady' = {}

\* Any call on the world.
WorldStep ==
    /\ query # NotAsking /\ Idle => Now(changes) < MaxQuerySeq
    /\ Next
    /\ UNCHANGED <<query, after, more, got, given>>
    /\ steady' = {e \in steady \cap alive' : Matches(query, e)'}

QueryStep == Idle /\ (Ask \/ NextPage \/ Finish) /\ UNCHANGED vars

QueryNext == WorldStep \/ QueryStep

QuerySpec == QueryInit /\ [][QueryNext]_<<vars, queryVars>>

\* An iteration goes on to its end, and the process gets to the next request.
FairQuerySpec ==
    /\ QuerySpec
    /\ WF_<<vars, queryVars>>(~Idle /\ WorldStep)
    /\ SF_<<vars, queryVars>>(Idle /\ NextPage /\ UNCHANGED vars)

----------------------------------------------------------------------------

\* Whoever was there and matched from the first page to the last is given, and
\* nobody twice, whatever comes, goes and changes between two pages, at a page that
\* is exactly full as well (has_more, next_after and the order by bits).
QueryExact ==
    /\ Cardinality(got) = given
    /\ \A e \in got : Bits[e] <= after
    /\ ~more => steady \subseteq got

\* A query that goes on as has_more tells it ends, with a limit of 0 too: each page
\* that says there is more has moved next_after.
QueryEnds == more ~> ~more
=============================================================================
