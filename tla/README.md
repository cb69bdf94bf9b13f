# awrk, specified

TLA+ modules for [awrk](../src), model-checked with TLC and proved about with TLAPS.
All paths below are relative to `src/`.

awrk is a local runtime around an ECS world. A *process* owns one `hecs::World` and serves it
over TCP; clients list, watch, spawn and edit its entities by remote calls whose values are
encoded with *datex* and described by a *schema*. The *explorer* is such a client with a GUI; the
*window host* is such a process, whose entities are OS windows.

## Inventory

| Component | Code | State it keeps | Operations | Talks to |
| --- | --- | --- | --- | --- |
| change log | `crates/world/src/core/changes.rs` | next sequence number, revision per entity, bounded log of events | bump, remove revision, log a despawn, poll | called by the world |
| world | `crates/world/src/core/process.rs` (`World`, `WorldEntityMut`) | entities, components, change log, type registry | spawn, despawn, set / patch / remove a component, mutable access to one, to an entity, to a query | change log, type registry |
| type registry | `crates/world/src/core/type_registry.rs` | per type name: how to snapshot, set, patch, remove | register, set, patch, remove, snapshot | world |
| process runtime | `crates/world/src/core/process.rs` (`Process`, `ProcessParts`, `Resources`) | the world, the registry of procedures, sessions, resources | tick, register | all of the above |
| builtin procedures | `crates/world/src/rpc/builtins.rs`, `api.rs` | none | `awrk.list_entities`, `query_entities`, `get_entities`, `spawn`, `despawn`, `set_component`, ... | world |
| RPC sessions | `crates/world/src/transport/`, `Sessions` of `process.rs` | per connection: bytes read, bytes to write, end of file, cache of answers | accept, read, cut frames, dispatch, answer, flush | RPC registry |
| RPC client | `crates/world/src/rpc/client.rs` | stream, next message id, schema, traces | connect, reconnect, invoke | sessions over TCP |
| RPC envelopes, registry | `crates/datex/rpc/src/` | handlers by procedure id, names, schema builder | register, dispatch | schema, codec |
| datex | `crates/datex/datex/src/`, `crates/datex/macros` | none (pure), encoder buffers | encode, decode, patch, text | |
| schema | `crates/schema/` | interned types, procedures | build, validate, encode, decode | |
| explorer worker | `crates/explorer-ui/src/worker.rs` | client, cursor, entity metas, tree indexes, cached schema | refresh, query, spawn, set, ..., one command at a time | RPC client, UI by channels |
| explorer UI | `crates/explorer-ui/src/app.rs`, ... | entities shown, selection, expanded nodes, requests in flight | request refresh, merge answers | worker by channels |
| window host | `crates/win/` | window entities, native windows by entity and back, window event log | create, close, poll events | process, winit |

What is hard here: the change log is bounded and coalesces, so clients that lag must be found out and
sent to list again; the client works on answers that are already old; calls fail half way and are
retried on another connection, to a process that may be another one; and the world's revisions are
bumped in some places before and in others after the write they announce. The process itself runs one
thread, and its methods take `&mut`, so that each call is one step of the models. `PROJECT.json` lists
each hazard at its line with the properties that cover it, or why none does.

What makes each component correct: the change log loses no change to a client it does not send to
list again. The follower's copy is right about whatever it has nothing more to hear
of, and agrees with the world in the end. Sessions and client: an invocation
runs at most once and its answer reaches the call that asked. Type registry: an operation that fails
changes nothing, one that succeeds is logged, and what was read can be given back. Queries: whoever matches from the
first page to the last is given once. RPC registry and schema: a schema that is served is true of the handlers
and of the components. Explorer: the
tree shown is the tree of the metas, a refresh that ends lets the next one start. Window host: the two
maps are inverse to each other and to the window entities, events pair up. Codec: what is encoded
decodes to the same value within the limits, and nothing else decodes.

## Modules

| Module | Models |
| --- | --- |
| `ChangeLog` | `changes.rs`: the record of a log and each of its methods as an operator; what a log promises its clients (`Ordered`, `NewestTrue`, `RecentLogged`) |
| `World` | `World` and `WorldEntityMut` of `process.rs`, and the mutating `awrk.*` procedures |
| `ChangeFollower` | the change-log half of `refresh_all_wire` of `worker.rs`: list, poll, apply, advance, resync, lost calls, change of target to another process |
| `EntityQuery` | `awrk.query_entities`, page by page over a `World` that changes |
| `FollowerRestarts` | the same, with the process dying and starting again |
| `ExplorerWorker` | the rest of `refresh_all_wire`: roots and children kept event by event, the entities fetched, and their merge into what the UI shows, across changes of target |
| `ExplorerQueue` | the two threads of the explorer and the channels between them, the user's requests and the timer's, and those that are dropped |
| `RpcSession` | the server's half of the transport: `Sessions` of `process.rs`, `session.rs`, the cache of answers |
| `RpcPeers` | that server with clients of any make, which repeat ids, pipeline, stop half way |
| `RpcClient` | that server with the `ProcessClient` of `client.rs` |
| `RemoteCalls` | what a caller of `ProcessClient` is promised, without connections: the abstract specification of `RpcClient` |
| `WinHost` | the window host: clients' calls, windowing events, the tick, the two maps and the event log |
| `DatexData` | datex values, as `Value` and `SerializedValueRef` have them |
| `DatexEncoder` | `encode.rs`: the buffer and the array and map writers on it, which shrink their headers when they are closed |
| `DatexValues` | `decode.rs`, the iterators of `value_ref.rs` and `Value::try_from`: what has been written, read back |
| `RustTypes` | Rust types and their values, and the shapes of datex they are written in |
| `TypedValues` | `traits.rs` and the derived `Encode`, `Decode`, `Patch` and `PatchValidate`: what Rust types make of datex values |
| `DatexTyped` | both together: what was written as octets, read and applied by types |
| `Schema` | `SchemaBuilder` with its errors, and the codec of schemas |
| `TypedSchemas` | the trait `Schema` and what is derived for it, and a client that reads values by a schema |
| `NestedTypes` | the types of both with types within them, three deep |
| `TypedWorld` | `type_registry.rs` and the procedures that write through it: a world addressed by the names of types, with values that may be anything |
| `Process` | `Process` and the registry of procedures: registrations before and between the calls of clients |
| `TypesProofs` | what a type of `TypedValues` and `TypedSchemas` is sure of if the types within it are: lemmas |
| `TypedProofs` | with them, theorems about `DatexTyped`, `TypedWorld` and `Process` |
| other `*Proofs` | theorems about the module they are named after and those around it |
| `MC*` | instances for TLC |

How they compose. `World` holds a `ChangeLog` in `changes`; `ChangeFollower` EXTENDS `World` and adds the
client; `ExplorerWorker` EXTENDS `ChangeFollower`, conjoins the tree to its actions and implements it
(`ExplorerFollows`), so that what holds of every follower holds of the explorer. `RpcPeers` and
`RpcClient` EXTEND `RpcSession` by two kinds of client. `ExplorerQueue` and `WinHost` stand alone: the
first has of a refresh only what is sent, the second has a world of its own with window components only.
`EntityQuery` EXTENDS `World` by a client that asks page after page. `Process` EXTENDS `TypedWorld`, which
EXTENDS `NestedTypes` and the same `ChangeLog` as `World`.
`DatexTyped` EXTENDS `DatexValues` and `NestedTypes`; `DatexValues` EXTENDS `DatexEncoder` with the decoder.
`TypedValues` and `TypedSchemas` have as parameters what the types within a type do, as an impl for `Vec<T>` has
`T: Encode`; `NestedTypes` instantiates them for one another, level over level, as the compiler does it. What it
instantiates is `TypesProofs`, which EXTENDS both by lemmas only, so that each level comes with what is proved of it.

**`World`.** State: the entities (`alive`, and `born`, the handles ever given out), their components
(`comps`, a `Parent` and one other component, `Data`), `changes`, and the iteration under way
(`iterating`: the borrow of the world that `World::iter` holds while its callback runs). One action
per method; a handle from `entity_mut` is modelled with the one use its caller makes of it. The process
runs one thread and its methods take `&mut`, so that each call is one step.

Refinements. Four modules implement another, and are shown to. `ExplorerWorker` implements `ChangeFollower` by the
identity, and `EntityQuery` implements `World` likewise (both proved). `RpcClient` implements `RemoteCalls`: `asked` is how many
calls a client has begun, `waiting` who is in one, `runs` how often the server has run each, `answered` the last that
returned (checked and proved). `Process` implements `World` (`ImplementsWorld`, checked and proved): all the typed components of an
entity are the `Data` of `World`, so that a call that is refused half way must be a stutter and one that
succeeds a logged change.

**`EntityQuery`.** `query`, `after` and `more` are a client's question, its cursor and the `has_more` it was told; a page is
one step of the process. `got` and `given` remember what the pages gave, `steady` who matched all along. Handles
are compared by `Bits`, in which a new entity may come before or after any other.

**`ChangeFollower`, `ExplorerWorker`.** `step` is the program counter of a refresh, `cursor` and `metas`
are the fields of `WorkerState`, `listing` and `answer` the answers on their way, so that the world moves
between any two steps of the client. `Fail` is a call that fails and the rest of the refresh with it.
`kids` and `roots` are `kids_by_parent` and `roots`; `fetching`, `fetched` and `shown` the last call of a
refresh, its answer and `ExplorerUiApp.entities`. `Retarget` is the user giving another host or port: another process, so that with the worker's
state (`reset_connection_state`) the world is a new one (`NewWorld`), whose handles, revisions and sequence numbers start as those of the former did. The UI
is not told: what it shows stays, and what it is sent is merged into it by handle and revision. `target` counts the processes and `from` remembers, for the
properties only, which of them an entity shown was fetched from. What the user sees and has expanded is any set of
entities ever spawned.

**`ExplorerQueue`.** `requests` and `responses` are the channels, `working` what the worker has yet to send
for the request it serves, `inFlight` the flag `refresh_in_flight`; `frame` says whether the UI takes
responses or lets the user act. `RequestRefresh` drops a request while the flag is up. `AutoRefresh` is the timer, which may be off. The messages that stop the worker, and its traces, are left out.

**`RpcSession`, `RpcPeers`, `RpcClient`.** A connection is a stream each way. A frame travels as two
pieces, length and payload, because a reader or a writer may stop between them. `rx` and `tx` say which
part of a stream is in `rx_buf` and `tx_buf`. One tick of `Sessions::handle` is a sequence of actions: accept,
then for each session read, cut and serve frames, flush and keep or drop it; clients act in between. An
answer stands for its content by the connection and the id of its call. `Timeouts` are the `ErrorKind`s
that an expired `io_timeout` shows as: `WouldBlock` on Unix, where the client stays on its connection,
`TimedOut` on Windows, where it takes a new one. A process that restarts is a server whose connections
all break.

**`WinHost`.** `windowsByEntity` and `entityByWindow` are the two maps of `App`, `win` the window components
of each entity, `log` the `WinEventLog`; `phase` and `todo` say where a round of the event loop is. The window components are components like
any other, so that a call may write any of them on any entity, with any handle, as may `awrk.spawn` (`Spawn`, `SetComponent`), and may remove the log with its entity (`DropLog`).
A handle is an id that need not be that of the entity it is on: `Listed` looks for it on every entity, as `window_info` does, and a window that no handle leads to when it
is opened is not announced (`main.rs:122`). `announced` remembers which were, for the properties only.

**`DatexEncoder`, `DatexValues`.** `buf` is the encoder's buffer, `writers` the `SeqWriter`s and `MapWriter`s on
the stack with the positions they keep. Null, numbers and text are one action each, opening and closing a
container another; what a closure of the code does between `array_like` and `finish` is the actions between
`Open` and `Close`. `items` and `value` remember what was asked for, in order to compare it with what
`DecodeFull` reads. Numbers are written in octets of `Base` values, so that a small base brings the limits
of the widths (255 and 256, 65535 and 65536 in the code) within reach: with 4 the widths of 1, 2 and 4 octets
hold numbers below 4, 16 and 256. Tags stay octets of their own. The decoder calls itself for what is in a container:
`ValueWith` is `decode_value_at` with the reader of the level below as a parameter, and `Reader` stacks as many of them as the
depth allows; `ItemsAt` is an iterator run to its end.

**`RustTypes`, `TypedValues`, `NestedTypes`, `DatexTyped`.** A type is a record (`StructType(name, fields)`, ...), and `Encoded`, `Decoded`, `Patched` and
`Validated` go by its form, as the impls of the traits and the generated code do. `Patched` yields success and the
value afterwards in either case, because the code patches in place. Field ids are given, not hashed. `WellFormed` says what Rust and the derives accept and `HasType` what
values a type has. Left out of both are structs without fields, of which a patch looks at no key while its check looks at each; keys of maps that
are not numbers; `Some(None)`, which goes out as `None`; and types nested more than three deep. `DatexTyped` applies
this to every value the encoder has written, so that its maps have keys in any order, the wrong keys, options
left out and items of other types.

**`Schema`, `TypedSchemas`.** A builder is a record of four tables and whether there was an error. `IdOf` and `StringIdOf` are the
hashes, as parameters under which names may collide. A table is sent as its entries. `Conforms` is how a client with
nothing but the schema reads a value. `MaxTableEntries` is the million entries of a table beyond which `decode_schema` refuses a schema that `encode_schema` has sent.

**`TypedWorld`, `Process`.** `types` is `by_name` of the type registry, each entry with its capabilities and the handlers it
has; `comps` are components by Rust type. `Coerced`, `Rewritten`, `SetTo` and `PatchedTo` are what the set and patch handlers do with a
client's value before it reaches the component; `Rewritten` refuses a map with a key that comes twice at any depth up to `MaxNesting`, which stands for the decoder's limit of 64. `schema`, `handlers` and `procNames` are the fields of
`RpcRegistryWithCtx`, `listed` what `awrk.list_procedures` captured when the process was made. A registration
whose name is taken panics in the code and is not a step here.

Abstractions. In the modules about the log, the transport and the explorer, payloads, procedures and values are not modelled, only ids, revisions, parents and one
component; bytes out of frame never decode as a call; an answer always encodes; frames beyond the size
limit are sent in `RpcPeers` only; titles and sizes of windows are left out.

## Runs

| Run | Shows | Bounds |
| --- | --- | --- |
| `world` | the promises of the log after every order of world calls, for every poll; pages of a query that are exact and end | 2 entities, log of 3, 6 changes, a query during the first 3 |
| `explorer_worker` | safety of the explorer's copy and of its tree, with lost calls, resyncs and changes of target | 2 entities, log of 3, 4 changes, 2 failures or new targets |
| `explorer_live` | copy and UI agree with a world that is quiet, in the end, lost calls and another target notwithstanding | 2 entities, log of 1, 2 changes, 1 failure or new target |
| `explorer_queue` | refreshes end, and nothing holds a request back but a refresh that is still to be served or said done | 5 messages |
| `rpc_peers` | the server answers all, in order, and repeats a call only when it forgot it | 1 connection, 3 frames, 2 ids, a cache of 1 |
| `rpc_client` | a call runs at most once, its answer is its own, and it ends; so the transport implements `RemoteCalls` | 1 client, 2 connections, 2 calls |
| `win_host` | maps and windows agree, and the feed with those that were announced, whatever clients write on entities; what is wanted is opened or marked, and what is not is closed | 2 entities, 2 windows, 3 events, limits 1, 2 and 4 |
| `datex` | what is encoded is read back, nothing else decodes, keys differ, copies are exact; types read what they write and patch all or nothing | 8 types, 5 values, base 4, numbers 4 and 16, texts of 1, 2, 12 and 13, counts to 2, depth 2 |
| `process` | calls by type name with good and bad values implement `World`; snapshots can be given back; the schema served is true of components and handlers | 1 entity, log of 2, 3 changes, 2 registrations |
| `process_duplicates` | (violated) a procedure registered again takes the place of the first, and a clash with the schema passes | as `process`, no two names with one id |
| `feed_parents` | (violated) the parents in events are not those of a listing | |
| `follower_restarts` | (violated) a restart of the process goes unnoticed | |

Why these bounds are enough. Two entities are enough for a change of one to be coalesced, or not,
because of the other, to be each other's parent and to move. A cursor that may poll is at most one
behind the oldest event, so that a log of two serves one new event to it and never has more: `explorer_worker`
has a log of three and a poll limit of 1, so that `has_more` is met with a change between two polls. With
one event the log is trimmed at every change, the hardest case for liveness. `MaxSeq` bounds the changes
(no call starts once that many are logged), `MaxFailures` the calls that fail together with the changes of target, `MaxRestarts` the restarts.
`Values` is empty where a property is about revisions and parents only,
and `Viewable`, the entities the user ever sees or expands, where it is about the worker's copy only:
what is fetched goes to the UI and no further, which is also why the `VIEW` of that run leaves the UI and `target` out: no step of the worker and no property of the run depends on them. One
new target is enough for the UI to have entities of another process under equal handles and revisions. Three frames, two ids and a cache
of one answer let an id be forgotten and sent again. Two connections let a call be sent again and its
first copy be served late; that clients do not get each other's answers is proved for any number of them. Two window ids for two
entities let a window be closed and created again, under a log that may have been dropped; limits of 1, 2 and 4 are below, at and above what three events leave to read. Texts of 1, 2, 12 and 13
octets in a container make payloads of 3, 4, 15 and 16 octets, the last of a width and the first of the
next, and inside another container its header shrinks by 4 or 6 octets or by none; five values are an array
of two maps, or a map with a container for key and value. A depth of 2 is exceeded by containers nested twice.
Queries have limits of 0, 1 and 2 over two entities: a page that is full with the last one, one that is not, and a
filter that a write during the query lets an entity into or out of. The types of `datex` have fields and variants with
the ids 4 and 16, the numbers that are written; an enum, options in every position, and a struct in a struct whose patch can fail
behind a field that fits. In `process` one id is shared by two type names and one string id by a procedure and a type; one name
is registered with two shapes, a component as opaque or not, a procedure with other arguments than before; the values sent
are whole, by name and by id, with a field that does not fit behind one that does, and a tuple with and without
its array. With `MaxTableEntries` at 22 some of the schemas that are served fit and some do not, and with `MaxNesting` at 4 a key that comes twice may be behind three others. One entity is enough there, as no call touches two.
Entities, clients and connections are symmetric in the runs that
have no liveness property.

Fairness. The explorer refreshes on a timer while "Auto" is on and its worker serves every command to its
end: `WF` of the steps of a refresh. An iteration over the world is a loop that ends: `WF` of its steps.
The process ticks for ever: `WF` of the server's steps; in the end a tick accepts what waits, reads all that
was sent and writes all that is to be written, as TCP delivers to a peer that reads: `SF`, since a tick that
finds less comes in between. A client's call goes on when there is something to
write to or to read: `WF` of its steps but those of a timeout. The UI draws frames and the
worker's calls return: `WF` of each. A client that was told there is more asks for the next page, and the process
serves it in some tick between the iterations: `SF`. The window host asks winit for `ControlFlow::Poll`: `WF` of a round. Nothing else
is fair: the world need not change, users need not act, and timeouts, failures, restarts and broken
connections need not happen.

Only the runs of `Process` disable the deadlock check: its registrations and changes are used up by the bounds. In the others clients poll, the process ticks and the event loop goes round when nothing
else is left to do.

## Proofs

The theorems hold for every value of the constants. They assume only what the modules' ASSUMEs say
(`None` is no entity, the log limit is a positive number, ...).

`WorldProofs`: `Pushed` says what `push_change_event` makes of a log by an offset of 0 or 1 between
old and new positions, and `PushFacts` that it does. `LogHealthy` is the inductive invariant of a log
against the entities living and ever spawned: the promises hold each other up, since that an event
newest about its entity is true needs the log to be in order, and that a recent revision is in the
log needs to know the oldest event. `LogOneChange` proves it through one pushed event, whatever
branch of the push ran; `BumpKeepsHealthy` and `DespawnKeepsHealthy` are its two uses. `BatchFacts`
says which part of the log a poll serves. `WorldInv` is `TypeOK` and `LogHealthy`; one step per action. The theorems are
`WorldTypeOK`, `WorldKeepsLog` (the invariants of the run `world`), `WorldPollDrains` (a client that goes on polling misses
nothing) and `WorldLogsChanges` (the action property `ChangesAreLogged`).
Of queries in the same module, `PagesInv` says that the client has nobody twice because all it has is at or before its cursor, and
misses nobody there who matched all along. `PageTaken` shows that a page keeps it and, if it is the last, leaves nobody
behind; `WorldKeepsPages` that the world may change as it likes meanwhile. The theorems are `QueriesReadWorld` and `QueriesExact`.

`ChangeFollowerProofs`: the property `CopyRight` is not inductive: it speaks of the copy after all
queued events are applied. `InSync` adds that the last queued event about an entity is right unless
more is to come (`QueueRight`), and demands it of what is on its way too (`FollowerSync`). The heart is
`OneChangeKeepsSync`: an event pushed to the log makes each client wait for its entity, and the event
trimmed for it puts those who had not read it out of reach, so that each client stays in sync.
`PollInSync` and `ApplyInSync` are the client's side. The theorems are `FollowerCopyRight` and
`FollowerUpToDate`. That a copy never goes back to an older revision, and a cursor only forward, needs that what is queued and what
is under way is in order and newer than what the client has of the same entity (`PastInv`); `MovesOn` says
of each step what may move. The theorems are `FollowerNeverRegresses` and `FollowerCursorAdvances`.

Of the explorer in the same module, `ExplorerStepFollows` maps each step of the explorer to a step of `ChangeFollower` or to
a stutter, so that `ExplorerFollows` (`ExplorerSpec => FollowerSpec`) carries the theorems over:
`ExplorerCopyRight`, `ExplorerUpToDate`, `ExplorerNeverRegresses`, `ExplorerCursorAdvances`, which `explorer_worker` checks.
`TreeInv` is the tree of the worker with the types of what it keeps (`ExplorerTyped`, `ExplorerTreeRight`). That what the UI
shows is true of some moment of the world it came from, and no older than what it has been told, needs the same of the answer on its
way, and says nothing of what came from a former target, not even by revision (`InfosPast`): `ExplorerShownTrue`, which is about what came from the present one.

`RpcClientProofs`: that a call runs at most once is inductive only with where a call may be: its payload
is in one stream, once, of a connection of the client it belongs to (`SentOnce`, `Owned`), it has not run
while it is on its way (`NotYetRun`), ids were all given out (`IdsUsed`), and a client writes only to its
own connections, with an id that is in none of their streams (`Streams`). The lemmas say of each way a
stream changes (cut, extended, consumed) that no payload appears twice. `OnceInv` is their conjunction;
the theorems are `ClientTypes` and `CallsRunOnce`.
That an answer is its call's needs that every answer under way on a connection or kept for
it was made there, for a call that ran there (`OwnAnswers`), that ids start at 1 (`IdsPositive`), and that what was taken
came from a connection (`AnswersBy`); each way an answer moves has a lemma of its own (`FlushTells`, `DropTells`,
`RememberTells`, ...). `AnswersInv` is their conjunction with `OnceInv`, which says whose the connections are. With it, each
step of `ClientSpec` is one of `RemoteCalls` or none (`NextCalls`): serving a frame is `Run`, which may not run a call twice;
taking an answer is `Answer`, whose call must have run. The theorems are `AnswersAreOwn` and `ClientImplementsCalls`.

`RpcPeersProofs` begins with the lemmas both kinds of client need: what reading, cutting, serving, flushing and dropping do to
streams, caches and answers. `RpcClientProofs` EXTENDS it for them. Then, of any peers: `PlaceInv` says where a frame may be (its two pieces side by side, cut only at an end of a stream) and that
a connection not accepted has nothing of the server's. `OrderInv` then relates the answers sent, those to be sent and the frames still
to be served to what the peer wrote, and says that a stream of answers is of whole ones: `Invocations` picks the calls from a stream, as a
recursive function, and what it makes of a stream that is cut or extended is proved by induction on its
length, through the least counterexample (`WFMin`, which takes a set and not an operator). `CacheInv` says that what the cache of answers
holds is the last ones of what ran, and that what ran twice has as many others between. The theorems are `PeersTyped`,
`PeersAnswerInOrder` and `PeersRunAgain`.

Of the explorer's two threads, at the end of `ChangeFollowerProofs`: a flag that is set is backed by a request in the queue, at the worker, or a response on its way
(`QueueInv`). That is all there is to keep the flag from staying up; that what it held back is made up for is not among the properties, as the code does not see to it. The theorems are `QueueTyped` and `QueueInFlightBacked`.

`WinHostProofs`: `MapsInverse` needs that a new window id is in neither map (`FreshInv`), and `DesiredIsOpen`
that what the tick has visited is as it should be at every phase (`TickInv`). `WinStepRecords` says of every step what it does to the log and to
who is open and announced: nothing, one event that is true of an entity, or an empty log and nobody announced; `RecordOpens` what one event more does to what the feed has open. From the two
`FeedAgrees` is inductive next to `WinInv` (`FeedStep`), and `FeedInOrder` follows from it. Neither depends on what clients have written on
the entities, which may be anything. `NumberedInv` is that the records are numbered without gaps, so that a poll finds its place by subtraction, for every limit but 0 (`LimitsAssumption`). The theorems
are `WinMapsInverse`, `WinDesiredIsOpen`, `WinFeedAgrees`, `WinFeedInOrder` and `WinFeedDrains`.

`DatexValuesProofs`: `EncoderTypes` is `EncoderTypeOK`, which is inductive: that each writer's positions are
in the buffer (`Sound`) and that the writers stand one inside the other (`Nested`), so that what moves
when the innermost is closed is behind everything the others point at. It needs that every value is at
least one octet (`ValueOctets`), that the least width is one of the widths (`LeastWidth`), and the lengths of
headers (`HeaderFacts`); `WroteKeepsType` is the end of a value, whichever action wrote it. The base
need only be 2 or more.

What the decoder makes of it is in the same module. `Reads(s, v)` says that the octets `s`, wherever they are in a buffer, are read as `v` by a
reader that goes deep enough, refused by one that does not, and refused if the buffer is said to end among them; `Lists` says so of
items one behind the other. Null, numbers and text are `Reads` (`OctetsRead`, `TagRead`: what was written in octets is the number that is
read, and a tag stands for one form), one more item keeps `Lists` (`ListsNext`), and the header that `finish` writes around items makes them
`Reads` (`ReadsContainer`): that is the induction over values, done by the encoder's own steps. `Coded(s, v)` says the same of compact
encodings from the other side: `CodesAgree` shows, by induction on the length, that a value has one, so that two keys are the same
value only if they are the same octets. `ContentInv` relates each writer on the stack to the values it was given (`Content`: its octets
are `Lists` of them, compact ones `CodedItems`, and each key among them is where the writer looks for it), a value that is finished to its octets
(`Fine`), and one that is not to the header it begins with (`Unfinished`). It is inductive next to `EncoderTypeOK`:
`WroteKeepsContent` is again the end of a value, for which `ContentSame` says that the outer writers see the same octets and `ContentNext` that the
innermost sees one value more. The theorems are `WrittenReadsBack`, `PartsDoNotDecode`, `WrittenKeysDiffer` and `CopyIsExact`. The induction the
library offers takes an operator; `Induction` in the module is the same for a set, from the least element of what is not in it.

`TypesProofs`: a type is *lawful* if what it reads is a value of it or nothing, a check of a patch says whether the patch succeeds, what it writes it
reads back, the encoding of one value patches any other into it, and a patch or a value that was read may be applied again (`Lawful`). The definition
of a type goes by the types within it, so that this is an induction over types; as induction over data is out of the prover's reach, it is one step for
every form of a type, from the types within (`PartsLawful`) to the type (`WholeLawful`), which `TypedProofs` takes level by level (`NoParts`,
`Level1` to `Level3`, `Whole`). Its largest parts are `DecodedThenPatched` and `PatchedTwice`, of structs whose fields are patched one after the other, and `RoundTrips`, which needs
that ids can be put in order at all (`AscendingExists`) and that maps are read as they were sorted (`MapEncoded`, `MapRoundTrip`).
The same way, `TypesRegistered` is what a type does to a schema: `Shaped` (the tables are tables, and no reference in them dangles unless there is an error) is kept; the builder
only grows (`Grows`); once a type is registered without an error it is *settled*: to register it again, in this or any later schema without an error, changes nothing and gives the same id
(`Settled`); and a value of a settled type is what the schema says of it. An error on the way may leave another type's definition under an id: that is why all of
it holds only of builders without one, and why an error has to stay. `WholeRegistered` is the step from the types within, with a lemma for each form
(`StructRegistered`, `StructConforms`, ...).

`TypedProofs`: of values received, `ReadsWhatItWrites` and `PatchesMerge` are `Lawful` of whatever the encoder may have written, which `ContentInv` of
`DatexValuesProofs` says is a datex value. Of a process, none of the properties is inductive: `HandlersMatchSchema` says of a schema what it maps the types to now, and registering
one type changes what others map to. `ProcessInv` says that they are settled instead: the types of each handler with the ids the schema has for its procedure (`HandlersIn`), the type
of each component that has handlers (`ComponentsIn`), and of each component an entity holds (`WorldIn`), even when its name has since been registered for another type;
that the schema is `Shaped`; and that what was listed is still in the listing (`ListedIn`, by `ShownStays`). `TypeAdded`, `ComponentAdded` and `ProcAdded` are the
registrations, `NewProcessOK` all those of `Process::new`, as many as are discovered. `SetImplements`, `PatchImplements`, `RemoveImplements`, `DespawnImplements` and `SpawnImplements` map the calls to
`World`: a refused one to a stutter, as `Lawful` says that a patch that was checked does not fail, and an `awrk.spawn` that fails half way to an empty spawn that is despawned. `GivenBack` is what `Coerced` and `Rewritten` make of
a snapshot with ids or names. `CallTouches` says which part of the state a call may change, for the types of the state.
The theorems are `ProcessTypes`, `CallsImplementWorld`, `SnapshotsRestore`, `HandlersKeepToSchema`, `SchemaKeepsDescribing` and `SchemaKeepsGrowing`.
They assume of the constants that the types of components are well formed and their values of them (`TypeValuesAssumption`), that `Holdings` is all that can be held of them
(`HoldingsAssumption`), that what is registered is of such types (`RegisteredAssumption`), and that `TypeValues` has what is read from what clients send
(`SentAssumption`), which it has if it has all values of each type. `SamplesAssumption` says the same of the samples of `DatexTyped`. Nothing is assumed of the hashes.

Only checked by TLC: the liveness properties (`EventuallyUpToDate`, `EventuallyShown`, `RefreshEnds`, `InvocationsServed`,
`CallsEnd`, `WindowsRealised`, `QueryEnds`), which are out of the prover's reach. Every other property of a run that passes is a theorem. That types may nest deeper than three levels
is not proved: each further level is one more instance in `NestedTypes` and one more lemma like `Level3`, for all of them at once it is an induction over data.

## Found while modelling

Each of the first three is the finding of a run that is violated.

* `awrk.spawn` with a `Parent`, `component_mut`, `WorldEntityMut::get_mut` and a mutating `iter` log
  events with the parent of before the write, or none (`feed_parents`).
* A restarted process answers the cursor of an old client with "nothing new" (`follower_restarts`).
* `docs/process.md` says that duplicate procedure names and invalid schema registrations fail fast. A procedure registered again by its
  own name replaces the handler in silence, and only the schema that is there when `Process::new` ends is validated: a later registration
  that clashes with it succeeds, and from then on `awrk.get_schema` fails for good (`process_duplicates`).

Others that no run is about: the UI keeps an entity whose revision is unchanged with the parent it had, so
that the tree of the worker and the parents shown differ until it changes again; after a write that a timeout cut short the client of a Unix system
writes its next call into the frame that was begun, and the server may take it for the rest of that frame; after a read that timed out
it stays on its connection too (`WouldBlock`, `client.rs:454`), where every later call finds the answer of an earlier one and fails with "response id mismatch", although the
connection and the server are sound (`AnswerIsOwn` is that none takes it for its own); the `RefreshDone` of one refresh follows its `Refreshed`, so that it clears
the flag of the next refresh when that was asked for in between; a comment in `app.rs` (549-550) says that expanding a node requests a refresh immediately, but `request_refresh` drops the request
while a refresh is in flight and nothing makes it later, so that with Auto off the children's details wait for the user to ask again, as they do for the parent of an
entity that was spawned; a window that is spawned by `awrk.spawn` without a handle
is not announced when it is opened, and if a client writes the handle later the window is listed, and its changes and its end are in the feed, without it ever having been created there
(nothing in the repository says that the feed is complete, so that the properties are about the windows announced); the same is so of the windows that are open when a client removes the log; after a change of target or a restart
the UI may show, for as long as the revisions are equal, what it fetched of an entity of the former process under the same handle (nothing in the repository speaks of this either); the `now` of a window poll is one behind, and a limit of 0 says
there is more for ever; the encoder nests containers to any depth and the decoder of the other side refuses
them beyond 64, which `RoundTrip` states as the code has it.

Of types and registrations: a component registered again as opaque loses its handlers and keeps its capabilities, so that
a client is told it may write what then fails with an internal error; `awrk.list_procedures` never shows what was
registered after that; a field may be given by its name at the top of a struct but not further in; and `Some(None)`
is read back as `None`, so that options of options are not among the types of the runs.

## Not modelled

The widgets and forms of the explorer, its traces, the viewer and the examples keep no state that others
rely on, or only draw. The text form of values (`text.rs`) is layout. Resources of a process are a map that only its own program
uses. The octets of a schema and the hash behind ids are abstracted. `RpcRegistry` without a context repeats
`RpcRegistryWithCtx`. The explorer's worker reports a removal as failed because it decodes the answer as another type
(`worker.rs:391`): what it reports of a command is left open in `ExplorerQueue`. `PROJECT.json` lists each part with its reason.

## Plan

Modelled, and proved but for liveness: the log, the world and its follower, queries, the type registry, the process and its schema, the explorer's worker
and queue, the RPC transport, the window host, and datex from octets to types. Next, in this order:

1. The other commands of the worker with the decoding of their answers, and `FollowerRestarts` with the merge of the UI, which a change of target has already.
2. Titles and sizes in `WinHost`.
