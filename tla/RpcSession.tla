----------------------------- MODULE RpcSession -----------------------------
(***************************************************************************)
(* The server's half of the RPC transport: Sessions of                     *)
(* crates/world/src/core/process.rs and Session of                         *)
(* crates/world/src/transport/session.rs.                                  *)
(*                                                                         *)
(* A connection is a TCP stream each way.  A frame travels as two pieces,  *)
(* its length and its payload, since a reader may stop between them and a  *)
(* writer may fail between them; a cut anywhere else amounts to one of     *)
(* these.  up holds the pieces the client wrote and the server has not     *)
(* made a frame of, the first rx of them in rx_buf already; down those the *)
(* server wrote and the client has not read, the last tx of them still in  *)
(* tx_buf.                                                                 *)
(*                                                                         *)
(* This module has the server's actions; RpcPeers and RpcClient give it    *)
(* clients.  An answer always encodes: handle_invoke fails only on strings *)
(* of more than 4 GiB, and a handler's own error is an answer like another.*)
(***************************************************************************)
EXTENDS Naturals, Sequences, SequencesExt

CONSTANTS
    Connections,   \* connections that are ever opened
    MaxEntries     \* MAX_ENTRIES of cache_invoke_result

ASSUME MaxEntriesAssumption == MaxEntries \in Nat \ {0}

VARIABLES
    peer,      \* the client's end of each connection
    up, rx,    \* client to server, and how many pieces of it are in rx_buf
    down, tx,  \* server to client, and how many pieces of it are in tx_buf
    cache,     \* Session.invoke_result_cache in the order of invoke_result_order
    ran,       \* history: the ids of the calls each connection had run
    backlog,   \* connections the listener has not accepted
    sessions,  \* Sessions.sessions, less those taken out and not kept yet
    unread,    \* the sessions read_sessions has yet to do in this tick
    reading    \* what it does with the first of them

wires == <<peer, up, down>>
buffers == <<rx, tx, cache, ran>>
turn == <<backlog, sessions, unread, reading>>
serverVars == <<wires, buffers, turn>>

\* An invocation; an envelope that does not decode, or an InvokeResult, which
\* are both passed over; a frame beyond WORLD_MAX_FRAME_SIZE.
Requests == [kind : {"invoke", "other", "large"}, id : Nat]

\* by is the connection on which the call ran that the answer is of: it stands
\* for the answer's content.  large: beyond WORLD_MAX_FRAME_SIZE, which the
\* server does not check when it writes.
Answers == [id : Nat, by : Connections, large : BOOLEAN]

Pieces(frames) == [part : {"length", "payload"}, of : frames]

Bytes(frame) ==
    << [part |-> "length", of |-> frame], [part |-> "payload", of |-> frame] >>

SessionTypeOK ==
    /\ peer \in [Connections -> {"unused", "open", "closed", "reset"}]
    /\ up \in [Connections -> Seq(Pieces(Requests))]
    /\ down \in [Connections -> Seq(Pieces(Answers))]
    /\ rx \in [Connections -> Nat] /\ \A c \in Connections : rx[c] <= Len(up[c])
    /\ tx \in [Connections -> Nat] /\ \A c \in Connections : tx[c] <= Len(down[c])
    /\ cache \in [Connections -> Seq(Answers)]
    /\ \A c \in Connections : Len(cache[c]) <= MaxEntries
    /\ ran \in [Connections -> Seq(Nat)]
    /\ backlog \in Seq(Connections)
    /\ sessions \in Seq(Connections)
    /\ unread \in Seq(Connections)
    /\ reading \in {"poll", "frames", "last"}

SessionInit ==
    /\ peer = [c \in Connections |-> "unused"]
    /\ up = [c \in Connections |-> <<>>] /\ rx = [c \in Connections |-> 0]
    /\ down = [c \in Connections |-> <<>>] /\ tx = [c \in Connections |-> 0]
    /\ cache = [c \in Connections |-> <<>>]
    /\ ran = [c \in Connections |-> <<>>]
    /\ backlog = <<>> /\ sessions = <<>> /\ unread = <<>>
    /\ reading = "poll"

----------------------------------------------------------------------------
(* Cutting frames out of a stream.                                         *)

\* Of the first n pieces of a stream: a whole frame at its head.
FrameArrived(stream, n) ==
    n >= 2 /\ stream[1].part = "length" /\ stream[2].part = "payload"

\* Its reader takes something else for a length or a payload: the stream began
\* in the middle of a frame, or the first frame was never finished.
OutOfFrame(stream, n) ==
    \/ n >= 1 /\ stream[1].part = "payload"
    \/ n >= 2 /\ stream[2].part = "length"

\* try_read_frame on a length it does not accept.
TooLarge(stream, n) ==
    n >= 1 /\ stream[1].part = "length" /\ stream[1].of.kind = "large"

\* What is left of a stream once its first n pieces are consumed.
Rest(stream, n) == SubSeq(stream, n + 1, Len(stream))

\* The server still holds the connection.
Served(c) == \E s \in {backlog, sessions, unread} : c \in Range(s)

----------------------------------------------------------------------------
(* Sessions::handle: one tick accepts what is waiting, then takes the      *)
(* sessions one after the other.                                           *)

Current == Head(unread)

\* accept_sessions, until nothing waits or an accept fails, then mem::take of
\* self.sessions: a tick, also one with nothing to do.
Accept ==
    /\ unread = <<>>
    /\ \E n \in 0 .. Len(backlog) :
         /\ unread' = sessions \o SubSeq(backlog, 1, n)
         /\ backlog' = Rest(backlog, n)
    /\ sessions' = <<>>
    /\ reading' = "poll"
    /\ UNCHANGED <<wires, buffers>>

NextSession ==
    /\ unread' = Tail(unread)
    /\ reading' = "poll"
    /\ UNCHANGED backlog

\* keep is false: the Session is dropped, and with it what it had read and what
\* it had not written.
Drop(c) ==
    /\ NextSession
    /\ up' = [up EXCEPT ![c] = <<>>]
    /\ rx' = [rx EXCEPT ![c] = 0]
    /\ down' = [down EXCEPT ![c] = SubSeq(@, 1, Len(@) - tx[c])]
    /\ tx' = [tx EXCEPT ![c] = 0]
    /\ cache' = [cache EXCEPT ![c] = <<>>]
    /\ UNCHANGED <<peer, ran, sessions>>

\* poll_read: whatever has arrived; the end of the stream is seen once all of it
\* has been read.
PollRead ==
    /\ unread # <<>> /\ reading = "poll" /\ peer[Current] # "reset"
    /\ \E n \in rx[Current] .. Len(up[Current]) :
         /\ rx' = [rx EXCEPT ![Current] = n]
         /\ reading' = IF peer[Current] = "closed" /\ n = Len(up[Current])
                       THEN "last" ELSE "frames"
    /\ UNCHANGED <<wires, tx, cache, ran, backlog, sessions, unread>>

\* poll_read fails: the session goes with the frames it may have read already.
PollReadFails ==
    /\ unread # <<>> /\ reading = "poll" /\ peer[Current] = "reset"
    /\ Drop(Current)

AtFrame ==
    /\ unread # <<>> /\ reading # "poll"
    /\ FrameArrived(up[Current], rx[Current])
    /\ ~TooLarge(up[Current], rx[Current])

Consume(c, n) ==
    /\ up' = [up EXCEPT ![c] = Rest(@, n)]
    /\ rx' = [rx EXCEPT ![c] = @ - n]

\* The envelope is in the payload.
Request == up[Current][2].of

\* handle_message passes over what is not an invocation.
PassOver ==
    /\ AtFrame /\ Request.kind = "other"
    /\ Consume(Current, 2)
    /\ UNCHANGED <<peer, down, tx, cache, ran, turn>>

\* Mutated form: what the socket did not take is forgotten.
MutFlush(c, pending) ==
    \E n \in 0 .. Len(pending) :
        /\ down' = [down EXCEPT ![c] = SubSeq(@, 1, Len(@) - tx[c]) \o SubSeq(pending, 1, n)]
        /\ tx' = [tx EXCEPT ![c] = 0]

\* flush_write of all that is in tx_buf: the socket may take only part of it.
Flush(c, pending) ==
    \E n \in 0 .. Len(pending) :
        /\ down' = [down EXCEPT ![c] = SubSeq(@, 1, Len(@) - tx[c]) \o pending]
        /\ tx' = [tx EXCEPT ![c] = n]

\* What is in tx_buf.
Pending(c) == Rest(down[c], Len(down[c]) - tx[c])

\* Session::write.
Write(c, answer) == Flush(c, Pending(c) \o Bytes(answer))

\* cloned_cached_invoke_result.
Cached(c, id) == {a \in Range(cache[c]) : a.id = id}

\* Mutated form: an entry is forgotten as soon as the cache is full.
MutRemember(c, answer) ==
    cache' = [cache EXCEPT ![c] =
                IF Len(@) + 1 >= MaxEntries THEN Tail(Append(@, answer)) ELSE Append(@, answer)]

\* cache_invoke_result, for an id that is not in the cache.
Remember(c, answer) ==
    cache' = [cache EXCEPT ![c] =
                IF Len(@) = MaxEntries THEN Tail(Append(@, answer)) ELSE Append(@, answer)]

\* handle_message of an id whose answer is in the cache: it is sent again.
ServeAgain ==
    /\ AtFrame /\ Request.kind = "invoke"
    /\ \E answer \in Cached(Current, Request.id) :
         Write(Current, answer)
    /\ Consume(Current, 2)
    /\ UNCHANGED <<peer, cache, ran, turn>>

\* handle_message of an invocation: the call runs, and its answer is cached and
\* sent.
Serve ==
    /\ AtFrame /\ Request.kind = "invoke"
    /\ Cached(Current, Request.id) = {}
    /\ ran' = [ran EXCEPT ![Current] = Append(@, Request.id)]
    /\ \E large \in BOOLEAN :
         LET answer == [id |-> Request.id, by |-> Current, large |-> large]
         IN  Remember(Current, answer) /\ Write(Current, answer)
    /\ Consume(Current, 2)
    /\ UNCHANGED <<peer, turn>>

\* The session goes when a frame is too large.
FrameTooLarge ==
    /\ unread # <<>> /\ reading # "poll"
    /\ TooLarge(up[Current], rx[Current])
    /\ Drop(Current)

\* Out of frame, some bytes are taken for a length: for one that is too large,
\* or for one that makes a frame of what follows, which does not decode.
ReadGarbage ==
    /\ unread # <<>> /\ reading # "poll"
    /\ OutOfFrame(up[Current], rx[Current])
    /\ ~TooLarge(up[Current], rx[Current])
    /\ \/ Drop(Current)
       \/ /\ \E n \in 1 .. rx[Current] :
               /\ up[Current][1].part = "length" => n >= 2
               /\ Consume(Current, n)
          /\ UNCHANGED <<peer, down, tx, cache, ran, turn>>

\* Nothing more to cut out of what was read.
OutOfFrames ==
    /\ unread # <<>>
    /\ ~FrameArrived(up[Current], rx[Current])
    /\ ~TooLarge(up[Current], rx[Current])

\* What is left of an answer is tried again, and the session is kept.
Keep ==
    /\ reading = "frames" /\ OutOfFrames
    /\ Flush(Current, Pending(Current))
    /\ sessions' = Append(sessions, Current)
    /\ NextSession
    /\ UNCHANGED <<peer, up, rx, cache, ran>>

\* Mutated form: a session at end of file goes with the frames it has read.
MutDropAtEof ==
    /\ unread # <<>> /\ reading = "last"
    /\ Drop(Current)

\* End of file: the session goes once its frames are handled.
DropAtEof ==
    /\ reading = "last" /\ OutOfFrames
    /\ Drop(Current)

Server ==
    \/ Accept \/ PollRead \/ PollReadFails
    \/ PassOver \/ ServeAgain \/ Serve \/ FrameTooLarge \/ ReadGarbage
    \/ Keep \/ DropAtEof
=============================================================================
