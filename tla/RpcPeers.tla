------------------------------ MODULE RpcPeers ------------------------------
(***************************************************************************)
(* The server of RpcSession with clients of any make: they keep to the     *)
(* frame format, but send what they like, repeat ids, do not wait for      *)
(* answers, stop in the middle of a frame and go away at any time.         *)
(***************************************************************************)
EXTENDS RpcSession, FiniteSets

CONSTANTS
    Ids,        \* message ids the clients use
    MaxFrames   \* bound: frames sent on one connection

ASSUME IdsAssumption == Ids \subseteq Nat

VARIABLE sent   \* history: the frames sent on each connection

peersVars == <<serverVars, sent>>

PeersTypeOK ==
    /\ SessionTypeOK
    /\ sent \in [Connections -> Seq(Requests)]

PeersInit ==
    /\ SessionInit
    /\ sent = [c \in Connections |-> <<>>]

----------------------------------------------------------------------------

Dial(c) ==
    /\ peer[c] = "unused"
    /\ peer' = [peer EXCEPT ![c] = "open"]
    /\ backlog' = Append(backlog, c)
    /\ UNCHANGED <<up, down, buffers, sessions, unread, reading, sent>>

Send(c, request) ==
    /\ peer[c] = "open" /\ Served(c) /\ Len(sent[c]) < MaxFrames
    /\ up' = [up EXCEPT ![c] = @ \o Bytes(request)]
    /\ sent' = [sent EXCEPT ![c] = Append(@, request)]
    /\ UNCHANGED <<peer, down, buffers, turn>>

\* The client goes away, perhaps in the middle of a frame.
Close(c) ==
    /\ peer[c] = "open"
    /\ peer' = [peer EXCEPT ![c] = "closed"]
    /\ \/ UNCHANGED up
       \/ \E id \in Ids : up' = [up EXCEPT ![c] = Append(@, Bytes([kind |-> "invoke", id |-> id])[1])]
    /\ UNCHANGED <<down, buffers, turn, sent>>

\* The connection breaks, or the client is gone when an answer reaches it.
Reset(c) ==
    /\ peer[c] \in {"open", "closed"}
    /\ peer' = [peer EXCEPT ![c] = "reset"]
    /\ UNCHANGED <<up, down, buffers, turn, sent>>

Peers ==
    \E c \in Connections :
        \/ Dial(c) \/ Close(c) \/ Reset(c)
        \/ \E id \in Ids : Send(c, [kind |-> "invoke", id |-> id])
        \/ \E kind \in {"other", "large"} : Send(c, [kind |-> kind, id |-> 0])

PeersNext == (Server /\ UNCHANGED sent) \/ Peers

PeersSpec == PeersInit /\ [][PeersNext]_peersVars

\* The process ticks for ever, accepts what waits and TCP delivers what was
\* written, in the end.
FairPeersSpec ==
    /\ PeersSpec
    /\ WF_peersVars(Server /\ UNCHANGED sent)
    /\ SF_peersVars(Accept /\ backlog' = <<>> /\ UNCHANGED sent)
    /\ \A c \in Connections :
         SF_peersVars(PollRead /\ Current = c /\ rx'[c] = Len(up[c]) /\ UNCHANGED sent)

----------------------------------------------------------------------------

\* The ids of the invocations among frames, in their order.
Invocations(frames) ==
    LET among[n \in 0 .. Len(frames)] ==
          IF n = 0 THEN <<>>
          ELSE IF frames[n].kind = "invoke" THEN Append(among[n - 1], frames[n].id)
          ELSE among[n - 1]
    IN  among[Len(frames)]

\* The frames that pieces make up, whole ones only.
FramesOf(pieces) == [i \in 1 .. (Len(pieces) \div 2) |-> pieces[2 * i].of]

\* A stream that its reader never gets out of step with: each length is that of the
\* payload behind it, and only the last may lack one.
Framed(pieces) ==
    \A i \in 1 .. Len(pieces) :
        /\ 2 * i - 1 <= Len(pieces) => pieces[2 * i - 1].part = "length"
        /\ 2 * i <= Len(pieces) =>
              pieces[2 * i] = [pieces[2 * i - 1] EXCEPT !.part = "payload"]

\* The ids of the answers written on c, delivered or not.
AnsweredIds(c) == [i \in DOMAIN FramesOf(down[c]) |-> FramesOf(down[c])[i].id]

\* As long as the server holds a connection, both of its streams are in frame, and
\* every invocation sent on it is either answered, in the order of the invocations
\* and once for each time it was sent, or still in the stream: handle_message, write
\* and flush_write lose and repeat nothing, whatever part the socket takes.
AnswersInOrder ==
    \A c \in Connections :
        Served(c) =>
            /\ Framed(up[c]) /\ Framed(down[c])
            /\ Invocations(sent[c]) = AnsweredIds(c) \o Invocations(FramesOf(up[c]))

\* An id that is sent again runs again only when MaxEntries other calls ran in
\* between (the cache of invoke results).
RunsAgainOnlyWhenForgotten ==
    \A c \in Connections :
        \A i, j \in DOMAIN ran[c] :
            i < j /\ ran[c][i] = ran[c][j] =>
                Cardinality({ran[c][k] : k \in (i + 1) .. (j - 1)}) >= MaxEntries

\* The ids of the invocations on their way to the server that no frame too large
\* comes before.
Due(c) ==
    LET frames == FramesOf(up[c])
    IN  {frames[i].id : i \in {i \in DOMAIN frames :
            /\ frames[i].kind = "invoke"
            /\ \A j \in 1 .. i : frames[j].kind # "large"}}

\* Every invocation has run in the end, also those of a client that has closed
\* its end, unless the connection breaks (read_sessions: the frames read are
\* handled before the session of a closed connection is dropped).
InvocationsServed ==
    \A c \in Connections, id \in Ids :
        (peer[c] # "unused" /\ id \in Due(c)) ~> (peer[c] = "reset" \/ id \in Range(ran[c]))
=============================================================================
