----------------------------- MODULE RpcClient -----------------------------
(***************************************************************************)
(* ProcessClient of crates/world/src/rpc/client.rs against the server of   *)
(* RpcSession.                                                             *)
(*                                                                         *)
(* A client makes one call at a time: it writes a frame, reads a frame and *)
(* takes it for the answer when it bears the id of the call.  A failed     *)
(* write is tried once more on a new connection; a failed read is not, but *)
(* may leave a new connection for the next call.  Ids count up over all    *)
(* connections of a client; each client counts from 1.                     *)
(*                                                                         *)
(* A process that dies and starts again is a server whose connections all  *)
(* break.  Calls whose arguments do not encode end before anything is      *)
(* sent, and frames beyond WORLD_MAX_FRAME_SIZE, which this client may     *)
(* send, are in RpcPeers.                                                  *)
(***************************************************************************)
EXTENDS RpcSession, FiniteSets

CONSTANTS
    Clients,
    NoClient,       \* owner of a connection not opened yet
    NoConnection,   \* stream of a client not connected yet
    Timeouts,       \* ErrorKinds of an expired io_timeout: WouldBlock on Unix,
                    \* TimedOut on Windows
    MaxCalls        \* bound: calls of one client

ASSUME NoClientAssumption == NoClient \notin Clients
ASSUME NoConnectionAssumption == NoConnection \notin Connections
ASSUME TimeoutsAssumption == Timeouts \subseteq {"WouldBlock", "TimedOut"}
ASSUME MaxCallsAssumption == MaxCalls \in Nat

VARIABLES
    owner,     \* the client that opened a connection
    stream,    \* ProcessClient.stream
    nextId,    \* ProcessClient.next_id
    calling,   \* where invoke_value is
    accepted   \* the last call that got an answer, and the answer

clientVars == <<owner, stream, nextId, calling, accepted>>
allVars == <<serverVars, clientVars>>

\* Ids start at 1: id 0 is no answer.
NoAnswer == [call |-> 0, id |-> 0, by |-> NoConnection]

ClientTypeOK ==
    /\ SessionTypeOK
    /\ owner \in [Connections -> Clients \cup {NoClient}]
    /\ stream \in [Clients -> Connections \cup {NoConnection}]
    /\ nextId \in [Clients -> Nat \ {0}]
    /\ calling \in [Clients -> {"off", "idle", "write", "resend", "read"}]
    /\ accepted \in [Clients -> [call : Nat, id : Nat, by : Connections \cup {NoConnection}]]
    /\ \A cl \in Clients : calling[cl] # "off" => stream[cl] \in Connections

ClientInit ==
    /\ SessionInit
    /\ owner = [c \in Connections |-> NoClient]
    /\ stream = [cl \in Clients |-> NoConnection]
    /\ nextId = [cl \in Clients |-> 1]
    /\ calling = [cl \in Clients |-> "off"]
    /\ accepted = [cl \in Clients |-> NoAnswer]

----------------------------------------------------------------------------

\* The id of the call under way.
Id(cl) == nextId[cl] - 1

Invocation(cl) == [kind |-> "invoke", id |-> Id(cl)]

\* What has reached the client of connection c.
Arrived(c) == Len(down[c]) - tx[c]

\* The system reports the connection as gone: BrokenPipe, ConnectionReset, ...
Broken(c) == peer[c] = "reset" \/ ~Served(c)

\* What is_reconnectable_io_error lets the client replace its connection for.
Reconnectable(cl) == Broken(stream[cl]) \/ "TimedOut" \in Timeouts

\* An error that leaves the client its connection.
Lasting(cl) == "WouldBlock" \in Timeouts

Then(cl, state) == calling' = [calling EXCEPT ![cl] = state]

\* The connection that c replaces, if any, is closed as it is dropped.
Opens(cl, c) ==
    /\ peer[c] = "unused"
    /\ peer' = [d \in Connections |->
                  IF d = c THEN "open"
                  ELSE IF d = stream[cl] /\ peer[d] = "open" THEN "closed"
                  ELSE peer[d]]
    /\ backlog' = Append(backlog, c)
    /\ owner' = [owner EXCEPT ![c] = cl]
    /\ stream' = [stream EXCEPT ![cl] = c]
    /\ UNCHANGED <<sessions, unread, reading>>

KeepsStream == UNCHANGED <<peer, turn, owner, stream>>

\* ProcessClient::connect.
Connect(cl) ==
    /\ calling[cl] = "off"
    /\ \E c \in Connections : Opens(cl, c)
    /\ Then(cl, "idle")
    /\ UNCHANGED <<up, down, buffers, nextId, accepted>>

\* invoke_value takes the next id and encodes the call.
Invoke(cl) ==
    /\ calling[cl] = "idle" /\ nextId[cl] <= MaxCalls
    /\ nextId' = [nextId EXCEPT ![cl] = @ + 1]
    /\ Then(cl, "write")
    /\ UNCHANGED <<serverVars, owner, stream, accepted>>

\* write_frame succeeds: the system has taken the whole frame.
WriteFrame(cl) ==
    /\ calling[cl] \in {"write", "resend"}
    /\ up' = [up EXCEPT ![stream[cl]] = @ \o Bytes(Invocation(cl))]
    /\ Then(cl, "read")
    /\ UNCHANGED <<peer, down, buffers, turn, nextId, owner, stream, accepted>>

\* write_frame fails, with the length taken or not, never the whole frame.
WritesPart(cl) ==
    \/ UNCHANGED up
    \/ up' = [up EXCEPT ![stream[cl]] = Append(@, Bytes(Invocation(cl))[1])]

\* The first write fails for good: the call goes to a new connection.
Resend(cl) ==
    /\ calling[cl] = "write" /\ Reconnectable(cl)
    /\ WritesPart(cl)
    /\ \E c \in Connections : Opens(cl, c)
    /\ Then(cl, "resend")
    /\ UNCHANGED <<down, buffers, nextId, accepted>>

\* A write fails and the call ends: it was the second, or connecting failed, or
\* the error is not one to reconnect for.
WriteFails(cl) ==
    /\ calling[cl] \in {"write", "resend"}
    /\ Reconnectable(cl) \/ Lasting(cl)
    /\ WritesPart(cl)
    /\ KeepsStream
    /\ Then(cl, "idle")
    /\ UNCHANGED <<down, buffers, nextId, accepted>>

\* The client reads n pieces and the call ends.
Reads(cl, n) ==
    /\ down' = [down EXCEPT ![stream[cl]] = Rest(@, n)]
    /\ Then(cl, "idle")
    /\ UNCHANGED <<up, buffers, nextId>>

AnswerTooLarge(cl) ==
    /\ Arrived(stream[cl]) >= 1
    /\ down[stream[cl]][1].part = "length" /\ down[stream[cl]][1].of.large

AnswerArrived(cl) ==
    /\ calling[cl] = "read"
    /\ FrameArrived(down[stream[cl]], Arrived(stream[cl]))
    /\ ~AnswerTooLarge(cl)

\* The InvokeResult is in the payload.
Answer(cl) == down[stream[cl]][2].of

Returns(cl) ==
    accepted' = [accepted EXCEPT ![cl] =
                    [call |-> Id(cl), id |-> Answer(cl).id, by |-> Answer(cl).by]]

\* Mutated form: the id of the answer is not looked at.
MutTakeAnswer(cl) ==
    /\ AnswerArrived(cl)
    /\ Returns(cl)
    /\ Reads(cl, 2) /\ KeepsStream

\* An InvokeResult with the id of the call: its value, or its error, is
\* returned.
TakeAnswer(cl) ==
    /\ AnswerArrived(cl)
    /\ Answer(cl).id = Id(cl)
    /\ Returns(cl)
    /\ Reads(cl, 2) /\ KeepsStream

\* "response id mismatch".
Mismatch(cl) ==
    /\ AnswerArrived(cl)
    /\ Answer(cl).id # Id(cl)
    /\ Reads(cl, 2) /\ KeepsStream
    /\ UNCHANGED accepted

\* read_frame refuses the length, and leaves the payload in the stream.
RefuseAnswer(cl) ==
    /\ calling[cl] = "read" /\ AnswerTooLarge(cl)
    /\ Reads(cl, 1) /\ KeepsStream
    /\ UNCHANGED accepted

\* Out of frame, what is read is no length, or no InvokeResult.
MisreadAnswer(cl) ==
    /\ calling[cl] = "read"
    /\ OutOfFrame(down[stream[cl]], Arrived(stream[cl]))
    /\ \E n \in 1 .. Arrived(stream[cl]) : Reads(cl, n)
    /\ KeepsStream
    /\ UNCHANGED accepted

\* The length has arrived and nothing after it.
ReadsPart(cl) ==
    \E n \in 0 .. 1 : n <= Arrived(stream[cl]) /\ Reads(cl, n)

\* Mutated form: a call whose answer could not be read is sent again.
MutReadFails(cl) ==
    /\ calling[cl] = "read" /\ Reconnectable(cl)
    /\ ReadsPart(cl) \/ (UNCHANGED <<down, buffers, up, nextId>> /\ Then(cl, "resend"))
    /\ KeepsStream \/ \E c \in Connections : Opens(cl, c)
    /\ UNCHANGED accepted

\* read_frame fails for good: a new connection, if there is one to be had, but
\* the call is not sent again.
ReadFails(cl) ==
    /\ calling[cl] = "read" /\ Reconnectable(cl)
    /\ ReadsPart(cl)
    /\ KeepsStream \/ \E c \in Connections : Opens(cl, c)
    /\ UNCHANGED accepted

\* read_frame fails with WouldBlock: the call ends and the client stays on the
\* connection.
ReadTimesOut(cl) ==
    /\ calling[cl] = "read" /\ Lasting(cl)
    /\ ReadsPart(cl)
    /\ KeepsStream
    /\ UNCHANGED accepted

Step(cl) ==
    \/ WriteFrame(cl) \/ Resend(cl) \/ WriteFails(cl)
    \/ TakeAnswer(cl) \/ Mismatch(cl) \/ RefuseAnswer(cl) \/ MisreadAnswer(cl)
    \/ ReadFails(cl) \/ ReadTimesOut(cl)

\* What a call does when no timeout expires.
Untimed(cl) ==
    \/ WriteFrame(cl)
    \/ TakeAnswer(cl) \/ Mismatch(cl) \/ RefuseAnswer(cl) \/ MisreadAnswer(cl)
    \/ /\ stream[cl] # NoConnection /\ Broken(stream[cl])
       /\ Resend(cl) \/ WriteFails(cl) \/ ReadFails(cl)

Break(c) ==
    /\ peer[c] \in {"open", "closed"}
    /\ peer' = [peer EXCEPT ![c] = "reset"]
    /\ UNCHANGED <<up, down, buffers, turn, clientVars>>

ClientNext ==
    \/ Server /\ UNCHANGED clientVars
    \/ \E cl \in Clients : Connect(cl) \/ Invoke(cl) \/ Step(cl)
    \/ \E c \in Connections : Break(c)

ClientSpec == ClientInit /\ [][ClientNext]_allVars

\* The process ticks for ever; in the end it accepts what waits, and TCP delivers
\* what was written and takes what is to be written; write and read return when
\* there is something to write to or to read.
FairClientSpec ==
    /\ ClientSpec
    /\ WF_allVars(Server /\ UNCHANGED clientVars)
    /\ SF_allVars(Accept /\ backlog' = <<>> /\ UNCHANGED clientVars)
    /\ \A c \in Connections :
         /\ SF_allVars(PollRead /\ Current = c /\ rx'[c] = Len(up[c]) /\ UNCHANGED clientVars)
         /\ SF_allVars(Keep /\ Current = c /\ tx'[c] = 0 /\ UNCHANGED clientVars)
    /\ \A cl \in Clients : WF_allVars(Untimed(cl))

----------------------------------------------------------------------------

\* A call runs at most once, whatever is sent again, on which connection and
\* however late the server gets to it (invoke_value resends, handle_message runs).
AtMostOnce ==
    \A c, d \in Connections : owner[c] = owner[d] =>
        \A i \in DOMAIN ran[c], j \in DOMAIN ran[d] :
            ran[c][i] = ran[d][j] => c = d /\ i = j

\* An answer that a client takes is of its own call, which has run: not of
\* another client that counts the same ids, nor of an earlier call.
AnswerIsOwn ==
    \A cl \in Clients :
        accepted[cl] # NoAnswer =>
            /\ accepted[cl].id = accepted[cl].call
            /\ owner[accepted[cl].by] = cl
            /\ accepted[cl].id \in Range(ran[accepted[cl].by])

\* The runs of a client's call, by connection and place.
RunsOf(cl, n) ==
    UNION {{<<c, i>> : i \in {i \in DOMAIN ran[c] : ran[c][i] = n}} :
              c \in {c \in Connections : owner[c] = cl}}

Asked == [cl \in Clients |-> Id(cl)]
Waiting == {cl \in Clients : calling[cl] \in {"write", "resend", "read"}}
Runs == [cl \in Clients |-> [n \in 1 .. MaxCalls |-> Cardinality(RunsOf(cl, n))]]
Answered == [cl \in Clients |-> accepted[cl].call]

R == INSTANCE RemoteCalls WITH
        asked <- Asked, waiting <- Waiting, runs <- Runs, answered <- Answered

\* Whatever connections, sessions and caches do, the caller of invoke_value sees calls
\* that run at most once, also when they failed, and answers of calls that ran.
ImplementsRemoteCalls == R!Spec

\* What is on its way on c are whole frames.
InFrame(c) ==
    /\ Len(up[c]) % 2 = 0
    /\ \A i \in DOMAIN up[c] : up[c][i].part = "length" <=> i % 2 = 1

\* A call that starts on whole frames ends, even if no timeout expires: the server
\* answers what it reads and writes all of it, and what it drops the client sees
\* broken.  (After a write cut short by a timeout the call may be taken for the
\* rest of the frame before it, and wait for ever.)
CallsEnd ==
    \A cl \in Clients :
        calling[cl] \in {"write", "resend"} /\ InFrame(stream[cl])
            ~> calling[cl] = "idle"
=============================================================================
