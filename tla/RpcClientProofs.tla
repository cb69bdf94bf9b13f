-------------------------- MODULE RpcClientProofs --------------------------
(***************************************************************************)
(* A call of a ProcessClient runs at most once, the answer it returns is   *)
(* its own, and so it does what RemoteCalls promises: for every number of  *)
(* clients, connections, calls and cached answers.                         *)
(***************************************************************************)
EXTENDS RpcClient, RpcPeersProofs

\* A client replaces its connection, or does not.
LEMMA OpensTyped ==
    ASSUME ClientTypeOK, NEW cl \in Clients, NEW c \in Connections, Opens(cl, c)
    PROVE  /\ peer' \in [Connections -> {"unused", "open", "closed", "reset"}]
           /\ backlog' \in Seq(Connections)
           /\ owner' \in [Connections -> Clients \cup {NoClient}]
           /\ stream' \in [Clients -> Connections \cup {NoConnection}]
           /\ stream'[cl] = c
           /\ \A other \in Clients : other # cl => stream'[other] = stream[other]
           /\ UNCHANGED <<sessions, unread, reading>>
<1>1. /\ peer \in [Connections -> {"unused", "open", "closed", "reset"}]
      /\ backlog \in Seq(Connections)
      /\ owner \in [Connections -> Clients \cup {NoClient}]
      /\ stream \in [Clients -> Connections \cup {NoConnection}]
  BY DEF ClientTypeOK, SessionTypeOK
<1>2. peer' \in [Connections -> {"unused", "open", "closed", "reset"}]
  BY <1>1 DEF Opens
<1>3. backlog' \in Seq(Connections) BY <1>1 DEF Opens
<1>4. QED BY <1>1, <1>2, <1>3 DEF Opens

\* The client writes some pieces on its connection.
LEMMA AppendTyped ==
    ASSUME SessionTypeOK, NEW c \in Connections, NEW more \in Seq(Pieces(Requests)),
           up' = [up EXCEPT ![c] = @ \o more], UNCHANGED rx
    PROVE  /\ up' \in [Connections -> Seq(Pieces(Requests))]
           /\ \A d \in Connections : rx'[d] <= Len(up'[d])
<1>1. up[c] \in Seq(Pieces(Requests)) /\ rx[c] <= Len(up[c]) /\ rx[c] \in Nat
      /\ Len(up[c]) \in Nat
  BY TypesAt
<1>2. up[c] \o more \in Seq(Pieces(Requests)) /\ Len(up[c] \o more) = Len(up[c]) + Len(more)
      /\ Len(more) \in Nat
  BY <1>1
<1>3. up' \in [Connections -> Seq(Pieces(Requests))] BY <1>2 DEF SessionTypeOK
<1>4. ASSUME NEW d \in Connections PROVE rx'[d] <= Len(up'[d])
  <2>1. CASE d = c
    <3>1. up'[d] = up[c] \o more BY <2>1 DEF SessionTypeOK
    <3>2. QED BY <3>1, <2>1, <1>1, <1>2
  <2>2. CASE d # c BY <2>2, TypesAt DEF SessionTypeOK
  <2>3. QED BY <2>1, <2>2
<1>5. QED BY <1>3, <1>4

\* The frame of a call.
LEMMA InvocationTyped ==
    ASSUME ClientTypeOK, NEW cl \in Clients
    PROVE  /\ Id(cl) \in Nat
           /\ Invocation(cl) \in Requests
           /\ Bytes(Invocation(cl)) \in Seq(Pieces(Requests))
           /\ << Bytes(Invocation(cl))[1] >> \in Seq(Pieces(Requests))
<1>1. nextId[cl] \in Nat \ {0} BY DEF ClientTypeOK
<1>2. Id(cl) \in Nat BY <1>1 DEF Id
<1>3. Invocation(cl) \in Requests BY <1>2 DEF Invocation, Requests
<1>4. Bytes(Invocation(cl)) \in Seq(Pieces(Requests)) /\ Len(Bytes(Invocation(cl))) = 2
  BY <1>3, BytesOf
<1>5. Bytes(Invocation(cl))[1] \in Pieces(Requests) BY <1>4
<1>6. QED BY <1>2, <1>3, <1>4, <1>5

LEMMA WritesPartTyped ==
    ASSUME ClientTypeOK, NEW cl \in Clients, stream[cl] \in Connections,
           WritesPart(cl), UNCHANGED rx
    PROVE  /\ up' \in [Connections -> Seq(Pieces(Requests))]
           /\ \A d \in Connections : rx'[d] <= Len(up'[d])
<1> DEFINE c == stream[cl]
           piece == Bytes(Invocation(cl))[1]
<1>1. <<piece>> \in Seq(Pieces(Requests)) /\ c \in Connections BY InvocationTyped
<1>2. SessionTypeOK BY DEF ClientTypeOK
<1>3. CASE UNCHANGED up BY <1>2, <1>3 DEF SessionTypeOK
<1>4. CASE up' = [up EXCEPT ![c] = Append(@, piece)]
  <2> HIDE DEF c, piece
  <2>1. up[c] \in Seq(Pieces(Requests)) /\ piece \in Pieces(Requests) BY <1>1, <1>2, TypesAt
  <2>2. Append(up[c], piece) = up[c] \o <<piece>> BY <2>1
  <2>3. up' = [up EXCEPT ![c] = @ \o <<piece>>] BY <1>4, <2>2
  <2>4. QED BY <1>1, <1>2, <2>3, AppendTyped
<1>5. QED BY <1>3, <1>4 DEF WritesPart

\* The client reads some of what has arrived.
LEMMA ReadsTyped ==
    ASSUME SessionTypeOK, NEW cl \in Clients, NEW n \in Nat, stream[cl] \in Connections,
           n <= Arrived(stream[cl]), Reads(cl, n)
    PROVE  /\ down' \in [Connections -> Seq(Pieces(Answers))]
           /\ \A d \in Connections : tx'[d] <= Len(down'[d])
           /\ UNCHANGED <<up, rx, tx, cache, ran, nextId>>
           /\ calling' = [calling EXCEPT ![cl] = "idle"]
<1> DEFINE c == stream[cl]
<1>1. /\ c \in Connections /\ n <= Len(down[c]) - tx[c]
      /\ down' = [down EXCEPT ![c] = Rest(@, n)]
  BY DEF Reads, Arrived
<1>2. UNCHANGED <<up, rx, tx, cache, ran, nextId>> /\ calling' = [calling EXCEPT ![cl] = "idle"]
  BY DEF Reads, Then, buffers
<1> HIDE DEF c
<1>3. /\ down[c] \in Seq(Pieces(Answers)) /\ tx[c] \in Nat /\ Len(down[c]) \in Nat
      /\ tx[c] <= Len(down[c])
  BY <1>1, TypesAt
<1>4. n \in 0 .. Len(down[c]) BY <1>1, <1>3
<1>5. Rest(down[c], n) \in Seq(Pieces(Answers)) /\ Len(Rest(down[c], n)) = Len(down[c]) - n
  BY <1>3, <1>4, RestIsEnd
<1>6. down' \in [Connections -> Seq(Pieces(Answers))] BY <1>1, <1>5 DEF SessionTypeOK
<1>7. ASSUME NEW d \in Connections PROVE tx'[d] <= Len(down'[d])
  <2>1. CASE d = c
    <3>1. down'[d] = Rest(down[c], n) /\ tx'[d] = tx[c] BY <2>1, <1>1, <1>2 DEF SessionTypeOK
    <3>2. QED BY <3>1, <1>1, <1>3, <1>5
  <2>2. CASE d # c BY <2>2, <1>1, <1>2, TypesAt DEF SessionTypeOK
  <2>3. QED BY <2>1, <2>2
<1>8. QED BY <1>2, <1>6, <1>7

\* A step of a client that ends at the connection it has or at a new one.
LEMMA StreamTyped ==
    ASSUME ClientTypeOK, NEW cl \in Clients, calling[cl] # "off",
           KeepsStream \/ \E c \in Connections : Opens(cl, c)
    PROVE  /\ peer' \in [Connections -> {"unused", "open", "closed", "reset"}]
           /\ backlog' \in Seq(Connections)
           /\ owner' \in [Connections -> Clients \cup {NoClient}]
           /\ stream' \in [Clients -> Connections \cup {NoConnection}]
           /\ \A other \in Clients : calling[other] # "off" => stream'[other] \in Connections
           /\ UNCHANGED <<sessions, unread, reading>>
<1>1. CASE KeepsStream
  BY <1>1 DEF KeepsStream, turn, ClientTypeOK, SessionTypeOK
<1>2. CASE \E c \in Connections : Opens(cl, c)
  <2>1. PICK c \in Connections : Opens(cl, c) BY <1>2
  <2>2. ASSUME NEW other \in Clients, calling[other] # "off"
        PROVE  stream'[other] \in Connections
    <3>1. stream[other] \in Connections BY <2>2 DEF ClientTypeOK
    <3>2. QED BY <2>1, <3>1, OpensTyped
  <2>3. QED BY <2>1, <2>2, OpensTyped
<1>3. QED BY <1>1, <1>2

\* A call goes from one state of invoke_value to another.
LEMMA ThenTyped ==
    ASSUME ClientTypeOK, NEW cl \in Clients,
           NEW state \in {"idle", "write", "resend", "read"}, Then(cl, state)
    PROVE  /\ calling' \in [Clients -> {"off", "idle", "write", "resend", "read"}]
           /\ calling'[cl] = state
           /\ \A other \in Clients : other # cl => calling'[other] = calling[other]
  BY DEF ClientTypeOK, Then

\* Every step of a client keeps the types.
LEMMA StepTyped ==
    ASSUME ClientTypeOK, NEW cl \in Clients, Step(cl)
    PROVE  ClientTypeOK'
<1>1. calling[cl] # "off"
  BY DEF Step, WriteFrame, Resend, WriteFails, TakeAnswer, Mismatch, RefuseAnswer,
         MisreadAnswer, ReadFails, ReadTimesOut, AnswerArrived
<1>2. stream[cl] \in Connections /\ SessionTypeOK BY <1>1 DEF ClientTypeOK
<1>3. ASSUME calling[cl] = "read"
      PROVE  Arrived(stream[cl]) \in Nat
  BY <1>2, TypesAt DEF Arrived
<1>4. CASE WriteFrame(cl)
  <2> DEFINE c == stream[cl]
             more == Bytes(Invocation(cl))
  <2>1. more \in Seq(Pieces(Requests)) BY InvocationTyped
  <2>2. /\ up' = [up EXCEPT ![c] = @ \o more] /\ Then(cl, "read")
        /\ UNCHANGED <<peer, down, rx, tx, cache, ran, backlog, sessions, unread, reading,
                       nextId, owner, stream, accepted>>
    BY <1>4 DEF WriteFrame, buffers, turn
  <2> HIDE DEF c, more
  <2>3. c \in Connections BY <1>2 DEF c
  <2>4. /\ up' \in [Connections -> Seq(Pieces(Requests))]
        /\ \A d \in Connections : rx'[d] <= Len(up'[d])
    BY <1>2, <2>1, <2>2, <2>3, AppendTyped
  <2>5. QED BY <1>1, <2>2, <2>4, ThenTyped DEF ClientTypeOK, SessionTypeOK
<1>5. CASE Resend(cl)
  <2>1. /\ WritesPart(cl) /\ Then(cl, "resend") /\ \E c \in Connections : Opens(cl, c)
        /\ UNCHANGED <<down, rx, tx, cache, ran, nextId, accepted>>
    BY <1>5 DEF Resend, buffers
  <2>2. /\ up' \in [Connections -> Seq(Pieces(Requests))]
        /\ \A d \in Connections : rx'[d] <= Len(up'[d])
    BY <1>2, <2>1, WritesPartTyped
  <2>3. QED BY <1>1, <2>1, <2>2, StreamTyped, ThenTyped DEF ClientTypeOK, SessionTypeOK
<1>6. CASE WriteFails(cl)
  <2>1. /\ WritesPart(cl) /\ Then(cl, "idle") /\ KeepsStream
        /\ UNCHANGED <<down, rx, tx, cache, ran, nextId, accepted>>
    BY <1>6 DEF WriteFails, buffers
  <2>2. /\ up' \in [Connections -> Seq(Pieces(Requests))]
        /\ \A d \in Connections : rx'[d] <= Len(up'[d])
    BY <1>2, <2>1, WritesPartTyped
  <2>3. QED BY <1>1, <2>1, <2>2, StreamTyped, ThenTyped DEF ClientTypeOK, SessionTypeOK
<1>7. ASSUME NEW n \in Nat, n <= Arrived(stream[cl]), Reads(cl, n),
             accepted' \in [Clients -> [call : Nat, id : Nat, by : Connections \cup {NoConnection}]],
             KeepsStream \/ \E c \in Connections : Opens(cl, c)
      PROVE  ClientTypeOK'
  <2>1. Then(cl, "idle") BY <1>7 DEF Reads
  <2>2. /\ down' \in [Connections -> Seq(Pieces(Answers))]
        /\ \A d \in Connections : tx'[d] <= Len(down'[d])
        /\ UNCHANGED <<up, rx, tx, cache, ran, nextId>>
    BY <1>2, <1>7, ReadsTyped
  <2>3. QED BY <1>1, <1>7, <2>1, <2>2, StreamTyped, ThenTyped DEF ClientTypeOK, SessionTypeOK
<1>8. accepted \in [Clients -> [call : Nat, id : Nat, by : Connections \cup {NoConnection}]]
  BY DEF ClientTypeOK
<1>9. CASE TakeAnswer(cl)
  <2>1. /\ calling[cl] = "read" /\ Arrived(stream[cl]) >= 2
        /\ Returns(cl) /\ Reads(cl, 2) /\ KeepsStream
    BY <1>9 DEF TakeAnswer, AnswerArrived, FrameArrived
  <2>2. Answer(cl) \in Answers
    <3>1. /\ down[stream[cl]] \in Seq(Pieces(Answers)) /\ Len(down[stream[cl]]) >= 2
      BY <1>2, <2>1, TypesAt DEF Arrived
    <3>2. down[stream[cl]][2] \in Pieces(Answers) BY <3>1
    <3>3. QED BY <3>2 DEF Pieces, Answer
  <2>3. Id(cl) \in Nat BY InvocationTyped
  <2>4. accepted' \in [Clients -> [call : Nat, id : Nat, by : Connections \cup {NoConnection}]]
    BY <1>8, <2>1, <2>2, <2>3 DEF Returns, Answers
  <2>5. QED BY <1>3, <1>7, <2>1, <2>4
<1>10. CASE Mismatch(cl)
  <2>1. /\ calling[cl] = "read" /\ Arrived(stream[cl]) >= 2
        /\ accepted' = accepted /\ Reads(cl, 2) /\ KeepsStream
    BY <1>10 DEF Mismatch, AnswerArrived, FrameArrived
  <2>2. QED BY <1>3, <1>7, <1>8, <2>1
<1>11. CASE RefuseAnswer(cl)
  <2>1. /\ calling[cl] = "read" /\ Arrived(stream[cl]) >= 1
        /\ accepted' = accepted /\ Reads(cl, 1) /\ KeepsStream
    BY <1>11 DEF RefuseAnswer, AnswerTooLarge
  <2>2. QED BY <1>3, <1>7, <1>8, <2>1
<1>12. CASE MisreadAnswer(cl)
  <2>1. /\ calling[cl] = "read" /\ accepted' = accepted /\ KeepsStream
        /\ \E n \in 1 .. Arrived(stream[cl]) : Reads(cl, n)
    BY <1>12 DEF MisreadAnswer
  <2>2. QED BY <1>3, <1>7, <1>8, <2>1
<1>13. CASE ReadFails(cl) \/ ReadTimesOut(cl)
  <2>1. /\ calling[cl] = "read" /\ accepted' = accepted
        /\ \E n \in 0 .. 1 : n <= Arrived(stream[cl]) /\ Reads(cl, n)
        /\ KeepsStream \/ \E c \in Connections : Opens(cl, c)
    BY <1>13 DEF ReadFails, ReadTimesOut, ReadsPart
  <2>2. QED BY <1>7, <1>8, <2>1
<1>14. QED BY <1>4, <1>5, <1>6, <1>9, <1>10, <1>11, <1>12, <1>13 DEF Step

\* The whole specification keeps the types.
LEMMA NextTyped == ClientTypeOK /\ [ClientNext]_allVars => ClientTypeOK'
<1> SUFFICES ASSUME ClientTypeOK, [ClientNext]_allVars
             PROVE  ClientTypeOK'
  OBVIOUS
<1>1. CASE Server /\ UNCHANGED clientVars
  <2>1. SessionTypeOK' BY <1>1, ServerTyped DEF ClientTypeOK
  <2>2. QED BY <1>1, <2>1 DEF ClientTypeOK, clientVars
<1>2. ASSUME NEW cl \in Clients, Connect(cl) PROVE ClientTypeOK'
  <2>1. PICK c \in Connections : Opens(cl, c) BY <1>2 DEF Connect
  <2>2. Then(cl, "idle") /\ UNCHANGED <<up, down, rx, tx, cache, ran, nextId, accepted>>
    BY <1>2 DEF Connect, buffers
  <2>3. \A other \in Clients : calling'[other] # "off" => stream'[other] \in Connections
    <3>1. SUFFICES ASSUME NEW other \in Clients, calling'[other] # "off"
                   PROVE  stream'[other] \in Connections
      OBVIOUS
    <3>2. CASE other = cl BY <2>1, <3>2, OpensTyped
    <3>3. CASE other # cl
      <4>1. calling[other] # "off" BY <2>2, <3>1, <3>3, ThenTyped
      <4>2. stream[other] \in Connections BY <4>1 DEF ClientTypeOK
      <4>3. QED BY <2>1, <3>3, <4>2, OpensTyped
    <3>4. QED BY <3>2, <3>3
  <2>4. QED BY <2>1, <2>2, <2>3, OpensTyped, ThenTyped DEF ClientTypeOK, SessionTypeOK
<1>3. ASSUME NEW cl \in Clients, Invoke(cl) PROVE ClientTypeOK'
  <2>1. /\ Then(cl, "write") /\ nextId' = [nextId EXCEPT ![cl] = @ + 1]
        /\ calling[cl] = "idle" /\ UNCHANGED <<serverVars, owner, stream, accepted>>
    BY <1>3 DEF Invoke
  <2>2. SessionTypeOK' BY <2>1 DEF serverVars, wires, buffers, turn, ClientTypeOK, SessionTypeOK
  <2>3. nextId' \in [Clients -> Nat \ {0}] BY <2>1 DEF ClientTypeOK
  <2>4. QED BY <2>1, <2>2, <2>3, ThenTyped DEF ClientTypeOK
<1>4. ASSUME NEW cl \in Clients, Step(cl) PROVE ClientTypeOK'
  BY <1>4, StepTyped
<1>5. ASSUME NEW c \in Connections, Break(c) PROVE ClientTypeOK'
  BY <1>5 DEF Break, buffers, turn, clientVars, ClientTypeOK, SessionTypeOK
<1>6. CASE UNCHANGED allVars
  BY <1>6 DEF allVars, serverVars, wires, buffers, turn, clientVars, ClientTypeOK, SessionTypeOK
<1>7. QED BY <1>1, <1>2, <1>3, <1>4, <1>5, <1>6 DEF ClientNext

LEMMA InitTyped == ClientInit => ClientTypeOK
  BY MaxEntriesAssumption
     DEF ClientInit, SessionInit, ClientTypeOK, SessionTypeOK, NoAnswer

----------------------------------------------------------------------------
(* A call runs at most once.                                               *)

\* Ids below this one have been written by the client.
Fresh(cl) == IF calling[cl] \in {"write", "resend"} THEN Id(cl) ELSE nextId[cl]

\* A payload with the id of a call is written once, on one connection.
SentOnce ==
    \A c, d \in Connections : owner[c] = owner[d] =>
        \A i \in DOMAIN up[c], j \in DOMAIN up[d] :
            /\ up[c][i].part = "payload" /\ up[d][j].part = "payload"
            /\ up[c][i].of.id = up[d][j].of.id
            => c = d /\ i = j

\* A payload still under way belongs to a call that has not run.
NotYetRun ==
    \A c, d \in Connections : owner[c] = owner[d] =>
        \A i \in DOMAIN up[c], j \in DOMAIN ran[d] :
            up[c][i].part = "payload" => up[c][i].of.id # ran[d][j]

\* A payload that is to be written is new.
IdsUsed ==
    \A c \in Connections :
        /\ \A i \in DOMAIN up[c] :
              up[c][i].part = "payload" => up[c][i].of.id < Fresh(owner[c])
        /\ \A j \in DOMAIN ran[c] : ran[c][j] < Fresh(owner[c])

\* A connection nobody opened has carried nothing.
Owned ==
    \A c \in Connections :
        /\ peer[c] = "unused" => owner[c] = NoClient
        /\ owner[c] = NoClient => up[c] = <<>> /\ ran[c] = <<>>

\* A client writes to connections of its own.
Streams == \A cl \in Clients : calling[cl] # "off" => owner[stream[cl]] = cl

\* The inductive invariant.  AtMostOnce does not see the payloads under way, each
\* of which will run: they are as few as the calls that ran, and newer ones come
\* with fresh ids only.
OnceInv ==
    ClientTypeOK /\ SentOnce /\ NotYetRun /\ IdsUsed /\ Owned /\ Streams /\ AtMostOnce

LEMMA InitOnce == ClientInit => OnceInv
  BY InitTyped DEF ClientInit, SessionInit, OnceInv, SentOnce, NotYetRun, IdsUsed, Owned,
                   Streams, AtMostOnce

\* The server takes the first n pieces off connection c, and runs the call of the
\* frame they make up, or runs nothing.
Takes(c, n) ==
    /\ n <= Len(up[c])
    /\ DOMAIN up'[c] = 1 .. (Len(up[c]) - n)
    /\ \A i \in DOMAIN up'[c] : i + n \in DOMAIN up[c] /\ up'[c][i] = up[c][i + n]
    /\ \A d \in Connections : d # c => up'[d] = up[d]
    /\ \/ ran' = ran
       \/ /\ n = 2 /\ 2 \in DOMAIN up[c] /\ up[c][2].part = "payload"
          /\ ran' = [ran EXCEPT ![c] = Append(@, up[c][2].of.id)]

LEMMA RestTakes ==
    ASSUME SessionTypeOK, NEW c \in Connections, NEW n \in 0 .. Len(up[c]),
           up' = [up EXCEPT ![c] = Rest(@, n)], ran' = ran
    PROVE  Takes(c, n)
<1>1. up[c] \in Seq(Pieces(Requests)) /\ Len(up[c]) \in Nat BY TypesAt
<1>2. /\ Rest(up[c], n) \in Seq(Pieces(Requests)) /\ Len(Rest(up[c], n)) = Len(up[c]) - n
      /\ \A i \in 1 .. (Len(up[c]) - n) : Rest(up[c], n)[i] = up[c][n + i]
  BY <1>1, RestIsEnd
<1>3. up'[c] = Rest(up[c], n) /\ \A d \in Connections : d # c => up'[d] = up[d]
  BY DEF SessionTypeOK
<1>4. DOMAIN up'[c] = 1 .. (Len(up[c]) - n) /\ DOMAIN up[c] = 1 .. Len(up[c])
  BY <1>1, <1>2, <1>3
<1>5. ASSUME NEW i \in DOMAIN up'[c]
      PROVE  i + n \in DOMAIN up[c] /\ up'[c][i] = up[c][i + n]
  <2>1. i \in 1 .. (Len(up[c]) - n) /\ i + n = n + i BY <1>1, <1>4
  <2>2. QED BY <1>1, <1>2, <1>3, <1>4, <2>1
<1>6. n <= Len(up[c]) BY <1>1
<1>7. QED BY <1>3, <1>4, <1>5, <1>6 DEF Takes

\* Whatever the server does to the streams it reads, it takes from their heads.
LEMMA ServerTakes ==
    ASSUME SessionTypeOK, Server
    PROVE  /\ UNCHANGED peer
           /\ \/ UNCHANGED <<up, ran>>
              \/ \E c \in Connections, n \in Nat : Takes(c, n)
<1>1. CASE Accept \/ PollRead \/ Keep
  BY <1>1 DEF Accept, PollRead, Keep, wires, buffers
<1>2. ASSUME NEW c \in Connections, Drop(c)
      PROVE  UNCHANGED peer /\ \E n \in Nat : Takes(c, n)
  <2>1. up[c] \in Seq(Pieces(Requests)) /\ Len(up[c]) \in Nat BY TypesAt
  <2>2. Rest(up[c], Len(up[c])) = <<>>
    <3>1. Len(Rest(up[c], Len(up[c]))) = 0 /\ Rest(up[c], Len(up[c])) \in Seq(Pieces(Requests))
      BY <2>1, RestIsEnd
    <3>2. QED BY <3>1
  <2>3. up' = [up EXCEPT ![c] = Rest(@, Len(up[c]))] /\ UNCHANGED <<peer, ran>>
    BY <1>2, <2>2 DEF Drop
  <2>4. PICK n \in 0 .. Len(up[c]) : n = Len(up[c]) BY <2>1
  <2>5. up' = [up EXCEPT ![c] = Rest(@, n)] /\ ran' = ran BY <2>3, <2>4
  <2>6. Takes(c, n) BY <2>5, RestTakes
  <2>7. QED BY <2>1, <2>3, <2>4, <2>6
<1>3. CASE PollReadFails \/ FrameTooLarge \/ DropAtEof
  <2>1. Current \in Connections /\ Drop(Current)
    BY <1>3, RequestTyped DEF PollReadFails, FrameTooLarge, DropAtEof, OutOfFrames
  <2>2. QED BY <1>2, <2>1
<1>4. ASSUME NEW c \in Connections, NEW n \in 0 .. rx[c], Consume(c, n), ran' = ran
      PROVE  Takes(c, n)
  <2>1. n \in 0 .. Len(up[c]) BY TypesAt
  <2>2. QED BY <1>4, <2>1, RestTakes DEF Consume
<1>5. CASE PassOver \/ ServeAgain
  <2>1. Current \in Connections /\ 2 \in 0 .. rx[Current]
    BY <1>5, RequestTyped, TypesAt DEF PassOver, ServeAgain, AtFrame
  <2>2. Consume(Current, 2) /\ UNCHANGED <<peer, ran>>
    BY <1>5 DEF PassOver, ServeAgain
  <2>3. QED BY <1>4, <2>1, <2>2
<1>6. CASE ReadGarbage
  <2>1. Current \in Connections BY <1>6, RequestTyped DEF ReadGarbage
  <2>2. CASE Drop(Current) BY <1>2, <2>1, <2>2
  <2>3. CASE \E n \in 1 .. rx[Current] : Consume(Current, n) /\ UNCHANGED <<peer, ran>>
    <3>1. PICK n \in 1 .. rx[Current] : Consume(Current, n) /\ UNCHANGED <<peer, ran>>
      BY <2>3
    <3>2. rx[Current] \in Nat BY <2>1, TypesAt
    <3>3. n \in 0 .. rx[Current] /\ n \in Nat BY <3>1, <3>2
    <3>4. QED BY <1>4, <2>1, <3>1, <3>3
  <2>4. QED BY <1>6, <2>2, <2>3 DEF ReadGarbage
<1>7. CASE Serve
  <2> DEFINE c == Current
  <2>1. /\ c \in Connections /\ Len(up[c]) >= 2 /\ 2 \in 0 .. rx[c] /\ Consume(c, 2)
        /\ up[c][2].part = "payload"
    BY <1>7, RequestTyped, TypesAt DEF Serve, AtFrame, FrameArrived
  <2>2. UNCHANGED peer /\ ran' = [ran EXCEPT ![c] = Append(@, up[c][2].of.id)]
    BY <1>7 DEF Serve, Request
  <2> HIDE DEF c
  <2>3. up[c] \in Seq(Pieces(Requests)) /\ Len(up[c]) \in Nat BY <2>1, TypesAt
  <2>4. /\ Rest(up[c], 2) \in Seq(Pieces(Requests)) /\ Len(Rest(up[c], 2)) = Len(up[c]) - 2
        /\ \A i \in 1 .. (Len(up[c]) - 2) : Rest(up[c], 2)[i] = up[c][2 + i]
    <3>1. 2 \in 0 .. Len(up[c]) BY <2>1, <2>3
    <3>2. QED BY <2>3, <3>1, RestIsEnd
  <2>5. up'[c] = Rest(up[c], 2) /\ \A d \in Connections : d # c => up'[d] = up[d]
    BY <2>1 DEF Consume, SessionTypeOK
  <2>6. DOMAIN up'[c] = 1 .. (Len(up[c]) - 2) /\ DOMAIN up[c] = 1 .. Len(up[c])
    BY <2>3, <2>4, <2>5
  <2>7. \A i \in DOMAIN up'[c] : i + 2 \in DOMAIN up[c] /\ up'[c][i] = up[c][i + 2]
    BY <2>3, <2>4, <2>5, <2>6
  <2>8. Takes(c, 2) BY <2>1, <2>2, <2>3, <2>5, <2>6, <2>7 DEF Takes
  <2>9. QED BY <2>1, <2>2, <2>8
<1>8. QED BY <1>1, <1>3, <1>5, <1>6, <1>7 DEF Server

\* A step after which every payload under way was there before, shift[c] places
\* further on, and every call that ran had run before, or was in the frame that
\* was taken off its stream.
Moves(shift) ==
    \A c \in Connections :
        /\ shift[c] \in Nat
        /\ \A i \in DOMAIN up'[c] : up'[c][i].part = "payload" =>
              i + shift[c] \in DOMAIN up[c] /\ up'[c][i] = up[c][i + shift[c]]
        /\ \A j \in DOMAIN ran'[c] :
              \/ j \in DOMAIN ran[c] /\ ran'[c][j] = ran[c][j]
              \/ /\ j = Len(ran[c]) + 1 /\ shift[c] = 2
                 /\ 2 \in DOMAIN up[c] /\ up[c][2].part = "payload"
                 /\ ran'[c][j] = up[c][2].of.id

LEMMA TakesMoves ==
    ASSUME SessionTypeOK, NEW c \in Connections, NEW n \in Nat, Takes(c, n)
    PROVE  Moves([d \in Connections |-> IF d = c THEN n ELSE 0])
<1> DEFINE shift == [d \in Connections |-> IF d = c THEN n ELSE 0]
<1>1. \A d \in Connections : shift[d] \in Nat OBVIOUS
<1>2. ASSUME NEW d \in Connections, NEW i \in DOMAIN up'[d]
      PROVE  i + shift[d] \in DOMAIN up[d] /\ up'[d][i] = up[d][i + shift[d]]
  <2>1. CASE d = c BY <2>1, <1>2 DEF Takes
  <2>2. CASE d # c
    <3>1. up'[d] = up[d] /\ shift[d] = 0 BY <2>2 DEF Takes
    <3>2. i \in Nat BY <1>2, <3>1, TypesAt
    <3>3. QED BY <1>2, <3>1, <3>2
  <2>3. QED BY <2>1, <2>2
<1>3. ASSUME NEW d \in Connections, NEW j \in DOMAIN ran'[d]
      PROVE  \/ j \in DOMAIN ran[d] /\ ran'[d][j] = ran[d][j]
             \/ /\ j = Len(ran[d]) + 1 /\ shift[d] = 2
                /\ 2 \in DOMAIN up[d] /\ up[d][2].part = "payload"
                /\ ran'[d][j] = up[d][2].of.id
  <2>1. CASE ran' = ran BY <1>3, <2>1
  <2>2. CASE /\ n = 2 /\ 2 \in DOMAIN up[c] /\ up[c][2].part = "payload"
             /\ ran' = [ran EXCEPT ![c] = Append(@, up[c][2].of.id)]
    <3>1. CASE d # c BY <1>3, <2>2, <3>1 DEF SessionTypeOK
    <3>2. CASE d = c
      <4>1. ran[c] \in Seq(Nat) /\ ran'[c] = Append(ran[c], up[c][2].of.id)
        BY <2>2 DEF SessionTypeOK
      <4>2. CASE j \in DOMAIN ran[c] BY <3>2, <4>1, <4>2
      <4>3. CASE j = Len(ran[c]) + 1 BY <2>2, <3>2, <4>1, <4>3
      <4>4. DOMAIN ran'[c] = 1 .. Len(ran[c]) + 1 /\ DOMAIN ran[c] = 1 .. Len(ran[c])
        BY <4>1
      <4>5. QED BY <1>3, <3>2, <4>1, <4>2, <4>3, <4>4
    <3>3. QED BY <3>1, <3>2
  <2>3. QED BY <2>1, <2>2 DEF Takes
<1> HIDE DEF shift
<1>4. Moves(shift) BY <1>1, <1>2, <1>3 DEF Moves
<1>5. QED BY <1>4 DEF shift

\* What such a step preserves, if no client's fresh ids go back and the only
\* connections to change owner are opened by it.
LEMMA MovesOnce ==
    ASSUME ClientTypeOK, ClientTypeOK', OnceInv, NEW shift, Moves(shift),
           \A c \in Connections :
               owner'[c] # owner[c] => owner[c] = NoClient,
           \A cl \in Clients : Fresh(cl)' >= Fresh(cl)
    PROVE  SentOnce' /\ NotYetRun' /\ IdsUsed' /\ AtMostOnce'
<1> USE DEF OnceInv
<1>0. ASSUME NEW c \in Connections
      PROVE  /\ up[c] \in Seq(Pieces(Requests)) /\ up'[c] \in Seq(Pieces(Requests))
             /\ ran[c] \in Seq(Nat) /\ ran'[c] \in Seq(Nat)
  BY DEF ClientTypeOK, SessionTypeOK
<1>1. ASSUME NEW c \in Connections, NEW i \in DOMAIN up'[c], up'[c][i].part = "payload"
      PROVE  /\ i \in Nat /\ i + shift[c] \in DOMAIN up[c] /\ up'[c][i] = up[c][i + shift[c]]
             /\ owner'[c] = owner[c] /\ owner[c] # NoClient
             /\ shift[c] \in Nat
  <2>1. i \in Nat BY <1>1, <1>0
  <2>2. i + shift[c] \in DOMAIN up[c] /\ up'[c][i] = up[c][i + shift[c]] /\ shift[c] \in Nat
    BY <1>1 DEF Moves
  <2>3. up[c] # <<>> BY <2>2
  <2>4. QED BY <2>1, <2>2, <2>3 DEF Owned
<1>2. ASSUME NEW c \in Connections, NEW j \in DOMAIN ran'[c]
      PROVE  /\ j \in Nat
             /\ \/ j \in DOMAIN ran[c] /\ ran'[c][j] = ran[c][j]
                \/ /\ j = Len(ran[c]) + 1 /\ shift[c] = 2
                   /\ 2 \in DOMAIN up[c] /\ up[c][2].part = "payload"
                   /\ ran'[c][j] = up[c][2].of.id
             /\ owner'[c] = owner[c] /\ owner[c] # NoClient
  <2>1. j \in Nat BY <1>2, <1>0
  <2>2. \/ j \in DOMAIN ran[c] /\ ran'[c][j] = ran[c][j]
        \/ /\ j = Len(ran[c]) + 1 /\ shift[c] = 2
           /\ 2 \in DOMAIN up[c] /\ up[c][2].part = "payload"
           /\ ran'[c][j] = up[c][2].of.id
    BY <1>2 DEF Moves
  <2>3. up[c] # <<>> \/ ran[c] # <<>> BY <2>2
  <2>4. QED BY <2>1, <2>2, <2>3 DEF Owned
<1>3. SentOnce'
  <2> SUFFICES ASSUME NEW c \in Connections, NEW d \in Connections, owner'[c] = owner'[d],
                      NEW i \in DOMAIN up'[c], NEW j \in DOMAIN up'[d],
                      up'[c][i].part = "payload", up'[d][j].part = "payload",
                      up'[c][i].of.id = up'[d][j].of.id
               PROVE  c = d /\ i = j
    BY DEF SentOnce
  <2>1. c = d /\ i + shift[c] = j + shift[d] BY <1>1 DEF SentOnce
  <2>2. QED BY <1>1, <2>1
<1>4. NotYetRun'
  <2> SUFFICES ASSUME NEW c \in Connections, NEW d \in Connections, owner'[c] = owner'[d],
                      NEW i \in DOMAIN up'[c], NEW j \in DOMAIN ran'[d],
                      up'[c][i].part = "payload"
               PROVE  up'[c][i].of.id # ran'[d][j]
    BY DEF NotYetRun
  <2>1. owner[c] = owner[d] BY <1>1, <1>2
  <2>2. CASE j \in DOMAIN ran[d] /\ ran'[d][j] = ran[d][j]
    BY <1>1, <2>1, <2>2 DEF NotYetRun
  <2>3. CASE /\ shift[d] = 2 /\ 2 \in DOMAIN up[d] /\ up[d][2].part = "payload"
             /\ ran'[d][j] = up[d][2].of.id
    <3>1. i \in Nat /\ i >= 1 BY <1>0
    <3>2. c # d \/ i + shift[c] # 2 BY <1>1, <2>3, <3>1
    <3>3. QED BY <1>1, <2>1, <2>3, <3>2 DEF SentOnce
  <2>4. QED BY <1>2, <2>2, <2>3
<1>5. IdsUsed'
  <2>1. ASSUME NEW c \in Connections, owner'[c] = owner[c], owner[c] # NoClient,
               NEW id \in Nat, id < Fresh(owner[c])
        PROVE  id < Fresh(owner[c])'
    <3>1. PICK cl \in Clients : cl = owner[c] BY <2>1 DEF ClientTypeOK
    <3>2. Fresh(cl) \in Int /\ Fresh(cl)' \in Int /\ Fresh(cl)' >= Fresh(cl)
      BY DEF ClientTypeOK, Fresh, Id
    <3>3. id < Fresh(cl)' BY <2>1, <3>1, <3>2
    <3>4. QED BY <2>1, <3>1, <3>3 DEF Fresh, Id
  <2>2. ASSUME NEW c \in Connections, NEW i \in DOMAIN up[c]
        PROVE  up[c][i].of.id \in Nat
    <3>1. up[c][i] \in Pieces(Requests) BY <1>0, <2>2
    <3>2. QED BY <3>1 DEF Pieces, Requests
  <2>3. ASSUME NEW c \in Connections, NEW i \in DOMAIN up'[c], up'[c][i].part = "payload"
        PROVE  up'[c][i].of.id < Fresh(owner[c])'
    <3>1. up'[c][i].of.id \in Nat /\ up'[c][i].of.id < Fresh(owner[c])
      BY <1>1, <2>2, <2>3 DEF IdsUsed
    <3>2. QED BY <1>1, <2>1, <2>3, <3>1
  <2>4. ASSUME NEW c \in Connections, NEW j \in DOMAIN ran'[c]
        PROVE  ran'[c][j] < Fresh(owner[c])'
    <3>1. ran'[c][j] \in Nat BY <1>0, <2>4
    <3>2. ran'[c][j] < Fresh(owner[c]) BY <1>2, <2>4 DEF IdsUsed
    <3>3. QED BY <1>2, <2>1, <2>4, <3>1, <3>2
  <2>5. QED BY <2>3, <2>4 DEF IdsUsed
<1>6. AtMostOnce'
  <2> SUFFICES ASSUME NEW c \in Connections, NEW d \in Connections, owner'[c] = owner'[d],
                      NEW i \in DOMAIN ran'[c], NEW j \in DOMAIN ran'[d],
                      ran'[c][i] = ran'[d][j]
               PROVE  c = d /\ i = j
    BY DEF AtMostOnce
  <2>1. owner[c] = owner[d] BY <1>2
  <2>2. CASE i \in DOMAIN ran[c] /\ ran'[c][i] = ran[c][i]
    <3>1. CASE j \in DOMAIN ran[d] /\ ran'[d][j] = ran[d][j]
      <4>1. ran[c][i] = ran[d][j] BY <2>2, <3>1
      <4>2. QED BY <2>1, <2>2, <3>1, <4>1 DEF AtMostOnce
    <3>2. CASE 2 \in DOMAIN up[d] /\ up[d][2].part = "payload" /\ ran'[d][j] = up[d][2].of.id
      BY <2>1, <2>2, <3>2 DEF NotYetRun
    <3>3. QED BY <1>2, <3>1, <3>2
  <2>3. CASE /\ i = Len(ran[c]) + 1 /\ 2 \in DOMAIN up[c] /\ up[c][2].part = "payload"
             /\ ran'[c][i] = up[c][2].of.id
    <3>1. CASE j \in DOMAIN ran[d] /\ ran'[d][j] = ran[d][j]
      BY <2>1, <2>3, <3>1 DEF NotYetRun
    <3>2. CASE /\ j = Len(ran[d]) + 1 /\ 2 \in DOMAIN up[d] /\ up[d][2].part = "payload"
               /\ ran'[d][j] = up[d][2].of.id
      BY <2>1, <2>3, <3>2 DEF SentOnce
    <3>3. QED BY <1>2, <3>1, <3>2
  <2>4. QED BY <1>2, <2>2, <2>3
<1>7. QED BY <1>3, <1>4, <1>5, <1>6

LEMMA ServerOnce ==
    ASSUME OnceInv, Server, UNCHANGED clientVars
    PROVE  OnceInv'
<1> USE DEF OnceInv
<1>1. SessionTypeOK /\ ClientTypeOK' /\ UNCHANGED <<owner, stream, nextId, calling>>
  <2>1. SessionTypeOK' BY ServerTyped DEF ClientTypeOK
  <2>2. QED BY <2>1 DEF ClientTypeOK, clientVars
<1>2. /\ UNCHANGED peer
      /\ UNCHANGED <<up, ran>> \/ \E c \in Connections, n \in Nat : Takes(c, n)
  BY <1>1, ServerTakes
<1>3. CASE UNCHANGED <<up, ran>>
  BY <1>1, <1>2, <1>3
     DEF SentOnce, NotYetRun, IdsUsed, Owned, Streams, AtMostOnce, Fresh, Id
<1>4. ASSUME NEW c \in Connections, NEW n \in Nat, Takes(c, n)
      PROVE  OnceInv'
  <2>1. \A cl \in Clients : Fresh(cl)' >= Fresh(cl)
    BY <1>1 DEF Fresh, Id, ClientTypeOK
  <2>2. SentOnce' /\ NotYetRun' /\ IdsUsed' /\ AtMostOnce'
    BY <1>1, <1>4, <2>1, TakesMoves, MovesOnce
  <2>3. ASSUME NEW d \in Connections, owner[d] = NoClient
        PROVE  up'[d] = <<>> /\ ran'[d] = <<>>
    <3>1. up[d] = <<>> /\ ran[d] = <<>> BY <2>3 DEF Owned
    <3>2. ran'[d] = ran[d]
      <4>1. CASE ran' = ran BY <4>1
      <4>2. CASE 2 \in DOMAIN up[c] /\ ran' = [ran EXCEPT ![c] = Append(@, up[c][2].of.id)]
        <5>1. d # c BY <3>1, <4>2
        <5>2. ran \in [Connections -> Seq(Nat)] BY DEF ClientTypeOK, SessionTypeOK
        <5>3. QED BY <4>2, <5>1, <5>2
      <4>3. QED BY <1>4, <4>1, <4>2 DEF Takes
    <3>3. up'[d] \in Seq(Pieces(Requests)) BY <1>1 DEF ClientTypeOK, SessionTypeOK
    <3>4. DOMAIN up'[d] = {} BY <1>4, <3>1 DEF Takes
    <3>5. Len(up'[d]) \in Nat /\ DOMAIN up'[d] = 1 .. Len(up'[d]) BY <3>3
    <3>6. Len(up'[d]) = 0
      <4>1. 1 \notin 1 .. Len(up'[d]) BY <3>4, <3>5
      <4>2. QED BY <3>5, <4>1
    <3>7. QED BY <3>1, <3>2, <3>3, <3>6
  <2>4. Owned' BY <1>1, <1>2, <2>3 DEF Owned
  <2>5. Streams' BY <1>1 DEF Streams
  <2>6. QED BY <1>1, <2>2, <2>4, <2>5
<1>5. QED BY <1>2, <1>3, <1>4

\* Opening a connection, or none, takes nothing from another client.
LEMMA OpensOwned ==
    ASSUME ClientTypeOK, Owned, Streams, NEW cl \in Clients,
           KeepsStream \/ \E c \in Connections : Opens(cl, c)
    PROVE  /\ \A d \in Connections :
                /\ owner'[d] # owner[d] => owner[d] = NoClient
                /\ peer'[d] = "unused" => owner'[d] = NoClient
                /\ owner'[d] = NoClient => owner[d] = NoClient
           /\ \A other \in Clients :
                calling[other] # "off" => owner'[stream'[other]] = other
           /\ (\E c \in Connections : Opens(cl, c)) => owner'[stream'[cl]] = cl
<1>1. CASE KeepsStream /\ ~ \E c \in Connections : Opens(cl, c)
  BY <1>1 DEF KeepsStream, Owned, Streams
<1>2. ASSUME NEW c \in Connections, Opens(cl, c)
      PROVE  /\ \A d \in Connections :
                  /\ owner'[d] # owner[d] => owner[d] = NoClient
                  /\ peer'[d] = "unused" => owner'[d] = NoClient
                  /\ owner'[d] = NoClient => owner[d] = NoClient
             /\ \A other \in Clients :
                  calling[other] # "off" => owner'[stream'[other]] = other
             /\ owner'[stream'[cl]] = cl
  <2>1. owner[c] = NoClient /\ cl # NoClient
    BY <1>2, NoClientAssumption DEF Opens, Owned
  <2>2. owner'[c] = cl /\ \A d \in Connections : d # c => owner'[d] = owner[d]
    BY <1>2 DEF Opens, ClientTypeOK
  <2>3. stream'[cl] = c /\ \A other \in Clients : other # cl => stream'[other] = stream[other]
    BY <1>2, OpensTyped
  <2>4. \A d \in Connections : peer'[d] = "unused" => d # c /\ peer[d] = "unused"
    BY <1>2 DEF Opens
  <2>5. ASSUME NEW other \in Clients, calling[other] # "off", other # cl
        PROVE  owner'[stream'[other]] = other
    <3>1. owner[stream[other]] = other /\ stream[other] \in Connections
      BY <2>5 DEF Streams, ClientTypeOK
    <3>2. stream[other] # c BY <2>1, <2>5, <3>1, NoClientAssumption
    <3>3. QED BY <2>2, <2>3, <2>5, <3>1, <3>2
  <2>6. QED BY <2>1, <2>2, <2>3, <2>4, <2>5 DEF Owned
<1>3. QED BY <1>1, <1>2

\* A step of a client that writes no payload.
LEMMA QuietOnce ==
    ASSUME OnceInv, ClientTypeOK', NEW cl \in Clients, UNCHANGED ran,
           KeepsStream \/ \E c \in Connections : Opens(cl, c),
           UNCHANGED up \/ (calling[cl] # "off" /\ WritesPart(cl)),
           \A other \in Clients \ {cl} : calling'[other] = calling[other],
           calling[cl] # "off" \/ calling'[cl] = "off" \/ \E c \in Connections : Opens(cl, c),
           \A other \in Clients : Fresh(other)' >= Fresh(other)
    PROVE  OnceInv'
<1> USE DEF OnceInv
<1> DEFINE shift == [c \in Connections |-> 0]
<1>1. /\ \A d \in Connections :
           /\ owner'[d] # owner[d] => owner[d] = NoClient
           /\ peer'[d] = "unused" => owner'[d] = NoClient
           /\ owner'[d] = NoClient => owner[d] = NoClient
      /\ \A other \in Clients : calling[other] # "off" => owner'[stream'[other]] = other
      /\ (\E c \in Connections : Opens(cl, c)) => owner'[stream'[cl]] = cl
  BY OpensOwned
<1>2. SessionTypeOK /\ (calling[cl] # "off" => stream[cl] \in Connections)
  BY DEF ClientTypeOK
<1>3. ASSUME NEW c \in Connections
      PROVE  /\ \A i \in DOMAIN up'[c] : up'[c][i].part = "payload" =>
                   i + 0 \in DOMAIN up[c] /\ up'[c][i] = up[c][i + 0]
             /\ owner[c] = NoClient => up'[c] = up[c]
  <2>1. up[c] \in Seq(Pieces(Requests)) BY <1>2, TypesAt
  <2>2. CASE up' = up BY <2>1, <2>2
  <2>3. CASE calling[cl] # "off" /\ c = stream[cl] /\ up'[c] = Append(up[c], Bytes(Invocation(cl))[1])
    <3>1. owner[c] = cl /\ cl # NoClient BY <2>3, NoClientAssumption DEF Streams
    <3>2. Bytes(Invocation(cl))[1].part = "length"
      <4>1. Invocation(cl) \in Requests BY InvocationTyped
      <4>2. Bytes(Invocation(cl))[1] = [part |-> "length", of |-> Invocation(cl)]
        BY <4>1, BytesOf
      <4>3. QED BY <4>2
    <3>3. DOMAIN up'[c] = 1 .. Len(up[c]) + 1 /\ DOMAIN up[c] = 1 .. Len(up[c])
          /\ Len(up[c]) \in Nat
      BY <2>1, <2>3
    <3>4. ASSUME NEW i \in DOMAIN up'[c], up'[c][i].part = "payload"
          PROVE  i + 0 \in DOMAIN up[c] /\ up'[c][i] = up[c][i + 0]
      <4>1. i # Len(up[c]) + 1 BY <2>1, <2>3, <3>2, <3>4
      <4>2. i \in 1 .. Len(up[c]) /\ i + 0 = i BY <3>3, <3>4, <4>1
      <4>3. QED BY <2>1, <2>3, <3>3, <4>2
    <3>5. QED BY <3>1, <3>4
  <2>4. CASE up'[c] = up[c] BY <2>1, <2>4
  <2>5. QED BY <1>2, <2>2, <2>3, <2>4 DEF WritesPart, SessionTypeOK
<1>4. \A c \in Connections : shift[c] = 0 /\ shift[c] \in Nat OBVIOUS
<1> HIDE DEF shift
<1>5. Moves(shift) BY <1>3, <1>4 DEF Moves
<1>6. SentOnce' /\ NotYetRun' /\ IdsUsed' /\ AtMostOnce' BY <1>1, <1>5, MovesOnce
<1>7. Owned' BY <1>1, <1>3 DEF Owned
<1>8. Streams' BY <1>1 DEF Streams
<1>9. QED BY <1>6, <1>7, <1>8

\* Two elements at the end of a sequence.
LEMMA TwoMore ==
    ASSUME NEW S, NEW s \in Seq(S), NEW more \in Seq(S), Len(more) = 2
    PROVE  /\ DOMAIN (s \o more) = 1 .. Len(s) + 2 /\ DOMAIN s = 1 .. Len(s)
           /\ \A k \in 1 .. Len(s) : (s \o more)[k] = s[k]
           /\ (s \o more)[Len(s) + 1] = more[1]
           /\ (s \o more)[Len(s) + 2] = more[2]
<1>1. Len(s) \in Nat OBVIOUS
<1>2. /\ s \o more \in Seq(S)
      /\ Len(s \o more) = Len(s) + 2
      /\ \A k \in 1 .. Len(s) + 2 :
           (s \o more)[k] = IF k <= Len(s) THEN s[k] ELSE more[k - Len(s)]
  <2>1. /\ s \o more \in Seq(S)
        /\ Len(s \o more) = Len(s) + Len(more)
        /\ \A k \in 1 .. Len(s) + Len(more) :
             (s \o more)[k] = IF k <= Len(s) THEN s[k] ELSE more[k - Len(s)]
    BY ConcatProperties
  <2>2. QED BY <2>1
<1>3. /\ (s \o more)[Len(s) + 1] = more[Len(s) + 1 - Len(s)]
      /\ (s \o more)[Len(s) + 2] = more[Len(s) + 2 - Len(s)]
  BY <1>1, <1>2
<1>4. Len(s) + 1 - Len(s) = 1 /\ Len(s) + 2 - Len(s) = 2 BY <1>1
<1>5. \A k \in 1 .. Len(s) : (s \o more)[k] = s[k] BY <1>1, <1>2
<1>6. QED BY <1>1, <1>2, <1>3, <1>4, <1>5

\* A call is written whole: with an id that is on no stream and has not run.
LEMMA WriteOnce ==
    ASSUME OnceInv, ClientTypeOK', NEW cl \in Clients, WriteFrame(cl)
    PROVE  OnceInv'
<1> USE DEF OnceInv
<1> DEFINE c == stream[cl]
           n == Len(up[c])
<1>1. /\ c \in Connections /\ SessionTypeOK /\ owner[c] = cl /\ cl # NoClient
      /\ calling[cl] \in {"write", "resend"}
  BY NoClientAssumption DEF WriteFrame, ClientTypeOK, Streams
<1>2. /\ up[c] \in Seq(Pieces(Requests)) /\ n \in Nat
      /\ Bytes(Invocation(cl)) \in Seq(Pieces(Requests)) /\ Len(Bytes(Invocation(cl))) = 2
      /\ Bytes(Invocation(cl))[1].part = "length"
      /\ Bytes(Invocation(cl))[2].part = "payload" /\ Bytes(Invocation(cl))[2].of.id = Id(cl)
  <2>1. Invocation(cl) \in Requests /\ Invocation(cl).id = Id(cl)
    BY InvocationTyped DEF Invocation
  <2>2. /\ Len(Bytes(Invocation(cl))) = 2
        /\ Bytes(Invocation(cl))[1] = [part |-> "length", of |-> Invocation(cl)]
        /\ Bytes(Invocation(cl))[2] = [part |-> "payload", of |-> Invocation(cl)]
    BY <2>1, BytesOf
  <2>3. /\ Bytes(Invocation(cl))[1].part = "length"
        /\ Bytes(Invocation(cl))[2].part = "payload" /\ Bytes(Invocation(cl))[2].of.id = Id(cl)
    BY <2>1, <2>2
  <2>4. up[c] \in Seq(Pieces(Requests)) /\ n \in Nat BY <1>1, TypesAt
  <2>5. QED BY <2>2, <2>3, <2>4, InvocationTyped
<1>3. /\ up'[c] = up[c] \o Bytes(Invocation(cl))
      /\ \A d \in Connections : d # c => up'[d] = up[d]
      /\ UNCHANGED <<peer, ran, nextId, owner, stream>>
      /\ calling'[cl] = "read" /\ \A other \in Clients : other # cl => calling'[other] = calling[other]
  <2>1. up'[c] = up[c] \o Bytes(Invocation(cl)) /\ \A d \in Connections : d # c => up'[d] = up[d]
    BY <1>1 DEF WriteFrame, SessionTypeOK
  <2>2. UNCHANGED <<peer, ran, nextId, owner, stream>> BY DEF WriteFrame, buffers
  <2>3. calling'[cl] = "read" /\ \A other \in Clients : other # cl => calling'[other] = calling[other]
    <3>1. calling' = [calling EXCEPT ![cl] = "read"] BY DEF WriteFrame, Then
    <3>2. QED BY <3>1 DEF ClientTypeOK
  <2>4. QED BY <2>1, <2>2, <2>3
<1> HIDE DEF c, n
<1>4. ASSUME NEW d \in Connections, NEW i \in DOMAIN up'[d], up'[d][i].part = "payload"
      PROVE  \/ i \in DOMAIN up[d] /\ up'[d][i] = up[d][i]
             \/ d = c /\ i = n + 2 /\ up'[d][i].of.id = Id(cl)
  <2>1. CASE d # c BY <1>3, <1>4, <2>1
  <2>2. CASE d = c
    <3>1. /\ DOMAIN up'[c] = 1 .. n + 2 /\ DOMAIN up[c] = 1 .. n
          /\ \A k \in 1 .. n : up'[c][k] = up[c][k]
          /\ up'[c][n + 1] = Bytes(Invocation(cl))[1]
          /\ up'[c][n + 2] = Bytes(Invocation(cl))[2]
      BY <1>2, <1>3, TwoMore DEF n
    <3>2. i # n + 1 BY <1>2, <1>4, <2>2, <3>1
    <3>3. i \in 1 .. n \/ i = n + 2 BY <1>2, <1>4, <2>2, <3>1, <3>2
    <3>4. QED BY <1>2, <2>2, <3>1, <3>3
  <2>3. QED BY <2>1, <2>2
\* The id is new: IdsUsed bounds all others of this client.
<1>5. Id(cl) \in Nat /\ Fresh(cl) = Id(cl) /\ Fresh(cl)' = Id(cl) + 1
  <2>1. Id(cl) \in Nat /\ nextId[cl] = Id(cl) + 1 BY InvocationTyped DEF ClientTypeOK, Id
  <2>2. QED BY <1>1, <1>3, <2>1 DEF Fresh
<1>6. ASSUME NEW d \in Connections, owner[d] = cl
      PROVE  /\ \A i \in DOMAIN up[d] : up[d][i].part = "payload" => up[d][i].of.id # Id(cl)
             /\ \A j \in DOMAIN ran[d] : ran[d][j] # Id(cl)
  BY <1>5, <1>6 DEF IdsUsed
<1>7. SentOnce'
  <2> SUFFICES ASSUME NEW a \in Connections, NEW b \in Connections, owner[a] = owner[b],
                      NEW i \in DOMAIN up'[a], NEW j \in DOMAIN up'[b],
                      up'[a][i].part = "payload", up'[b][j].part = "payload",
                      up'[a][i].of.id = up'[b][j].of.id
               PROVE  a = b /\ i = j
    BY <1>3 DEF SentOnce
  <2>1. CASE i \in DOMAIN up[a] /\ up'[a][i] = up[a][i]
    <3>1. CASE j \in DOMAIN up[b] /\ up'[b][j] = up[b][j] BY <2>1, <3>1 DEF SentOnce
    <3>2. CASE b = c /\ up'[b][j].of.id = Id(cl) BY <1>1, <1>6, <2>1, <3>2
    <3>3. QED BY <1>4, <3>1, <3>2
  <2>2. CASE a = c /\ i = n + 2 /\ up'[a][i].of.id = Id(cl)
    <3>1. CASE j \in DOMAIN up[b] /\ up'[b][j] = up[b][j] BY <1>1, <1>6, <2>2, <3>1
    <3>2. CASE b = c /\ j = n + 2 BY <2>2, <3>2
    <3>3. QED BY <1>4, <3>1, <3>2
  <2>3. QED BY <1>4, <2>1, <2>2
<1>8. NotYetRun'
  <2> SUFFICES ASSUME NEW a \in Connections, NEW b \in Connections, owner[a] = owner[b],
                      NEW i \in DOMAIN up'[a], NEW j \in DOMAIN ran[b],
                      up'[a][i].part = "payload"
               PROVE  up'[a][i].of.id # ran[b][j]
    BY <1>3 DEF NotYetRun
  <2>1. CASE i \in DOMAIN up[a] /\ up'[a][i] = up[a][i] BY <2>1 DEF NotYetRun
  <2>2. CASE a = c /\ up'[a][i].of.id = Id(cl) BY <1>1, <1>6, <2>2
  <2>3. QED BY <1>4, <2>1, <2>2
<1>9. IdsUsed'
  <2>1. ASSUME NEW d \in Connections, owner[d] # cl
        PROVE  Fresh(owner[d])' = Fresh(owner[d]) \/ owner[d] = NoClient
    BY <1>3, <2>1 DEF Fresh, Id, ClientTypeOK
  <2>2. ASSUME NEW d \in Connections, owner[d] = cl
        PROVE  Fresh(owner[d]) = Id(cl) /\ Fresh(owner[d])' = Id(cl) + 1
    BY <1>3, <1>5, <2>2 DEF Fresh, Id
  <2>3. ASSUME NEW d \in Connections, NEW i \in DOMAIN up'[d], up'[d][i].part = "payload"
        PROVE  up'[d][i].of.id < Fresh(owner[d])'
    <3>1. up'[d] \in Seq(Pieces(Requests)) BY DEF ClientTypeOK, SessionTypeOK
    <3>2. up'[d][i] \in Pieces(Requests) BY <2>3, <3>1
    <3>3. up'[d][i].of.id \in Nat BY <3>2 DEF Pieces, Requests
    <3>4. CASE i \in DOMAIN up[d] /\ up'[d][i] = up[d][i]
      <4>1. up'[d][i].of.id < Fresh(owner[d]) BY <2>3, <3>4 DEF IdsUsed
      <4>2. owner[d] # NoClient BY <3>4 DEF Owned
      <4>3. QED BY <1>5, <2>1, <2>2, <3>3, <4>1, <4>2
    <3>5. CASE d = c /\ up'[d][i].of.id = Id(cl) BY <1>1, <1>5, <2>2, <3>5
    <3>6. QED BY <1>4, <2>3, <3>4, <3>5
  <2>4. ASSUME NEW d \in Connections, NEW j \in DOMAIN ran[d]
        PROVE  ran[d][j] < Fresh(owner[d])'
    <3>1. ran[d] \in Seq(Nat) BY DEF ClientTypeOK, SessionTypeOK
    <3>2. ran[d][j] < Fresh(owner[d]) /\ owner[d] # NoClient BY DEF IdsUsed, Owned
    <3>3. ran[d][j] \in Nat BY <2>4, <3>1
    <3>4. QED BY <1>5, <2>1, <2>2, <3>2, <3>3
  <2>5. QED BY <1>3, <2>3, <2>4 DEF IdsUsed
<1>10. Owned' BY <1>1, <1>3 DEF Owned
<1>11. Streams' BY <1>1, <1>3 DEF Streams
<1>12. AtMostOnce' BY <1>3 DEF AtMostOnce
<1>13. QED BY <1>7, <1>8, <1>9, <1>10, <1>11, <1>12

LEMMA StepOnce ==
    ASSUME OnceInv, NEW cl \in Clients, Step(cl)
    PROVE  OnceInv'
<1>1. ClientTypeOK /\ ClientTypeOK' BY StepTyped DEF OnceInv
<1>2. ASSUME NEW state, Then(cl, state), nextId' = nextId,
             state \in {"idle", "resend"}, calling[cl] \in {"write", "resend", "read"},
             state = "resend" => calling[cl] = "write"
      PROVE  /\ \A other \in Clients \ {cl} : calling'[other] = calling[other]
             /\ \A other \in Clients : Fresh(other)' >= Fresh(other)
  BY <1>1, <1>2 DEF Then, Fresh, Id, ClientTypeOK
<1>3. CASE WriteFrame(cl) BY <1>1, <1>3, WriteOnce
<1>4. CASE Resend(cl)
  BY <1>1, <1>2, <1>4, QuietOnce DEF Resend, buffers
<1>5. CASE WriteFails(cl)
  BY <1>1, <1>2, <1>5, QuietOnce DEF WriteFails, buffers
<1>6. ASSUME NEW n \in Nat, Reads(cl, n), calling[cl] = "read",
             KeepsStream \/ \E c \in Connections : Opens(cl, c)
      PROVE  OnceInv'
  <2>1. /\ UNCHANGED <<up, ran, nextId>> /\ Then(cl, "idle") BY <1>6 DEF Reads, buffers
  <2>2. QED BY <1>1, <1>2, <1>6, <2>1, QuietOnce
<1>7. CASE TakeAnswer(cl) BY <1>6, <1>7 DEF TakeAnswer, AnswerArrived
<1>8. CASE Mismatch(cl) BY <1>6, <1>8 DEF Mismatch, AnswerArrived
<1>9. CASE RefuseAnswer(cl) BY <1>6, <1>9 DEF RefuseAnswer
<1>10. CASE MisreadAnswer(cl)
  <2>1. PICK n \in 1 .. Arrived(stream[cl]) : Reads(cl, n) BY <1>10 DEF MisreadAnswer
  <2>2. n \in Nat OBVIOUS
  <2>3. QED BY <1>6, <1>10, <2>1, <2>2 DEF MisreadAnswer
<1>11. CASE ReadFails(cl) BY <1>6, <1>11 DEF ReadFails, ReadsPart
<1>12. CASE ReadTimesOut(cl) BY <1>6, <1>12 DEF ReadTimesOut, ReadsPart
<1>13. QED BY <1>3, <1>4, <1>5, <1>7, <1>8, <1>9, <1>10, <1>11, <1>12 DEF Step

LEMMA NextOnce == OnceInv /\ [ClientNext]_allVars => OnceInv'
<1> SUFFICES ASSUME OnceInv, [ClientNext]_allVars
             PROVE  OnceInv'
  OBVIOUS
<1>1. ClientTypeOK /\ ClientTypeOK' BY NextTyped DEF OnceInv
<1>2. CASE Server /\ UNCHANGED clientVars BY <1>2, ServerOnce
<1>3. ASSUME NEW cl \in Clients, Connect(cl) PROVE OnceInv'
  <2>1. /\ \A other \in Clients \ {cl} : calling'[other] = calling[other]
        /\ \A other \in Clients : Fresh(other)' >= Fresh(other)
    BY <1>1, <1>3 DEF Connect, Then, Fresh, Id, ClientTypeOK
  <2>2. QED BY <1>1, <1>3, <2>1, QuietOnce DEF Connect, buffers
<1>4. ASSUME NEW cl \in Clients, Invoke(cl) PROVE OnceInv'
  <2>1. /\ \A other \in Clients \ {cl} : calling'[other] = calling[other]
        /\ \A other \in Clients : Fresh(other)' >= Fresh(other)
    BY <1>1, <1>4 DEF Invoke, Then, Fresh, Id, ClientTypeOK
  <2>2. KeepsStream /\ UNCHANGED <<up, ran>> /\ calling[cl] # "off"
    BY <1>4 DEF Invoke, KeepsStream, serverVars, wires, buffers
  <2>3. QED BY <1>1, <2>1, <2>2, QuietOnce
<1>5. ASSUME NEW cl \in Clients, Step(cl) PROVE OnceInv'
  BY <1>5, StepOnce
<1>6. CASE \/ \E c \in Connections : Break(c)
           \/ UNCHANGED allVars
  <2>1. /\ UNCHANGED <<up, ran, owner, stream, nextId, calling>>
        /\ \A c \in Connections : peer'[c] = "unused" => peer[c] = "unused"
    BY <1>1, <1>6
       DEF Break, allVars, serverVars, wires, buffers, clientVars, ClientTypeOK, SessionTypeOK
  <2>2. QED
    BY <1>1, <2>1
       DEF OnceInv, SentOnce, NotYetRun, IdsUsed, Owned, Streams, AtMostOnce, Fresh, Id
<1>7. QED BY <1>2, <1>3, <1>4, <1>5, <1>6 DEF ClientNext

----------------------------------------------------------------------------

\* The buffers and the clients are what RpcClient takes them for: no buffer holds
\* more than there is, no session remembers more than MAX_ENTRIES answers.
THEOREM ClientTypes == ClientSpec => []ClientTypeOK
<1>1. QED BY InitTyped, NextTyped, PTL DEF ClientSpec

\* Whatever a client sends again, on whatever connection, with however many
\* clients, connections and calls, and whatever breaks: a call runs at most once.
THEOREM CallsRunOnce == ClientSpec => []AtMostOnce
<1>1. OnceInv => AtMostOnce BY DEF OnceInv
<1>2. QED BY InitOnce, NextOnce, <1>1, PTL DEF ClientSpec

----------------------------------------------------------------------------
(* What a session has to say: the answers that a ProcessClient returns are *)
(* of its own calls.                                                       *)

\* The answers on their way to the client of c, and those its session keeps.
Told(c) == {p.of : p \in Range(down[c])} \cup Range(cache[c])

\* They are of calls that ran on c.
OwnAnswers ==
    \A c \in Connections : \A a \in Told(c) : a.by = c /\ a.id \in Range(ran[c])

\* Every frame of a client has the id of a call it made, and the first has id 1.
IdsPositive ==
    /\ \A c \in Connections : \A i \in DOMAIN up[c] : up[c][i].of.id >= 1
    /\ \A cl \in Clients :
         /\ calling[cl] \in {"write", "resend", "read"} => Id(cl) >= 1
         /\ Id(cl) <= MaxCalls

\* An answer that was taken ran on a connection.
AnswersBy == \A cl \in Clients : accepted[cl] # NoAnswer => accepted[cl].by \in Connections

\* The inductive invariant.  AnswerIsOwn does not see the answers under way and in
\* the caches, each of which the client of its connection may yet take; OnceInv
\* says whose connections they are.
AnswersInv == OnceInv /\ OwnAnswers /\ IdsPositive /\ AnswersBy /\ AnswerIsOwn

\* flush_write adds what was to be written, whatever part the socket takes.
LEMMA FlushTells ==
    ASSUME SessionTypeOK, NEW c \in Connections, NEW d \in Connections,
           NEW pending \in Seq(Pieces(Answers)), Flush(c, pending)
    PROVE  /\ Range(down'[d]) \subseteq Range(down[d]) \cup Range(pending)
           /\ d # c => down'[d] = down[d]
<1>1. down'[c] = SubSeq(down[c], 1, Len(down[c]) - tx[c]) \o pending
      /\ \A e \in Connections : e # c => down'[e] = down[e]
  BY DEF Flush, SessionTypeOK
<1> DEFINE m == Len(down[c]) - tx[c]
<1>2. down[c] \in Seq(Pieces(Answers)) /\ m \in 0 .. Len(down[c]) BY TypesAt
<1> HIDE DEF m
<1> DEFINE start == SubSeq(down[c], 1, m)
<1>3. start \in Seq(Pieces(Answers)) /\ Range(start) \subseteq Range(down[c])
  BY <1>2, StartOf, RangeOfStart
<1>4. down'[c] = start \o pending BY <1>1 DEF m
<1> HIDE DEF start
<1>5. Range(start \o pending) \subseteq Range(down[c]) \cup Range(pending)
  BY <1>3, RangeOfConcat
<1>6. QED BY <1>1, <1>4, <1>5

LEMMA PendingTold ==
    ASSUME SessionTypeOK, NEW c \in Connections
    PROVE  Pending(c) \in Seq(Pieces(Answers)) /\ Range(Pending(c)) \subseteq Range(down[c])
<1> DEFINE m == Len(down[c]) - tx[c]
<1>1. down[c] \in Seq(Pieces(Answers)) /\ m \in 0 .. Len(down[c]) BY TypesAt
<1> HIDE DEF m
<1>2. Range(Rest(down[c], m)) \subseteq Range(down[c]) BY <1>1, RangeOfRest
<1>3. QED BY <1>2, PendingTyped DEF Pending, m

LEMMA WriteTells ==
    ASSUME SessionTypeOK, NEW c \in Connections, NEW d \in Connections,
           NEW answer \in Answers, Write(c, answer)
    PROVE  /\ \A p \in Range(down'[d]) : p \in Range(down[d]) \/ (d = c /\ p.of = answer)
           /\ d # c => down'[d] = down[d]
<1>1. Pending(c) \in Seq(Pieces(Answers)) /\ Range(Pending(c)) \subseteq Range(down[c])
  BY PendingTold
<1>2. Bytes(answer) \in Seq(Pieces(Answers)) /\ \A p \in Range(Bytes(answer)) : p.of = answer
  <2>1. Bytes(answer) \in Seq(Pieces(Answers)) BY BytesOf
  <2>2. \A i \in {1, 2} : Bytes(answer)[i].of = answer BY DEF Bytes
  <2>3. DOMAIN Bytes(answer) = {1, 2} BY DEF Bytes
  <2>4. QED BY <2>1, <2>2, <2>3 DEF Range
<1>3. /\ Pending(c) \o Bytes(answer) \in Seq(Pieces(Answers))
      /\ Range(Pending(c) \o Bytes(answer)) \subseteq Range(Pending(c)) \cup Range(Bytes(answer))
  BY <1>1, <1>2, RangeOfConcat
<1>4. /\ Range(down'[d]) \subseteq Range(down[d]) \cup Range(Pending(c) \o Bytes(answer))
      /\ d # c => down'[d] = down[d]
  BY <1>3, FlushTells DEF Write
<1>5. ASSUME NEW p \in Range(down'[d])
      PROVE  p \in Range(down[d]) \/ (d = c /\ p.of = answer)
  <2>1. CASE d = c
    <3>1. p \in Range(down[d]) \cup Range(Pending(c) \o Bytes(answer)) BY <1>4, <1>5
    <3>2. p \in Range(down[d]) \cup Range(Bytes(answer)) BY <1>1, <1>3, <2>1, <3>1
    <3>3. QED BY <1>2, <2>1, <3>2
  <2>2. CASE d # c BY <1>4, <1>5, <2>2
  <2>3. QED BY <2>1, <2>2
<1>6. QED BY <1>4, <1>5

LEMMA SameTold ==
    ASSUME NEW c \in Connections, down'[c] = down[c], cache'[c] = cache[c]
    PROVE  Told(c)' = Told(c)
  BY DEF Told

LEMMA DropTells ==
    ASSUME SessionTypeOK, NEW c \in Connections, Drop(c)
    PROVE  ran' = ran /\ \A d \in Connections : Told(d)' \subseteq Told(d)
<1>1. /\ ran' = ran
      /\ down'[c] = SubSeq(down[c], 1, Len(down[c]) - tx[c]) /\ cache'[c] = <<>>
      /\ \A d \in Connections : d # c => down'[d] = down[d] /\ cache'[d] = cache[d]
  BY DEF Drop, SessionTypeOK
<1>2. Range(down'[c]) \subseteq Range(down[c])
  <2>1. down[c] \in Seq(Pieces(Answers)) /\ Len(down[c]) - tx[c] \in 0 .. Len(down[c])
    BY TypesAt
  <2>2. QED BY <1>1, <2>1, RangeOfStart
<1>3. Range(cache'[c]) = {} BY <1>1 DEF Range
<1>4. Told(c)' \subseteq Told(c) BY <1>2, <1>3 DEF Told
<1>5. QED BY <1>1, <1>4, SameTold

\* The session forgets its oldest answer, perhaps, and keeps the new one.
LEMMA RememberTells ==
    ASSUME SessionTypeOK, NEW c \in Connections, NEW answer \in Answers, Remember(c, answer)
    PROVE  /\ Range(cache'[c]) \subseteq Range(cache[c]) \cup {answer}
           /\ \A d \in Connections : d # c => cache'[d] = cache[d]
<1>1. cache[c] \in Seq(Answers) BY TypesAt
<1>2. /\ Append(cache[c], answer) \in Seq(Answers) /\ Append(cache[c], answer) # <<>>
      /\ Range(Append(cache[c], answer)) = Range(cache[c]) \cup {answer}
  BY <1>1, RangeOfAppend
<1>3. Range(Tail(Append(cache[c], answer))) \subseteq Range(Append(cache[c], answer))
  BY <1>2, RangeOfTail
<1>4. /\ cache'[c] \in {Append(cache[c], answer), Tail(Append(cache[c], answer))}
      /\ \A d \in Connections : d # c => cache'[d] = cache[d]
  BY DEF Remember, SessionTypeOK
<1>5. QED BY <1>2, <1>3, <1>4

\* What the server says is of what it runs, or was said before.
LEMMA ServerTells ==
    ASSUME SessionTypeOK, Server
    PROVE  \/ ran' = ran /\ \A d \in Connections : Told(d)' \subseteq Told(d)
           \/ /\ Serve /\ Current \in Connections
              /\ \A d \in Connections : \A a \in Told(d)' :
                   a \in Told(d) \/ (d = Current /\ a.id = Request.id /\ a.by = Current)
<1>1. CASE Accept \/ PollRead \/ PassOver
  <2>1. UNCHANGED <<ran, down, cache>> BY <1>1 DEF Accept, PollRead, PassOver, wires, buffers
  <2>2. QED BY <2>1, SameTold
<1>2. CASE PollReadFails \/ FrameTooLarge \/ DropAtEof
  <2>1. Current \in Connections /\ Drop(Current)
    BY <1>2, RequestTyped DEF PollReadFails, FrameTooLarge, DropAtEof, OutOfFrames
  <2>2. QED BY <2>1, DropTells
<1>3. CASE ReadGarbage
  <2>1. Current \in Connections BY <1>3, RequestTyped DEF ReadGarbage
  <2>2. Drop(Current) \/ UNCHANGED <<ran, down, cache>> BY <1>3 DEF ReadGarbage
  <2>3. QED BY <2>1, <2>2, DropTells, SameTold
<1>4. CASE Keep
  <2>1. Current \in Connections /\ Flush(Current, Pending(Current)) /\ UNCHANGED <<ran, cache>>
    BY <1>4, RequestTyped DEF Keep, OutOfFrames
  <2>2. Pending(Current) \in Seq(Pieces(Answers))
        /\ Range(Pending(Current)) \subseteq Range(down[Current])
    BY <2>1, PendingTold
  <2>3. ASSUME NEW d \in Connections PROVE Told(d)' \subseteq Told(d)
    <3>1. Range(down'[d]) \subseteq Range(down[d]) BY <2>1, <2>2, FlushTells
    <3>2. QED BY <2>1, <3>1 DEF Told
  <2>4. QED BY <2>1, <2>3
<1>5. CASE ServeAgain
  <2>1. Current \in Connections BY <1>5, RequestTyped DEF ServeAgain, AtFrame
  <2>2. PICK answer \in Cached(Current, Request.id) : Write(Current, answer)
    BY <1>5 DEF ServeAgain
  <2>3. answer \in Range(cache[Current]) /\ answer \in Answers
    <3>1. answer \in Range(cache[Current]) BY <2>2 DEF Cached
    <3>2. cache[Current] \in Seq(Answers) BY <2>1, TypesAt
    <3>3. QED BY <3>1, <3>2 DEF Range
  <2>4. UNCHANGED <<ran, cache>> BY <1>5 DEF ServeAgain
  <2>5. ASSUME NEW d \in Connections PROVE Told(d)' \subseteq Told(d)
    <3>1. \A p \in Range(down'[d]) : p \in Range(down[d]) \/ (d = Current /\ p.of = answer)
      BY <2>1, <2>2, <2>3, WriteTells
    <3>2. QED BY <2>3, <2>4, <3>1 DEF Told
  <2>6. QED BY <2>4, <2>5
<1>6. CASE Serve
  <2>1. Current \in Connections /\ Request \in Requests
    BY <1>6, RequestTyped DEF Serve, AtFrame
  <2>2. PICK large \in BOOLEAN :
           LET answer == [id |-> Request.id, by |-> Current, large |-> large]
           IN  Remember(Current, answer) /\ Write(Current, answer)
    BY <1>6 DEF Serve
  <2> DEFINE answer == [id |-> Request.id, by |-> Current, large |-> large]
  <2>3. answer \in Answers BY <2>1, <2>2 DEF Answers, Requests
  <2>4. answer.id = Request.id /\ answer.by = Current OBVIOUS
  <2>5. Remember(Current, answer) /\ Write(Current, answer) BY <2>2
  <2> HIDE DEF answer
  <2>6. ASSUME NEW d \in Connections, NEW a \in Told(d)'
        PROVE  a \in Told(d) \/ (d = Current /\ a.id = Request.id /\ a.by = Current)
    <3>1. \A p \in Range(down'[d]) : p \in Range(down[d]) \/ (d = Current /\ p.of = answer)
      BY <2>1, <2>3, <2>5, WriteTells
    <3>2. \A r \in Range(cache'[d]) : r \in Range(cache[d]) \/ (d = Current /\ r = answer)
      <4>1. CASE d = Current BY <2>1, <2>3, <2>5, <4>1, RememberTells
      <4>2. CASE d # Current
        <5>1. cache'[d] = cache[d] BY <2>1, <2>3, <2>5, <4>2, RememberTells
        <5>2. QED BY <5>1
      <4>3. QED BY <4>1, <4>2
    <3>3. a \in {p.of : p \in Range(down'[d])} \cup Range(cache'[d]) BY <2>6 DEF Told
    <3>4. CASE a \in Range(cache'[d]) BY <2>4, <3>2, <3>4 DEF Told
    <3>5. CASE a \in {p.of : p \in Range(down'[d])}
      <4>1. PICK p \in Range(down'[d]) : a = p.of BY <3>5
      <4>2. p \in Range(down[d]) \/ (d = Current /\ a = answer) BY <3>1, <4>1
      <4>3. QED BY <2>4, <4>1, <4>2 DEF Told
    <3>6. QED BY <3>3, <3>4, <3>5
  <2>7. QED BY <1>6, <2>1, <2>6
<1>7. QED BY <1>1, <1>2, <1>3, <1>4, <1>5, <1>6 DEF Server

----------------------------------------------------------------------------
(* The invariant.                                                          *)

LEMMA RanTyped ==
    ASSUME OnceInv, NEW c \in Connections
    PROVE  ran[c] \in Seq(Nat) /\ SessionTypeOK
  BY DEF OnceInv, ClientTypeOK, SessionTypeOK

LEMMA ServeRuns ==
    ASSUME OnceInv, Serve
    PROVE  /\ Current \in Connections /\ Request.id \in Nat
           /\ 2 \in DOMAIN up[Current] /\ up[Current][2].part = "payload"
           /\ Request = up[Current][2].of
           /\ ran'[Current] = Append(ran[Current], Request.id)
           /\ Range(ran'[Current]) = Range(ran[Current]) \cup {Request.id}
           /\ \A c \in Connections : c # Current => ran'[c] = ran[c]
<1>1. SessionTypeOK BY DEF OnceInv, ClientTypeOK
<1>2. /\ Current \in Connections /\ Request \in Requests /\ Len(up[Current]) >= 2
      /\ up[Current][2].part = "payload"
  BY <1>1, RequestTyped DEF Serve, AtFrame, FrameArrived
<1>3. Request.id \in Nat BY <1>2 DEF Requests
<1>4. ran' = [ran EXCEPT ![Current] = Append(@, Request.id)] BY DEF Serve
<1>5. /\ ran'[Current] = Append(ran[Current], Request.id)
      /\ \A c \in Connections : c # Current => ran'[c] = ran[c]
  BY <1>1, <1>2, <1>4 DEF SessionTypeOK
<1>6. Range(Append(ran[Current], Request.id)) = Range(ran[Current]) \cup {Request.id}
  BY <1>2, <1>3, RanTyped, RangeOfAppend
<1>7. 2 \in DOMAIN up[Current]
  <2>1. up[Current] \in Seq(Pieces(Requests)) BY <1>1, <1>2, TypesAt
  <2>2. QED BY <1>2, <2>1
<1>8. QED BY <1>2, <1>3, <1>5, <1>6, <1>7 DEF Request

LEMMA InitAnswers == ClientInit => AnswersInv
<1> SUFFICES ASSUME ClientInit PROVE AnswersInv
  OBVIOUS
<1>1. OwnAnswers BY DEF ClientInit, SessionInit, OwnAnswers, Told, Range
<1>2. IdsPositive
  <2>1. \A c \in Connections : DOMAIN up[c] = {} BY DEF ClientInit, SessionInit
  <2>2. \A cl \in Clients : Id(cl) = 0 /\ calling[cl] = "off" BY DEF ClientInit, Id
  <2>3. QED BY <2>1, <2>2, MaxCallsAssumption DEF IdsPositive
<1>3. AnswersBy /\ AnswerIsOwn BY DEF ClientInit, AnswersBy, AnswerIsOwn
<1>4. QED BY <1>1, <1>2, <1>3, InitOnce DEF AnswersInv

LEMMA ServerAnswers ==
    ASSUME AnswersInv, Server, UNCHANGED clientVars
    PROVE  AnswersInv'
<1> USE DEF AnswersInv
<1>1. OnceInv' /\ SessionTypeOK /\ UNCHANGED <<owner, accepted, nextId, calling>>
  BY ServerOnce DEF clientVars, OnceInv, ClientTypeOK
<1>2. /\ \A c \in Connections : Range(ran[c]) \subseteq Range(ran'[c])
      /\ OwnAnswers'
  <2>1. CASE ran' = ran /\ \A d \in Connections : Told(d)' \subseteq Told(d)
    BY <2>1 DEF OwnAnswers
  <2>2. CASE /\ Serve /\ Current \in Connections
             /\ \A d \in Connections : \A a \in Told(d)' :
                  a \in Told(d) \/ (d = Current /\ a.id = Request.id /\ a.by = Current)
    <3>1. /\ Range(ran'[Current]) = Range(ran[Current]) \cup {Request.id}
          /\ \A c \in Connections : c # Current => ran'[c] = ran[c]
      BY <2>2, ServeRuns
    <3>2. \A c \in Connections : Range(ran[c]) \subseteq Range(ran'[c]) BY <3>1
    <3>3. ASSUME NEW c \in Connections, NEW a \in Told(c)'
          PROVE  a.by = c /\ a.id \in Range(ran'[c])
      BY <2>2, <3>1, <3>2, <3>3 DEF OwnAnswers
    <3>4. OwnAnswers' BY <3>3 DEF OwnAnswers
    <3>5. QED BY <3>2, <3>4
  <2>3. QED BY <1>1, <2>1, <2>2, ServerTells
<1>3. IdsPositive'
  <2>1. UNCHANGED up \/ \E c \in Connections, n \in Nat : Takes(c, n) BY <1>1, ServerTakes
  <2>2. ASSUME NEW c \in Connections, NEW i \in DOMAIN up'[c] PROVE up'[c][i].of.id >= 1
    <3>1. CASE UNCHANGED up BY <2>2, <3>1 DEF IdsPositive
    <3>2. ASSUME NEW d \in Connections, NEW n \in Nat, Takes(d, n)
          PROVE  up'[c][i].of.id >= 1
      <4>1. CASE c = d BY <2>2, <3>2, <4>1 DEF Takes, IdsPositive
      <4>2. CASE c # d BY <2>2, <3>2, <4>2 DEF Takes, IdsPositive
      <4>3. QED BY <4>1, <4>2
    <3>3. QED BY <2>1, <3>1, <3>2
  <2>3. \A cl \in Clients : Id(cl)' = Id(cl) BY <1>1 DEF Id
  <2>4. QED BY <1>1, <2>2, <2>3 DEF IdsPositive
<1>4. AnswerIsOwn'
  <2> SUFFICES ASSUME NEW cl \in Clients, accepted[cl] # NoAnswer
               PROVE  /\ accepted[cl].id = accepted[cl].call
                      /\ owner[accepted[cl].by] = cl
                      /\ accepted[cl].id \in Range(ran'[accepted[cl].by])
    BY <1>1 DEF AnswerIsOwn
  <2>1. accepted[cl].by \in Connections BY DEF AnswersBy
  <2>2. QED BY <1>2, <2>1 DEF AnswerIsOwn
<1>5. AnswersBy' BY <1>1 DEF AnswersBy
<1>6. QED BY <1>1, <1>2, <1>3, <1>4, <1>5

\* A step of a client, which runs nothing.
LEMMA ClientAnswers ==
    ASSUME AnswersInv, OnceInv', IdsPositive', UNCHANGED <<ran, cache>>,
           \A c \in Connections : Range(down'[c]) \subseteq Range(down[c]),
           \A c \in Connections : owner'[c] # owner[c] => owner[c] = NoClient,
           \A cl \in Clients : \/ accepted'[cl] = accepted[cl]
                              \/ /\ accepted'[cl].id = accepted'[cl].call
                                 /\ accepted'[cl].by \in Connections
                                 /\ owner[accepted'[cl].by] = cl
                                 /\ accepted'[cl].id \in Range(ran[accepted'[cl].by])
    PROVE  AnswersInv'
<1> USE DEF AnswersInv
<1>1. OwnAnswers'
  <2>1. \A c \in Connections : Told(c)' \subseteq Told(c) BY DEF Told
  <2>2. QED BY <2>1 DEF OwnAnswers
<1>2. AnswersBy' BY DEF AnswersBy
<1>3. AnswerIsOwn'
  <2> SUFFICES ASSUME NEW cl \in Clients, accepted'[cl] # NoAnswer
               PROVE  /\ accepted'[cl].id = accepted'[cl].call
                      /\ owner'[accepted'[cl].by] = cl
                      /\ accepted'[cl].id \in Range(ran[accepted'[cl].by])
    BY DEF AnswerIsOwn
  <2>1. /\ accepted'[cl].id = accepted'[cl].call
        /\ accepted'[cl].by \in Connections
        /\ owner[accepted'[cl].by] = cl
        /\ accepted'[cl].id \in Range(ran[accepted'[cl].by])
    BY DEF AnswerIsOwn, AnswersBy
  <2>2. owner'[accepted'[cl].by] = cl BY <2>1, NoClientAssumption
  <2>3. QED BY <2>1, <2>2
<1>4. QED BY <1>1, <1>2, <1>3

\* A client reads from the front of what is on its way.
LEMMA ReadsTold ==
    ASSUME SessionTypeOK, NEW cl \in Clients, NEW n \in Nat, stream[cl] \in Connections,
           n <= Arrived(stream[cl]), Reads(cl, n)
    PROVE  \A c \in Connections : Range(down'[c]) \subseteq Range(down[c])
<1> DEFINE s == stream[cl]
<1>1. down' = [down EXCEPT ![s] = Rest(@, n)] /\ s \in Connections BY DEF Reads
<1>2. n \in 0 .. Len(down[s]) /\ down[s] \in Seq(Pieces(Answers))
  <2>1. n <= Len(down[s]) - tx[s] BY DEF Arrived
  <2>2. down[s] \in Seq(Pieces(Answers)) /\ tx[s] \in Nat /\ Len(down[s]) \in Nat
    BY <1>1, TypesAt
  <2>3. QED BY <2>1, <2>2
<1> HIDE DEF s
<1>3. Range(Rest(down[s], n)) \subseteq Range(down[s]) BY <1>2, RangeOfRest
<1>4. down'[s] = Rest(down[s], n) /\ \A c \in Connections : c # s => down'[c] = down[c]
  BY <1>1 DEF SessionTypeOK
<1>5. QED BY <1>3, <1>4

\* What a client writes bears the id of its call.
LEMMA WritesPositive ==
    ASSUME AnswersInv, NEW cl \in Clients, calling[cl] \in {"write", "resend"},
           \/ WritesPart(cl)
           \/ up' = [up EXCEPT ![stream[cl]] = @ \o Bytes(Invocation(cl))]
    PROVE  \A c \in Connections : \A i \in DOMAIN up'[c] : up'[c][i].of.id >= 1
<1> DEFINE s == stream[cl]
           frame == Invocation(cl)
<1>1. ClientTypeOK /\ SessionTypeOK /\ s \in Connections
  BY DEF AnswersInv, OnceInv, ClientTypeOK
<1>2. up[s] \in Seq(Pieces(Requests)) BY <1>1, TypesAt
<1>3. frame \in Requests /\ frame.id >= 1
  BY <1>1, InvocationTyped DEF Invocation, AnswersInv, IdsPositive
<1> HIDE DEF frame
<1>4. /\ Bytes(frame) \in Seq(Pieces(Requests)) /\ Bytes(frame)[1] \in Pieces(Requests)
      /\ \A p \in Range(Bytes(frame)) : p.of = frame
      /\ Bytes(frame)[1].of = frame
  <2>1. Bytes(frame) \in Seq(Pieces(Requests)) /\ Len(Bytes(frame)) = 2 BY <1>3, BytesOf
  <2>2. \A i \in {1, 2} : Bytes(frame)[i].of = frame BY DEF Bytes
  <2>3. DOMAIN Bytes(frame) = {1, 2} BY <2>1
  <2>4. Bytes(frame)[1] \in Pieces(Requests)
    <3>1. Bytes(frame)[1] = [part |-> "length", of |-> frame] BY <1>3, BytesOf
    <3>2. QED BY <1>3, <3>1 DEF Pieces
  <2>5. ASSUME NEW p \in Range(Bytes(frame)) PROVE p.of = frame
    <3>1. PICK i \in DOMAIN Bytes(frame) : p = Bytes(frame)[i] BY <2>5 DEF Range
    <3>2. i \in {1, 2} BY <2>3, <3>1
    <3>3. QED BY <2>2, <3>1, <3>2
  <2>6. QED BY <2>1, <2>2, <2>4, <2>5
<1>5. \/ up' = up
      \/ up' = [up EXCEPT ![s] = Append(@, Bytes(frame)[1])]
      \/ up' = [up EXCEPT ![s] = @ \o Bytes(frame)]
  BY DEF WritesPart, frame
<1> HIDE DEF s
<1>6. ASSUME NEW c \in Connections
      PROVE  \A p \in Range(up'[c]) : p \in Range(up[c]) \/ p.of = frame
  <2>1. CASE up'[c] = up[c] BY <2>1
  <2>2. CASE c = s /\ up'[c] = Append(up[s], Bytes(frame)[1])
    <3>1. Range(up'[c]) = Range(up[s]) \cup {Bytes(frame)[1]}
      BY <1>2, <1>4, <2>2, RangeOfAppend
    <3>2. QED BY <1>4, <2>2, <3>1
  <2>3. CASE c = s /\ up'[c] = up[s] \o Bytes(frame)
    <3>1. Range(up'[c]) \subseteq Range(up[s]) \cup Range(Bytes(frame))
      BY <1>2, <1>4, <2>3, RangeOfConcat
    <3>2. QED BY <1>4, <2>3, <3>1
  <2>4. CASE up' = up BY <2>1, <2>4
  <2>5. CASE up' = [up EXCEPT ![s] = Append(@, Bytes(frame)[1])]
    BY <1>1, <2>1, <2>2, <2>5 DEF SessionTypeOK
  <2>6. CASE up' = [up EXCEPT ![s] = @ \o Bytes(frame)]
    BY <1>1, <2>1, <2>3, <2>6 DEF SessionTypeOK
  <2>7. QED BY <1>5, <2>4, <2>5, <2>6
<1>7. ASSUME NEW c \in Connections, NEW i \in DOMAIN up'[c]
      PROVE  up'[c][i].of.id >= 1
  <2>1. up'[c][i] \in Range(up'[c]) BY DEF Range
  <2>2. CASE up'[c][i] \in Range(up[c])
    <3>1. PICK k \in DOMAIN up[c] : up'[c][i] = up[c][k] BY <2>2 DEF Range
    <3>2. QED BY <3>1 DEF AnswersInv, IdsPositive
  <2>3. QED BY <1>3, <1>6, <2>1, <2>2
<1>8. QED BY <1>7

\* The state of a call that goes on or ends, with its id as it was.
LEMMA ThenPositive ==
    ASSUME AnswersInv, NEW cl \in Clients, NEW state, Then(cl, state), nextId' = nextId,
           calling[cl] \in {"write", "resend", "read"} \/ state \in {"off", "idle"},
           \A c \in Connections : \A i \in DOMAIN up'[c] : up'[c][i].of.id >= 1
    PROVE  IdsPositive'
<1>1. calling \in [Clients -> {"off", "idle", "write", "resend", "read"}]
  BY DEF AnswersInv, OnceInv, ClientTypeOK
<1>2. calling'[cl] = state /\ \A other \in Clients : other # cl => calling'[other] = calling[other]
  BY <1>1 DEF Then
<1>3. \A other \in Clients : Id(other)' = Id(other) BY DEF Id
<1>4. ASSUME NEW other \in Clients
      PROVE  /\ calling'[other] \in {"write", "resend", "read"} => Id(other)' >= 1
             /\ Id(other)' <= MaxCalls
  <2>1. CASE other = cl BY <1>2, <1>3, <2>1 DEF AnswersInv, IdsPositive
  <2>2. CASE other # cl BY <1>2, <1>3, <2>2 DEF AnswersInv, IdsPositive
  <2>3. QED BY <2>1, <2>2
<1>5. QED BY <1>4 DEF IdsPositive

LEMMA StepAnswers ==
    ASSUME AnswersInv, NEW cl \in Clients, Step(cl)
    PROVE  AnswersInv'
<1>1. /\ OnceInv /\ OnceInv' /\ ClientTypeOK /\ SessionTypeOK
      /\ calling[cl] \in {"write", "resend", "read"}
  <2>1. OnceInv /\ ClientTypeOK /\ SessionTypeOK BY DEF AnswersInv, OnceInv, ClientTypeOK
  <2>2. calling[cl] \in {"write", "resend", "read"}
    BY DEF Step, WriteFrame, Resend, WriteFails, TakeAnswer, Mismatch, RefuseAnswer,
           MisreadAnswer, ReadFails, ReadTimesOut, AnswerArrived
  <2>3. QED BY <2>1, <2>2, StepOnce
<1>2. stream[cl] \in Connections /\ owner[stream[cl]] = cl
  BY <1>1 DEF ClientTypeOK, OnceInv, Streams
<1>3. KeepsStream \/ (\E c \in Connections : Opens(cl, c))
        => \A c \in Connections : owner'[c] # owner[c] => owner[c] = NoClient
  BY <1>1, OpensOwned DEF OnceInv
<1>4. CASE WriteFrame(cl)
  <2>1. /\ calling[cl] \in {"write", "resend"} /\ Then(cl, "read") /\ nextId' = nextId
        /\ UNCHANGED <<ran, cache, down, owner, accepted>>
        /\ up' = [up EXCEPT ![stream[cl]] = @ \o Bytes(Invocation(cl))]
    BY <1>4 DEF WriteFrame, buffers
  <2>2. IdsPositive' BY <2>1, WritesPositive, ThenPositive
  <2>3. QED BY <1>1, <2>1, <2>2, ClientAnswers
<1>5. CASE Resend(cl) \/ WriteFails(cl)
  <2>1. /\ calling[cl] \in {"write", "resend"} /\ (Then(cl, "resend") \/ Then(cl, "idle"))
        /\ nextId' = nextId /\ UNCHANGED <<ran, cache, down, accepted>> /\ WritesPart(cl)
    BY <1>5 DEF Resend, WriteFails, buffers
  <2>2. KeepsStream \/ \E c \in Connections : Opens(cl, c) BY <1>5 DEF Resend, WriteFails
  <2>3. IdsPositive' BY <2>1, WritesPositive, ThenPositive
  <2>4. QED BY <1>1, <1>3, <2>1, <2>2, <2>3, ClientAnswers
<1>6. ASSUME NEW n \in Nat, n <= Arrived(stream[cl]), Reads(cl, n)
      PROVE  /\ UNCHANGED <<ran, cache>> /\ IdsPositive'
             /\ \A c \in Connections : Range(down'[c]) \subseteq Range(down[c])
  <2>1. UNCHANGED <<up, ran, cache, nextId>> /\ Then(cl, "idle") BY <1>6 DEF Reads, buffers
  <2>2. \A c \in Connections : \A i \in DOMAIN up'[c] : up'[c][i].of.id >= 1
    BY <2>1 DEF AnswersInv, IdsPositive
  <2>3. IdsPositive' BY <2>1, <2>2, ThenPositive
  <2>4. QED BY <1>1, <1>2, <1>6, <2>1, <2>3, ReadsTold
<1>7. CASE TakeAnswer(cl)
  <2>1. /\ Arrived(stream[cl]) >= 2 /\ Answer(cl).id = Id(cl) /\ Returns(cl)
        /\ Reads(cl, 2) /\ KeepsStream
    BY <1>7 DEF TakeAnswer, AnswerArrived, FrameArrived
  <2>2. 2 <= Arrived(stream[cl])
    <3>1. Arrived(stream[cl]) \in Int BY <1>1, <1>2, TypesAt DEF Arrived
    <3>2. QED BY <2>1, <3>1
  <2>3. Answer(cl) \in Told(stream[cl])
    <3>1. /\ down[stream[cl]] \in Seq(Pieces(Answers)) /\ Len(down[stream[cl]]) \in Nat
          /\ tx[stream[cl]] \in Nat
      BY <1>1, <1>2, TypesAt
    <3>2. 2 \in DOMAIN down[stream[cl]] BY <2>2, <3>1 DEF Arrived
    <3>3. down[stream[cl]][2] \in Range(down[stream[cl]]) BY <3>2 DEF Range
    <3>4. QED BY <3>3 DEF Told, Answer
  <2>4. Answer(cl).by = stream[cl] /\ Answer(cl).id \in Range(ran[stream[cl]])
    BY <1>2, <2>3 DEF AnswersInv, OwnAnswers
  <2>5. /\ accepted'[cl] = [call |-> Id(cl), id |-> Answer(cl).id, by |-> Answer(cl).by]
        /\ \A other \in Clients : other # cl => accepted'[other] = accepted[other]
    BY <1>1, <2>1 DEF Returns, ClientTypeOK
  <2>6. /\ accepted'[cl].id = accepted'[cl].call /\ accepted'[cl].by = stream[cl]
        /\ accepted'[cl].id \in Range(ran[stream[cl]])
    BY <2>1, <2>4, <2>5
  <2>7. /\ UNCHANGED <<ran, cache>> /\ IdsPositive'
        /\ \A c \in Connections : Range(down'[c]) \subseteq Range(down[c])
    BY <1>6, <2>1, <2>2
  <2>8. QED BY <1>1, <1>2, <1>3, <2>1, <2>5, <2>6, <2>7, ClientAnswers
<1>8. ASSUME NEW n \in Nat, n <= Arrived(stream[cl]), Reads(cl, n),
             KeepsStream \/ (\E c \in Connections : Opens(cl, c)), UNCHANGED accepted
      PROVE  AnswersInv'
  BY <1>1, <1>3, <1>6, <1>8, ClientAnswers
<1>9. Arrived(stream[cl]) \in Nat
  BY <1>1, <1>2, TypesAt DEF Arrived
<1>10. CASE Mismatch(cl)
  <2>1. 2 <= Arrived(stream[cl]) BY <1>9, <1>10 DEF Mismatch, AnswerArrived, FrameArrived
  <2>2. QED BY <1>8, <1>10, <2>1 DEF Mismatch
<1>11. CASE RefuseAnswer(cl)
  <2>1. 1 <= Arrived(stream[cl]) BY <1>9, <1>11 DEF RefuseAnswer, AnswerTooLarge
  <2>2. QED BY <1>8, <1>11, <2>1 DEF RefuseAnswer
<1>12. CASE MisreadAnswer(cl)
  <2>1. PICK n \in 1 .. Arrived(stream[cl]) : Reads(cl, n) BY <1>12 DEF MisreadAnswer
  <2>2. n \in Nat /\ n <= Arrived(stream[cl]) BY <1>9, <2>1
  <2>3. QED BY <1>8, <1>12, <2>1, <2>2 DEF MisreadAnswer
<1>13. CASE ReadFails(cl) \/ ReadTimesOut(cl)
  <2>1. PICK n \in 0 .. 1 : n <= Arrived(stream[cl]) /\ Reads(cl, n)
    BY <1>13 DEF ReadFails, ReadTimesOut, ReadsPart
  <2>2. n \in Nat BY <2>1
  <2>3. QED BY <1>8, <1>13, <2>1, <2>2 DEF ReadFails, ReadTimesOut
<1>14. QED BY <1>4, <1>5, <1>7, <1>10, <1>11, <1>12, <1>13 DEF Step

LEMMA NextAnswers == AnswersInv /\ [ClientNext]_allVars => AnswersInv'
<1> SUFFICES ASSUME AnswersInv, [ClientNext]_allVars
             PROVE  AnswersInv'
  OBVIOUS
<1>1. OnceInv /\ OnceInv' /\ ClientTypeOK BY NextOnce DEF AnswersInv, OnceInv
<1>2. CASE Server /\ UNCHANGED clientVars BY <1>2, ServerAnswers
<1>3. ASSUME NEW cl \in Clients, Step(cl) PROVE AnswersInv' BY <1>3, StepAnswers
<1>4. ASSUME NEW cl \in Clients, Connect(cl) PROVE AnswersInv'
  <2>1. /\ UNCHANGED <<up, ran, cache, down, nextId, accepted>> /\ Then(cl, "idle")
        /\ \E c \in Connections : Opens(cl, c)
    BY <1>4 DEF Connect, buffers
  <2>2. \A c \in Connections : \A i \in DOMAIN up'[c] : up'[c][i].of.id >= 1
    BY <2>1 DEF AnswersInv, IdsPositive
  <2>3. IdsPositive' BY <2>1, <2>2, ThenPositive
  <2>4. \A c \in Connections : owner'[c] # owner[c] => owner[c] = NoClient
    BY <1>1, <2>1, OpensOwned DEF OnceInv
  <2>5. QED BY <1>1, <2>1, <2>3, <2>4, ClientAnswers
<1>5. ASSUME NEW cl \in Clients, Invoke(cl) PROVE AnswersInv'
  <2>1. /\ UNCHANGED <<up, ran, cache, down, owner, accepted>>
        /\ nextId' = [nextId EXCEPT ![cl] = @ + 1] /\ nextId[cl] <= MaxCalls
        /\ Then(cl, "write")
    BY <1>5 DEF Invoke, serverVars, wires, buffers
  <2>2. \A c \in Connections : \A i \in DOMAIN up'[c] : up'[c][i].of.id >= 1
    BY <2>1 DEF AnswersInv, IdsPositive
  <2>3. nextId \in [Clients -> Nat \ {0}] BY <1>1 DEF ClientTypeOK
  <2>4. /\ Id(cl)' = nextId[cl]
        /\ \A other \in Clients : other # cl =>
              Id(other)' = Id(other) /\ calling'[other] = calling[other]
    BY <1>1, <2>1, <2>3 DEF Id, Then, ClientTypeOK
  <2>5. ASSUME NEW other \in Clients
        PROVE  /\ calling'[other] \in {"write", "resend", "read"} => Id(other)' >= 1
               /\ Id(other)' <= MaxCalls
    <3>1. CASE other = cl BY <2>1, <2>3, <2>4, <3>1
    <3>2. CASE other # cl BY <2>4, <3>2 DEF AnswersInv, IdsPositive
    <3>3. QED BY <3>1, <3>2
  <2>6. IdsPositive' BY <2>2, <2>5 DEF IdsPositive
  <2>7. QED BY <1>1, <2>1, <2>6, ClientAnswers
<1>6. CASE (\E c \in Connections : Break(c)) \/ UNCHANGED allVars
  <2>1. UNCHANGED <<up, ran, cache, down, owner, nextId, calling, accepted>>
    BY <1>6 DEF Break, allVars, serverVars, wires, buffers, clientVars
  <2>2. IdsPositive' BY <2>1 DEF AnswersInv, IdsPositive, Id
  <2>3. QED BY <1>1, <2>1, <2>2, ClientAnswers
<1>7. QED BY <1>2, <1>3, <1>4, <1>5, <1>6 DEF ClientNext

\* An answer that invoke_value returns is of the call it returns it for, which has run
\* on a connection of this client: however many clients count the same ids, whatever
\* the caches of their sessions hold and whatever is late.
THEOREM AnswersAreOwn == ClientSpec => []AnswerIsOwn
<1>1. AnswersInv => AnswerIsOwn BY DEF AnswersInv
<1>2. QED BY InitAnswers, NextAnswers, <1>1, PTL DEF ClientSpec

----------------------------------------------------------------------------
(* The client and its server implement RemoteCalls.                        *)

LEMMA RunsAre ==
    ASSUME NEW cl, NEW n, NEW run
    PROVE  run \in RunsOf(cl, n) <=>
             \E c \in Connections : /\ owner[c] = cl
                                   /\ \E i \in DOMAIN ran[c] : ran[c][i] = n /\ run = <<c, i>>
  BY DEF RunsOf

LEMMA RunsWillBe ==
    ASSUME NEW cl, NEW n, NEW run
    PROVE  run \in RunsOf(cl, n)' <=>
             \E c \in Connections : /\ owner'[c] = cl
                                   /\ \E i \in DOMAIN ran'[c] : ran'[c][i] = n /\ run = <<c, i>>
  BY DEF RunsOf

\* A step that runs nothing, though it may open a connection.
LEMMA RunsSame ==
    ASSUME OnceInv, UNCHANGED ran,
           \A c \in Connections : owner'[c] # owner[c] => owner[c] = NoClient,
           NEW cl \in Clients, NEW n
    PROVE  RunsOf(cl, n)' = RunsOf(cl, n)
<1>1. \A c \in Connections : owner'[c] # owner[c] => DOMAIN ran[c] = {}
  <2>1. ASSUME NEW c \in Connections, owner'[c] # owner[c] PROVE DOMAIN ran[c] = {}
    <3>1. ran[c] = <<>> BY <2>1 DEF OnceInv, Owned
    <3>2. QED BY <3>1
  <2>2. QED BY <2>1
<1>2. ASSUME NEW run PROVE run \in RunsOf(cl, n)' <=> run \in RunsOf(cl, n)
  <2>1. ASSUME run \in RunsOf(cl, n)' PROVE run \in RunsOf(cl, n)
    <3>1. PICK c \in Connections : /\ owner'[c] = cl
                                 /\ \E i \in DOMAIN ran[c] : ran[c][i] = n /\ run = <<c, i>>
      BY <2>1, RunsWillBe
    <3>2. owner[c] = cl BY <1>1, <3>1
    <3>3. QED BY <3>1, <3>2, RunsAre
  <2>2. ASSUME run \in RunsOf(cl, n) PROVE run \in RunsOf(cl, n)'
    <3>1. PICK c \in Connections : /\ owner[c] = cl
                                 /\ \E i \in DOMAIN ran[c] : ran[c][i] = n /\ run = <<c, i>>
      BY <2>2, RunsAre
    <3>2. owner'[c] = cl BY <1>1, <3>1
    <3>3. QED BY <3>1, <3>2, RunsWillBe
  <2>3. QED BY <2>1, <2>2
<1>3. QED BY <1>2

\* The call that runs had not run.
LEMMA ServeRunsOnce ==
    ASSUME OnceInv, Serve, owner' = owner, NEW cl \in Clients, NEW n
    PROVE  IF cl = owner[Current] /\ n = Request.id
           THEN /\ RunsOf(cl, n) = {}
                /\ RunsOf(cl, n)' = {<<Current, Len(ran[Current]) + 1>>}
           ELSE RunsOf(cl, n)' = RunsOf(cl, n)
<1> DEFINE c == Current
           id == Request.id
           last == Len(ran[c]) + 1
<1>1. /\ c \in Connections /\ id \in Nat
      /\ 2 \in DOMAIN up[c] /\ up[c][2].part = "payload" /\ id = up[c][2].of.id
      /\ ran'[c] = Append(ran[c], id)
      /\ \A d \in Connections : d # c => ran'[d] = ran[d]
  BY ServeRuns
<1>2. /\ ran[c] \in Seq(Nat) /\ Len(ran[c]) \in Nat BY <1>1, RanTyped
<1> HIDE DEF c, id
<1>3. /\ DOMAIN ran'[c] = DOMAIN ran[c] \cup {last} /\ last \notin DOMAIN ran[c]
      /\ ran'[c][last] = id /\ \A i \in DOMAIN ran[c] : ran'[c][i] = ran[c][i]
  <2>1. DOMAIN ran[c] = 1 .. Len(ran[c]) /\ DOMAIN ran'[c] = 1 .. Len(ran[c]) + 1
    BY <1>1, <1>2
  <2>2. ran'[c][last] = id /\ \A i \in 1 .. Len(ran[c]) : ran'[c][i] = ran[c][i]
    BY <1>1, <1>2
  <2>3. QED BY <1>2, <2>1, <2>2
<1> HIDE DEF last
<1>4. \A d \in Connections : owner[d] = owner[c] => \A i \in DOMAIN ran[d] : ran[d][i] # id
  BY <1>1 DEF OnceInv, NotYetRun
<1>5. ASSUME NEW run
      PROVE  run \in RunsOf(cl, n)' <=>
               \/ run \in RunsOf(cl, n)
               \/ cl = owner[c] /\ n = id /\ run = <<c, last>>
  <2>1. ASSUME run \in RunsOf(cl, n)'
        PROVE  run \in RunsOf(cl, n) \/ (cl = owner[c] /\ n = id /\ run = <<c, last>>)
    <3>a. PICK d \in Connections :
             /\ owner[d] = cl
             /\ \E i \in DOMAIN ran'[d] : ran'[d][i] = n /\ run = <<d, i>>
      BY <2>1, RunsWillBe
    <3>1. PICK i \in DOMAIN ran'[d] : ran'[d][i] = n /\ run = <<d, i>>
      BY <3>a
    <3>2. CASE d = c /\ i = last BY <1>3, <3>a, <3>1, <3>2
    <3>3. CASE i \in DOMAIN ran[d] /\ ran'[d][i] = ran[d][i] BY <3>a, <3>1, <3>3, RunsAre
    <3>4. QED BY <1>1, <1>3, <3>a, <3>1, <3>2, <3>3
  <2>2. ASSUME run \in RunsOf(cl, n) PROVE run \in RunsOf(cl, n)'
    <3>a. PICK d \in Connections :
             /\ owner[d] = cl
             /\ \E i \in DOMAIN ran[d] : ran[d][i] = n /\ run = <<d, i>>
      BY <2>2, RunsAre
    <3>1. PICK i \in DOMAIN ran[d] : ran[d][i] = n /\ run = <<d, i>>
      BY <3>a
    <3>2. i \in DOMAIN ran'[d] /\ ran'[d][i] = n BY <1>1, <1>3, <3>1
    <3>3. QED BY <3>a, <3>1, <3>2, RunsWillBe
  <2>3. ASSUME cl = owner[c], n = id, run = <<c, last>> PROVE run \in RunsOf(cl, n)'
    BY <1>1, <1>3, <2>3, RunsWillBe
  <2>4. QED BY <2>1, <2>2, <2>3
<1>6. ASSUME cl = owner[c], n = id PROVE RunsOf(cl, n) = {}
  <2>1. ASSUME NEW run \in RunsOf(cl, n) PROVE FALSE
    <3>1. PICK d \in Connections : owner[d] = cl /\ \E i \in DOMAIN ran[d] : ran[d][i] = n
      BY <2>1, RunsAre
    <3>2. QED BY <1>4, <1>6, <3>1
  <2>2. QED BY <2>1
<1>7. CASE cl = owner[c] /\ n = id
  <2>1. RunsOf(cl, n) = {} BY <1>6, <1>7
  <2>2. RunsOf(cl, n)' = {<<c, last>>} BY <1>5, <1>7, <2>1
  <2>3. QED BY <1>7, <2>1, <2>2 DEF c, id, last
<1>8. CASE ~ (cl = owner[c] /\ n = id)
  <2>1. RunsOf(cl, n)' = RunsOf(cl, n) BY <1>5, <1>8
  <2>2. QED BY <1>8, <2>1 DEF c, id
<1>9. QED BY <1>7, <1>8

\* A step of the client, or of the network, that runs nothing, seen from the caller.
LEMMA QuietStep ==
    ASSUME OnceInv, UNCHANGED <<ran, nextId>>,
           \A c \in Connections : owner'[c] # owner[c] => owner[c] = NoClient
    PROVE  Runs' = Runs /\ Asked' = Asked
<1>1. \A cl \in Clients, n \in 1 .. MaxCalls : RunsOf(cl, n)' = RunsOf(cl, n)
  BY RunsSame
<1>2. Runs' = Runs BY <1>1 DEF Runs
<1>3. Asked' = Asked BY DEF Asked, Id
<1>4. QED BY <1>2, <1>3

\* A client whose call goes on keeps its caller waiting.
LEMMA ThenWaiting ==
    ASSUME ClientTypeOK, NEW cl \in Clients, NEW state, Then(cl, state)
    PROVE  Waiting' = IF state \in {"write", "resend", "read"}
                      THEN Waiting \cup {cl} ELSE Waiting \ {cl}
<1>1. calling'[cl] = state /\ \A other \in Clients : other # cl => calling'[other] = calling[other]
  BY DEF Then, ClientTypeOK
<1>2. QED BY <1>1 DEF Waiting

LEMMA SameCalls ==
    ASSUME Asked' = Asked, Waiting' = Waiting, Runs' = Runs, Answered' = Answered
    PROVE  UNCHANGED R!callVars
  BY DEF R!callVars

LEMMA FailsCall ==
    ASSUME NEW cl \in Clients, cl \in Waiting, Waiting' = Waiting \ {cl},
           Asked' = Asked, Runs' = Runs, Answered' = Answered
    PROVE  R!Next
<1>1. R!Fail(cl) BY DEF R!Fail
<1>2. QED BY <1>1 DEF R!Next

\* The only step that runs a call: R!Run.
LEMMA ServeRunsCall ==
    ASSUME AnswersInv, Serve, UNCHANGED clientVars
    PROVE  R!Next
<1>1. OnceInv /\ owner' = owner /\ nextId' = nextId /\ calling' = calling /\ accepted' = accepted
  BY DEF AnswersInv, clientVars
<1>2. /\ Current \in Connections /\ Request.id \in Nat /\ 2 \in DOMAIN up[Current]
      /\ up[Current][2].part = "payload" /\ Request.id = up[Current][2].of.id
  BY <1>1, ServeRuns
<1>3. owner[Current] \in Clients
  <2>1. up[Current] # <<>> BY <1>2
  <2>2. QED BY <1>1, <1>2, <2>1 DEF OnceInv, Owned, ClientTypeOK
<1>4. PICK me \in Clients : me = owner[Current] BY <1>3
<1>5. PICK m \in Nat : m = Request.id BY <1>2
<1>6. m >= 1 /\ m < Fresh(me)
  BY <1>1, <1>5, <1>4, <1>2 DEF AnswersInv, IdsPositive, OnceInv, IdsUsed
<1>7. /\ nextId[me] \in Nat /\ Id(me) <= MaxCalls /\ Id(me) = nextId[me] - 1
      /\ Fresh(me) <= nextId[me] /\ Fresh(me) \in Int
  BY <1>1, <1>4 DEF AnswersInv, IdsPositive, OnceInv, ClientTypeOK, Fresh, Id
<1>8. m \in 1 .. Id(me) /\ m \in 1 .. MaxCalls
  <2>1. m <= Id(me) BY <1>5, <1>6, <1>7
  <2>2. QED BY <1>5, <1>6, <1>7, <2>1, MaxCallsAssumption
<1>9. ASSUME NEW cl \in Clients, NEW n \in 1 .. MaxCalls
      PROVE  IF cl = me /\ n = m
             THEN Cardinality(RunsOf(cl, n)) = 0 /\ Cardinality(RunsOf(cl, n)') = 1
             ELSE Cardinality(RunsOf(cl, n)') = Cardinality(RunsOf(cl, n))
  <2>1. IF cl = me /\ n = m
        THEN /\ RunsOf(cl, n) = {}
             /\ RunsOf(cl, n)' = {<<Current, Len(ran[Current]) + 1>>}
        ELSE RunsOf(cl, n)' = RunsOf(cl, n)
    BY <1>1, <1>5, <1>4, ServeRunsOnce
  <2>2. CASE cl = me /\ n = m BY <2>1, <2>2, FS_EmptySet, FS_Singleton
  <2>3. CASE ~ (cl = me /\ n = m) BY <2>1, <2>3
  <2>4. QED BY <2>2, <2>3
<1>10. Runs[me][m] = 0 /\ Runs' = [Runs EXCEPT ![me][m] = 1]
  <2>1. Runs' = [cl \in Clients |-> [n \in 1 .. MaxCalls |-> Cardinality(RunsOf(cl, n)')]]
    BY DEF Runs
  <2>2. Runs = [cl \in Clients |-> [n \in 1 .. MaxCalls |-> Cardinality(RunsOf(cl, n))]]
    BY DEF Runs
  <2> DEFINE row(cl) == [n \in 1 .. MaxCalls |-> Cardinality(RunsOf(cl, n))]
             newRow(cl) == [n \in 1 .. MaxCalls |-> Cardinality(RunsOf(cl, n)')]
  <2>3. newRow(me) = [row(me) EXCEPT ![m] = 1] /\ row(me)[m] = 0
    <3>1. \A n \in 1 .. MaxCalls : Cardinality(RunsOf(me, n)') =
                                   IF n = m THEN 1 ELSE Cardinality(RunsOf(me, n))
      BY <1>9
    <3>2. Cardinality(RunsOf(me, m)) = 0 BY <1>4, <1>8, <1>9
    <3> DEFINE before(n) == Cardinality(RunsOf(me, n))
               after(n) == Cardinality(RunsOf(me, n)')
    <3>3. row(me) = [n \in 1 .. MaxCalls |-> before(n)]
          /\ newRow(me) = [n \in 1 .. MaxCalls |-> after(n)]
      OBVIOUS
    <3>4. \A n \in 1 .. MaxCalls : after(n) = IF n = m THEN 1 ELSE before(n) BY <3>1
    <3>5. before(m) = 0 BY <3>2
    <3> HIDE DEF before, after, row, newRow
    <3>6. QED BY <1>8, <3>3, <3>4, <3>5
  <2>4. \A cl \in Clients : cl # me => newRow(cl) = row(cl) BY <1>9
  <2>5. Runs = [cl \in Clients |-> row(cl)] /\ Runs' = [cl \in Clients |-> newRow(cl)]
    BY <2>1, <2>2
  <2> HIDE DEF row, newRow
  <2>6. Runs[me] = row(me) BY <1>4, <2>5
  <2>7. Runs' = [Runs EXCEPT ![me] = [row(me) EXCEPT ![m] = 1]]
    BY <1>4, <2>3, <2>4, <2>5
  <2>8. QED BY <2>3, <2>6, <2>7
<1>11. Asked' = Asked /\ Waiting' = Waiting /\ Answered' = Answered
  BY <1>1 DEF Asked, Id, Waiting, Answered
<1>12. Asked[me] = Id(me) BY <1>4 DEF Asked
<1>13. R!Run(me) BY <1>8, <1>10, <1>11, <1>12 DEF R!Run
<1>14. QED BY <1>4, <1>13 DEF R!Next

\* An answer that is taken is of a call that has run: R!Answer.
LEMMA TakesCallsAnswer ==
    ASSUME AnswersInv, AnswersInv', NEW cl \in Clients, TakeAnswer(cl)
    PROVE  R!Next
<1>1. /\ OnceInv /\ ClientTypeOK /\ KeepsStream /\ Reads(cl, 2) /\ Returns(cl)
      /\ calling[cl] = "read" /\ Answer(cl).id = Id(cl)
  BY DEF AnswersInv, OnceInv, TakeAnswer, AnswerArrived
<1>2. /\ UNCHANGED <<ran, nextId, owner, stream>> /\ Then(cl, "idle")
  BY <1>1 DEF Reads, buffers, KeepsStream
<1>3. Runs' = Runs /\ Asked' = Asked BY <1>1, <1>2, QuietStep
<1>4. cl \in Waiting /\ Waiting' = Waiting \ {cl} BY <1>1, <1>2, ThenWaiting DEF Waiting
<1>5. /\ accepted'[cl].call = Id(cl) /\ accepted'[cl].id = Id(cl)
      /\ accepted' = [accepted EXCEPT ![cl] =
                        [call |-> Id(cl), id |-> Answer(cl).id, by |-> Answer(cl).by]]
  BY <1>1 DEF Returns, ClientTypeOK
<1>6. Id(cl) >= 1 /\ Id(cl) <= MaxCalls /\ Id(cl) \in 1 .. MaxCalls
  BY <1>1, MaxCallsAssumption DEF AnswersInv, IdsPositive, Id, ClientTypeOK
<1>7. accepted'[cl] # NoAnswer BY <1>5, <1>6 DEF NoAnswer
<1>8. PICK c \in Connections : owner[c] = cl /\ Id(cl) \in Range(ran[c])
  <2>1. /\ owner'[accepted'[cl].by] = cl /\ accepted'[cl].by \in Connections
        /\ accepted'[cl].id \in Range(ran'[accepted'[cl].by])
    BY <1>7 DEF AnswersInv, AnswerIsOwn, AnswersBy
  <2>2. QED BY <1>2, <1>5, <2>1
<1>9. PICK i \in DOMAIN ran[c] : ran[c][i] = Id(cl) BY <1>8 DEF Range
<1>10. RunsOf(cl, Id(cl)) = {<<c, i>>}
  <2>1. <<c, i>> \in RunsOf(cl, Id(cl)) BY <1>8, <1>9, RunsAre
  <2>2. ASSUME NEW run \in RunsOf(cl, Id(cl)) PROVE run = <<c, i>>
    <3>1. PICK d \in Connections :
             /\ owner[d] = cl
             /\ \E j \in DOMAIN ran[d] : ran[d][j] = Id(cl) /\ run = <<d, j>>
      BY <2>2, RunsAre
    <3>2. PICK j \in DOMAIN ran[d] : ran[d][j] = Id(cl) /\ run = <<d, j>> BY <3>1
    <3>3. c = d /\ i = j BY <1>1, <1>8, <1>9, <3>1, <3>2 DEF OnceInv, AtMostOnce
    <3>4. QED BY <3>2, <3>3
  <2>3. QED BY <2>1, <2>2
<1>11. Runs[cl][Asked[cl]] = 1
  BY <1>6, <1>10, FS_Singleton DEF Runs, Asked
<1>12. Answered' = [Answered EXCEPT ![cl] = Asked[cl]]
  <2>1. Asked[cl] = Id(cl) BY DEF Asked
  <2>2. Answered' = [other \in Clients |-> accepted'[other].call] BY DEF Answered
  <2>3. \A other \in Clients : accepted'[other].call =
                                 IF other = cl THEN Id(cl) ELSE accepted[other].call
    BY <1>1, <1>5 DEF ClientTypeOK
  <2>4. QED BY <2>1, <2>2, <2>3 DEF Answered
<1>13. R!Answer(cl) BY <1>3, <1>4, <1>11, <1>12 DEF R!Answer
<1>14. QED BY <1>13 DEF R!Next

LEMMA StepCalls ==
    ASSUME AnswersInv, AnswersInv', NEW cl \in Clients, Step(cl)
    PROVE  [R!Next]_(R!callVars)
<1>1. OnceInv /\ ClientTypeOK BY DEF AnswersInv, OnceInv
<1>2. CASE TakeAnswer(cl) BY <1>2, TakesCallsAnswer
<1>3. ASSUME UNCHANGED <<ran, nextId, accepted>>, calling[cl] \in {"write", "resend", "read"},
             KeepsStream \/ (\E c \in Connections : Opens(cl, c)),
             NEW state \in {"write", "resend", "read", "idle"}, Then(cl, state)
      PROVE  [R!Next]_(R!callVars)
  <2>1. Runs' = Runs /\ Asked' = Asked
    BY <1>1, <1>3, OpensOwned, QuietStep DEF OnceInv
  <2>2. Answered' = Answered BY <1>3 DEF Answered
  <2>3. cl \in Waiting BY <1>3 DEF Waiting
  <2>4. CASE state = "idle"
    <3>1. Waiting' = Waiting \ {cl} BY <1>1, <1>3, <2>4, ThenWaiting
    <3>2. QED BY <2>1, <2>2, <2>3, <3>1, FailsCall
  <2>5. CASE state # "idle"
    <3>1. Waiting' = Waiting BY <1>1, <1>3, <2>3, <2>5, ThenWaiting
    <3>2. QED BY <2>1, <2>2, <3>1, SameCalls
  <2>6. QED BY <2>4, <2>5
<1>4. CASE WriteFrame(cl)
  BY <1>3, <1>4 DEF WriteFrame, buffers, KeepsStream
<1>5. CASE Resend(cl) BY <1>3, <1>5 DEF Resend, buffers
<1>6. CASE WriteFails(cl) BY <1>3, <1>6 DEF WriteFails, buffers
<1>7. ASSUME NEW n, Reads(cl, n), UNCHANGED accepted, calling[cl] = "read",
             KeepsStream \/ (\E c \in Connections : Opens(cl, c))
      PROVE  [R!Next]_(R!callVars)
  BY <1>3, <1>7 DEF Reads, buffers
<1>8. CASE Mismatch(cl) BY <1>7, <1>8 DEF Mismatch, AnswerArrived
<1>9. CASE RefuseAnswer(cl) BY <1>7, <1>9 DEF RefuseAnswer
<1>10. CASE MisreadAnswer(cl) BY <1>7, <1>10 DEF MisreadAnswer
<1>11. CASE ReadFails(cl) BY <1>7, <1>11 DEF ReadFails, ReadsPart
<1>12. CASE ReadTimesOut(cl) BY <1>7, <1>12 DEF ReadTimesOut, ReadsPart
<1>13. QED BY <1>2, <1>4, <1>5, <1>6, <1>8, <1>9, <1>10, <1>11, <1>12 DEF Step

LEMMA InvokeAsks ==
    ASSUME AnswersInv, NEW cl \in Clients, Invoke(cl)
    PROVE  R!Next
<1>1. /\ OnceInv /\ ClientTypeOK /\ calling[cl] = "idle" /\ nextId[cl] <= MaxCalls
      /\ nextId' = [nextId EXCEPT ![cl] = @ + 1] /\ Then(cl, "write")
      /\ UNCHANGED <<ran, owner, accepted>>
  BY DEF AnswersInv, OnceInv, Invoke, serverVars, buffers
<1>2. nextId \in [Clients -> Nat \ {0}] BY <1>1 DEF ClientTypeOK
<1>3. Asked[cl] < MaxCalls /\ Asked' = [Asked EXCEPT ![cl] = @ + 1]
  <2>1. Asked[cl] = nextId[cl] - 1 BY DEF Asked, Id
  <2>2. Asked' = [other \in Clients |-> nextId'[other] - 1] BY DEF Asked, Id
  <2>3. \A other \in Clients : nextId'[other] - 1 =
                      IF other = cl THEN (nextId[cl] - 1) + 1 ELSE nextId[other] - 1
    BY <1>1, <1>2
  <2>4. Asked = [other \in Clients |-> nextId[other] - 1] BY DEF Asked, Id
  <2>5. Asked' = [Asked EXCEPT ![cl] = @ + 1] BY <2>2, <2>3, <2>4
  <2>6. QED BY <1>1, <1>2, <2>1, <2>5, MaxCallsAssumption
<1>4. cl \notin Waiting /\ Waiting' = Waiting \cup {cl}
  BY <1>1, ThenWaiting DEF Waiting
<1>5. Runs' = Runs BY <1>1, RunsSame DEF Runs
<1>6. Answered' = Answered BY <1>1 DEF Answered
<1>7. R!Ask(cl) BY <1>3, <1>4, <1>5, <1>6 DEF R!Ask
<1>8. QED BY <1>7 DEF R!Next

\* Every step of client, server and network is a step of RemoteCalls or none.
LEMMA NextCalls ==
    ASSUME AnswersInv, AnswersInv', [ClientNext]_allVars
    PROVE  [R!Next]_(R!callVars)
<1>1. OnceInv /\ ClientTypeOK /\ SessionTypeOK BY DEF AnswersInv, OnceInv, ClientTypeOK
<1>2. ASSUME UNCHANGED <<ran, clientVars>> PROVE [R!Next]_(R!callVars)
  <2>1. Runs' = Runs /\ Asked' = Asked BY <1>1, <1>2, QuietStep DEF clientVars
  <2>2. Waiting' = Waiting /\ Answered' = Answered BY <1>2 DEF clientVars, Waiting, Answered
  <2>3. QED BY <2>1, <2>2, SameCalls
<1>3. CASE Server /\ UNCHANGED clientVars
  <2>1. Serve \/ ran' = ran
    BY <1>3 DEF Server, Accept, PollRead, PollReadFails, PassOver, ServeAgain, FrameTooLarge,
                ReadGarbage, Keep, DropAtEof, Drop, buffers
  <2>2. QED BY <1>2, <1>3, <2>1, ServeRunsCall
<1>4. ASSUME NEW cl \in Clients, Connect(cl) PROVE [R!Next]_(R!callVars)
  <2>1. /\ UNCHANGED <<ran, nextId, accepted>> /\ Then(cl, "idle") /\ calling[cl] = "off"
        /\ \E c \in Connections : Opens(cl, c)
    BY <1>4 DEF Connect, buffers
  <2>2. Runs' = Runs /\ Asked' = Asked BY <1>1, <2>1, OpensOwned, QuietStep DEF OnceInv
  <2>3. Waiting' = Waiting
    <3>1. Waiting' = Waiting \ {cl} BY <1>1, <2>1, ThenWaiting
    <3>2. cl \notin Waiting BY <2>1 DEF Waiting
    <3>3. QED BY <3>1, <3>2
  <2>4. Answered' = Answered BY <2>1 DEF Answered
  <2>5. QED BY <2>2, <2>3, <2>4, SameCalls
<1>5. ASSUME NEW cl \in Clients, Invoke(cl) PROVE [R!Next]_(R!callVars)
  BY <1>5, InvokeAsks
<1>6. ASSUME NEW cl \in Clients, Step(cl) PROVE [R!Next]_(R!callVars)
  BY <1>6, StepCalls
<1>7. CASE (\E c \in Connections : Break(c)) \/ UNCHANGED allVars
  BY <1>2, <1>7 DEF Break, allVars, serverVars, buffers
<1>8. QED BY <1>3, <1>4, <1>5, <1>6, <1>7 DEF ClientNext

LEMMA InitCalls == ClientInit => R!Init
<1> SUFFICES ASSUME ClientInit PROVE R!Init
  OBVIOUS
<1>1. /\ ran = [c \in Connections |-> <<>>] /\ nextId = [cl \in Clients |-> 1]
      /\ calling = [cl \in Clients |-> "off"] /\ accepted = [cl \in Clients |-> NoAnswer]
  BY DEF ClientInit, SessionInit
<1>2. Asked = [cl \in Clients |-> 0] BY <1>1 DEF Asked, Id
<1>3. Waiting = {} BY <1>1 DEF Waiting
<1>4. ASSUME NEW cl \in Clients, NEW n PROVE Cardinality(RunsOf(cl, n)) = 0
  <2>1. \A c \in Connections : DOMAIN ran[c] = {} BY <1>1
  <2>2. RunsOf(cl, n) = {} BY <2>1, RunsAre
  <2>3. QED BY <2>2, FS_EmptySet
<1>5. Runs = [cl \in Clients |-> [n \in 1 .. MaxCalls |-> 0]] BY <1>4 DEF Runs
<1>6. Answered = [cl \in Clients |-> 0] BY <1>1 DEF Answered, NoAnswer
<1>7. QED BY <1>2, <1>3, <1>5, <1>6 DEF R!Init

\* ProcessClient and Session implement RemoteCalls, by the mapping of RpcClient: a call
\* runs when handle_message runs it first, and is answered when invoke_value returns.
THEOREM ClientImplementsCalls == ClientSpec => ImplementsRemoteCalls
<1>1. QED BY InitAnswers, NextAnswers, InitCalls, NextCalls, PTL
          DEF ClientSpec, ImplementsRemoteCalls, R!Spec
=============================================================================
