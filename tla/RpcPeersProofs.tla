--------------------------- MODULE RpcPeersProofs ---------------------------
(***************************************************************************)
(* Whatever clients send, in whatever order their connections come and go  *)
(* and however the socket cuts what is written, a session answers every    *)
(* invocation in order, and runs an id again only when it was forgotten.   *)
(***************************************************************************)
EXTENDS RpcPeers, SequenceTheorems, FiniteSetTheorems, WellFoundedInduction, TLAPS

----------------------------------------------------------------------------
(* What every action of the server does to the types of its state, whoever *)
(* its clients are: RpcClientProofs uses it too.                           *)

\* What is left of a stream is its end.
LEMMA RestIsEnd ==
    ASSUME NEW S, NEW s \in Seq(S), NEW n \in 0 .. Len(s)
    PROVE  /\ Rest(s, n) \in Seq(S)
           /\ Len(Rest(s, n)) = Len(s) - n
           /\ \A i \in 1 .. (Len(s) - n) : Rest(s, n)[i] = s[n + i]
<1>1. Len(s) \in Nat /\ n + 1 \in 1 .. Len(s) + 1 /\ Len(s) \in (n + 1) - 1 .. Len(s)
  OBVIOUS
<1>2. QED BY <1>1, SubSeqProperties DEF Rest

\* The first n elements of a sequence.
LEMMA StartOf ==
    ASSUME NEW S, NEW s \in Seq(S), NEW n \in 0 .. Len(s)
    PROVE  /\ SubSeq(s, 1, n) \in Seq(S)
           /\ Len(SubSeq(s, 1, n)) = n
<1>1. Len(s) \in Nat /\ 1 \in 1 .. Len(s) + 1 /\ n \in 1 - 1 .. Len(s)
  OBVIOUS
<1>2. QED BY <1>1, SubSeqProperties

\* A frame is two pieces.
LEMMA BytesOf ==
    ASSUME NEW F, NEW frame \in F
    PROVE  /\ Bytes(frame) \in Seq(Pieces(F))
           /\ Len(Bytes(frame)) = 2
           /\ Bytes(frame)[1] = [part |-> "length", of |-> frame]
           /\ Bytes(frame)[2] = [part |-> "payload", of |-> frame]
  BY DEF Bytes, Pieces

\* The elements of parts of sequences.
LEMMA RangeOfConcat ==
    ASSUME NEW S, NEW s \in Seq(S), NEW t \in Seq(S)
    PROVE  Range(s \o t) \subseteq Range(s) \cup Range(t)
<1> SUFFICES ASSUME NEW i \in DOMAIN (s \o t)
             PROVE  (s \o t)[i] \in Range(s) \cup Range(t)
  BY DEF Range
<1>1. Len(s) \in Nat /\ Len(t) \in Nat /\ DOMAIN s = 1 .. Len(s) /\ DOMAIN t = 1 .. Len(t)
      /\ i \in 1 .. (Len(s) + Len(t))
  OBVIOUS
<1>2. CASE i <= Len(s)
  <2>1. (s \o t)[i] = s[i] /\ i \in DOMAIN s BY <1>1, <1>2
  <2>2. QED BY <2>1 DEF Range
<1>3. CASE i > Len(s)
  <2>1. (s \o t)[i] = t[i - Len(s)] /\ i - Len(s) \in DOMAIN t BY <1>1, <1>3
  <2>2. QED BY <2>1 DEF Range
<1>4. QED BY <1>1, <1>2, <1>3

LEMMA RangeOfRest ==
    ASSUME NEW S, NEW s \in Seq(S), NEW n \in 0 .. Len(s)
    PROVE  Range(Rest(s, n)) \subseteq Range(s)
<1> SUFFICES ASSUME NEW i \in DOMAIN Rest(s, n)
             PROVE  Rest(s, n)[i] \in Range(s)
  BY DEF Range
<1>1. Rest(s, n) \in Seq(S) /\ Len(Rest(s, n)) = Len(s) - n /\ Len(s) \in Nat
      /\ \A k \in 1 .. (Len(s) - n) : Rest(s, n)[k] = s[n + k]
  BY RestIsEnd
<1>2. i \in 1 .. (Len(s) - n) BY <1>1
<1>3. Rest(s, n)[i] = s[n + i] /\ n + i \in DOMAIN s BY <1>1, <1>2
<1>4. QED BY <1>3 DEF Range

LEMMA RangeOfStart ==
    ASSUME NEW S, NEW s \in Seq(S), NEW n \in 0 .. Len(s)
    PROVE  Range(SubSeq(s, 1, n)) \subseteq Range(s)
<1> SUFFICES ASSUME NEW i \in DOMAIN SubSeq(s, 1, n)
             PROVE  SubSeq(s, 1, n)[i] \in Range(s)
  BY DEF Range
<1>1. SubSeq(s, 1, n) \in Seq(S) /\ Len(SubSeq(s, 1, n)) = n /\ Len(s) \in Nat
  BY StartOf
<1>2. i \in 1 .. n /\ i \in DOMAIN s BY <1>1
<1>3. SubSeq(s, 1, n)[i] = s[i] BY <1>2
<1>4. QED BY <1>2, <1>3 DEF Range

LEMMA RangeOfAppend ==
    ASSUME NEW S, NEW s \in Seq(S), NEW x \in S
    PROVE  Range(Append(s, x)) = Range(s) \cup {x}
<1>1. Len(s) \in Nat /\ DOMAIN s = 1 .. Len(s) /\ DOMAIN Append(s, x) = 1 .. Len(s) + 1
      /\ Append(s, x)[Len(s) + 1] = x /\ \A i \in 1 .. Len(s) : Append(s, x)[i] = s[i]
  OBVIOUS
<1>2. Range(Append(s, x)) = {Append(s, x)[i] : i \in 1 .. Len(s) + 1} BY <1>1 DEF Range
<1>3. Range(s) = {s[i] : i \in 1 .. Len(s)} BY <1>1 DEF Range
<1>4. 1 .. Len(s) + 1 = 1 .. Len(s) \cup {Len(s) + 1} BY <1>1
<1>5. QED BY <1>1, <1>2, <1>3, <1>4

LEMMA RangeOfTail ==
    ASSUME NEW S, NEW s \in Seq(S), s # <<>>
    PROVE  Range(Tail(s)) \subseteq Range(s)
<1> SUFFICES ASSUME NEW i \in DOMAIN Tail(s)
             PROVE  Tail(s)[i] \in Range(s)
  BY DEF Range
<1>1. Tail(s)[i] = s[i + 1] /\ i + 1 \in DOMAIN s OBVIOUS
<1>2. QED BY <1>1 DEF Range

----------------------------------------------------------------------------
(* Types.                                                                  *)

LEMMA TypesAt ==
    ASSUME SessionTypeOK, NEW c \in Connections
    PROVE  /\ up[c] \in Seq(Pieces(Requests)) /\ Len(up[c]) \in Nat
           /\ rx[c] \in Nat /\ rx[c] <= Len(up[c])
           /\ down[c] \in Seq(Pieces(Answers)) /\ Len(down[c]) \in Nat
           /\ tx[c] \in Nat /\ tx[c] <= Len(down[c])
           /\ Len(down[c]) - tx[c] \in 0 .. Len(down[c])
           /\ cache[c] \in Seq(Answers) /\ Len(cache[c]) <= MaxEntries
<1>1. /\ up[c] \in Seq(Pieces(Requests)) /\ rx[c] \in Nat /\ rx[c] <= Len(up[c])
      /\ down[c] \in Seq(Pieces(Answers)) /\ tx[c] \in Nat /\ tx[c] <= Len(down[c])
      /\ cache[c] \in Seq(Answers) /\ Len(cache[c]) <= MaxEntries
  BY DEF SessionTypeOK
<1>2. Len(up[c]) \in Nat /\ Len(down[c]) \in Nat BY <1>1
<1>3. QED BY <1>1, <1>2

\* A frame at the head of rx_buf is one that some client sent.
LEMMA RequestTyped ==
    ASSUME SessionTypeOK, unread # <<>>
    PROVE  /\ Current \in Connections
           /\ AtFrame => Request \in Requests /\ rx[Current] >= 2 /\ Len(up[Current]) >= 2
<1>1. Current \in Connections BY DEF SessionTypeOK, Current
<1>2. /\ up[Current] \in Seq(Pieces(Requests))
      /\ rx[Current] \in Nat /\ rx[Current] <= Len(up[Current])
  BY <1>1, TypesAt
<1>3. ASSUME AtFrame PROVE rx[Current] >= 2 /\ Len(up[Current]) >= 2
  BY <1>2, <1>3 DEF AtFrame, FrameArrived
<1>4. ASSUME AtFrame PROVE Request \in Requests
  <2>1. up[Current][2] \in Pieces(Requests) BY <1>2, <1>3, <1>4
  <2>2. QED BY <2>1 DEF Pieces, Request
<1>5. QED BY <1>1, <1>3, <1>4

\* flush_write leaves part of what was to be written in tx_buf.
LEMMA FlushTyped ==
    ASSUME SessionTypeOK, NEW c \in Connections,
           NEW pending \in Seq(Pieces(Answers)), Flush(c, pending)
    PROVE  /\ down' \in [Connections -> Seq(Pieces(Answers))]
           /\ tx' \in [Connections -> Nat]
           /\ \A d \in Connections : tx'[d] <= Len(down'[d])
<1>1. PICK n \in 0 .. Len(pending) :
         /\ down' = [down EXCEPT ![c] = SubSeq(@, 1, Len(@) - tx[c]) \o pending]
         /\ tx' = [tx EXCEPT ![c] = n]
  BY DEF Flush
<1> DEFINE written == SubSeq(down[c], 1, Len(down[c]) - tx[c])
<1>2. /\ down[c] \in Seq(Pieces(Answers)) /\ tx[c] \in Nat /\ tx[c] <= Len(down[c])
      /\ Len(down[c]) - tx[c] \in 0 .. Len(down[c])
  BY DEF SessionTypeOK
<1>3. written \in Seq(Pieces(Answers)) BY <1>2, StartOf
<1>4. written \o pending \in Seq(Pieces(Answers)) /\ Len(written \o pending) >= Len(pending)
  BY <1>3
<1>5. down' = [down EXCEPT ![c] = written \o pending] /\ tx' = [tx EXCEPT ![c] = n]
  BY <1>1
<1> HIDE DEF written
<1>6. n \in Nat /\ n <= Len(pending) OBVIOUS
<1>7. ASSUME NEW d \in Connections PROVE tx'[d] <= Len(down'[d])
  <2>1. CASE d = c BY <2>1, <1>4, <1>5, <1>6 DEF SessionTypeOK
  <2>2. CASE d # c BY <2>2, <1>5 DEF SessionTypeOK
  <2>3. QED BY <2>1, <2>2
<1>8. QED BY <1>4, <1>5, <1>6, <1>7 DEF SessionTypeOK

LEMMA PendingTyped ==
    ASSUME SessionTypeOK, NEW c \in Connections
    PROVE  Pending(c) \in Seq(Pieces(Answers))
<1>1. /\ down[c] \in Seq(Pieces(Answers)) /\ tx[c] \in Nat /\ tx[c] <= Len(down[c])
      /\ Len(down[c]) - tx[c] \in 0 .. Len(down[c])
  BY DEF SessionTypeOK
<1>2. QED BY <1>1, RestIsEnd DEF Pending

LEMMA WriteTyped ==
    ASSUME SessionTypeOK, NEW c \in Connections, NEW answer \in Answers, Write(c, answer)
    PROVE  /\ down' \in [Connections -> Seq(Pieces(Answers))]
           /\ tx' \in [Connections -> Nat]
           /\ \A d \in Connections : tx'[d] <= Len(down'[d])
<1>1. Pending(c) \in Seq(Pieces(Answers)) BY PendingTyped
<1>2. Bytes(answer) \in Seq(Pieces(Answers)) BY BytesOf
<1>3. Pending(c) \o Bytes(answer) \in Seq(Pieces(Answers)) BY <1>1, <1>2
<1>4. QED BY <1>3, FlushTyped DEF Write

\* The server takes n pieces off a stream.
LEMMA ConsumeTyped ==
    ASSUME SessionTypeOK, NEW c \in Connections, NEW n \in 0 .. rx[c], Consume(c, n)
    PROVE  /\ up' \in [Connections -> Seq(Pieces(Requests))]
           /\ rx' \in [Connections -> Nat]
           /\ \A d \in Connections : rx'[d] <= Len(up'[d])
<1>1. /\ up[c] \in Seq(Pieces(Requests)) /\ rx[c] \in Nat /\ rx[c] <= Len(up[c])
      /\ n \in 0 .. Len(up[c])
  BY DEF SessionTypeOK
<1>2. Rest(up[c], n) \in Seq(Pieces(Requests)) /\ Len(Rest(up[c], n)) = Len(up[c]) - n
  BY <1>1, RestIsEnd
<1>3. up' = [up EXCEPT ![c] = Rest(up[c], n)] /\ rx' = [rx EXCEPT ![c] = rx[c] - n]
  BY DEF Consume
<1>4. rx[c] - n \in Nat /\ rx[c] - n <= Len(Rest(up[c], n)) BY <1>1, <1>2
<1>5. ASSUME NEW d \in Connections PROVE rx'[d] <= Len(up'[d])
  <2>1. CASE d = c BY <2>1, <1>3, <1>4 DEF SessionTypeOK
  <2>2. CASE d # c BY <2>2, <1>3 DEF SessionTypeOK
  <2>3. QED BY <2>1, <2>2
<1>6. QED BY <1>2, <1>3, <1>4, <1>5 DEF SessionTypeOK

\* A session that is dropped leaves nothing behind.
LEMMA DropTyped ==
    ASSUME SessionTypeOK, unread # <<>>, NEW c \in Connections, Drop(c)
    PROVE  SessionTypeOK'
<1>1. c \in Connections OBVIOUS
<1>2. /\ up' = [up EXCEPT ![c] = <<>>]
      /\ rx' = [rx EXCEPT ![c] = 0]
      /\ down' = [down EXCEPT ![c] = SubSeq(down[c], 1, Len(down[c]) - tx[c])]
      /\ tx' = [tx EXCEPT ![c] = 0]
      /\ cache' = [cache EXCEPT ![c] = <<>>]
      /\ unread' = Tail(unread) /\ reading' = "poll"
      /\ UNCHANGED <<peer, ran, sessions, backlog>>
  BY DEF Drop, NextSession
<1>3. /\ down[c] \in Seq(Pieces(Answers)) /\ tx[c] \in Nat /\ tx[c] <= Len(down[c])
      /\ Len(down[c]) - tx[c] \in 0 .. Len(down[c])
  BY <1>1, TypesAt
<1>4. SubSeq(down[c], 1, Len(down[c]) - tx[c]) \in Seq(Pieces(Answers)) BY <1>3, StartOf
<1>5. Tail(unread) \in Seq(Connections) BY DEF SessionTypeOK
<1>6. /\ up' \in [Connections -> Seq(Pieces(Requests))]
      /\ rx' \in [Connections -> Nat] /\ \A d \in Connections : rx'[d] <= Len(up'[d])
  <2>1. up' \in [Connections -> Seq(Pieces(Requests))]
    BY <1>2 DEF SessionTypeOK
  <2>2. rx' \in [Connections -> Nat]
    BY <1>2 DEF SessionTypeOK
  <2>3. ASSUME NEW d \in Connections PROVE rx'[d] <= Len(up'[d])
    <3>1. CASE d = c BY <3>1, <1>2 DEF SessionTypeOK
    <3>2. CASE d # c BY <3>2, <1>2, TypesAt DEF SessionTypeOK
    <3>3. QED BY <3>1, <3>2
  <2>4. QED BY <2>1, <2>2, <2>3
<1>7. down' \in [Connections -> Seq(Pieces(Answers))]
  BY <1>1, <1>2, <1>4 DEF SessionTypeOK
<1>8. tx' \in [Connections -> Nat] /\ \A d \in Connections : tx'[d] <= Len(down'[d])
  <2>1. ASSUME NEW d \in Connections PROVE tx'[d] <= Len(down'[d])
    <3>1. CASE d = c BY <3>1, <1>2, <1>7 DEF SessionTypeOK
    <3>2. CASE d # c BY <3>2, <1>2 DEF SessionTypeOK
    <3>3. QED BY <3>1, <3>2
  <2>2. QED BY <2>1, <1>1, <1>2 DEF SessionTypeOK
<1>9. cache' \in [Connections -> Seq(Answers)] /\ \A d \in Connections : Len(cache'[d]) <= MaxEntries
  <2>1. cache' \in [Connections -> Seq(Answers)]
    BY <1>1, <1>2 DEF SessionTypeOK
  <2>2. ASSUME NEW d \in Connections PROVE Len(cache'[d]) <= MaxEntries
    <3>1. CASE d = c BY <3>1, <1>2, MaxEntriesAssumption DEF SessionTypeOK
    <3>2. CASE d # c BY <3>2, <1>2 DEF SessionTypeOK
    <3>3. QED BY <3>1, <3>2
  <2>3. QED BY <2>1, <2>2
<1>10. QED BY <1>2, <1>5, <1>6, <1>7, <1>8, <1>9 DEF SessionTypeOK

\* cache_invoke_result keeps the cache within its limit.
LEMMA RememberTyped ==
    ASSUME SessionTypeOK, NEW c \in Connections, NEW answer \in Answers, Remember(c, answer)
    PROVE  /\ cache' \in [Connections -> Seq(Answers)]
           /\ \A d \in Connections : Len(cache'[d]) <= MaxEntries
<1> DEFINE longer == Append(cache[c], answer)
           kept   == IF Len(cache[c]) = MaxEntries THEN Tail(longer) ELSE longer
<1>1. cache[c] \in Seq(Answers) /\ Len(cache[c]) \in Nat /\ Len(cache[c]) <= MaxEntries
  BY TypesAt
<1>2. longer \in Seq(Answers) /\ Len(longer) = Len(cache[c]) + 1 /\ longer # <<>>
  BY <1>1
<1>3. Tail(longer) \in Seq(Answers) /\ Len(Tail(longer)) = Len(cache[c])
  <2> HIDE DEF longer
  <2>1. QED BY <1>1, <1>2
<1>4. kept \in Seq(Answers) /\ Len(kept) <= MaxEntries
  <2> HIDE DEF longer
  <2>1. QED BY <1>1, <1>2, <1>3, MaxEntriesAssumption
<1>5. cache' = [cache EXCEPT ![c] = kept] BY DEF Remember
<1> HIDE DEF kept, longer
<1>6. cache' \in [Connections -> Seq(Answers)] BY <1>4, <1>5 DEF SessionTypeOK
<1>7. ASSUME NEW d \in Connections PROVE Len(cache'[d]) <= MaxEntries
  <2>1. CASE d = c BY <2>1, <1>4, <1>5 DEF SessionTypeOK
  <2>2. CASE d # c BY <2>2, <1>5, TypesAt DEF SessionTypeOK
  <2>3. QED BY <2>1, <2>2
<1>8. QED BY <1>6, <1>7

\* Every action of the server keeps the types.
LEMMA ServerTyped ==
    ASSUME SessionTypeOK, Server
    PROVE  SessionTypeOK'
<1> DEFINE c == Current
<1>1. ASSUME unread # <<>>
      PROVE  c \in Connections /\ Tail(unread) \in Seq(Connections)
  <2>1. unread \in Seq(Connections) BY DEF SessionTypeOK
  <2>2. QED BY <1>1, <2>1, RequestTyped
<1>2. CASE Accept
  <2>1. PICK n \in 0 .. Len(backlog) :
           unread' = sessions \o SubSeq(backlog, 1, n) /\ backlog' = Rest(backlog, n)
    BY <1>2 DEF Accept
  <2>2. backlog \in Seq(Connections) /\ sessions \in Seq(Connections) BY DEF SessionTypeOK
  <2>3. SubSeq(backlog, 1, n) \in Seq(Connections) /\ Rest(backlog, n) \in Seq(Connections)
    BY <2>2, StartOf, RestIsEnd
  <2>4. unread' \in Seq(Connections) /\ backlog' \in Seq(Connections) BY <2>1, <2>2, <2>3
  <2>5. QED BY <1>2, <2>4 DEF Accept, SessionTypeOK, wires, buffers
<1>3. CASE PollRead
  <2>1. c \in Connections BY <1>1, <1>3 DEF PollRead
  <2>2. PICK n \in rx[c] .. Len(up[c]) : rx' = [rx EXCEPT ![c] = n]
    BY <1>3 DEF PollRead
  <2>3. reading' \in {"poll", "frames", "last"}
        /\ UNCHANGED <<peer, up, down, tx, cache, ran, backlog, sessions, unread>>
    BY <1>3 DEF PollRead, wires
  <2> HIDE DEF c
  <2>4. n \in Nat /\ n <= Len(up[c]) BY <2>1, TypesAt
  <2>5. rx' \in [Connections -> Nat] BY <2>2, <2>4 DEF SessionTypeOK
  <2>6. ASSUME NEW d \in Connections PROVE rx'[d] <= Len(up'[d])
    <3>1. CASE d = c BY <3>1, <2>2, <2>3, <2>4 DEF SessionTypeOK
    <3>2. CASE d # c BY <3>2, <2>2, <2>3, TypesAt DEF SessionTypeOK
    <3>3. QED BY <3>1, <3>2
  <2>7. QED BY <2>3, <2>5, <2>6 DEF SessionTypeOK
<1>4. CASE PollReadFails \/ FrameTooLarge \/ DropAtEof
  <2>1. unread # <<>> /\ Drop(c)
    BY <1>4 DEF PollReadFails, FrameTooLarge, DropAtEof, OutOfFrames
  <2>2. QED BY <2>1, <1>1, DropTyped
<1>5. CASE PassOver
  <2>1. c \in Connections /\ 2 \in 0 .. rx[c] /\ Consume(c, 2)
    BY <1>1, <1>5, RequestTyped, TypesAt DEF PassOver, AtFrame
  <2>2. UNCHANGED <<peer, down, tx, cache, ran, backlog, sessions, unread, reading>>
    BY <1>5 DEF PassOver, turn
  <2> HIDE DEF c
  <2>3. QED BY <2>1, <2>2, ConsumeTyped DEF SessionTypeOK
<1>6. CASE ServeAgain
  <2>1. c \in Connections /\ 2 \in 0 .. rx[c] /\ Consume(c, 2)
    BY <1>1, <1>6, RequestTyped, TypesAt DEF ServeAgain, AtFrame
  <2>2. PICK answer \in Cached(c, Request.id) : Write(c, answer)
    BY <1>6 DEF ServeAgain
  <2>3. answer \in Answers
    <3>1. cache[c] \in Seq(Answers) BY <2>1, TypesAt
    <3>2. answer \in Range(cache[c]) BY <2>2 DEF Cached
    <3>3. QED BY <3>1, <3>2 DEF Range
  <2>4. UNCHANGED <<peer, cache, ran, backlog, sessions, unread, reading>>
    BY <1>6 DEF ServeAgain, turn
  <2> HIDE DEF c
  <2>5. QED BY <2>1, <2>2, <2>3, <2>4, ConsumeTyped, WriteTyped DEF SessionTypeOK
<1>7. CASE Serve
  <2>1. c \in Connections /\ 2 \in 0 .. rx[c] /\ Consume(c, 2) /\ Request \in Requests
    BY <1>1, <1>7, RequestTyped, TypesAt DEF Serve, AtFrame
  <2>2. PICK large \in BOOLEAN :
           /\ Remember(c, [id |-> Request.id, by |-> c, large |-> large])
           /\ Write(c, [id |-> Request.id, by |-> c, large |-> large])
    BY <1>7 DEF Serve
  <2>3. Request.id \in Nat BY <2>1 DEF Requests
  <2>4. ran' = [ran EXCEPT ![c] = Append(@, Request.id)]
        /\ UNCHANGED <<peer, backlog, sessions, unread, reading>>
    BY <1>7 DEF Serve, turn
  <2> DEFINE id == Request.id
  <2> HIDE DEF c, id
  <2>5. [id |-> id, by |-> c, large |-> large] \in Answers BY <2>1, <2>3 DEF Answers, id
  <2>6. ran' \in [Connections -> Seq(Nat)] BY <2>1, <2>3, <2>4 DEF SessionTypeOK
  <2>7. /\ cache' \in [Connections -> Seq(Answers)]
        /\ \A d \in Connections : Len(cache'[d]) <= MaxEntries
    BY <2>1, <2>2, <2>5, RememberTyped DEF id
  <2>8. /\ down' \in [Connections -> Seq(Pieces(Answers))]
        /\ tx' \in [Connections -> Nat]
        /\ \A d \in Connections : tx'[d] <= Len(down'[d])
    BY <2>1, <2>2, <2>5, WriteTyped DEF id
  <2>9. QED BY <2>1, <2>4, <2>6, <2>7, <2>8, ConsumeTyped DEF SessionTypeOK
<1>8. CASE ReadGarbage
  <2>1. unread # <<>> /\ c \in Connections BY <1>1, <1>8 DEF ReadGarbage
  <2>2. CASE Drop(c) BY <2>1, <2>2, DropTyped
  <2>3. CASE /\ \E n \in 1 .. rx[c] : Consume(c, n)
             /\ UNCHANGED <<peer, down, tx, cache, ran, backlog, sessions, unread, reading>>
    <3> HIDE DEF c
    <3>1. PICK n \in 1 .. rx[c] : Consume(c, n) BY <2>3
    <3>2. n \in 0 .. rx[c] BY <2>1, TypesAt
    <3>3. QED BY <2>1, <2>3, <3>1, <3>2, ConsumeTyped DEF SessionTypeOK
  <2>4. QED BY <1>8, <2>2, <2>3 DEF ReadGarbage, turn
<1>9. CASE Keep
  <2>1. c \in Connections /\ Flush(c, Pending(c)) BY <1>1, <1>9 DEF Keep, OutOfFrames
  <2>2. /\ sessions' = Append(sessions, c) /\ unread' = Tail(unread)
        /\ reading' = "poll" /\ UNCHANGED <<backlog, peer, up, rx, cache, ran>>
    BY <1>9 DEF Keep, NextSession
  <2>3. Tail(unread) \in Seq(Connections) BY <1>1, <1>9 DEF Keep, OutOfFrames
  <2> HIDE DEF c
  <2>4. Pending(c) \in Seq(Pieces(Answers)) BY <2>1, PendingTyped
  <2>5. sessions' \in Seq(Connections) BY <2>1, <2>2 DEF SessionTypeOK
  <2>6. QED BY <2>1, <2>2, <2>3, <2>4, <2>5, FlushTyped DEF SessionTypeOK
<1>10. QED BY <1>2, <1>3, <1>4, <1>5, <1>6, <1>7, <1>8, <1>9 DEF Server

----------------------------------------------------------------------------
(* Invocations among frames.                                               *)

\* What holds of 0 and of the successor of every number it holds of.
LEMMA Induction ==
    ASSUME NEW T, 0 \in T, \A n \in Nat : n \in T => n + 1 \in T
    PROVE  \A n \in Nat : n \in T
<1> DEFINE Less == OpToRel(<, Nat)
           Rest0 == Nat \ T
<1>1. IsWellFoundedOn(Less, Nat)
  BY NatLessThanWellFounded, Zenon
<1>2. \A x, y \in Nat : <<y, x>> \in Less <=> y < x
  BY DEF OpToRel
<1>3. Rest0 \subseteq Nat
  OBVIOUS
<1> SUFFICES ASSUME Rest0 # {} PROVE FALSE
  OBVIOUS
<1> HIDE DEF Less, Rest0
<1>4. PICK x \in Rest0 : \A y \in Rest0 : ~ (<<y, x>> \in Less)
  BY <1>1, <1>3, WFMin, Zenon
<1> USE DEF Rest0
<1>5. x \in Nat /\ x - 1 \in Nat /\ x - 1 < x /\ (x - 1) + 1 = x
  BY <1>4
<1>6. x - 1 \in T
  BY <1>2, <1>4, <1>5
<1> QED
  BY <1>4, <1>5, <1>6

\* The invocations among the first m frames, as Invocations counts them.
Among(frames, m, among) ==
    /\ among[0] = <<>>
    /\ \A n \in 1 .. m :
          among[n] = IF frames[n].kind = "invoke" THEN Append(among[n - 1], frames[n].id)
                     ELSE among[n - 1]

LEMMA AmongUnique ==
    ASSUME NEW frames, NEW m \in Nat, NEW f, NEW g, Among(frames, m, f), Among(frames, m, g)
    PROVE  \A n \in 0 .. m : f[n] = g[n]
<1> DEFINE T == {n \in Nat : n <= m => f[n] = g[n]}
<1>1. 0 \in T
  BY DEF Among
<1>2. ASSUME NEW n \in Nat, n \in T PROVE n + 1 \in T
  <2> SUFFICES ASSUME n + 1 <= m PROVE f[n + 1] = g[n + 1]
    OBVIOUS
  <2>1. n + 1 \in 1 .. m /\ (n + 1) - 1 = n /\ f[n] = g[n]
    BY <1>2
  <2> QED
    BY <2>1 DEF Among
<1> HIDE DEF T
<1>3. \A n \in Nat : n \in T
  BY <1>1, <1>2, Induction
<1> QED
  BY <1>3 DEF T

LEMMA AmongExists ==
    ASSUME NEW frames, NEW m \in Nat
    PROVE  \E f : Among(frames, m, f)
<1> DEFINE T == {n \in Nat : \E f : Among(frames, n, f)}
<1>1. 0 \in T
  <2>1. Among(frames, 0, [n \in {0} |-> <<>>])
    BY DEF Among
  <2> QED
    BY <2>1
<1>2. ASSUME NEW n \in Nat, n \in T PROVE n + 1 \in T
  <2>1. PICK f : Among(frames, n, f)
    BY <1>2
  <2> DEFINE last == IF frames[n + 1].kind = "invoke"
                     THEN Append(f[n], frames[n + 1].id) ELSE f[n]
             g == [k \in 0 .. (n + 1) |-> IF k = n + 1 THEN last ELSE f[k]]
  <2>2. g[0] = <<>> /\ g[n + 1] = last /\ \A k \in 0 .. n : g[k] = f[k]
    BY <2>1 DEF Among
  <2>3. ASSUME NEW k \in 1 .. (n + 1)
        PROVE  g[k] = IF frames[k].kind = "invoke" THEN Append(g[k - 1], frames[k].id)
                      ELSE g[k - 1]
    <3>1. CASE k = n + 1
      <4>1. g[k - 1] = f[n] /\ g[k] = last
        BY <2>2, <3>1
      <4> QED
        BY <3>1, <4>1
    <3>2. CASE k \in 1 .. n
      <4>1. g[k] = f[k] /\ g[k - 1] = f[k - 1]
        BY <2>2, <3>2
      <4> QED
        BY <2>1, <3>2, <4>1 DEF Among
    <3> QED
      BY <3>1, <3>2
  <2> HIDE DEF g
  <2>4. Among(frames, n + 1, g)
    BY <2>2, <2>3 DEF Among
  <2> QED
    BY <2>4
<1> HIDE DEF T
<1>3. \A n \in Nat : n \in T
  BY <1>1, <1>2, Induction
<1> QED
  BY <1>3 DEF T

\* Any such count gives the invocations.
LEMMA InvocationsAre ==
    ASSUME NEW S, NEW frames \in Seq(S), NEW among, Among(frames, Len(frames), among)
    PROVE  Invocations(frames) = among[Len(frames)]
<1> DEFINE m == Len(frames)
           Step(h, n) == IF n = 0 THEN <<>>
                         ELSE IF frames[n].kind = "invoke" THEN Append(h[n - 1], frames[n].id)
                         ELSE h[n - 1]
           g == [n \in 0 .. m |-> among[n]]
<1>1. m \in Nat
  OBVIOUS
<1>2. \A n \in 0 .. m : g[n] = among[n]
  OBVIOUS
<1>3. \A n \in 0 .. m : n # 0 => n \in 1 .. m /\ n - 1 \in 0 .. m
  BY <1>1
<1>4. g = [n \in 0 .. m |-> Step(g, n)]
  <2>1. ASSUME NEW n \in 0 .. m PROVE among[n] = Step(g, n)
    <3>1. CASE n = 0
      BY <3>1 DEF Among
    <3>2. CASE n # 0
      <4>1. n \in 1 .. m /\ g[n - 1] = among[n - 1]
        BY <1>2, <1>3, <3>2
      <4>2. among[n] = IF frames[n].kind = "invoke"
                       THEN Append(among[n - 1], frames[n].id) ELSE among[n - 1]
        BY <4>1 DEF Among
      <4> HIDE DEF g
      <4> QED
        BY <3>2, <4>1, <4>2
    <3> QED
      BY <3>1, <3>2
  <2> QED
    BY <2>1
<1>5. ASSUME NEW h, h = [n \in 0 .. m |-> Step(h, n)] PROVE h = g
  <2>1. \A n \in 0 .. m : h[n] = Step(h, n)
    BY <1>5
  <2>2. Among(frames, m, h)
    <3>1. 0 \in 0 .. m /\ Step(h, 0) = <<>>
      BY <1>1
    <3>2. ASSUME NEW n \in 1 .. m
          PROVE  h[n] = IF frames[n].kind = "invoke" THEN Append(h[n - 1], frames[n].id)
                        ELSE h[n - 1]
      <4>1. n \in 0 .. m /\ n # 0
        BY <1>1
      <4> QED
        BY <2>1, <4>1
    <3> QED
      BY <2>1, <3>1, <3>2 DEF Among
  <2>3. \A n \in 0 .. m : h[n] = among[n]
    BY <1>1, <2>2, AmongUnique
  <2>4. h = [n \in 0 .. m |-> h[n]]
    <3>1. h = [n \in 0 .. m |-> Step(h, n)]
      BY <1>5
    <3> HIDE DEF Step
    <3> QED
      BY <3>1
  <2> QED
    BY <2>3, <2>4
<1>6. Invocations(frames) = g[m]
  <2> HIDE DEF g
  <2> QED
    BY <1>4, <1>5, Zenon DEF Invocations
<1> QED
  BY <1>1, <1>2, <1>6

LEMMA AppendToConcat ==
    ASSUME NEW s \in Seq(Nat), NEW t \in Seq(Nat), NEW x \in Nat
    PROVE  Append(s \o t, x) = s \o Append(t, x)
<1>1. s \o t \in Seq(Nat) /\ <<x>> \in Seq(Nat)
  OBVIOUS
<1>2. Append(s \o t, x) = (s \o t) \o <<x>> /\ Append(t, x) = t \o <<x>>
  BY <1>1, AppendIsConcat
<1>3. (s \o t) \o <<x>> = s \o (t \o <<x>>)
  BY <1>1, ConcatAssociative
<1> QED
  BY <1>2, <1>3

LEMMA OneBetween ==
    ASSUME NEW s \in Seq(Nat), NEW t \in Seq(Nat), NEW x \in Nat
    PROVE  s \o (<<x>> \o t) = Append(s, x) \o t
<1>1. <<x>> \in Seq(Nat)
  OBVIOUS
<1>2. s \o (<<x>> \o t) = (s \o <<x>>) \o t
  BY <1>1, ConcatAssociative
<1>3. Append(s, x) = s \o <<x>>
  BY AppendIsConcat
<1> QED
  BY <1>2, <1>3

\* The count goes on at the end of the frames ...
LEMMA InvocationsAppend ==
    ASSUME NEW S, NEW frames \in Seq(S), NEW f \in S
    PROVE  Invocations(Append(frames, f)) =
             IF f.kind = "invoke" THEN Append(Invocations(frames), f.id)
             ELSE Invocations(frames)
<1> DEFINE m == Len(frames)
           more == Append(frames, f)
<1>1. m \in Nat /\ m + 1 \in Nat /\ more \in Seq(S) /\ Len(more) = m + 1 /\ more[m + 1] = f
      /\ \A n \in 1 .. m : more[n] = frames[n]
  OBVIOUS
<1> HIDE DEF more, m
<1>2. PICK among : Among(more, m + 1, among)
  BY <1>1, AmongExists
<1>3. Invocations(more) = among[m + 1]
  BY <1>1, <1>2, InvocationsAre
<1>4. Among(frames, m, among)
  BY <1>1, <1>2 DEF Among
<1>5. Invocations(frames) = among[m]
  BY <1>4, InvocationsAre DEF m
<1>6. m + 1 \in 1 .. (m + 1) /\ (m + 1) - 1 = m
  BY <1>1
<1>7. among[m + 1] = IF more[m + 1].kind = "invoke"
                     THEN Append(among[m], more[m + 1].id) ELSE among[m]
  BY <1>2, <1>6 DEF Among
<1> QED
  BY <1>1, <1>3, <1>5, <1>7 DEF more

\* The invocations are ids.
LEMMA InvocationsTyped ==
    ASSUME NEW frames \in Seq(Requests)
    PROVE  Invocations(frames) \in Seq(Nat)
<1>1. Len(frames) \in Nat
  OBVIOUS
<1>2. PICK among : Among(frames, Len(frames), among)
  BY <1>1, AmongExists
<1> DEFINE T == {n \in Nat : n <= Len(frames) => among[n] \in Seq(Nat)}
<1>3. 0 \in T
  <2>1. among[0] = <<>>
    BY <1>2 DEF Among
  <2>2. <<>> \in Seq(Nat)
    OBVIOUS
  <2> QED
    BY <2>1, <2>2
<1>4. ASSUME NEW n \in Nat, n \in T PROVE n + 1 \in T
  <2> SUFFICES ASSUME n + 1 <= Len(frames) PROVE among[n + 1] \in Seq(Nat)
    OBVIOUS
  <2>1. n + 1 \in 1 .. Len(frames) /\ (n + 1) - 1 = n /\ among[n] \in Seq(Nat)
    BY <1>4
  <2>2. frames[n + 1].id \in Nat
    <3> HIDE DEF T
    <3>1. frames[n + 1] \in Requests
      BY <2>1
    <3> QED
      BY <3>1 DEF Requests
  <2>3. among[n + 1] = IF frames[n + 1].kind = "invoke"
                       THEN Append(among[n], frames[n + 1].id) ELSE among[n]
    BY <1>2, <2>1 DEF Among
  <2> HIDE DEF T
  <2> QED
    BY <2>1, <2>2, <2>3
<1> HIDE DEF T
<1>5. \A n \in Nat : n \in T
  BY <1>3, <1>4, Induction
<1> QED
  BY <1>1, <1>2, <1>5, InvocationsAre DEF T

\* ... and begins with the first of them.
LEMMA InvocationsFirst ==
    ASSUME NEW f \in Requests, NEW frames \in Seq(Requests)
    PROVE  Invocations(<<f>> \o frames) =
             IF f.kind = "invoke" THEN <<f.id>> \o Invocations(frames)
             ELSE Invocations(frames)
<1> DEFINE m == Len(frames)
           more == <<f>> \o frames
           pre == IF f.kind = "invoke" THEN <<f.id>> ELSE <<>>
<1>1. m \in Nat /\ m + 1 \in Nat /\ more \in Seq(Requests) /\ Len(more) = m + 1 /\ more[1] = f
      /\ \A n \in 1 .. m : more[n + 1] = frames[n]
  OBVIOUS
<1>2. pre \in Seq(Nat)
  BY DEF Requests
<1> HIDE DEF more, m
<1>3. PICK among : Among(more, m + 1, among)
  BY <1>1, AmongExists
<1>4. PICK rest : Among(frames, m, rest)
  BY <1>1, AmongExists
<1> DEFINE T == {n \in Nat : n <= m => rest[n] \in Seq(Nat) /\ among[n + 1] = pre \o rest[n]}
<1>5. 0 \in T
  <2>1. 1 \in 1 .. (m + 1) /\ 1 - 1 = 0
    BY <1>1
  <2>2. among[1] = IF more[1].kind = "invoke" THEN Append(among[0], more[1].id) ELSE among[0]
    BY <1>3, <2>1 DEF Among
  <2>3. among[0] = <<>> /\ rest[0] = <<>>
    BY <1>3, <1>4 DEF Among
  <2>4. among[1] = pre
    BY <1>1, <2>2, <2>3
  <2> HIDE DEF pre
  <2>5. <<>> \in Seq(Nat) /\ pre = pre \o <<>>
    BY <1>2
  <2>6. rest[0] \in Seq(Nat) /\ among[0 + 1] = pre \o rest[0]
    <3>1. 0 + 1 = 1
      OBVIOUS
    <3> QED
      BY <2>3, <2>4, <2>5, <3>1, Zenon
  <2> QED
    BY <2>6
<1>6. ASSUME NEW n \in Nat, n \in T PROVE n + 1 \in T
  <2> SUFFICES ASSUME n + 1 <= m
               PROVE  rest[n + 1] \in Seq(Nat) /\ among[n + 2] = pre \o rest[n + 1]
    <3>1. (n + 1) + 1 = n + 2 /\ n + 1 \in Nat
      OBVIOUS
    <3> QED
      BY <3>1
  <2>1. /\ n + 1 \in 1 .. m /\ (n + 1) - 1 = n /\ n + 2 \in 1 .. (m + 1)
        /\ (n + 2) - 1 = n + 1 /\ (n + 1) + 1 = n + 2
    BY <1>1
  <2>2. rest[n] \in Seq(Nat) /\ among[n + 1] = pre \o rest[n]
    <3>1. n <= m
      BY <1>1
    <3> HIDE DEF pre
    <3> QED
      BY <1>6, <3>1
  <2>3. frames[n + 1] \in Requests /\ frames[n + 1].id \in Nat /\ more[n + 2] = frames[n + 1]
    <3> HIDE DEF T
    <3>1. frames[n + 1] \in Requests
      BY <2>1 DEF m
    <3>2. frames[n + 1].id \in Nat
      BY <3>1 DEF Requests
    <3> QED
      BY <1>1, <2>1, <3>1, <3>2
  <2>4. rest[n + 1] = IF frames[n + 1].kind = "invoke"
                      THEN Append(rest[n], frames[n + 1].id) ELSE rest[n]
    BY <1>4, <2>1 DEF Among
  <2>5. among[n + 2] = IF frames[n + 1].kind = "invoke"
                       THEN Append(among[n + 1], frames[n + 1].id) ELSE among[n + 1]
    BY <1>3, <2>1, <2>3 DEF Among
  <2> HIDE DEF T, pre
  <2>6. Append(pre \o rest[n], frames[n + 1].id) = pre \o Append(rest[n], frames[n + 1].id)
    BY <1>2, <2>2, <2>3, AppendToConcat
  <2>7. Append(rest[n], frames[n + 1].id) \in Seq(Nat)
    BY <2>2, <2>3
  <2>8. CASE frames[n + 1].kind = "invoke"
    BY <2>2, <2>4, <2>5, <2>6, <2>7, <2>8, Zenon
  <2>9. CASE frames[n + 1].kind # "invoke"
    BY <2>2, <2>4, <2>5, <2>9, Zenon
  <2> QED
    BY <2>8, <2>9
<1> HIDE DEF T, pre
<1>7. \A n \in Nat : n \in T
  BY <1>5, <1>6, Induction
<1>8. rest[m] \in Seq(Nat) /\ among[m + 1] = pre \o rest[m]
  BY <1>1, <1>7 DEF T
<1>9. Invocations(more) = among[m + 1] /\ Invocations(frames) = rest[m]
  <2>1. Invocations(more) = among[m + 1]
    BY <1>1, <1>3, InvocationsAre
  <2>2. Invocations(frames) = rest[m]
    BY <1>4, InvocationsAre DEF m
  <2> QED
    BY <2>1, <2>2
<1> QED
  <2>1. <<>> \o rest[m] = rest[m]
    BY <1>8
  <2> QED
    BY <1>8, <1>9, <2>1, Zenon DEF more, pre

\* None among none.
LEMMA NoInvocations == Invocations(<<>>) = <<>>
<1>1. PICK among : Among(<<>>, 0, among)
  BY AmongExists
<1>2. <<>> \in Seq({}) /\ Len(<<>>) = 0
  OBVIOUS
<1>3. Invocations(<<>>) = among[0]
  BY <1>1, <1>2, InvocationsAre
<1> QED
  BY <1>1, <1>3 DEF Among

----------------------------------------------------------------------------
(* Frames of a stream.                                                     *)

\* A stream that does not stop in the middle of a frame.
Whole(pieces) == 2 * (Len(pieces) \div 2) = Len(pieces)

LEMMA Half ==
    ASSUME NEW n \in Nat
    PROVE  /\ n \div 2 \in Nat
           /\ 2 * (n \div 2) <= n /\ n <= 2 * (n \div 2) + 1
           /\ (n + 2) \div 2 = (n \div 2) + 1
           /\ 2 * (n \div 2) = n => (n + 1) \div 2 = n \div 2
           /\ n >= 2 => (n - 2) \div 2 = (n \div 2) - 1
  OBVIOUS

\* The pieces of a stream in frame, two by two.
LEMMA FramedPairs ==
    ASSUME NEW F, NEW pieces \in Seq(Pieces(F)), Framed(pieces)
    PROVE  /\ Len(FramesOf(pieces)) = Len(pieces) \div 2
           /\ FramesOf(pieces) \in Seq(F)
           /\ \A i \in 1 .. (Len(pieces) \div 2) : FramesOf(pieces)[i] = pieces[2 * i].of
<1> DEFINE n == Len(pieces)
           h == n \div 2
<1>1. n \in Nat /\ h \in Nat /\ 2 * h <= n
  BY Half
<1>2. ASSUME NEW i \in 1 .. h PROVE pieces[2 * i].of \in F
  <2>1. 2 * i \in 1 .. n
    BY <1>1
  <2>2. pieces[2 * i] \in Pieces(F)
    BY <2>1
  <2> QED
    BY <2>2 DEF Pieces
<1>3. FramesOf(pieces) = [i \in 1 .. h |-> pieces[2 * i].of]
  BY DEF FramesOf
<1> HIDE DEF h, n
<1>4. FramesOf(pieces) \in [1 .. h -> F]
  BY <1>2, <1>3
<1>5. FramesOf(pieces) \in Seq(F) /\ Len(FramesOf(pieces)) = h
  BY <1>1, <1>4
<1> QED
  BY <1>3, <1>5 DEF h, n

\* A frame written behind whole ones is the last of the stream's frames.
LEMMA FrameWritten ==
    ASSUME NEW F, NEW pieces \in Seq(Pieces(F)), Framed(pieces), Whole(pieces), NEW f \in F
    PROVE  /\ Framed(pieces \o Bytes(f)) /\ Whole(pieces \o Bytes(f))
           /\ pieces \o Bytes(f) \in Seq(Pieces(F))
           /\ FramesOf(pieces \o Bytes(f)) = Append(FramesOf(pieces), f)
<1> DEFINE n == Len(pieces)
           h == n \div 2
           more == pieces \o Bytes(f)
<1>1. n \in Nat /\ h \in Nat /\ 2 * h = n /\ (n + 2) \div 2 = h + 1
  BY Half DEF Whole
<1>2. /\ more \in Seq(Pieces(F)) /\ Len(more) = n + 2
      /\ \A i \in 1 .. n : more[i] = pieces[i]
      /\ more[n + 1] = [part |-> "length", of |-> f]
      /\ more[n + 2] = [part |-> "payload", of |-> f]
  <2>1. Bytes(f) \in Seq(Pieces(F)) /\ Len(Bytes(f)) = 2
        /\ Bytes(f)[1] = [part |-> "length", of |-> f]
        /\ Bytes(f)[2] = [part |-> "payload", of |-> f]
    BY BytesOf
  <2> HIDE DEF h
  <2>2. more \in Seq(Pieces(F)) /\ Len(more) = n + 2
        /\ \A i \in 1 .. n + 2 : more[i] = IF i <= n THEN pieces[i] ELSE Bytes(f)[i - n]
    <3>1. /\ more \in Seq(Pieces(F))
          /\ Len(more) = n + Len(Bytes(f))
          /\ \A i \in 1 .. n + Len(Bytes(f)) :
                more[i] = IF i <= n THEN pieces[i] ELSE Bytes(f)[i - n]
      BY <2>1, ConcatProperties, Zenon
    <3> HIDE DEF more, n
    <3> QED
      BY <2>1, <3>1
  <2>3. n + 1 \in 1 .. n + 2 /\ n + 2 \in 1 .. n + 2 /\ (n + 1) - n = 1 /\ (n + 2) - n = 2
        /\ ~(n + 1 <= n) /\ ~(n + 2 <= n) /\ \A i \in 1 .. n : i \in 1 .. n + 2 /\ i <= n
    BY <1>1
  <2> HIDE DEF more, n
  <2> QED
    BY <2>1, <2>2, <2>3
<1>3. /\ \A i \in 1 .. h : FramesOf(pieces)[i] = pieces[2 * i].of
      /\ FramesOf(pieces) \in Seq(F) /\ Len(FramesOf(pieces)) = h
  BY FramedPairs
<1> HIDE DEF more
<1>4. ASSUME NEW i \in 1 .. Len(more)
      PROVE  /\ 2 * i - 1 <= Len(more) => more[2 * i - 1].part = "length"
             /\ 2 * i <= Len(more) => more[2 * i] = [more[2 * i - 1] EXCEPT !.part = "payload"]
  <2>1. CASE i <= h
    <3>1. i \in 1 .. n /\ 2 * i \in 1 .. n /\ 2 * i - 1 \in 1 .. n
          /\ 2 * i <= n /\ 2 * i - 1 <= n
      BY <1>1, <2>1
    <3>2. more[2 * i] = pieces[2 * i] /\ more[2 * i - 1] = pieces[2 * i - 1]
      BY <1>2, <3>1
    <3> HIDE DEF h
    <3> QED
      BY <3>1, <3>2 DEF Framed, n
  <2>2. CASE i = h + 1
    <3>1. 2 * i = n + 2 /\ 2 * i - 1 = n + 1
      BY <1>1, <2>2
    <3>2. [more[n + 1] EXCEPT !.part = "payload"] = [part |-> "payload", of |-> f]
      BY <1>2
    <3>3. more[n + 1].part = "length"
          /\ more[n + 2] = [more[n + 1] EXCEPT !.part = "payload"]
      BY <1>2, <3>2
    <3>4. more[2 * i - 1].part = "length"
          /\ more[2 * i] = [more[2 * i - 1] EXCEPT !.part = "payload"]
      BY <3>1, <3>3, Zenon
    <3> QED
      BY <3>4
  <2>3. CASE i > h + 1
    <3>1. ~(2 * i - 1 <= n + 2) /\ ~(2 * i <= n + 2)
      <4>1. i \in Nat
        BY <1>1, <1>2
      <4> HIDE DEF h, n
      <4> QED
        BY <1>1, <2>3, <4>1
    <3> HIDE DEF h, n
    <3> QED
      BY <1>2, <3>1
  <2> QED
    BY <1>1, <2>1, <2>2, <2>3
<1>5. Framed(more)
  BY <1>4 DEF Framed
<1>6. Len(more) \div 2 = h + 1 /\ 2 * (h + 1) = n + 2
  BY <1>1, <1>2
<1>7. Whole(more)
  BY <1>2, <1>6 DEF Whole
<1> HIDE DEF h, n
<1>8. /\ \A i \in 1 .. h + 1 : FramesOf(more)[i] = more[2 * i].of
      /\ FramesOf(more) \in Seq(F) /\ Len(FramesOf(more)) = h + 1
  BY <1>2, <1>5, <1>6, FramedPairs
<1>9. ASSUME NEW i \in 1 .. h + 1 PROVE FramesOf(more)[i] = Append(FramesOf(pieces), f)[i]
  <2>1. CASE i \in 1 .. h
    <3>1. 2 * i \in 1 .. n
      BY <1>1, <2>1
    <3>2. more[2 * i] = pieces[2 * i]
      BY <1>2, <3>1
    <3>3. FramesOf(more)[i] = FramesOf(pieces)[i]
      BY <1>3, <1>8, <2>1, <3>2
    <3>4. Append(FramesOf(pieces), f)[i] = FramesOf(pieces)[i]
      BY <1>3, <2>1, AppendProperties
    <3> QED
      BY <3>3, <3>4
  <2>2. CASE i = h + 1
    <3>1. 2 * i = n + 2
      BY <1>1, <2>2
    <3>2. FramesOf(more)[i] = f
      BY <1>2, <1>8, <3>1
    <3>3. Append(FramesOf(pieces), f)[h + 1] = f
      BY <1>3, AppendProperties
    <3> QED
      BY <2>2, <3>2, <3>3, Zenon
  <2>3. i \in 1 .. h \/ i = h + 1
    BY <1>1
  <2> QED
    BY <2>1, <2>2, <2>3, Zenon
<1>10. Append(FramesOf(pieces), f) \in Seq(F) /\ Len(Append(FramesOf(pieces), f)) = h + 1
  BY <1>3
<1>11. FramesOf(more) = Append(FramesOf(pieces), f)
  BY <1>8, <1>9, <1>10, SeqEqual
<1> QED
  BY <1>2, <1>5, <1>7, <1>11 DEF more

\* The length of a frame that never comes adds none.
LEMMA FrameCut ==
    ASSUME NEW F, NEW pieces \in Seq(Pieces(F)), Framed(pieces), Whole(pieces), NEW f \in F
    PROVE  /\ Framed(Append(pieces, Bytes(f)[1]))
           /\ FramesOf(Append(pieces, Bytes(f)[1])) = FramesOf(pieces)
<1> DEFINE n == Len(pieces)
           h == n \div 2
           more == Append(pieces, Bytes(f)[1])
<1>1. n \in Nat /\ h \in Nat /\ 2 * h = n /\ (n + 1) \div 2 = h
  BY Half DEF Whole
<1>2. /\ more \in Seq(Pieces(F)) /\ Len(more) = n + 1
      /\ \A i \in 1 .. n : more[i] = pieces[i]
      /\ more[n + 1].part = "length"
  <2>1. Bytes(f)[1] = [part |-> "length", of |-> f] /\ Bytes(f)[1] \in Pieces(F)
    BY DEF Bytes, Pieces
  <2> HIDE DEF h
  <2> QED
    BY <2>1, AppendProperties
<1>3. /\ \A i \in 1 .. h : FramesOf(pieces)[i] = pieces[2 * i].of
      /\ FramesOf(pieces) \in Seq(F) /\ Len(FramesOf(pieces)) = h
  BY FramedPairs
<1> HIDE DEF more
<1>4. ASSUME NEW i \in 1 .. Len(more)
      PROVE  /\ 2 * i - 1 <= Len(more) => more[2 * i - 1].part = "length"
             /\ 2 * i <= Len(more) => more[2 * i] = [more[2 * i - 1] EXCEPT !.part = "payload"]
  <2>1. CASE i <= h
    <3>1. i \in 1 .. n /\ 2 * i \in 1 .. n /\ 2 * i - 1 \in 1 .. n
          /\ 2 * i <= n /\ 2 * i - 1 <= n
      BY <1>1, <2>1
    <3>2. more[2 * i] = pieces[2 * i] /\ more[2 * i - 1] = pieces[2 * i - 1]
      BY <1>2, <3>1
    <3> HIDE DEF h
    <3> QED
      BY <3>1, <3>2 DEF Framed, n
  <2>2. CASE i = h + 1
    <3>1. ~(2 * i <= n + 1) /\ 2 * i - 1 = n + 1
      BY <1>1, <2>2
    <3> HIDE DEF h
    <3> QED
      BY <1>2, <3>1
  <2>3. CASE i > h + 1
    <3>1. ~(2 * i - 1 <= n + 1) /\ ~(2 * i <= n + 1)
      <4>1. i \in Nat
        BY <1>1, <1>2
      <4> HIDE DEF h, n
      <4> QED
        BY <1>1, <2>3, <4>1
    <3> HIDE DEF h, n
    <3> QED
      BY <1>2, <3>1
  <2> QED
    BY <1>1, <2>1, <2>2, <2>3
<1>5. Framed(more)
  BY <1>4 DEF Framed
<1>6. Len(more) \div 2 = h
  BY <1>1, <1>2
<1> HIDE DEF h, n
<1>7. /\ \A i \in 1 .. h : FramesOf(more)[i] = more[2 * i].of
      /\ FramesOf(more) \in Seq(F) /\ Len(FramesOf(more)) = h
  BY <1>2, <1>5, <1>6, FramedPairs
<1>8. ASSUME NEW i \in 1 .. h PROVE FramesOf(more)[i] = FramesOf(pieces)[i]
  <2>1. 2 * i \in 1 .. n
    BY <1>1
  <2> QED
    BY <1>2, <1>3, <1>7, <2>1
<1>9. FramesOf(more) = FramesOf(pieces)
  BY <1>3, <1>7, <1>8, SeqEqual
<1> QED
  BY <1>5, <1>9 DEF more

\* The reader takes the first frame off the stream.
LEMMA FrameRead ==
    ASSUME NEW F, NEW pieces \in Seq(Pieces(F)), Framed(pieces), Len(pieces) >= 2
    PROVE  /\ Framed(Rest(pieces, 2))
           /\ Whole(pieces) => Whole(Rest(pieces, 2))
           /\ pieces[2].of \in F /\ FramesOf(Rest(pieces, 2)) \in Seq(F)
           /\ FramesOf(pieces) = <<pieces[2].of>> \o FramesOf(Rest(pieces, 2))
<1> DEFINE n == Len(pieces)
           h == n \div 2
           rest == Rest(pieces, 2)
           f == pieces[2].of
<1>1. n \in Nat /\ h \in Nat /\ n >= 2 /\ n - 2 \in Nat /\ 2 * h <= n /\ n <= 2 * h + 1
      /\ h >= 1 /\ h - 1 \in Nat /\ (n - 2) \div 2 = h - 1
  BY Half
<1>2. /\ rest \in Seq(Pieces(F)) /\ Len(rest) = n - 2
      /\ \A i \in 1 .. n - 2 : rest[i] = pieces[2 + i]
  <2>1. 2 \in 0 .. Len(pieces)
    BY <1>1
  <2> QED
    BY <2>1, RestIsEnd
<1>3. /\ \A i \in 1 .. h : FramesOf(pieces)[i] = pieces[2 * i].of
      /\ FramesOf(pieces) \in Seq(F) /\ Len(FramesOf(pieces)) = h
  BY FramedPairs
<1>4. f \in F
  <2>1. 2 \in 1 .. n
    BY <1>1
  <2>2. pieces[2] \in Pieces(F)
    BY <2>1
  <2> QED
    BY <2>2 DEF Pieces
<1> HIDE DEF rest, f
<1>5. ASSUME NEW i \in 1 .. Len(rest)
      PROVE  /\ 2 * i - 1 <= Len(rest) => rest[2 * i - 1].part = "length"
             /\ 2 * i <= Len(rest) => rest[2 * i] = [rest[2 * i - 1] EXCEPT !.part = "payload"]
  <2>1. i + 1 \in 1 .. n /\ 2 * (i + 1) - 1 = 2 + (2 * i - 1) /\ 2 * (i + 1) = 2 + 2 * i
        /\ 2 * i - 1 >= 1
    BY <1>1, <1>2
  <2>2. /\ 2 * (i + 1) - 1 <= n => pieces[2 * (i + 1) - 1].part = "length"
        /\ 2 * (i + 1) <= n =>
              pieces[2 * (i + 1)] = [pieces[2 * (i + 1) - 1] EXCEPT !.part = "payload"]
    BY <2>1 DEF Framed, n
  <2>3. ASSUME 2 * i - 1 <= Len(rest) PROVE rest[2 * i - 1].part = "length"
    <3>1. 2 * i - 1 \in 1 .. n - 2 /\ 2 * (i + 1) - 1 <= n
      BY <1>1, <1>2, <2>1, <2>3
    <3>2. rest[2 * i - 1] = pieces[2 * (i + 1) - 1]
      BY <1>2, <2>1, <3>1
    <3> QED
      BY <2>2, <3>1, <3>2
  <2>4. ASSUME 2 * i <= Len(rest)
        PROVE  rest[2 * i] = [rest[2 * i - 1] EXCEPT !.part = "payload"]
    <3>1. 2 * i - 1 \in 1 .. n - 2 /\ 2 * i \in 1 .. n - 2 /\ 2 * (i + 1) <= n
      BY <1>1, <1>2, <2>1, <2>4
    <3>2. rest[2 * i - 1] = pieces[2 * (i + 1) - 1] /\ rest[2 * i] = pieces[2 * (i + 1)]
      BY <1>2, <2>1, <3>1
    <3> QED
      BY <2>2, <3>1, <3>2
  <2> QED
    BY <2>3, <2>4
<1>6. Framed(rest)
  BY <1>5 DEF Framed
<1>7. Len(rest) \div 2 = h - 1
  BY <1>1, <1>2
<1>8. Whole(pieces) => Whole(rest)
  <2>1. ASSUME 2 * h = n PROVE 2 * (h - 1) = n - 2
    BY <1>1, <2>1
  <2> HIDE DEF h
  <2>2. 2 * h = n => 2 * (Len(rest) \div 2) = Len(rest)
    BY <1>2, <1>7, <2>1
  <2> QED
    BY <2>2 DEF Whole, h, n
<1> HIDE DEF h, n
<1>9. /\ \A i \in 1 .. h - 1 : FramesOf(rest)[i] = rest[2 * i].of
      /\ FramesOf(rest) \in Seq(F) /\ Len(FramesOf(rest)) = h - 1
  BY <1>2, <1>6, <1>7, FramedPairs
<1>10. /\ <<f>> \o FramesOf(rest) \in Seq(F) /\ Len(<<f>> \o FramesOf(rest)) = h
       /\ (<<f>> \o FramesOf(rest))[1] = f
       /\ \A i \in 2 .. h : (<<f>> \o FramesOf(rest))[i] = FramesOf(rest)[i - 1]
  BY <1>1, <1>4, <1>9
<1>11. ASSUME NEW i \in 1 .. h PROVE FramesOf(pieces)[i] = (<<f>> \o FramesOf(rest))[i]
  <2>1. CASE i = 1
    <3>1. 2 * i = 2 /\ 1 \in 1 .. h
      BY <1>1, <2>1
    <3>2. FramesOf(pieces)[1] = pieces[2].of
      BY <1>3, <2>1, <3>1
    <3> QED
      BY <1>10, <2>1, <3>2, Zenon DEF f
  <2>2. CASE i \in 2 .. h
    <3>1. i - 1 \in 1 .. h - 1 /\ 2 * (i - 1) \in 1 .. n - 2 /\ 2 + 2 * (i - 1) = 2 * i
      BY <1>1, <2>2
    <3>2. FramesOf(rest)[i - 1] = pieces[2 * i].of
      BY <1>2, <1>9, <3>1
    <3> QED
      BY <1>3, <1>10, <2>2, <3>2
  <2>3. i = 1 \/ i \in 2 .. h
    BY <1>1
  <2> QED
    BY <2>1, <2>2, <2>3, Zenon
<1>12. FramesOf(pieces) = <<f>> \o FramesOf(rest)
  BY <1>3, <1>10, <1>11, SeqEqual
<1> QED
  BY <1>4, <1>6, <1>8, <1>9, <1>12 DEF rest, f

----------------------------------------------------------------------------
(* Where the server holds a connection.                                    *)

\* No connection waits twice.
Once(s) == \A i, j \in DOMAIN s : s[i] = s[j] => i = j

Apart(s, t) == Range(s) \cap Range(t) = {}

\* The parts of a sequence without repetitions have nothing in common.
LEMMA OncePart ==
    ASSUME NEW S, NEW s \in Seq(S), NEW n \in 0 .. Len(s), Once(s)
    PROVE  /\ Once(SubSeq(s, 1, n)) /\ Once(Rest(s, n))
           /\ Apart(SubSeq(s, 1, n), Rest(s, n))
<1> DEFINE a == SubSeq(s, 1, n)
           b == Rest(s, n)
<1>1. /\ Len(s) \in Nat /\ n \in Nat /\ n <= Len(s) /\ DOMAIN s = 1 .. Len(s)
      /\ \A i, j \in 1 .. Len(s) : s[i] = s[j] => i = j
  BY DEF Once
<1>2. DOMAIN a = 1 .. n /\ \A i \in 1 .. n : a[i] = s[i]
  BY <1>1, StartOf
<1>3. DOMAIN b = 1 .. (Len(s) - n) /\ \A i \in 1 .. (Len(s) - n) : b[i] = s[n + i]
  <2>1. b \in Seq(S) /\ Len(b) = Len(s) - n /\ \A i \in 1 .. (Len(s) - n) : b[i] = s[n + i]
    BY RestIsEnd
  <2> HIDE DEF b
  <2> QED
    BY <2>1
<1> HIDE DEF a, b
<1>4. Once(a)
  BY <1>1, <1>2 DEF Once
<1>5. Once(b)
  <2> SUFFICES ASSUME NEW i \in 1 .. (Len(s) - n), NEW j \in 1 .. (Len(s) - n), b[i] = b[j]
               PROVE  i = j
    BY <1>3 DEF Once
  <2>1. n + i \in 1 .. Len(s) /\ n + j \in 1 .. Len(s)
    BY <1>1
  <2>2. n + i = n + j
    BY <1>1, <1>3, <2>1
  <2> QED
    BY <1>1, <2>2
<1>6. ASSUME NEW i \in 1 .. n, NEW j \in 1 .. (Len(s) - n) PROVE a[i] # b[j]
  <2>1. n + j \in 1 .. Len(s) /\ i \in 1 .. Len(s) /\ n + j # i
    BY <1>1
  <2> QED
    BY <1>1, <1>2, <1>3, <2>1
<1>7. Apart(a, b)
  BY <1>2, <1>3, <1>6 DEF Apart, Range
<1> QED
  BY <1>4, <1>5, <1>7 DEF a, b

LEMMA OnceConcat ==
    ASSUME NEW S, NEW s \in Seq(S), NEW t \in Seq(S), Once(s), Once(t), Apart(s, t)
    PROVE  Once(s \o t)
<1> DEFINE u == s \o t
           m == Len(s)
           n == Len(t)
<1>1. /\ m \in Nat /\ n \in Nat /\ DOMAIN u = 1 .. m + n /\ DOMAIN s = 1 .. m /\ DOMAIN t = 1 .. n
      /\ \A i \in 1 .. m : u[i] = s[i]
      /\ \A i \in (m + 1) .. (m + n) : u[i] = t[i - m] /\ i - m \in 1 .. n
  OBVIOUS
<1> HIDE DEF u, m, n
<1>2. /\ \A i, j \in 1 .. m : s[i] = s[j] => i = j
      /\ \A i, j \in 1 .. n : t[i] = t[j] => i = j
      /\ \A i \in 1 .. m, j \in 1 .. n : s[i] # t[j]
  <2>1. ASSUME NEW i \in 1 .. m, NEW j \in 1 .. n PROVE s[i] # t[j]
    <3>1. s[i] \in Range(s) /\ t[j] \in Range(t)
      BY <1>1 DEF Range
    <3> QED
      BY <3>1 DEF Apart
  <2> QED
    BY <1>1, <2>1 DEF Once
<1> SUFFICES ASSUME NEW i \in 1 .. m + n, NEW j \in 1 .. m + n, u[i] = u[j]
             PROVE  i = j
  BY <1>1 DEF Once, u
<1>3. i \in 1 .. m \/ i \in (m + 1) .. (m + n)
  BY <1>1
<1>4. j \in 1 .. m \/ j \in (m + 1) .. (m + n)
  BY <1>1
<1>5. CASE i \in 1 .. m /\ j \in 1 .. m
  BY <1>1, <1>2, <1>5
<1>6. CASE i \in (m + 1) .. (m + n) /\ j \in (m + 1) .. (m + n)
  <2>1. i - m = j - m
    BY <1>1, <1>2, <1>6
  <2> QED
    BY <1>1, <2>1
<1>7. CASE i \in 1 .. m /\ j \in (m + 1) .. (m + n)
  BY <1>1, <1>2, <1>7
<1>8. CASE i \in (m + 1) .. (m + n) /\ j \in 1 .. m
  BY <1>1, <1>2, <1>8
<1> QED
  BY <1>3, <1>4, <1>5, <1>6, <1>7, <1>8

LEMMA OnceAppend ==
    ASSUME NEW S, NEW s \in Seq(S), NEW x \in S, Once(s), x \notin Range(s)
    PROVE  Once(Append(s, x))
<1>1. /\ Len(s) \in Nat /\ DOMAIN s = 1 .. Len(s) /\ DOMAIN Append(s, x) = 1 .. Len(s) + 1
      /\ Append(s, x)[Len(s) + 1] = x /\ \A i \in 1 .. Len(s) : Append(s, x)[i] = s[i]
  OBVIOUS
<1>2. /\ \A i, j \in 1 .. Len(s) : s[i] = s[j] => i = j
      /\ \A i \in 1 .. Len(s) : s[i] # x
  BY <1>1 DEF Once, Range
<1> QED
  BY <1>1, <1>2 DEF Once

LEMMA OnceTail ==
    ASSUME NEW S, NEW s \in Seq(S), s # <<>>, Once(s)
    PROVE  /\ Once(Tail(s)) /\ Head(s) \notin Range(Tail(s)) /\ Head(s) \in Range(s)
           /\ Range(Tail(s)) \subseteq Range(s)
<1>1. /\ Len(s) \in Nat /\ Len(s) >= 1 /\ DOMAIN s = 1 .. Len(s) /\ DOMAIN Tail(s) = 1 .. (Len(s) - 1)
      /\ Head(s) = s[1] /\ \A i \in 1 .. (Len(s) - 1) : Tail(s)[i] = s[i + 1]
  OBVIOUS
<1>2. \A i, j \in 1 .. Len(s) : s[i] = s[j] => i = j
  BY <1>1 DEF Once
<1>3. Once(Tail(s))
  <2> SUFFICES ASSUME NEW i \in 1 .. (Len(s) - 1), NEW j \in 1 .. (Len(s) - 1),
                      Tail(s)[i] = Tail(s)[j]
               PROVE  i = j
    BY <1>1 DEF Once
  <2>1. i + 1 \in 1 .. Len(s) /\ j + 1 \in 1 .. Len(s) /\ s[i + 1] = s[j + 1]
    BY <1>1
  <2>2. i + 1 = j + 1
    BY <1>2, <2>1
  <2> QED
    BY <2>2
<1>4. Head(s) \notin Range(Tail(s))
  <2> SUFFICES ASSUME NEW i \in 1 .. (Len(s) - 1), Tail(s)[i] = Head(s) PROVE FALSE
    BY <1>1 DEF Range
  <2>1. i + 1 \in 1 .. Len(s) /\ 1 \in 1 .. Len(s) /\ s[i + 1] = s[1] /\ i + 1 # 1
    BY <1>1
  <2> QED
    BY <1>2, <2>1
<1>5. Head(s) \in Range(s)
  BY <1>1 DEF Range
<1> QED
  BY <1>3, <1>4, <1>5, RangeOfTail

\* A connection no client has opened.
Untouched(c) ==
    /\ ~Served(c)
    /\ up[c] = <<>> /\ down[c] = <<>> /\ sent[c] = <<>> /\ ran[c] = <<>> /\ cache[c] = <<>>

\* The server holds each connection in one place ...
Places ==
    /\ Once(backlog) /\ Once(sessions) /\ Once(unread)
    /\ Apart(backlog, sessions) /\ Apart(backlog, unread) /\ Apart(sessions, unread)

\* ... and only connections that were opened.
PlaceInv ==
    /\ Places
    /\ \A c \in Connections : peer[c] = "unused" => Untouched(c)

LEMMA ServedWhere ==
    ASSUME NEW c
    PROVE  /\ Served(c) <=> c \in Range(backlog) \/ c \in Range(sessions) \/ c \in Range(unread)
           /\ Served(c)' <=>
                 c \in Range(backlog') \/ c \in Range(sessions') \/ c \in Range(unread')
  BY DEF Served

\* What accept_sessions does to the places ...
LEMMA AcceptPlaces ==
    ASSUME SessionTypeOK, Places, Accept
    PROVE  Places' /\ \A c : Served(c)' => Served(c)
<1>1. PICK n \in 0 .. Len(backlog) :
         unread' = sessions \o SubSeq(backlog, 1, n) /\ backlog' = Rest(backlog, n)
  BY DEF Accept
<1> DEFINE a == SubSeq(backlog, 1, n)
           b == Rest(backlog, n)
<1>2. backlog \in Seq(Connections) /\ sessions \in Seq(Connections) /\ sessions' = <<>>
  BY DEF SessionTypeOK, Accept
<1>3. a \in Seq(Connections) /\ Range(a) \subseteq Range(backlog)
  BY <1>2, StartOf, RangeOfStart
<1>4. b \in Seq(Connections) /\ Range(b) \subseteq Range(backlog)
  BY <1>2, RestIsEnd, RangeOfRest
<1>5. Once(a) /\ Once(b) /\ Apart(a, b)
  BY <1>2, OncePart DEF Places
<1> HIDE DEF a, b
<1>6. unread' = sessions \o a /\ backlog' = b
  BY <1>1 DEF a, b
<1>7. Apart(sessions, a) /\ Apart(sessions, b) /\ Once(sessions)
  BY <1>3, <1>4 DEF Places, Apart
<1>8. Once(sessions \o a) /\ Range(sessions \o a) \subseteq Range(sessions) \cup Range(a)
  BY <1>2, <1>3, <1>5, <1>7, OnceConcat, RangeOfConcat
<1>9. Range(<<>>) = {} /\ Once(<<>>)
  BY DEF Range, Once
<1>10. Apart(b, sessions \o a) /\ Apart(b, <<>>) /\ Apart(<<>>, sessions \o a)
  BY <1>5, <1>7, <1>8, <1>9 DEF Apart
<1>11. Places'
  BY <1>2, <1>5, <1>6, <1>8, <1>9, <1>10 DEF Places
<1>12. ASSUME NEW c, Served(c)' PROVE Served(c)
  BY <1>2, <1>3, <1>4, <1>6, <1>8, <1>9, <1>12, ServedWhere
<1> QED
  BY <1>11, <1>12

\* ... and what the end of a turn does, whether the session is dropped ...
LEMMA DropPlaces ==
    ASSUME SessionTypeOK, Places, unread # <<>>, NextSession, sessions' = sessions
    PROVE  Places' /\ \A c : Served(c)' => Served(c) /\ c # Current
<1>1. unread \in Seq(Connections)
  BY DEF SessionTypeOK
<1>2. unread' = Tail(unread) /\ backlog' = backlog
  BY DEF NextSession
<1>3. Once(Tail(unread)) /\ Current \notin Range(Tail(unread)) /\ Current \in Range(unread)
      /\ Range(Tail(unread)) \subseteq Range(unread)
  BY <1>1, OnceTail DEF Places, Current
<1>4. Places'
  BY <1>2, <1>3 DEF Places, Apart
<1>5. ASSUME NEW c, Served(c)' PROVE Served(c) /\ c # Current
  <2>1. Served(c)
    BY <1>2, <1>3, <1>5, ServedWhere
  <2>2. Current \notin Range(backlog) /\ Current \notin Range(sessions)
    BY <1>3 DEF Places, Apart
  <2> QED
    BY <1>2, <1>3, <1>5, <2>1, <2>2, ServedWhere
<1> QED
  BY <1>4, <1>5

\* ... or kept.
LEMMA KeepPlaces ==
    ASSUME SessionTypeOK, Places, unread # <<>>, NextSession,
           sessions' = Append(sessions, Current)
    PROVE  Places' /\ \A c : Served(c)' => Served(c)
<1>1. unread \in Seq(Connections) /\ sessions \in Seq(Connections)
  BY DEF SessionTypeOK
<1>2. unread' = Tail(unread) /\ backlog' = backlog
  BY DEF NextSession
<1>3. Once(Tail(unread)) /\ Current \notin Range(Tail(unread)) /\ Current \in Range(unread)
      /\ Range(Tail(unread)) \subseteq Range(unread)
  BY <1>1, OnceTail DEF Places, Current
<1>4. Current \notin Range(sessions) /\ Current \notin Range(backlog) /\ Current \in Connections
  BY <1>3, RequestTyped DEF Places, Apart
<1>5. Once(sessions') /\ Range(sessions') = Range(sessions) \cup {Current}
  BY <1>1, <1>4, OnceAppend, RangeOfAppend DEF Places
<1>6. Places'
  BY <1>2, <1>3, <1>4, <1>5 DEF Places, Apart
<1>7. ASSUME NEW c, Served(c)' PROVE Served(c)
  BY <1>2, <1>3, <1>5, <1>7, ServedWhere
<1> QED
  BY <1>6, <1>7

----------------------------------------------------------------------------
(* What a step of the server does to a connection.                         *)

\* Its streams, its cache and its history are as they were.
Still(c) == up'[c] = up[c] /\ down'[c] = down[c] /\ cache'[c] = cache[c] /\ ran'[c] = ran[c]

\* The first frame is read off its stream.
ReadFrame(c) == Len(up[c]) >= 2 /\ up'[c] = Rest(up[c], 2)

Passed(c) ==
    /\ ReadFrame(c) /\ up[c][2].of.kind # "invoke"
    /\ down'[c] = down[c] /\ cache'[c] = cache[c] /\ ran'[c] = ran[c]

AnsweredAgain(c) ==
    /\ ReadFrame(c) /\ up[c][2].of.kind = "invoke"
    /\ \E a \in Answers : a.id = up[c][2].of.id /\ down'[c] = down[c] \o Bytes(a)
    /\ cache'[c] = cache[c] /\ ran'[c] = ran[c]

RanNow(c) ==
    /\ ReadFrame(c) /\ up[c][2].of.kind = "invoke"
    /\ Cached(c, up[c][2].of.id) = {}
    /\ \E a \in Answers :
         /\ a.id = up[c][2].of.id /\ down'[c] = down[c] \o Bytes(a)
         /\ cache'[c] = IF Len(cache[c]) = MaxEntries THEN Tail(Append(cache[c], a))
                        ELSE Append(cache[c], a)
    /\ ran'[c] = Append(ran[c], up[c][2].of.id)

\* flush_write loses nothing of what was to be written.
LEMMA FlushKeeps ==
    ASSUME SessionTypeOK, NEW c \in Connections, NEW t \in Seq(Pieces(Answers)),
           Flush(c, Pending(c) \o t)
    PROVE  /\ down'[c] = down[c] \o t
           /\ \A d \in Connections : d # c => down'[d] = down[d]
<1> DEFINE s == down[c]
           k == Len(down[c]) - tx[c]
           a == SubSeq(s, 1, k)
           b == Rest(s, k)
<1>1. s \in Seq(Pieces(Answers)) /\ k \in 0 .. Len(s) /\ Len(s) \in Nat
  BY TypesAt
<1>2. down' = [down EXCEPT ![c] = a \o (b \o t)]
  BY DEF Flush, Pending
<1>3. a \in Seq(Pieces(Answers)) /\ b \in Seq(Pieces(Answers))
  BY <1>1, StartOf, RestIsEnd
<1>4. a \o b = s
  <2> HIDE DEF s, k
  <2>1. 1 \in 1 .. Len(s) + 1 /\ k \in (1 - 1) .. Len(s) /\ Len(s) \in k .. Len(s)
    BY <1>1
  <2>2. SubSeq(s, 1, k) \o SubSeq(s, k + 1, Len(s)) = SubSeq(s, 1, Len(s))
    BY <1>1, <2>1, ConcatAdjacentSubSeq
  <2>3. SubSeq(s, 1, Len(s)) = s
    BY <1>1, SubSeqFull
  <2> QED
    BY <2>2, <2>3 DEF Rest
<1> HIDE DEF a, b
<1>5. a \o (b \o t) = (a \o b) \o t
  BY <1>3, ConcatAssociative
<1> HIDE DEF s
<1>6. down' = [down EXCEPT ![c] = s \o t]
  BY <1>2, <1>4, <1>5
<1>7. down \in [Connections -> Seq(Pieces(Answers))]
  BY DEF SessionTypeOK
<1> QED
  BY <1>6, <1>7 DEF s

\* Nothing moves.
LEMMA PlacesKept ==
    ASSUME UNCHANGED <<backlog, sessions, unread>>
    PROVE  (Places => Places') /\ \A c : Served(c)' <=> Served(c)
  BY DEF Places, Served

LEMMA CurrentServed ==
    ASSUME SessionTypeOK, unread # <<>>
    PROVE  Served(Current)
<1>1. unread \in Seq(Connections)
  BY DEF SessionTypeOK
<1>2. Head(unread) = unread[1] /\ 1 \in DOMAIN unread
  BY <1>1
<1> QED
  BY <1>2 DEF Served, Range, Current

\* The frame at the head is read.
LEMMA ConsumeReads ==
    ASSUME SessionTypeOK, AtFrame, Consume(Current, 2), NEW c \in Connections
    PROVE  /\ c = Current => ReadFrame(c) /\ Served(c) /\ Request = up[c][2].of
           /\ c # Current => up'[c] = up[c]
<1>1. unread # <<>>
  BY DEF AtFrame
<1>2. Current \in Connections /\ Len(up[Current]) >= 2
  BY <1>1, RequestTyped
<1>3. up \in [Connections -> Seq(Pieces(Requests))]
  BY DEF SessionTypeOK
<1>4. up' = [up EXCEPT ![Current] = Rest(up[Current], 2)]
  BY DEF Consume
<1> QED
  BY <1>1, <1>2, <1>3, <1>4, CurrentServed DEF ReadFrame, Request

LEMMA ServerEffects ==
    ASSUME SessionTypeOK, Places, Server
    PROVE  /\ peer' = peer /\ Places'
           /\ \A c \in Connections :
                /\ Served(c)' => Served(c)
                /\ ~Served(c) => Still(c)
                /\ ran'[c] = ran[c] \/ RanNow(c)
                /\ Served(c)' =>
                      \/ Still(c) \/ Passed(c) \/ AnsweredAgain(c) \/ RanNow(c)
                      \/ OutOfFrame(up[c], rx[c]) /\ cache'[c] = cache[c] /\ ran'[c] = ran[c]
<1> DEFINE Effect(c) ==
             /\ Served(c)' => Served(c)
             /\ ~Served(c) => Still(c)
             /\ ran'[c] = ran[c] \/ RanNow(c)
             /\ Served(c)' =>
                   \/ Still(c) \/ Passed(c) \/ AnsweredAgain(c) \/ RanNow(c)
                   \/ OutOfFrame(up[c], rx[c]) /\ cache'[c] = cache[c] /\ ran'[c] = ran[c]
<1>1. CASE Accept
  BY <1>1, AcceptPlaces DEF Accept, wires, buffers, Still
<1>2. CASE PollRead
  <2>1. UNCHANGED <<backlog, sessions, unread, peer, up, down, cache, ran>>
    BY <1>2 DEF PollRead, wires
  <2>2. Places' /\ \A c : Served(c)' <=> Served(c)
    BY <2>1, PlacesKept
  <2> QED
    BY <2>1, <2>2 DEF Still
<1>3. ASSUME unread # <<>>, Drop(Current)
      PROVE  peer' = peer /\ Places' /\ \A c \in Connections : Effect(c)
  <2>1. NextSession /\ UNCHANGED <<peer, ran, sessions>>
    BY <1>3 DEF Drop
  <2>2. Places' /\ \A c : Served(c)' => Served(c) /\ c # Current
    BY <1>3, <2>1, DropPlaces
  <2>3. ASSUME NEW c \in Connections, c # Current PROVE Still(c)
    <3>1. up'[c] = up[c] /\ cache'[c] = cache[c]
      BY <1>3, <2>3 DEF Drop, SessionTypeOK
    <3>2. down'[c] = down[c]
      BY <1>3, <2>3 DEF Drop, SessionTypeOK
    <3> QED
      BY <2>1, <3>1, <3>2 DEF Still
  <2>4. Served(Current)
    BY <1>3, CurrentServed
  <2>5. ASSUME NEW c \in Connections PROVE Effect(c)
    <3>1. CASE c = Current
      BY <2>1, <2>2, <2>4, <3>1
    <3>2. CASE c # Current
      BY <2>1, <2>2, <2>3, <3>2
    <3> QED
      BY <3>1, <3>2
  <2> QED
    BY <2>1, <2>2, <2>5
<1>4. CASE PollReadFails \/ FrameTooLarge \/ DropAtEof
  BY <1>3, <1>4 DEF PollReadFails, FrameTooLarge, DropAtEof, OutOfFrames
<1>5. CASE PassOver
  <2>1. /\ AtFrame /\ Consume(Current, 2) /\ Request.kind = "other"
        /\ UNCHANGED <<peer, down, cache, ran, backlog, sessions, unread>>
    BY <1>5 DEF PassOver, turn
  <2>2. Places' /\ \A c : Served(c)' <=> Served(c)
    BY <2>1, PlacesKept
  <2>3. ASSUME NEW c \in Connections PROVE Effect(c)
    <3>1. CASE c = Current
      BY <2>1, <2>2, <3>1, ConsumeReads DEF Passed
    <3>2. CASE c # Current
      BY <2>1, <2>2, <3>2, ConsumeReads DEF Still
    <3> QED
      BY <3>1, <3>2
  <2> QED
    BY <2>1, <2>2, <2>3
<1>6. CASE ServeAgain
  <2>1. /\ AtFrame /\ Consume(Current, 2) /\ Request.kind = "invoke"
        /\ UNCHANGED <<peer, cache, ran, backlog, sessions, unread>>
    BY <1>6 DEF ServeAgain, turn
  <2>2. Places' /\ \A c : Served(c)' <=> Served(c)
    BY <2>1, PlacesKept
  <2>3. PICK answer \in Cached(Current, Request.id) : Write(Current, answer)
    BY <1>6 DEF ServeAgain
  <2>4. Current \in Connections
    BY <2>1, RequestTyped DEF AtFrame
  <2>5. answer \in Answers /\ answer.id = Request.id
    <3>1. cache[Current] \in Seq(Answers)
      BY <2>4, TypesAt
    <3>2. answer \in Range(cache[Current]) /\ answer.id = Request.id
      BY <2>3 DEF Cached
    <3> QED
      BY <3>1, <3>2 DEF Range
  <2>6. /\ down'[Current] = down[Current] \o Bytes(answer)
        /\ \A d \in Connections : d # Current => down'[d] = down[d]
    <3>1. Bytes(answer) \in Seq(Pieces(Answers))
      BY <2>5, BytesOf
    <3> QED
      BY <2>3, <2>4, <3>1, FlushKeeps DEF Write
  <2>7. ASSUME NEW c \in Connections PROVE Effect(c)
    <3>1. CASE c = Current
      <4>1. ReadFrame(c) /\ Served(c) /\ Request = up[c][2].of
        BY <2>1, <3>1, ConsumeReads
      <4>2. down'[c] = down[c] \o Bytes(answer)
        BY <2>6, <3>1
      <4>3. AnsweredAgain(c)
        BY <2>1, <2>5, <4>1, <4>2 DEF AnsweredAgain
      <4> QED
        BY <2>1, <2>2, <4>1, <4>3
    <3>2. CASE c # Current
      BY <2>1, <2>2, <2>6, <3>2, ConsumeReads DEF Still
    <3> QED
      BY <3>1, <3>2
  <2> QED
    BY <2>1, <2>2, <2>7
<1>7. CASE Serve
  <2>1. /\ AtFrame /\ Consume(Current, 2) /\ Request.kind = "invoke"
        /\ Cached(Current, Request.id) = {}
        /\ ran' = [ran EXCEPT ![Current] = Append(@, Request.id)]
        /\ UNCHANGED <<peer, backlog, sessions, unread>>
    BY <1>7 DEF Serve, turn
  <2>2. Places' /\ \A c : Served(c)' <=> Served(c)
    BY <2>1, PlacesKept
  <2>3. Current \in Connections /\ Request \in Requests
    BY <2>1, RequestTyped DEF AtFrame
  <2>4. PICK large \in BOOLEAN :
           /\ Remember(Current, [id |-> Request.id, by |-> Current, large |-> large])
           /\ Write(Current, [id |-> Request.id, by |-> Current, large |-> large])
    BY <1>7 DEF Serve
  <2> DEFINE answer == [id |-> Request.id, by |-> Current, large |-> large]
  <2>5. answer \in Answers /\ answer.id = Request.id
    <3>1. Request.id \in Nat
      BY <2>3 DEF Requests
    <3> QED
      BY <2>3, <3>1 DEF Answers
  <2>6. Remember(Current, answer) /\ Write(Current, answer)
    BY <2>4
  <2> HIDE DEF answer
  <2>7. /\ down'[Current] = down[Current] \o Bytes(answer)
        /\ \A d \in Connections : d # Current => down'[d] = down[d]
    <3>1. Bytes(answer) \in Seq(Pieces(Answers))
      BY <2>5, BytesOf
    <3> QED
      BY <2>3, <2>6, <3>1, FlushKeeps DEF Write
  <2>8. ASSUME NEW c \in Connections PROVE Effect(c)
    <3>1. CASE c = Current
      <4>1. ReadFrame(c) /\ Served(c) /\ Request = up[c][2].of
        BY <2>1, <3>1, ConsumeReads
      <4>2. down'[c] = down[c] \o Bytes(answer)
        BY <2>7, <3>1
      <4>3. cache'[c] = IF Len(cache[c]) = MaxEntries THEN Tail(Append(cache[c], answer))
                        ELSE Append(cache[c], answer)
        BY <2>6, <3>1 DEF Remember, SessionTypeOK
      <4>4. ran'[c] = Append(ran[c], Request.id)
        BY <2>1, <3>1 DEF SessionTypeOK
      <4>5. RanNow(c)
        BY <2>1, <2>5, <3>1, <4>1, <4>2, <4>3, <4>4 DEF RanNow
      <4> QED
        BY <2>2, <4>1, <4>5
    <3>2. CASE c # Current
      <4>1. up'[c] = up[c] /\ down'[c] = down[c]
        BY <2>1, <2>7, <3>2, ConsumeReads
      <4>2. cache'[c] = cache[c]
        BY <2>6, <3>2 DEF Remember, SessionTypeOK
      <4>3. ran'[c] = ran[c]
        BY <2>1, <3>2 DEF SessionTypeOK
      <4> QED
        BY <2>2, <4>1, <4>2, <4>3 DEF Still
    <3> QED
      BY <3>1, <3>2
  <2> QED
    BY <2>1, <2>2, <2>8
<1>8. CASE ReadGarbage
  <2>1. CASE Drop(Current)
    BY <1>3, <1>8, <2>1 DEF ReadGarbage
  <2>2. CASE /\ \E n \in 1 .. rx[Current] : Consume(Current, n)
             /\ UNCHANGED <<peer, down, tx, cache, ran, turn>>
    <3>1. unread # <<>> /\ OutOfFrame(up[Current], rx[Current])
      BY <1>8 DEF ReadGarbage
    <3>2. Places' /\ \A c : Served(c)' <=> Served(c)
      BY <2>2, PlacesKept DEF turn
    <3>3. Served(Current)
      BY <3>1, CurrentServed
    <3>4. ASSUME NEW c \in Connections, c # Current PROVE up'[c] = up[c]
      BY <2>2, <3>4 DEF Consume, SessionTypeOK
    <3>5. ASSUME NEW c \in Connections PROVE Effect(c)
      <4>1. CASE c = Current
        BY <2>2, <3>1, <3>2, <3>3, <4>1
      <4>2. CASE c # Current
        BY <2>2, <3>2, <3>4, <4>2 DEF Still
      <4> QED
        BY <4>1, <4>2
    <3> QED
      BY <2>2, <3>2, <3>5
  <2> QED
    BY <1>8, <2>1, <2>2 DEF ReadGarbage
<1>9. CASE Keep
  <2>1. /\ unread # <<>> /\ Flush(Current, Pending(Current))
        /\ NextSession /\ sessions' = Append(sessions, Current)
        /\ UNCHANGED <<peer, up, cache, ran>>
    BY <1>9 DEF Keep, OutOfFrames
  <2>2. Places' /\ \A c : Served(c)' => Served(c)
    BY <2>1, KeepPlaces
  <2>3. Current \in Connections
    BY <2>1, RequestTyped
  <2>4. down[Current] \in Seq(Pieces(Answers)) /\ Pending(Current) \in Seq(Pieces(Answers))
    BY <2>3, TypesAt, PendingTyped
  <2>5. Pending(Current) \o <<>> = Pending(Current) /\ down[Current] \o <<>> = down[Current]
        /\ <<>> \in Seq(Pieces(Answers))
    BY <2>4
  <2>6. \A d \in Connections : down'[d] = down[d]
    <3>1. Flush(Current, Pending(Current) \o <<>>)
      BY <2>1, <2>5
    <3>2. /\ down'[Current] = down[Current] \o <<>>
          /\ \A d \in Connections : d # Current => down'[d] = down[d]
      BY <2>3, <2>5, <3>1, FlushKeeps
    <3> QED
      BY <2>5, <3>2
  <2> QED
    BY <2>1, <2>2, <2>6 DEF Still
<1> QED
  BY <1>1, <1>2, <1>4, <1>5, <1>6, <1>7, <1>8, <1>9 DEF Server

----------------------------------------------------------------------------
(* Types and places.                                                       *)

\* What a client does leaves the server's side as it is.
LEMMA SendKeeps ==
    ASSUME PeersTypeOK, NEW c \in Connections, NEW request \in Requests, Send(c, request)
    PROVE  /\ PeersTypeOK' /\ Served(c) /\ peer[c] = "open"
           /\ up'[c] = up[c] \o Bytes(request) /\ sent'[c] = Append(sent[c], request)
           /\ \A d \in Connections : d # c => up'[d] = up[d] /\ sent'[d] = sent[d]
           /\ UNCHANGED <<peer, down, cache, ran, backlog, sessions, unread>>
<1>1. /\ up' = [up EXCEPT ![c] = up[c] \o Bytes(request)]
      /\ sent' = [sent EXCEPT ![c] = Append(sent[c], request)]
      /\ UNCHANGED <<peer, down, rx, tx, cache, ran, backlog, sessions, unread, reading>>
      /\ peer[c] = "open" /\ Served(c)
  BY DEF Send, buffers, turn
<1>2. SessionTypeOK /\ sent \in [Connections -> Seq(Requests)]
  BY DEF PeersTypeOK
<1>3. Bytes(request) \in Seq(Pieces(Requests)) /\ Len(Bytes(request)) = 2
  BY BytesOf
<1>4. up \in [Connections -> Seq(Pieces(Requests))]
  BY <1>2 DEF SessionTypeOK
<1>5. up[c] \o Bytes(request) \in Seq(Pieces(Requests))
      /\ Len(up[c] \o Bytes(request)) = Len(up[c]) + 2
  <2>1. up[c] \in Seq(Pieces(Requests))
    BY <1>4
  <2>2. /\ up[c] \o Bytes(request) \in Seq(Pieces(Requests))
        /\ Len(up[c] \o Bytes(request)) = Len(up[c]) + Len(Bytes(request))
    BY <1>3, <2>1, ConcatProperties, Zenon
  <2> QED
    BY <1>3, <2>2
<1>6. Append(sent[c], request) \in Seq(Requests)
  BY <1>2
<1> DEFINE longer == up[c] \o Bytes(request)
<1> HIDE DEF longer
<1>7. up' = [up EXCEPT ![c] = longer] /\ longer \in Seq(Pieces(Requests))
      /\ Len(longer) = Len(up[c]) + 2
  BY <1>1, <1>5 DEF longer
<1>8. up' \in [Connections -> Seq(Pieces(Requests))]
      /\ up'[c] = longer /\ \A d \in Connections : d # c => up'[d] = up[d]
  BY <1>4, <1>7
<1>9. sent' \in [Connections -> Seq(Requests)] /\ sent'[c] = Append(sent[c], request)
      /\ \A d \in Connections : d # c => sent'[d] = sent[d]
  BY <1>1, <1>2, <1>6
<1>10. ASSUME NEW d \in Connections PROVE rx'[d] <= Len(up'[d])
  <2>1. rx[d] \in Nat /\ rx[d] <= Len(up[d]) /\ Len(up[d]) \in Nat /\ rx'[d] = rx[d]
    BY <1>1, <1>2, TypesAt
  <2>2. CASE d = c
    BY <1>7, <1>8, <2>1, <2>2
  <2>3. CASE d # c
    BY <1>8, <2>1, <2>3
  <2> QED
    BY <2>2, <2>3
<1>11. SessionTypeOK'
  BY <1>1, <1>2, <1>8, <1>10 DEF SessionTypeOK
<1> QED
  BY <1>1, <1>8, <1>9, <1>11 DEF PeersTypeOK, longer

LEMMA CloseKeeps ==
    ASSUME PeersTypeOK, NEW c \in Connections, Close(c)
    PROVE  /\ PeersTypeOK' /\ peer[c] = "open" /\ peer'[c] = "closed"
           /\ \/ up'[c] = up[c]
              \/ \E f \in Requests : up'[c] = Append(up[c], Bytes(f)[1])
           /\ \A d \in Connections : d # c => up'[d] = up[d] /\ peer'[d] = peer[d]
           /\ UNCHANGED <<down, cache, ran, sent, backlog, sessions, unread>>
<1>1. /\ peer' = [peer EXCEPT ![c] = "closed"] /\ peer[c] = "open"
      /\ UNCHANGED <<sent, down, rx, tx, cache, ran, backlog, sessions, unread, reading>>
  BY DEF Close, buffers, turn
<1>2. SessionTypeOK /\ sent \in [Connections -> Seq(Requests)]
      /\ peer \in [Connections -> {"unused", "open", "closed", "reset"}]
      /\ up \in [Connections -> Seq(Pieces(Requests))]
  BY DEF PeersTypeOK, SessionTypeOK
<1>3. peer' \in [Connections -> {"unused", "open", "closed", "reset"}]
      /\ peer'[c] = "closed" /\ \A d \in Connections : d # c => peer'[d] = peer[d]
  BY <1>1, <1>2
<1>4. CASE UNCHANGED up
  <2>1. SessionTypeOK'
    BY <1>1, <1>2, <1>3, <1>4 DEF SessionTypeOK
  <2> QED
    BY <1>1, <1>2, <1>3, <1>4, <2>1 DEF PeersTypeOK
<1>5. ASSUME NEW f \in Requests, up' = [up EXCEPT ![c] = Append(up[c], Bytes(f)[1])]
      PROVE  /\ SessionTypeOK' /\ up'[c] = Append(up[c], Bytes(f)[1])
             /\ \A d \in Connections : d # c => up'[d] = up[d]
  <2> DEFINE longer == Append(up[c], Bytes(f)[1])
  <2>1. Bytes(f)[1] \in Pieces(Requests)
    BY DEF Bytes, Pieces
  <2>2. longer \in Seq(Pieces(Requests)) /\ Len(longer) = Len(up[c]) + 1
    <3>1. up[c] \in Seq(Pieces(Requests))
      BY <1>2
    <3> QED
      BY <2>1, <3>1, AppendProperties
  <2> HIDE DEF longer
  <2>3. up' = [up EXCEPT ![c] = longer]
    BY <1>5 DEF longer
  <2>4. up' \in [Connections -> Seq(Pieces(Requests))] /\ up'[c] = longer
        /\ \A d \in Connections : d # c => up'[d] = up[d]
    BY <1>2, <2>2, <2>3
  <2>5. ASSUME NEW d \in Connections PROVE rx'[d] <= Len(up'[d])
    <3>1. rx[d] \in Nat /\ rx[d] <= Len(up[d]) /\ Len(up[d]) \in Nat /\ rx'[d] = rx[d]
      BY <1>1, <1>2, TypesAt
    <3>2. CASE d = c
      BY <2>2, <2>4, <3>1, <3>2
    <3>3. CASE d # c
      BY <2>4, <3>1, <3>3
    <3> QED
      BY <3>2, <3>3
  <2>6. SessionTypeOK'
    BY <1>1, <1>2, <1>3, <2>4, <2>5 DEF SessionTypeOK
  <2> QED
    BY <2>4, <2>6 DEF longer
<1>6. CASE \E id \in Ids :
              up' = [up EXCEPT ![c] = Append(@, Bytes([kind |-> "invoke", id |-> id])[1])]
  <2>1. PICK id \in Ids :
           up' = [up EXCEPT ![c] = Append(@, Bytes([kind |-> "invoke", id |-> id])[1])]
    BY <1>6
  <2>2. [kind |-> "invoke", id |-> id] \in Requests
    BY IdsAssumption DEF Requests
  <2> DEFINE f == [kind |-> "invoke", id |-> id]
  <2>3. up' = [up EXCEPT ![c] = Append(up[c], Bytes(f)[1])] /\ f \in Requests
    BY <2>1, <2>2
  <2> HIDE DEF f
  <2>4. /\ SessionTypeOK' /\ up'[c] = Append(up[c], Bytes(f)[1])
        /\ \A d \in Connections : d # c => up'[d] = up[d]
    BY <1>5, <2>3
  <2> QED
    BY <1>1, <1>2, <1>3, <2>3, <2>4 DEF PeersTypeOK
<1> QED
  BY <1>4, <1>6 DEF Close

LEMMA BreakKeeps ==
    ASSUME PeersTypeOK, NEW c \in Connections, Reset(c)
    PROVE  /\ PeersTypeOK' /\ peer[c] # "unused" /\ peer'[c] = "reset"
           /\ \A d \in Connections : d # c => peer'[d] = peer[d]
           /\ UNCHANGED <<up, down, cache, ran, sent, backlog, sessions, unread>>
<1>1. /\ peer' = [peer EXCEPT ![c] = "reset"] /\ peer[c] # "unused"
      /\ UNCHANGED <<up, sent, down, rx, tx, cache, ran, backlog, sessions, unread, reading>>
  BY DEF Reset, buffers, turn
<1>2. SessionTypeOK /\ sent \in [Connections -> Seq(Requests)]
      /\ peer \in [Connections -> {"unused", "open", "closed", "reset"}]
  BY DEF PeersTypeOK, SessionTypeOK
<1>3. peer' \in [Connections -> {"unused", "open", "closed", "reset"}]
      /\ peer'[c] = "reset" /\ \A d \in Connections : d # c => peer'[d] = peer[d]
  BY <1>1, <1>2
<1>4. SessionTypeOK'
  BY <1>1, <1>2, <1>3 DEF SessionTypeOK
<1> QED
  BY <1>1, <1>2, <1>3, <1>4 DEF PeersTypeOK

LEMMA ConnectKeeps ==
    ASSUME PeersTypeOK, PlaceInv, NEW c \in Connections, Dial(c)
    PROVE  /\ PeersTypeOK' /\ Untouched(c) /\ peer'[c] = "open"
           /\ \A d \in Connections : d # c => peer'[d] = peer[d] /\ (Served(d)' => Served(d))
           /\ Places'
           /\ UNCHANGED <<up, down, cache, ran, sent>>
<1>1. /\ peer' = [peer EXCEPT ![c] = "open"] /\ peer[c] = "unused"
      /\ backlog' = Append(backlog, c)
      /\ UNCHANGED <<up, down, rx, tx, cache, ran, sessions, unread, reading, sent>>
  BY DEF Dial, buffers
<1>2. SessionTypeOK /\ sent \in [Connections -> Seq(Requests)] /\ backlog \in Seq(Connections)
      /\ peer \in [Connections -> {"unused", "open", "closed", "reset"}]
  BY DEF PeersTypeOK, SessionTypeOK
<1>3. peer' \in [Connections -> {"unused", "open", "closed", "reset"}]
      /\ peer'[c] = "open" /\ \A d \in Connections : d # c => peer'[d] = peer[d]
  BY <1>1, <1>2
<1>4. backlog' \in Seq(Connections) /\ Range(backlog') = Range(backlog) \cup {c}
  BY <1>1, <1>2, RangeOfAppend
<1>5. SessionTypeOK'
  BY <1>1, <1>2, <1>3, <1>4 DEF SessionTypeOK
<1>6. Untouched(c)
  BY <1>1 DEF PlaceInv
<1>7. c \notin Range(backlog) /\ c \notin Range(sessions) /\ c \notin Range(unread)
  BY <1>6, ServedWhere DEF Untouched
<1>8. Once(backlog')
  BY <1>1, <1>2, <1>7, OnceAppend DEF PlaceInv, Places
<1>9. Places'
  BY <1>1, <1>4, <1>7, <1>8 DEF PlaceInv, Places, Apart
<1>10. ASSUME NEW d \in Connections, d # c, Served(d)' PROVE Served(d)
  BY <1>1, <1>4, <1>10, ServedWhere
<1> QED
  BY <1>1, <1>2, <1>3, <1>5, <1>6, <1>9, <1>10 DEF PeersTypeOK

----------------------------------------------------------------------------
(* Answers and invocations.                                                *)

IdsOf(frames) == [i \in DOMAIN frames |-> frames[i].id]

LEMMA IdsMore ==
    ASSUME NEW frames \in Seq(Answers), NEW a \in Answers
    PROVE  /\ IdsOf(frames) \in Seq(Nat)
           /\ IdsOf(Append(frames, a)) = Append(IdsOf(frames), a.id)
<1> DEFINE m == Len(frames)
           more == Append(frames, a)
<1>1. /\ m \in Nat /\ DOMAIN frames = 1 .. m /\ a.id \in Nat
      /\ \A i \in 1 .. m : frames[i].id \in Nat
  <2>1. \A i \in 1 .. m : frames[i] \in Answers
    OBVIOUS
  <2> QED
    BY <2>1 DEF Answers
<1>2. /\ DOMAIN more = 1 .. m + 1 /\ more[m + 1] = a
      /\ \A i \in 1 .. m : more[i] = frames[i]
  OBVIOUS
<1> HIDE DEF more, m
<1>3. IdsOf(frames) = [i \in 1 .. m |-> frames[i].id]
  BY <1>1 DEF IdsOf
<1>4. IdsOf(frames) \in Seq(Nat) /\ Len(IdsOf(frames)) = m
  <2>1. IdsOf(frames) \in [1 .. m -> Nat]
    BY <1>1, <1>3
  <2> QED
    BY <1>1, <2>1
<1>5. IdsOf(more) = [i \in 1 .. m + 1 |-> more[i].id]
  BY <1>2 DEF IdsOf
<1>6. ASSUME NEW i \in 1 .. m + 1 PROVE more[i].id \in Nat
  <2>1. i \in 1 .. m \/ i = m + 1
    BY <1>1
  <2> QED
    BY <1>1, <1>2, <2>1
<1>7. IdsOf(more) \in Seq(Nat) /\ Len(IdsOf(more)) = m + 1
  <2>1. IdsOf(more) \in [1 .. m + 1 -> Nat]
    BY <1>5, <1>6
  <2> QED
    BY <1>1, <2>1
<1>8. Append(IdsOf(frames), a.id) \in Seq(Nat) /\ Len(Append(IdsOf(frames), a.id)) = m + 1
      /\ Append(IdsOf(frames), a.id)[m + 1] = a.id
      /\ \A i \in 1 .. m : Append(IdsOf(frames), a.id)[i] = IdsOf(frames)[i]
  BY <1>1, <1>4, AppendProperties
<1>9. ASSUME NEW i \in 1 .. m + 1 PROVE IdsOf(more)[i] = Append(IdsOf(frames), a.id)[i]
  <2>1. i \in 1 .. m \/ i = m + 1
    BY <1>1
  <2>2. IdsOf(more)[i] = more[i].id
    BY <1>5
  <2>3. CASE i \in 1 .. m
    BY <1>2, <1>3, <1>8, <2>2, <2>3
  <2>4. CASE i = m + 1
    BY <1>2, <1>8, <2>2, <2>4
  <2> QED
    BY <2>1, <2>3, <2>4, Zenon
<1>10. IdsOf(more) = Append(IdsOf(frames), a.id)
  BY <1>7, <1>8, <1>9, SeqEqual
<1> QED
  BY <1>4, <1>10 DEF more

\* The streams u to the server and d from it, on a connection on which the frames f
\* were sent.
InOrder(u, d, f) ==
    /\ Framed(u) /\ Framed(d) /\ Whole(d)
    /\ Invocations(f) = IdsOf(FramesOf(d)) \o Invocations(FramesOf(u))

LEMMA OrderNone == InOrder(<<>>, <<>>, <<>>) /\ Whole(<<>>)
<1>1. Len(<<>>) = 0 /\ 0 \div 2 = 0 /\ 1 .. 0 = {}
  OBVIOUS
<1>2. Framed(<<>>) /\ Whole(<<>>)
  BY <1>1 DEF Framed, Whole
<1>3. FramesOf(<<>>) = <<>>
  BY <1>1 DEF FramesOf
<1>4. IdsOf(<<>>) = <<>>
  BY DEF IdsOf
<1>5. <<>> \o <<>> = <<>>
  OBVIOUS
<1> QED
  BY <1>2, <1>3, <1>4, <1>5, NoInvocations DEF InOrder

\* The types of what InOrder speaks of.
LEMMA OrderTyped ==
    ASSUME NEW u \in Seq(Pieces(Requests)), NEW d \in Seq(Pieces(Answers)),
           NEW f, InOrder(u, d, f)
    PROVE  /\ FramesOf(u) \in Seq(Requests) /\ Invocations(FramesOf(u)) \in Seq(Nat)
           /\ FramesOf(d) \in Seq(Answers) /\ IdsOf(FramesOf(d)) \in Seq(Nat)
<1>1. FramesOf(u) \in Seq(Requests) /\ FramesOf(d) \in Seq(Answers)
  BY FramedPairs DEF InOrder
<1>2. Invocations(FramesOf(u)) \in Seq(Nat)
  BY <1>1, InvocationsTyped
<1>3. IdsOf(FramesOf(d)) \in Seq(Nat)
  <2>1. ASSUME NEW g \in Seq(Answers) PROVE IdsOf(g) \in Seq(Nat)
    <3>1. \A i \in 1 .. Len(g) : g[i] \in Answers
      OBVIOUS
    <3>2. \A i \in 1 .. Len(g) : g[i].id \in Nat
      BY <3>1 DEF Answers
    <3>3. DOMAIN g = 1 .. Len(g) /\ Len(g) \in Nat
      OBVIOUS
    <3>4. IdsOf(g) \in [1 .. Len(g) -> Nat]
      BY <3>2, <3>3 DEF IdsOf
    <3> QED
      BY <3>3, <3>4
  <2> QED
    BY <1>1, <2>1
<1> QED
  BY <1>1, <1>2, <1>3

LEMMA OrderSent ==
    ASSUME NEW u \in Seq(Pieces(Requests)), NEW d \in Seq(Pieces(Answers)),
           NEW f \in Seq(Requests), InOrder(u, d, f), Whole(u), NEW r \in Requests
    PROVE  InOrder(u \o Bytes(r), d, Append(f, r)) /\ Whole(u \o Bytes(r))
<1> DEFINE v == u \o Bytes(r)
           before == IdsOf(FramesOf(d))
<1>1. Framed(v) /\ Whole(v) /\ FramesOf(v) = Append(FramesOf(u), r)
  BY FrameWritten DEF InOrder
<1>2. /\ FramesOf(u) \in Seq(Requests) /\ Invocations(FramesOf(u)) \in Seq(Nat)
      /\ before \in Seq(Nat)
  BY OrderTyped
<1> HIDE DEF v, before
<1>3. Invocations(FramesOf(v)) = IF r.kind = "invoke" THEN Append(Invocations(FramesOf(u)), r.id)
                                 ELSE Invocations(FramesOf(u))
  BY <1>1, <1>2, InvocationsAppend
<1>4. Invocations(Append(f, r)) = IF r.kind = "invoke" THEN Append(Invocations(f), r.id)
                                  ELSE Invocations(f)
  BY InvocationsAppend
<1>5. Invocations(f) = before \o Invocations(FramesOf(u))
  BY DEF InOrder, before
<1>6. Append(before \o Invocations(FramesOf(u)), r.id) = before \o Append(Invocations(FramesOf(u)), r.id)
  <2>1. r.id \in Nat
    BY DEF Requests
  <2> QED
    BY <1>2, <2>1, AppendToConcat
<1>7. Invocations(Append(f, r)) = before \o Invocations(FramesOf(v))
  <2>1. CASE r.kind = "invoke"
    BY <1>3, <1>4, <1>5, <1>6, <2>1, Zenon
  <2>2. CASE r.kind # "invoke"
    BY <1>3, <1>4, <1>5, <2>2, Zenon
  <2> QED
    BY <2>1, <2>2
<1> QED
  BY <1>1, <1>7 DEF InOrder, v, before

LEMMA OrderCut ==
    ASSUME NEW u \in Seq(Pieces(Requests)), NEW d \in Seq(Pieces(Answers)),
           NEW f, InOrder(u, d, f), Whole(u), NEW r \in Requests
    PROVE  InOrder(Append(u, Bytes(r)[1]), d, f)
<1>1. Framed(Append(u, Bytes(r)[1])) /\ FramesOf(Append(u, Bytes(r)[1])) = FramesOf(u)
  BY FrameCut DEF InOrder
<1> QED
  BY <1>1, Zenon DEF InOrder

LEMMA OrderPassed ==
    ASSUME NEW u \in Seq(Pieces(Requests)), NEW d \in Seq(Pieces(Answers)),
           NEW f, InOrder(u, d, f), Len(u) >= 2, u[2].of.kind # "invoke"
    PROVE  InOrder(Rest(u, 2), d, f) /\ (Whole(u) => Whole(Rest(u, 2)))
<1>1. /\ Framed(Rest(u, 2)) /\ (Whole(u) => Whole(Rest(u, 2)))
      /\ u[2].of \in Requests /\ FramesOf(Rest(u, 2)) \in Seq(Requests)
      /\ FramesOf(u) = <<u[2].of>> \o FramesOf(Rest(u, 2))
  BY FrameRead DEF InOrder
<1>2. Invocations(FramesOf(u)) = Invocations(FramesOf(Rest(u, 2)))
  BY <1>1, InvocationsFirst
<1> QED
  BY <1>1, <1>2, Zenon DEF InOrder

LEMMA OrderAnswered ==
    ASSUME NEW u \in Seq(Pieces(Requests)), NEW d \in Seq(Pieces(Answers)),
           NEW f, InOrder(u, d, f), Len(u) >= 2, u[2].of.kind = "invoke",
           NEW a \in Answers, a.id = u[2].of.id
    PROVE  InOrder(Rest(u, 2), d \o Bytes(a), f) /\ (Whole(u) => Whole(Rest(u, 2)))
<1> DEFINE rest == Invocations(FramesOf(Rest(u, 2)))
           before == IdsOf(FramesOf(d))
<1>1. /\ Framed(Rest(u, 2)) /\ (Whole(u) => Whole(Rest(u, 2)))
      /\ u[2].of \in Requests /\ FramesOf(Rest(u, 2)) \in Seq(Requests)
      /\ FramesOf(u) = <<u[2].of>> \o FramesOf(Rest(u, 2))
  BY FrameRead DEF InOrder
<1>2. Framed(d \o Bytes(a)) /\ Whole(d \o Bytes(a))
      /\ FramesOf(d \o Bytes(a)) = Append(FramesOf(d), a)
  BY FrameWritten DEF InOrder
<1>3. FramesOf(d) \in Seq(Answers) /\ before \in Seq(Nat)
  BY OrderTyped
<1>4. rest \in Seq(Nat) /\ a.id \in Nat
  BY <1>1, InvocationsTyped DEF Answers
<1>5. Invocations(FramesOf(u)) = <<a.id>> \o rest
  BY <1>1, InvocationsFirst
<1>6. IdsOf(FramesOf(d \o Bytes(a))) = Append(before, a.id)
  BY <1>2, <1>3, IdsMore
<1>7. Invocations(f) = before \o Invocations(FramesOf(u))
  BY DEF InOrder
<1> HIDE DEF rest, before
<1>8. before \o (<<a.id>> \o rest) = Append(before, a.id) \o rest
  BY <1>3, <1>4, OneBetween
<1>9. Invocations(f) = IdsOf(FramesOf(d \o Bytes(a))) \o rest
  BY <1>5, <1>6, <1>7, <1>8, Zenon
<1> QED
  BY <1>1, <1>2, <1>9, Zenon DEF InOrder, rest

----------------------------------------------------------------------------
(* The actions together.                                                   *)

\* The actions of the clients, with what they send.
LEMMA PeerActions ==
    ASSUME Peers
    PROVE  \E c \in Connections :
             \/ Dial(c) \/ Close(c) \/ Reset(c) \/ \E request \in Requests : Send(c, request)
<1>1. PICK c \in Connections :
         \/ Dial(c) \/ Close(c) \/ Reset(c)
         \/ \E id \in Ids : Send(c, [kind |-> "invoke", id |-> id])
         \/ \E kind \in {"other", "large"} : Send(c, [kind |-> kind, id |-> 0])
  BY DEF Peers
<1>2. \A id \in Ids : [kind |-> "invoke", id |-> id] \in Requests
  BY IdsAssumption DEF Requests
<1>3. \A kind \in {"other", "large"} : [kind |-> kind, id |-> 0] \in Requests
  BY DEF Requests
<1> QED
  BY <1>1, <1>2, <1>3

LEMMA PeersInitHolds ==
    ASSUME PeersInit
    PROVE  PeersTypeOK /\ PlaceInv
<1>1. SessionTypeOK
  <2>1. /\ peer \in [Connections -> {"unused", "open", "closed", "reset"}]
        /\ up \in [Connections -> Seq(Pieces(Requests))]
        /\ down \in [Connections -> Seq(Pieces(Answers))]
        /\ rx \in [Connections -> Nat] /\ tx \in [Connections -> Nat]
        /\ cache \in [Connections -> Seq(Answers)] /\ ran \in [Connections -> Seq(Nat)]
        /\ backlog \in Seq(Connections) /\ sessions \in Seq(Connections)
        /\ unread \in Seq(Connections) /\ reading \in {"poll", "frames", "last"}
    BY DEF PeersInit, SessionInit
  <2>2. ASSUME NEW c \in Connections
        PROVE  rx[c] <= Len(up[c]) /\ tx[c] <= Len(down[c]) /\ Len(cache[c]) <= MaxEntries
    BY MaxEntriesAssumption DEF PeersInit, SessionInit
  <2> QED
    BY <2>1, <2>2 DEF SessionTypeOK
<1>2. sent \in [Connections -> Seq(Requests)]
  BY DEF PeersInit
<1>3. Range(<<>>) = {} /\ Once(<<>>)
  BY DEF Range, Once
<1>4. backlog = <<>> /\ sessions = <<>> /\ unread = <<>>
  BY DEF PeersInit, SessionInit
<1>5. Places
  BY <1>3, <1>4 DEF Places, Apart
<1>6. ASSUME NEW c \in Connections PROVE Untouched(c)
  BY <1>3, <1>4 DEF PeersInit, SessionInit, Untouched, Served
<1> QED
  BY <1>1, <1>2, <1>5, <1>6 DEF PeersTypeOK, PlaceInv

\* What a client does to the places ...
LEMMA PeerPlaces ==
    ASSUME PeersTypeOK, PlaceInv, Peers
    PROVE  PeersTypeOK' /\ PlaceInv'
<1>1. PICK c \in Connections :
         \/ Dial(c) \/ Close(c) \/ Reset(c) \/ \E request \in Requests : Send(c, request)
  BY PeerActions
<1>2. Places /\ \A d \in Connections : peer[d] = "unused" => Untouched(d)
  BY DEF PlaceInv
<1>3. CASE Dial(c)
  <2>1. /\ PeersTypeOK' /\ peer'[c] = "open" /\ Places'
        /\ \A d \in Connections : d # c => peer'[d] = peer[d] /\ (Served(d)' => Served(d))
        /\ UNCHANGED <<up, down, cache, ran, sent>>
    BY <1>3, ConnectKeeps
  <2>2. ASSUME NEW d \in Connections, peer'[d] = "unused" PROVE Untouched(d)'
    <3>1. d # c
      BY <2>1, <2>2
    <3>2. Untouched(d) /\ ~Served(d)'
      BY <1>2, <2>1, <2>2, <3>1 DEF Untouched
    <3> QED
      BY <2>1, <3>2 DEF Untouched
  <2> QED
    BY <2>1, <2>2 DEF PlaceInv
<1>4. CASE Close(c)
  <2>1. /\ PeersTypeOK' /\ peer'[c] = "closed"
        /\ \A d \in Connections : d # c => up'[d] = up[d] /\ peer'[d] = peer[d]
        /\ UNCHANGED <<down, cache, ran, sent, backlog, sessions, unread>>
    BY <1>4, CloseKeeps
  <2>2. Places' /\ \A d : Served(d)' <=> Served(d)
    BY <1>2, <2>1, PlacesKept
  <2>3. ASSUME NEW d \in Connections, peer'[d] = "unused" PROVE Untouched(d)'
    <3>1. d # c
      BY <2>1, <2>3
    <3> QED
      BY <1>2, <2>1, <2>2, <2>3, <3>1 DEF Untouched
  <2> QED
    BY <2>1, <2>2, <2>3 DEF PlaceInv
<1>5. CASE Reset(c)
  <2>1. /\ PeersTypeOK' /\ peer'[c] = "reset"
        /\ \A d \in Connections : d # c => peer'[d] = peer[d]
        /\ UNCHANGED <<up, down, cache, ran, sent, backlog, sessions, unread>>
    BY <1>5, BreakKeeps
  <2>2. Places' /\ \A d : Served(d)' <=> Served(d)
    BY <1>2, <2>1, PlacesKept
  <2>3. ASSUME NEW d \in Connections, peer'[d] = "unused" PROVE Untouched(d)'
    <3>1. d # c
      BY <2>1, <2>3
    <3> QED
      BY <1>2, <2>1, <2>2, <2>3, <3>1 DEF Untouched
  <2> QED
    BY <2>1, <2>2, <2>3 DEF PlaceInv
<1>6. ASSUME NEW request \in Requests, Send(c, request) PROVE PeersTypeOK' /\ PlaceInv'
  <2>1. /\ PeersTypeOK' /\ peer[c] = "open"
        /\ \A d \in Connections : d # c => up'[d] = up[d] /\ sent'[d] = sent[d]
        /\ UNCHANGED <<peer, down, cache, ran, backlog, sessions, unread>>
    BY <1>6, SendKeeps
  <2>2. Places' /\ \A d : Served(d)' <=> Served(d)
    BY <1>2, <2>1, PlacesKept
  <2>3. ASSUME NEW d \in Connections, peer'[d] = "unused" PROVE Untouched(d)'
    <3>1. d # c
      BY <2>1, <2>3
    <3> QED
      BY <1>2, <2>1, <2>2, <2>3, <3>1 DEF Untouched
  <2> QED
    BY <2>1, <2>2, <2>3 DEF PlaceInv
<1> QED
  BY <1>1, <1>3, <1>4, <1>5, <1>6

\* ... and what the server does.
LEMMA ServerPlaces ==
    ASSUME PeersTypeOK, PlaceInv, Server, UNCHANGED sent
    PROVE  PeersTypeOK' /\ PlaceInv'
<1>1. SessionTypeOK /\ Places
  BY DEF PeersTypeOK, PlaceInv
<1>2. SessionTypeOK' /\ PeersTypeOK'
  BY <1>1, ServerTyped DEF PeersTypeOK
<1>3. /\ peer' = peer /\ Places'
      /\ \A c \in Connections : (Served(c)' => Served(c)) /\ (~Served(c) => Still(c))
  BY <1>1, ServerEffects
<1>4. ASSUME NEW c \in Connections, peer'[c] = "unused" PROVE Untouched(c)'
  <2>1. Untouched(c)
    BY <1>3, <1>4 DEF PlaceInv
  <2> QED
    BY <1>3, <2>1 DEF Untouched, Still
<1> QED
  BY <1>2, <1>3, <1>4 DEF PlaceInv

LEMMA PeersStep ==
    ASSUME PeersTypeOK, PlaceInv, [PeersNext]_peersVars
    PROVE  PeersTypeOK' /\ PlaceInv'
<1>1. CASE UNCHANGED peersVars
  <2>1. UNCHANGED <<peer, up, rx, down, tx, cache, ran, backlog, sessions, unread, reading, sent>>
    BY <1>1 DEF peersVars, serverVars, wires, buffers, turn
  <2>2. PeersTypeOK'
    BY <2>1 DEF PeersTypeOK, SessionTypeOK
  <2>3. Places' /\ \A d : Served(d)' <=> Served(d)
    BY <2>1, PlacesKept DEF PlaceInv
  <2>4. ASSUME NEW d \in Connections, peer'[d] = "unused" PROVE Untouched(d)'
    BY <2>1, <2>3, <2>4 DEF PlaceInv, Untouched
  <2> QED
    BY <2>2, <2>3, <2>4 DEF PlaceInv
<1> QED
  BY <1>1, PeerPlaces, ServerPlaces DEF PeersNext

\* The state of the server and of its connections keeps its types, whatever the
\* clients send and whenever they come and go (Sessions::handle of process.rs,
\* Session of transport/session.rs).
THEOREM PeersTyped == PeersSpec => [](PeersTypeOK /\ PlaceInv)
<1>1. PeersInit => PeersTypeOK /\ PlaceInv
  BY PeersInitHolds
<1>2. PeersTypeOK /\ PlaceInv /\ [PeersNext]_peersVars => (PeersTypeOK /\ PlaceInv)'
  BY PeersStep
<1> QED
  BY <1>1, <1>2, PTL DEF PeersSpec

----------------------------------------------------------------------------
(* The answers come in order.                                              *)

\* As long as a connection is held, the invocations sent on it are those answered and
\* those still in its stream; a client that may write again is not within a frame.
OrderInv ==
    \A c \in Connections :
        Served(c) => InOrder(up[c], down[c], sent[c]) /\ (peer[c] = "open" => Whole(up[c]))

LEMMA PeerOrders ==
    ASSUME PeersTypeOK, PlaceInv, OrderInv, Peers
    PROVE  OrderInv'
<1>1. PICK c \in Connections :
         \/ Dial(c) \/ Close(c) \/ Reset(c) \/ \E request \in Requests : Send(c, request)
  BY PeerActions
<1> SUFFICES ASSUME NEW e \in Connections, Served(e)'
             PROVE  InOrder(up'[e], down'[e], sent'[e]) /\ (peer'[e] = "open" => Whole(up'[e]))
  BY DEF OrderInv
<1>2. up[e] \in Seq(Pieces(Requests)) /\ down[e] \in Seq(Pieces(Answers))
      /\ sent[e] \in Seq(Requests)
  BY TypesAt DEF PeersTypeOK
<1>3. Served(e) => InOrder(up[e], down[e], sent[e]) /\ (peer[e] = "open" => Whole(up[e]))
  BY DEF OrderInv
<1>4. CASE Dial(c)
  <2>1. /\ Untouched(c)
        /\ \A d \in Connections : d # c => peer'[d] = peer[d] /\ (Served(d)' => Served(d))
        /\ UNCHANGED <<up, down, sent>>
    BY <1>4, ConnectKeeps
  <2>2. CASE e = c
    <3>1. up'[e] = <<>> /\ down'[e] = <<>> /\ sent'[e] = <<>>
      BY <2>1, <2>2 DEF Untouched
    <3> QED
      BY <3>1, OrderNone
  <2>3. CASE e # c
    BY <1>3, <2>1, <2>3
  <2> QED
    BY <2>2, <2>3
<1>5. CASE Close(c)
  <2>1. /\ peer[c] = "open" /\ peer'[c] = "closed"
        /\ \/ up'[c] = up[c]
           \/ \E f \in Requests : up'[c] = Append(up[c], Bytes(f)[1])
        /\ \A d \in Connections : d # c => up'[d] = up[d] /\ peer'[d] = peer[d]
        /\ UNCHANGED <<down, sent, backlog, sessions, unread>>
    BY <1>5, CloseKeeps
  <2>2. Served(e)
    BY <2>1, PlacesKept
  <2>3. CASE e = c
    <3>1. InOrder(up[e], down[e], sent[e]) /\ Whole(up[e])
      BY <1>3, <2>1, <2>2, <2>3
    <3>2. InOrder(up'[e], down[e], sent[e])
      <4>1. CASE up'[c] = up[c]
        BY <2>3, <3>1, <4>1
      <4>2. ASSUME NEW f \in Requests, up'[c] = Append(up[c], Bytes(f)[1])
            PROVE  InOrder(up'[e], down[e], sent[e])
        <5>1. InOrder(Append(up[e], Bytes(f)[1]), down[e], sent[e])
          BY <1>2, <3>1, OrderCut
        <5> QED
          BY <2>3, <4>2, <5>1
      <4> QED
        BY <2>1, <4>1, <4>2
    <3> QED
      BY <2>1, <2>3, <3>2
  <2>4. CASE e # c
    BY <1>3, <2>1, <2>2, <2>4
  <2> QED
    BY <2>3, <2>4
<1>6. CASE Reset(c)
  <2>1. /\ peer'[c] = "reset"
        /\ \A d \in Connections : d # c => peer'[d] = peer[d]
        /\ UNCHANGED <<up, down, sent, backlog, sessions, unread>>
    BY <1>6, BreakKeeps
  <2>2. Served(e)
    BY <2>1, PlacesKept
  <2>3. peer'[e] = "open" => peer[e] = "open"
    BY <2>1
  <2> QED
    BY <1>3, <2>1, <2>2, <2>3
<1>7. ASSUME NEW request \in Requests, Send(c, request)
      PROVE  InOrder(up'[e], down'[e], sent'[e]) /\ (peer'[e] = "open" => Whole(up'[e]))
  <2>1. /\ Served(c) /\ peer[c] = "open"
        /\ up'[c] = up[c] \o Bytes(request) /\ sent'[c] = Append(sent[c], request)
        /\ \A d \in Connections : d # c => up'[d] = up[d] /\ sent'[d] = sent[d]
        /\ UNCHANGED <<peer, down, backlog, sessions, unread>>
    BY <1>7, SendKeeps
  <2>2. Served(e)
    BY <2>1, PlacesKept
  <2>3. CASE e = c
    <3>1. InOrder(up[e], down[e], sent[e]) /\ Whole(up[e])
      BY <1>3, <2>1, <2>2, <2>3
    <3>2. InOrder(up[e] \o Bytes(request), down[e], Append(sent[e], request))
          /\ Whole(up[e] \o Bytes(request))
      BY <1>2, <3>1, OrderSent
    <3>3. up'[e] = up[e] \o Bytes(request) /\ sent'[e] = Append(sent[e], request)
          /\ down'[e] = down[e]
      BY <2>1, <2>3
    <3> QED
      BY <3>2, <3>3, Zenon
  <2>4. CASE e # c
    BY <1>3, <2>1, <2>2, <2>4
  <2> QED
    BY <2>3, <2>4
<1> QED
  BY <1>1, <1>4, <1>5, <1>6, <1>7

LEMMA ServerOrders ==
    ASSUME PeersTypeOK, PlaceInv, OrderInv, Server, UNCHANGED sent
    PROVE  OrderInv'
<1> SUFFICES ASSUME NEW e \in Connections, Served(e)'
             PROVE  InOrder(up'[e], down'[e], sent'[e]) /\ (peer'[e] = "open" => Whole(up'[e]))
  BY DEF OrderInv
<1>1. SessionTypeOK /\ Places
  BY DEF PeersTypeOK, PlaceInv
<1>2. up[e] \in Seq(Pieces(Requests)) /\ down[e] \in Seq(Pieces(Answers))
      /\ rx[e] \in Nat /\ rx[e] <= Len(up[e])
  BY <1>1, TypesAt
<1>3. /\ peer' = peer /\ Served(e)
      /\ \/ Still(e) \/ Passed(e) \/ AnsweredAgain(e) \/ RanNow(e)
         \/ OutOfFrame(up[e], rx[e])
  BY <1>1, ServerEffects
<1>4. InOrder(up[e], down[e], sent[e]) /\ (peer[e] = "open" => Whole(up[e]))
  BY <1>3 DEF OrderInv
<1>5. CASE Still(e)
  BY <1>3, <1>4, <1>5 DEF Still
<1>6. CASE Passed(e)
  <2>1. InOrder(Rest(up[e], 2), down[e], sent[e]) /\ (Whole(up[e]) => Whole(Rest(up[e], 2)))
    BY <1>2, <1>4, <1>6, OrderPassed DEF Passed, ReadFrame
  <2>2. up'[e] = Rest(up[e], 2) /\ down'[e] = down[e]
    BY <1>6 DEF Passed, ReadFrame
  <2> QED
    BY <1>3, <1>4, <2>1, <2>2
<1>7. CASE AnsweredAgain(e) \/ RanNow(e)
  <2>1. /\ Len(up[e]) >= 2 /\ up'[e] = Rest(up[e], 2) /\ up[e][2].of.kind = "invoke"
        /\ \E a \in Answers : a.id = up[e][2].of.id /\ down'[e] = down[e] \o Bytes(a)
    BY <1>7 DEF AnsweredAgain, RanNow, ReadFrame
  <2>2. PICK a \in Answers : a.id = up[e][2].of.id /\ down'[e] = down[e] \o Bytes(a)
    BY <2>1
  <2>3. InOrder(Rest(up[e], 2), down[e] \o Bytes(a), sent[e])
        /\ (Whole(up[e]) => Whole(Rest(up[e], 2)))
    BY <1>2, <1>4, <2>1, <2>2, OrderAnswered
  <2> QED
    BY <1>3, <1>4, <2>1, <2>2, <2>3
<1>8. ~OutOfFrame(up[e], rx[e])
  <2>1. Framed(up[e]) /\ Len(up[e]) \in Nat
    BY <1>2, <1>4 DEF InOrder
  <2>2. Len(up[e]) >= 1 => up[e][1].part = "length"
    <3> SUFFICES ASSUME Len(up[e]) >= 1 PROVE up[e][1].part = "length"
      OBVIOUS
    <3>1. 1 \in 1 .. Len(up[e]) /\ 2 * 1 - 1 = 1
      BY <2>1
    <3> QED
      BY <2>1, <3>1 DEF Framed
  <2>3. Len(up[e]) >= 2 => up[e][2].part # "length"
    <3> SUFFICES ASSUME Len(up[e]) >= 2 PROVE up[e][2].part # "length"
      OBVIOUS
    <3>1. 1 \in 1 .. Len(up[e]) /\ 2 * 1 - 1 = 1 /\ 2 * 1 = 2
      BY <2>1
    <3>2. up[e][2] = [up[e][1] EXCEPT !.part = "payload"]
      BY <2>1, <3>1 DEF Framed
    <3>3. 1 \in 1 .. Len(up[e])
      BY <2>1
    <3>4. up[e][1] \in Pieces(Requests)
      BY <1>2, <3>3
    <3>5. up[e][2].part = "payload"
      BY <3>2, <3>4 DEF Pieces
    <3> QED
      BY <3>5
  <2> QED
    BY <1>2, <2>1, <2>2, <2>3 DEF OutOfFrame
<1> QED
  BY <1>3, <1>5, <1>6, <1>7, <1>8

\* As long as the server holds a connection, the invocations that its client sent are
\* answered in their order and once each, or still on their way: handle_message, write
\* and flush_write lose and repeat nothing, whatever part the socket takes and whatever
\* the other connections do.
THEOREM PeersAnswerInOrder == PeersSpec => []AnswersInOrder
<1>1. PeersInit => OrderInv
  <2> SUFFICES ASSUME PeersInit PROVE OrderInv
    OBVIOUS
  <2>1. \A c : ~Served(c)
    <3>1. Range(<<>>) = {}
      BY DEF Range
    <3> QED
      BY <3>1 DEF PeersInit, SessionInit, Served
  <2> QED
    BY <2>1 DEF OrderInv
<1>2. PeersTypeOK /\ PlaceInv /\ OrderInv /\ [PeersNext]_peersVars => OrderInv'
  <2> SUFFICES ASSUME PeersTypeOK, PlaceInv, OrderInv, [PeersNext]_peersVars PROVE OrderInv'
    OBVIOUS
  <2>1. CASE UNCHANGED peersVars
    BY <2>1 DEF OrderInv, Served, peersVars, serverVars, wires, turn
  <2> QED
    BY <2>1, PeerOrders, ServerOrders DEF PeersNext
<1>3. OrderInv => AnswersInOrder
  <2>1. \A c \in Connections : AnsweredIds(c) = IdsOf(FramesOf(down[c]))
    BY DEF AnsweredIds, IdsOf
  <2> QED
    BY <2>1 DEF OrderInv, InOrder, AnswersInOrder
<1> QED
  BY <1>1, <1>2, <1>3, PeersTyped, PTL DEF PeersSpec

----------------------------------------------------------------------------
(* An id runs again only when it was forgotten.                            *)

\* The cache holds the ids of the last calls that ran, each of them once, and all of
\* them until it is full.
Window(r, kept) ==
    /\ Len(kept) <= Len(r) /\ (Len(kept) < MaxEntries => Len(kept) = Len(r))
    /\ \A i \in 1 .. Len(kept) : kept[i].id = r[Len(r) - Len(kept) + i]
    /\ \A i, j \in 1 .. Len(kept) : kept[i].id = kept[j].id => i = j

Spaced(r) ==
    \A i, j \in DOMAIN r :
        i < j /\ r[i] = r[j] => Cardinality({r[k] : k \in (i + 1) .. (j - 1)}) >= MaxEntries

LEMMA TailOf ==
    ASSUME NEW s \in Seq(Answers), s # <<>>
    PROVE  Len(Tail(s)) = Len(s) - 1 /\ \A i \in 1 .. (Len(s) - 1) : Tail(s)[i] = s[i + 1]
<1>1. Tail(s) \in Seq(Answers) /\ Len(Tail(s)) = Len(s) - 1
      /\ \A i \in 1 .. Len(Tail(s)) : Tail(s)[i] = s[i + 1]
  BY HeadTailProperties, Zenon
<1> QED
  BY <1>1

LEMMA WindowMoves ==
    ASSUME NEW r \in Seq(Nat), NEW kept \in Seq(Answers), Len(kept) <= MaxEntries,
           Window(r, kept), NEW a \in Answers, \A i \in 1 .. Len(kept) : kept[i].id # a.id
    PROVE  Window(Append(r, a.id),
                  IF Len(kept) = MaxEntries THEN Tail(Append(kept, a)) ELSE Append(kept, a))
<1> DEFINE n == Len(r)
           m == Len(kept)
           s == Append(r, a.id)
           longer == Append(kept, a)
           shorter == Tail(longer)
<1>1. n \in Nat /\ m \in Nat /\ m <= n /\ (m < MaxEntries => m = n) /\ a.id \in Nat
      /\ MaxEntries \in Nat /\ MaxEntries > 0 /\ m <= MaxEntries
  BY MaxEntriesAssumption DEF Window, Answers
<1>2. Len(s) = n + 1 /\ s[n + 1] = a.id /\ \A i \in 1 .. n : s[i] = r[i]
  BY <1>1, AppendProperties
<1>3. Len(longer) = m + 1 /\ longer[m + 1] = a /\ \A i \in 1 .. m : longer[i] = kept[i]
      /\ longer \in Seq(Answers) /\ longer # <<>>
  BY AppendProperties
<1>4. Len(shorter) = m /\ \A i \in 1 .. m : shorter[i] = longer[i + 1]
  <2> HIDE DEF longer
  <2>2. Len(Tail(longer)) = Len(longer) - 1
        /\ \A i \in 1 .. (Len(longer) - 1) : Tail(longer)[i] = longer[i + 1]
    BY <1>3, TailOf
  <2> QED
    BY <1>1, <1>3, <2>2
<1>5. /\ \A i \in 1 .. m : kept[i].id = r[n - m + i]
      /\ \A i, j \in 1 .. m : kept[i].id = kept[j].id => i = j
  BY DEF Window
<1> HIDE DEF n, m, s, longer, shorter
<1>6. \A i \in 1 .. m + 1 : longer[i].id = s[(n + 1) - (m + 1) + i]
  <2> SUFFICES ASSUME NEW i \in 1 .. m + 1
               PROVE  longer[i].id = s[(n + 1) - (m + 1) + i]
    OBVIOUS
  <2>1. CASE i \in 1 .. m
    <3>1. (n + 1) - (m + 1) + i = n - m + i /\ n - m + i \in 1 .. n
      BY <1>1, <2>1
    <3> QED
      BY <1>2, <1>3, <1>5, <2>1, <3>1
  <2>2. CASE i = m + 1
    <3>1. (n + 1) - (m + 1) + i = n + 1
      BY <1>1, <2>2
    <3> QED
      BY <1>2, <1>3, <2>2, <3>1, Zenon
  <2>3. i \in 1 .. m \/ i = m + 1
    BY <1>1
  <2> QED
    BY <2>1, <2>2, <2>3
<1>7. \A i, j \in 1 .. m + 1 : longer[i].id = longer[j].id => i = j
  <2> SUFFICES ASSUME NEW i \in 1 .. m + 1, NEW j \in 1 .. m + 1, longer[i].id = longer[j].id
               PROVE  i = j
    OBVIOUS
  <2>1. /\ i \in 1 .. m \/ i = m + 1
        /\ j \in 1 .. m \/ j = m + 1
    BY <1>1
  <2>2. \A k \in 1 .. m : longer[k].id = kept[k].id /\ kept[k].id # a.id
    BY <1>3 DEF m
  <2>3. longer[m + 1].id = a.id
    BY <1>3
  <2>4. CASE i \in 1 .. m /\ j \in 1 .. m
    BY <1>5, <2>2, <2>4
  <2>5. CASE i = m + 1 /\ j = m + 1
    BY <2>5
  <2>6. CASE i = m + 1 /\ j \in 1 .. m
    BY <2>2, <2>3, <2>6
  <2>7. CASE i \in 1 .. m /\ j = m + 1
    BY <2>2, <2>3, <2>7
  <2> QED
    BY <2>1, <2>4, <2>5, <2>6, <2>7
<1>8. CASE m = MaxEntries
  <2>1. \A i \in 1 .. m : shorter[i].id = s[(n + 1) - m + i]
    <3> SUFFICES ASSUME NEW i \in 1 .. m PROVE shorter[i].id = s[(n + 1) - m + i]
      OBVIOUS
    <3>1. i + 1 \in 1 .. m + 1 /\ (n + 1) - (m + 1) + (i + 1) = (n + 1) - m + i
      BY <1>1
    <3>2. longer[i + 1].id = s[(n + 1) - m + i]
      BY <1>6, <3>1
    <3> QED
      BY <1>4, <3>2
  <2>2. \A i, j \in 1 .. m : shorter[i].id = shorter[j].id => i = j
    <3> SUFFICES ASSUME NEW i \in 1 .. m, NEW j \in 1 .. m, shorter[i].id = shorter[j].id
                 PROVE  i = j
      OBVIOUS
    <3>1. i + 1 \in 1 .. m + 1 /\ j + 1 \in 1 .. m + 1
      BY <1>1
    <3>2. longer[i + 1].id = longer[j + 1].id
      BY <1>4
    <3>3. i + 1 = j + 1
      BY <1>7, <3>1, <3>2
    <3> QED
      BY <1>1, <3>3
  <2>3. m <= n + 1 /\ ~(m < MaxEntries)
    BY <1>1, <1>8
  <2>4. Window(s, shorter)
    BY <1>2, <1>4, <2>1, <2>2, <2>3 DEF Window
  <2> QED
    BY <1>8, <2>4 DEF m, s, longer, shorter
<1>9. CASE m # MaxEntries
  <2>1. m + 1 <= n + 1 /\ (m + 1 < MaxEntries => m + 1 = n + 1)
    BY <1>1, <1>9
  <2>2. Window(s, longer)
    BY <1>2, <1>3, <1>6, <1>7, <2>1 DEF Window
  <2> QED
    BY <1>9, <2>2 DEF m, s, longer
<1> QED
  BY <1>8, <1>9

LEMMA SpacedMoves ==
    ASSUME NEW r \in Seq(Nat), NEW kept \in Seq(Answers), Len(kept) <= MaxEntries,
           Window(r, kept), Spaced(r),
           NEW x \in Nat, \A i \in 1 .. Len(kept) : kept[i].id # x
    PROVE  Spaced(Append(r, x))
<1> DEFINE n == Len(r)
           m == Len(kept)
           s == Append(r, x)
<1>1. n \in Nat /\ m \in Nat /\ m <= n /\ (m < MaxEntries => m = n)
      /\ MaxEntries \in Nat /\ m <= MaxEntries
  BY MaxEntriesAssumption DEF Window
<1>2. DOMAIN s = 1 .. n + 1 /\ DOMAIN r = 1 .. n
      /\ s[n + 1] = x /\ \A i \in 1 .. n : s[i] = r[i]
  OBVIOUS
<1>3. /\ \A i \in 1 .. m : kept[i].id = r[n - m + i]
      /\ \A i, j \in 1 .. m : kept[i].id = kept[j].id => i = j
  BY DEF Window
<1>4. \A i \in 1 .. n : r[i] \in Nat
  OBVIOUS
<1> HIDE DEF n, m, s
<1> SUFFICES ASSUME NEW i \in 1 .. n + 1, NEW j \in 1 .. n + 1, i < j, s[i] = s[j]
             PROVE  Cardinality({s[k] : k \in (i + 1) .. (j - 1)}) >= MaxEntries
  BY <1>2 DEF Spaced, s
<1>5. CASE j \in 1 .. n
  <2>1. i \in 1 .. n /\ (i + 1) .. (j - 1) \subseteq 1 .. n
    BY <1>1, <1>5
  <2>2. r[i] = r[j]
    BY <1>2, <1>5, <2>1
  <2>3. {s[k] : k \in (i + 1) .. (j - 1)} = {r[k] : k \in (i + 1) .. (j - 1)}
    BY <1>2, <2>1
  <2>4. Cardinality({r[k] : k \in (i + 1) .. (j - 1)}) >= MaxEntries
    BY <1>2, <1>5, <2>1, <2>2 DEF Spaced
  <2> QED
    BY <2>3, <2>4
<1>6. CASE j = n + 1
  <2>1. i \in 1 .. n /\ r[i] = x /\ j - 1 = n
    BY <1>1, <1>2, <1>6
  <2>2. ~(i > n - m)
    <3> SUFFICES ASSUME i > n - m PROVE FALSE
      OBVIOUS
    <3>1. i - (n - m) \in 1 .. m /\ n - m + (i - (n - m)) = i
      BY <1>1, <2>1
    <3>2. kept[i - (n - m)].id = x
      BY <1>3, <2>1, <3>1
    <3> QED
      BY <3>1, <3>2 DEF m
  <2>3. m = MaxEntries
    BY <1>1, <2>1, <2>2
  <2> DEFINE V == {r[k] : k \in (i + 1) .. n}
             f == [p \in 1 .. m |-> r[n - m + p]]
             g == [k \in (i + 1) .. n |-> r[k]]
  <2>4. {s[k] : k \in (i + 1) .. (j - 1)} = V
    BY <1>1, <1>2, <2>1
  <2>5. IsFiniteSet(V)
    <3>1. i + 1 \in Int /\ n \in Int
      BY <1>1, <2>1
    <3>2. IsFiniteSet((i + 1) .. n)
      BY <3>1, FS_Interval
    <3>3. g \in Surjection((i + 1) .. n, V)
      BY DEF Surjection
    <3> HIDE DEF g, V
    <3> QED
      BY <3>2, <3>3, FS_Surjection
  <2>6. f \in Injection(1 .. m, V)
    <3>1. ASSUME NEW p \in 1 .. m PROVE f[p] \in V
      <4>1. n - m + p \in (i + 1) .. n
        BY <1>1, <2>1, <2>2
      <4> QED
        BY <4>1
    <3>2. ASSUME NEW p \in 1 .. m, NEW q \in 1 .. m, f[p] = f[q] PROVE p = q
      <4>1. kept[p].id = f[p] /\ kept[q].id = f[q]
        BY <1>3
      <4> QED
        BY <1>3, <3>2, <4>1
    <3>3. f \in [1 .. m -> V]
      BY <3>1
    <3> HIDE DEF f, V
    <3> QED
      BY <3>2, <3>3 DEF Injection, IsInjective
  <2>7. Cardinality(1 .. m) <= Cardinality(V)
    <3> HIDE DEF f, V
    <3> QED
      BY <2>5, <2>6, FS_Injection
  <2>8. Cardinality(1 .. m) = m
    <3>1. 1 \in Int /\ m \in Int
      BY <1>1
    <3>2. Cardinality(1 .. m) = IF 1 <= m THEN m - 1 + 1 ELSE 0
      BY <3>1, FS_Interval
    <3> QED
      BY <1>1, <3>2
  <2>9. Cardinality(V) \in Nat
    <3> HIDE DEF V
    <3> QED
      BY <2>5, FS_CardinalityType
  <2> HIDE DEF V
  <2> QED
    BY <1>1, <2>3, <2>4, <2>7, <2>8, <2>9
<1>7. j \in 1 .. n \/ j = n + 1
  BY <1>1
<1> QED
  BY <1>5, <1>6, <1>7

\* The cache of a connection that is held is a window on what ran, and nothing ran
\* again too soon on any.
CacheInv ==
    \A c \in Connections : Spaced(ran[c]) /\ (Served(c) => Window(ran[c], cache[c]))

LEMMA ServerCaches ==
    ASSUME PeersTypeOK, PlaceInv, CacheInv, Server, UNCHANGED sent
    PROVE  CacheInv'
<1> SUFFICES ASSUME NEW c \in Connections
             PROVE  Spaced(ran'[c]) /\ (Served(c)' => Window(ran'[c], cache'[c]))
  BY DEF CacheInv
<1>1. SessionTypeOK /\ Places
  BY DEF PeersTypeOK, PlaceInv
<1>2. cache[c] \in Seq(Answers) /\ Len(cache[c]) <= MaxEntries /\ ran[c] \in Seq(Nat)
  BY <1>1, TypesAt DEF SessionTypeOK
<1>3. Spaced(ran[c]) /\ (Served(c) => Window(ran[c], cache[c]))
  BY DEF CacheInv
<1>4. /\ Served(c)' => Served(c)
      /\ ~Served(c) => Still(c)
      /\ ran'[c] = ran[c] \/ RanNow(c)
      /\ Served(c)' =>
            \/ Still(c) \/ Passed(c) \/ AnsweredAgain(c) \/ RanNow(c)
            \/ OutOfFrame(up[c], rx[c]) /\ cache'[c] = cache[c] /\ ran'[c] = ran[c]
  BY <1>1, ServerEffects
<1>5. CASE ~Served(c)
  BY <1>3, <1>4, <1>5 DEF Still
<1>6. CASE Served(c) /\ RanNow(c)
  <2>1. PICK a \in Answers :
           /\ a.id = up[c][2].of.id
           /\ cache'[c] = IF Len(cache[c]) = MaxEntries THEN Tail(Append(cache[c], a))
                          ELSE Append(cache[c], a)
    BY <1>6 DEF RanNow
  <2>2. Cached(c, a.id) = {} /\ ran'[c] = Append(ran[c], a.id) /\ a.id \in Nat
    <3>1. a.id \in Nat
      BY DEF Answers
    <3> QED
      BY <1>6, <2>1, <3>1 DEF RanNow
  <2>3. \A i \in 1 .. Len(cache[c]) : cache[c][i].id # a.id
    <3>1. DOMAIN cache[c] = 1 .. Len(cache[c])
      BY <1>2
    <3>2. \A i \in 1 .. Len(cache[c]) : cache[c][i] \in Range(cache[c])
      BY <3>1 DEF Range
    <3> QED
      BY <2>2, <3>2 DEF Cached
  <2>4. Window(ran[c], cache[c])
    BY <1>3, <1>6
  <2>5. Spaced(Append(ran[c], a.id))
    BY <1>2, <1>3, <2>2, <2>3, <2>4, SpacedMoves
  <2>6. Window(Append(ran[c], a.id),
               IF Len(cache[c]) = MaxEntries THEN Tail(Append(cache[c], a))
               ELSE Append(cache[c], a))
    BY <1>2, <2>3, <2>4, WindowMoves
  <2> QED
    BY <2>1, <2>2, <2>5, <2>6, Zenon
<1>7. CASE Served(c) /\ ~RanNow(c)
  <2>1. ran'[c] = ran[c]
    BY <1>4, <1>7
  <2>2. Served(c)' => cache'[c] = cache[c]
    BY <1>4, <1>7 DEF Still, Passed, AnsweredAgain
  <2> QED
    BY <1>3, <1>7, <2>1, <2>2, Zenon
<1> QED
  BY <1>5, <1>6, <1>7

\* A client changes neither what ran nor the cache.
LEMMA PeerCaches ==
    ASSUME PeersTypeOK, PlaceInv, CacheInv, Peers
    PROVE  CacheInv'
<1>1. PICK c \in Connections :
         \/ Dial(c) \/ Close(c) \/ Reset(c) \/ \E request \in Requests : Send(c, request)
  BY PeerActions
<1>2. UNCHANGED <<cache, ran>>
  BY <1>1 DEF Dial, Close, Reset, Send, buffers
<1>3. CASE Dial(c)
  <2>1. Untouched(c) /\ \A d \in Connections : d # c => (Served(d)' => Served(d))
    BY <1>3, ConnectKeeps
  <2>2. Window(<<>>, <<>>)
    BY DEF Window
  <2>3. ASSUME NEW d \in Connections, Served(d)' PROVE Window(ran'[d], cache'[d])
    <3>1. CASE d = c
      <4>1. ran'[d] = <<>> /\ cache'[d] = <<>>
        BY <1>2, <2>1, <3>1 DEF Untouched
      <4> QED
        BY <2>2, <4>1, Zenon
    <3>2. CASE d # c
      BY <1>2, <2>1, <2>3, <3>2 DEF CacheInv
    <3> QED
      BY <3>1, <3>2
  <2> QED
    BY <1>2, <2>3 DEF CacheInv
<1>4. CASE Close(c) \/ Reset(c) \/ \E request \in Requests : Send(c, request)
  <2>1. UNCHANGED <<backlog, sessions, unread>>
    BY <1>4 DEF Close, Reset, Send, turn
  <2>2. \A d : Served(d)' <=> Served(d)
    BY <2>1, PlacesKept
  <2> QED
    BY <1>2, <2>2 DEF CacheInv
<1> QED
  BY <1>1, <1>3, <1>4

\* An id that is sent again on a connection runs again only when as many other calls
\* as the cache holds ran in between (handle_message and cache_invoke_result of
\* process.rs): forgetting takes the oldest answer, never one that is still due.
THEOREM PeersRunAgain == PeersSpec => []RunsAgainOnlyWhenForgotten
<1>1. PeersInit => CacheInv
  <2> SUFFICES ASSUME PeersInit PROVE CacheInv
    OBVIOUS
  <2>1. \A c : ~Served(c)
    <3>1. Range(<<>>) = {}
      BY DEF Range
    <3> QED
      BY <3>1 DEF PeersInit, SessionInit, Served
  <2>2. \A c \in Connections : ran[c] = <<>>
    BY DEF PeersInit, SessionInit
  <2>3. Spaced(<<>>)
    BY DEF Spaced
  <2> QED
    BY <2>1, <2>2, <2>3 DEF CacheInv
<1>2. PeersTypeOK /\ PlaceInv /\ CacheInv /\ [PeersNext]_peersVars => CacheInv'
  <2> SUFFICES ASSUME PeersTypeOK, PlaceInv, CacheInv, [PeersNext]_peersVars PROVE CacheInv'
    OBVIOUS
  <2>1. CASE UNCHANGED peersVars
    BY <2>1 DEF CacheInv, Served, peersVars, serverVars, wires, buffers, turn
  <2> QED
    BY <2>1, PeerCaches, ServerCaches DEF PeersNext
<1>3. CacheInv => RunsAgainOnlyWhenForgotten
  BY DEF CacheInv, Spaced, RunsAgainOnlyWhenForgotten
<1> QED
  BY <1>1, <1>2, <1>3, PeersTyped, PTL DEF PeersSpec
=============================================================================
