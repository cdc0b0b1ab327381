------------------------- MODULE WorkerClientProofs -------------------------
(***************************************************************************)
(* Proofs about WorkerClient, for every value of its constants.            *)
(***************************************************************************)
EXTENDS WorkerClient, SequenceTheorems, TLAPS

-----------------------------------------------------------------------------
(* The inductive invariant *)

Answers == {"hello_ack", "mutation_response", "stats_response"}

Sent == [type : Requests \cup {"heartbeat", "occupancy_batch", "shutdown"},
         id : 0..MaxCalls, connection : 0..MaxConnections]

Received == [type : Answers \cup {"error_message", "epoch_advance"},
             id : 0..MaxCalls, connection : 0..MaxConnections, ok : BOOLEAN, epoch : Epochs]

Results == [kind : {"pending", "failed", "answer", "error"},
            id : 0..MaxCalls, connection : 0..MaxConnections, ok : BOOLEAN]

\* What the client has yet to look at, in the order in which it was sent.
Pipe == decoder \o down

ClientSound ==
  /\ open \in BOOLEAN /\ admitted \in BOOLEAN /\ reading \in BOOLEAN /\ skewed \in BOOLEAN
  /\ closed \in BOOLEAN /\ handshaken \in BOOLEAN
  /\ number \in 0..MaxConnections /\ calls \in 0..MaxCalls
  /\ call = Idle \/ (call \in [type : Requests, id : 1..calls] /\ open)
  /\ results \in [Calls -> Results]
  /\ up \in Seq(Sent) /\ decoder \in Seq(Received) /\ down \in Seq(Received)

\* The messages of s carry epochs from low to high, in order.
InOrder(s, low, high) ==
  /\ \A i \in 1..Len(s) : low <= s[i].epoch /\ s[i].epoch <= high
  /\ \A i, j \in 1..Len(s) : i <= j => s[i].epoch <= s[j].epoch

\* No message in flight is from before the epoch the client has heard of.
EpochsInOrder ==
  /\ epoch \in Epochs /\ coordinator_epoch \in 0..MaxEpoch /\ coordinator_epoch <= epoch
  /\ InOrder(Pipe, coordinator_epoch, epoch)

\* The messages of s were sent over the connection c.
SentOver(s, c) == \A i \in 1..Len(s) : s[i].connection = c

\* Every message in flight was sent over this connection.
ThisConnection == SentOver(Pipe, number)

\* At most one message of s has one of these types; it is about the call c.
Single(s, types, c) ==
  /\ \A i \in 1..Len(s) : s[i].type \in types => c # Idle /\ s[i].id = c.id
  /\ \A i, j \in 1..Len(s) : s[i].type \in types /\ s[j].type \in types => i = j

None(s, types) == \A i \in 1..Len(s) : s[i].type \notin types

\* As long as no call of this connection was ended by an error message, the
\* call in progress is all that can be outstanding: its request, as long as the
\* coordinator still reads them, or its answer, and never both.
OneOutstanding ==
  ~skewed =>
    /\ Single(Pipe, Answers, call)
    /\ ~reading => None(decoder, Answers)
    /\ ~closed => Single(up, Requests, call) /\ (None(up, Requests) \/ None(Pipe, Answers))

IInv == ClientSound /\ EpochsInOrder /\ ThisConnection /\ OneOutstanding

-----------------------------------------------------------------------------
(* What is left of a sequence of messages, and what is added to it *)

\* t is a stretch of s: its tail, one of its prefixes, or s itself.
Within(t, s) ==
  \E k \in Nat : Len(t) + k <= Len(s) /\ \A i \in 1..Len(t) : t[i] = s[i + k]

\* Everything the invariant says of a sequence it says of each stretch of it.
LEMMA StretchKeeps ==
  ASSUME NEW S, NEW s \in Seq(S), NEW T, NEW t \in Seq(T), Within(t, s), NEW low, NEW high,
         NEW types, NEW c, NEW number0
  PROVE  /\ InOrder(s, low, high) => InOrder(t, low, high)
         /\ Single(s, types, c) => Single(t, types, c)
         /\ None(s, types) => None(t, types)
         /\ SentOver(s, number0) => SentOver(t, number0)
<1>1. Len(s) \in Nat /\ Len(t) \in Nat
  BY LenProperties
<1>2. PICK k \in Nat : Len(t) + k <= Len(s) /\ \A i \in 1..Len(t) : t[i] = s[i + k]
  BY DEF Within
<1>3. \A i \in 1..Len(t) : i + k \in 1..Len(s) /\ t[i] = s[i + k]
  BY <1>1, <1>2
<1>4. \A i, j \in 1..Len(t) : (i <= j => i + k <= j + k) /\ (i + k = j + k => i = j)
  BY <1>1
<1>5. InOrder(s, low, high) => InOrder(t, low, high)
  BY <1>3, <1>4 DEF InOrder
<1>6. Single(s, types, c) => Single(t, types, c)
  BY <1>3, <1>4 DEF Single
<1>7. None(s, types) => None(t, types)
  BY <1>3 DEF None
<1>8. SentOver(s, number0) => SentOver(t, number0)
  BY <1>3 DEF SentOver
<1> QED BY <1>5, <1>6, <1>7, <1>8

\* What is behind the front of a sequence.
LEMMA FrontTaken ==
  ASSUME NEW S, NEW s \in Seq(S), s # << >>, NEW low, NEW high, NEW types, NEW c
  PROVE  /\ Head(s) \in S /\ Head(s) = s[1] /\ 1 \in 1..Len(s)
         /\ Tail(s) \in Seq(S) /\ Within(Tail(s), s)
         /\ InOrder(s, low, high) => /\ low <= Head(s).epoch /\ Head(s).epoch <= high
                                     /\ InOrder(Tail(s), Head(s).epoch, high)
         /\ Single(s, types, c) /\ Head(s).type \in types => None(Tail(s), types)
<1> DEFINE t == Tail(s)
<1>1. Head(s) \in S /\ t \in Seq(S) /\ Len(t) = Len(s) - 1 /\ \A i \in 1..Len(t) : t[i] = s[i + 1]
  BY HeadTailProperties
<1>2. Len(s) \in Nat /\ Len(t) \in Nat
  BY <1>1, LenProperties
<1>3. Head(s) = s[1]
  OBVIOUS
<1> HIDE DEF t
<1>4. /\ 1 \in 1..Len(s) /\ Len(t) + 1 <= Len(s)
      /\ \A i \in 1..Len(t) : i + 1 \in 1..Len(s) /\ 1 <= i + 1 /\ i + 1 # 1
  BY <1>1, <1>2
<1>5. Within(t, s)
  BY <1>1, <1>4 DEF Within
<1>6. ASSUME InOrder(s, low, high)
      PROVE  /\ low <= Head(s).epoch /\ Head(s).epoch <= high
             /\ InOrder(t, Head(s).epoch, high)
  <2>1. \A i \in 1..Len(t) : Head(s).epoch <= t[i].epoch /\ t[i].epoch <= high
    BY <1>1, <1>3, <1>4, <1>6 DEF InOrder
  <2>2. \A i, j \in 1..Len(t) : i <= j => i + 1 <= j + 1
    BY <1>2
  <2> QED BY <1>1, <1>3, <1>4, <1>6, <2>1, <2>2 DEF InOrder
<1>7. ASSUME Single(s, types, c), Head(s).type \in types PROVE None(t, types)
  BY <1>1, <1>3, <1>4, <1>7 DEF Single, None
<1> QED BY <1>1, <1>3, <1>4, <1>5, <1>6, <1>7 DEF t

\* One more message at the end.
LEMMA BackAdded ==
  ASSUME NEW S, NEW s \in Seq(S), NEW e \in S, NEW low, NEW high, NEW types, NEW c, NEW number0
  PROVE  /\ Append(s, e) \in Seq(S)
         /\ InOrder(s, low, high) /\ low <= high /\ high <= high /\ e.epoch = high
              => InOrder(Append(s, e), low, high)
         /\ Single(s, types, c) /\ e.type \notin types => Single(Append(s, e), types, c)
         /\ None(s, types) /\ c # Idle /\ e.id = c.id => Single(Append(s, e), types, c)
         /\ None(s, types) /\ e.type \notin types => None(Append(s, e), types)
         /\ SentOver(s, number0) /\ e.connection = number0 => SentOver(Append(s, e), number0)
<1> DEFINE u == Append(s, e)
           m == Len(s)
<1>1. /\ u \in Seq(S) /\ Len(u) = m + 1 /\ u[m + 1] = e
      /\ \A i \in 1..m : u[i] = s[i]
  BY AppendProperties
<1>2. m \in Nat
  BY LenProperties
<1> HIDE DEF u, m
<1>3. /\ \A i \in 1..(m + 1) : i \in 1..m \/ i = m + 1
      /\ \A i \in 1..m : i \in 1..(m + 1) /\ i # m + 1 /\ ~(m + 1 <= i)
  BY <1>2
<1>4. ASSUME InOrder(s, low, high), low <= high, high <= high, e.epoch = high
      PROVE  InOrder(u, low, high)
  <2>1. /\ \A i \in 1..m : low <= s[i].epoch /\ s[i].epoch <= high
        /\ \A i, j \in 1..m : i <= j => s[i].epoch <= s[j].epoch
    BY <1>4 DEF InOrder, m
  <2>2. \A i \in 1..(m + 1) : low <= u[i].epoch /\ u[i].epoch <= high
    BY <1>1, <1>3, <1>4, <2>1
  <2>3. ASSUME NEW i \in 1..(m + 1), NEW j \in 1..(m + 1), i <= j PROVE u[i].epoch <= u[j].epoch
    <3>1. CASE j = m + 1
      BY <1>1, <1>4, <2>2, <3>1
    <3>2. CASE j \in 1..m
      BY <1>1, <1>3, <2>1, <2>3, <3>2
    <3> QED BY <1>3, <3>1, <3>2
  <2> QED BY <1>1, <2>2, <2>3 DEF InOrder
<1>5. ASSUME Single(s, types, c), e.type \notin types PROVE Single(u, types, c)
  BY <1>1, <1>3, <1>5 DEF Single, m
<1>6. ASSUME None(s, types), c # Idle, e.id = c.id PROVE Single(u, types, c)
  BY <1>1, <1>3, <1>6 DEF Single, None, m
<1>7. ASSUME None(s, types), e.type \notin types PROVE None(u, types)
  BY <1>1, <1>3, <1>7 DEF None, m
<1>8. ASSUME SentOver(s, number0), e.connection = number0 PROVE SentOver(u, number0)
  BY <1>1, <1>3, <1>8 DEF SentOver, m
<1> QED BY <1>1, <1>4, <1>5, <1>6, <1>7, <1>8 DEF u, m

\* Nothing is outstanding when there is no call, and the other way round.
LEMMA NoneOutstanding ==
  ASSUME NEW s, NEW types, NEW c
  PROVE  /\ Single(s, types, Idle) => None(s, types)
         /\ None(s, types) => Single(s, types, c)
BY DEF Single, None

\* An empty sequence.
LEMMA NothingSent ==
  ASSUME NEW low, NEW high, NEW types, NEW c, NEW number0
  PROVE  /\ << >> \o << >> = << >> /\ InOrder(<< >>, low, high)
         /\ Single(<< >>, types, c) /\ None(<< >>, types)
         /\ SentOver(<< >>, number0)
<1>1. Len(<< >>) = 0 /\ 1..0 = {}
  BY EmptySeq
<1>2. << >> \o << >> = << >>
  BY EmptySeq, ConcatEmptySeq
<1> QED BY <1>1, <1>2 DEF InOrder, Single, None, SentOver

-----------------------------------------------------------------------------
(* The messages that the client has yet to look at *)

\* They are received messages, first those in the decoder.
LEMMA PipeType ==
  ASSUME IInv
  PROVE  /\ Pipe \in Seq(Received) /\ Len(Pipe) \in Nat /\ Within(decoder, Pipe)
         /\ decoder \in Seq(Received) /\ down \in Seq(Received) /\ up \in Seq(Sent)
<1>1. decoder \in Seq(Received) /\ down \in Seq(Received) /\ up \in Seq(Sent)
  BY DEF IInv, ClientSound
<1>2. /\ Pipe \in Seq(Received) /\ Len(Pipe) = Len(decoder) + Len(down)
      /\ \A i \in 1..(Len(decoder) + Len(down)) :
           Pipe[i] = IF i <= Len(decoder) THEN decoder[i] ELSE down[i - Len(decoder)]
  BY <1>1, ConcatProperties DEF Pipe
<1>3. Len(decoder) \in Nat /\ Len(down) \in Nat
  BY <1>1, LenProperties
<1>4. /\ Len(decoder) + 0 <= Len(Pipe) /\ Len(Pipe) \in Nat
      /\ \A i \in 1..Len(decoder) : i \in 1..(Len(decoder) + Len(down)) /\ i <= Len(decoder) /\ i + 0 = i
  BY <1>2, <1>3
<1>5. Within(decoder, Pipe)
  BY <1>2, <1>4 DEF Within
<1> QED BY <1>1, <1>2, <1>4, <1>5

\* What is in none of the messages is in none that the decoder holds.
LEMMA DecoderFirst ==
  ASSUME NEW S, NEW d \in Seq(S), NEW w \in Seq(S), NEW types, None(d \o w, types)
  PROVE  None(d, types)
<1>1. /\ Len(d \o w) = Len(d) + Len(w)
      /\ \A i \in 1..(Len(d) + Len(w)) : (d \o w)[i] = IF i <= Len(d) THEN d[i] ELSE w[i - Len(d)]
  BY ConcatProperties
<1>2. Len(d) \in Nat /\ Len(w) \in Nat
  BY LenProperties
<1>3. \A i \in 1..Len(d) : i \in 1..(Len(d) + Len(w)) /\ i <= Len(d)
  BY <1>2
<1> QED BY <1>1, <1>3 DEF None

\* Receiving moves the messages from the socket to the decoder.
LEMMA PipeReceived ==
  ASSUME IInv, NEW n \in Nat, AwaitReceive(n)
  PROVE  Pipe' = Pipe /\ decoder' \in Seq(Received) /\ down' \in Seq(Received)
<1> DEFINE a == SubSeq(down, 1, n)
           b == SubSeq(down, n + 1, Len(down))
<1>1. decoder' = decoder \o a /\ down' = b /\ n <= Len(down)
  BY DEF AwaitReceive
<1>2. decoder \in Seq(Received) /\ down \in Seq(Received) /\ Len(down) \in Nat
      /\ \A i \in 1..Len(down) : down[i] \in Received
  BY PipeType, LenProperties, ElementOfSeq
<1>3. a \in Seq(Received)
  <2>1. \A i \in 1..n : down[i] \in Received
    BY <1>1, <1>2
  <2> QED BY <2>1, SubSeqProperties
<1>4. b \in Seq(Received)
  <2>1. \A i \in (n + 1)..Len(down) : down[i] \in Received
    BY <1>1, <1>2
  <2> QED BY <1>2, <2>1, SubSeqProperties
<1>5. a \o b = down
  <2>1. 1 \in 1..(Len(down) + 1) /\ n \in (1 - 1)..Len(down) /\ Len(down) \in n..Len(down)
    BY <1>1, <1>2
  <2>2. a \o b = SubSeq(down, 1, Len(down))
    BY <1>2, <2>1, ConcatAdjacentSubSeq
  <2> QED BY <1>2, <2>2, SubSeqFull
<1> HIDE DEF a, b
<1>6. (decoder \o a) \o b = decoder \o (a \o b)
  BY <1>2, <1>3, <1>4, ConcatAssociative
<1>7. decoder' \in Seq(Received)
  BY <1>1, <1>2, <1>3, ConcatProperties
<1> QED BY <1>1, <1>4, <1>5, <1>6, <1>7 DEF Pipe

\* Decoding takes the first of them.
LEMMA PipeTaken ==
  ASSUME IInv, TakesNext, down' = down
  PROVE  /\ Pipe # << >> /\ Pipe' = Tail(Pipe) /\ Head(Pipe) = Head(decoder)
         /\ decoder' \in Seq(Received)
<1> DEFINE t == Tail(decoder)
<1>1. decoder \in Seq(Received) /\ down \in Seq(Received) /\ decoder # << >> /\ decoder' = t
  BY PipeType DEF TakesNext
<1>2. /\ Head(decoder) \in Received /\ t \in Seq(Received) /\ Len(t) = Len(decoder) - 1
      /\ \A i \in 1..Len(t) : t[i] = decoder[i + 1]
  BY <1>1, HeadTailProperties
<1>3. /\ Pipe \in Seq(Received) /\ Len(Pipe) = Len(decoder) + Len(down)
      /\ \A i \in 1..(Len(decoder) + Len(down)) :
           Pipe[i] = IF i <= Len(decoder) THEN decoder[i] ELSE down[i - Len(decoder)]
  BY <1>1, ConcatProperties DEF Pipe
<1> HIDE DEF t
<1>4. /\ t \o down \in Seq(Received) /\ Len(t \o down) = Len(t) + Len(down)
      /\ \A i \in 1..(Len(t) + Len(down)) :
           (t \o down)[i] = IF i <= Len(t) THEN t[i] ELSE down[i - Len(t)]
  BY <1>1, <1>2, ConcatProperties
<1>5. Len(decoder) \in Nat /\ Len(t) \in Nat /\ Len(down) \in Nat
  BY <1>1, <1>2, LenProperties
<1>6. Pipe # << >>
  <2> DEFINE u == Pipe
  <2>1. u \in Seq(Received) /\ Len(u) # 0
    BY <1>2, <1>3, <1>5
  <2> HIDE DEF u
  <2>2. u # << >>
    BY <2>1, EmptySeq
  <2> QED BY <2>2 DEF u
<1>7. /\ Tail(Pipe) \in Seq(Received) /\ Len(Tail(Pipe)) = Len(Pipe) - 1
      /\ \A i \in 1..Len(Tail(Pipe)) : Tail(Pipe)[i] = Pipe[i + 1]
  BY <1>3, <1>6, HeadTailProperties
<1>8. Len(Tail(Pipe)) = Len(t \o down)
  BY <1>2, <1>3, <1>4, <1>5, <1>7
<1>9. ASSUME NEW i \in 1..Len(Tail(Pipe)) PROVE Tail(Pipe)[i] = (t \o down)[i]
  <2>1. /\ i \in 1..(Len(t) + Len(down)) /\ i + 1 \in 1..(Len(decoder) + Len(down))
        /\ (i <= Len(t) <=> i + 1 <= Len(decoder)) /\ i - Len(t) = (i + 1) - Len(decoder)
        /\ (i <= Len(t) => i \in 1..Len(t))
    BY <1>2, <1>3, <1>5, <1>7
  <2> QED BY <1>2, <1>3, <1>4, <1>7, <2>1
<1>10. Tail(Pipe) = t \o down
  BY <1>4, <1>7, <1>8, <1>9, SeqEqual
<1>11. Head(Pipe) = Pipe[1] /\ Head(decoder) = decoder[1]
  OBVIOUS
<1>12. 1 \in 1..(Len(decoder) + Len(down)) /\ 1 <= Len(decoder)
  BY <1>2, <1>5
<1> QED BY <1>1, <1>2, <1>3, <1>6, <1>10, <1>11, <1>12 DEF Pipe

\* The coordinator adds one at the end.
LEMMA PipeGrown ==
  ASSUME IInv, NEW e \in Received, decoder' = decoder, down' = Append(down, e)
  PROVE  Pipe' = Append(Pipe, e) /\ down' \in Seq(Received)
<1>1. decoder \in Seq(Received) /\ down \in Seq(Received) /\ Pipe \in Seq(Received)
  BY PipeType
<1>2. <<e>> \in Seq(Received)
  OBVIOUS
<1>3. Append(down, e) = down \o <<e>> /\ Append(Pipe, e) = Pipe \o <<e>>
  BY <1>1, AppendIsConcat
<1>4. (decoder \o down) \o <<e>> = decoder \o (down \o <<e>>)
  BY <1>1, <1>2, ConcatAssociative
<1> QED BY <1>1, <1>3, <1>4, AppendProperties DEF Pipe

\* Without the socket there is what the decoder holds.
LEMMA PipeCut ==
  ASSUME IInv, decoder' = decoder, down' = << >>
  PROVE  Pipe' = decoder /\ down' \in Seq(Received)
BY PipeType, ConcatEmptySeq, EmptySeq DEF Pipe

-----------------------------------------------------------------------------
(* Calls and their results *)

\* The call in progress.
LEMMA CallKnown ==
  ASSUME IInv, call # Idle
  PROVE  /\ call.type \in Requests /\ call.id \in 1..calls /\ call.id \in Calls
         /\ Expected[call.type] \in Answers
<1>1. call \in [type : Requests, id : 1..calls] /\ calls \in 0..MaxCalls
  BY DEF IInv, ClientSound
<1>2. call.type \in Requests /\ call.id \in 1..calls
  BY <1>1
<1>3. call.id \in Calls
  BY <1>1, <1>2, ClientAssumption DEF Calls
<1>4. Expected[call.type] \in Answers
  BY <1>2 DEF Requests, Expected, Answers
<1> QED BY <1>2, <1>3, <1>4

\* Returning from a call records its result.
LEMMA Returned ==
  ASSUME IInv, call # Idle, NEW r \in Results, Return(r)
  PROVE  /\ results' \in [Calls -> Results] /\ call' = Idle /\ reading' = FALSE
         /\ \A c \in Calls : results'[c] # results[c] => c = call.id /\ results'[c] = r
<1>1. results' = [results EXCEPT ![call.id] = r] /\ call' = Idle /\ reading' = FALSE
  BY DEF Return
<1>2. results \in [Calls -> Results] /\ call.id \in Calls
  BY CallKnown DEF IInv, ClientSound
<1> QED BY <1>1, <1>2

\* A failed call is a result.
LEMMA FailedType ==
  ASSUME IInv
  PROVE  Failed \in Results /\ Failed.connection = number /\ Failed.kind = "failed"
<1>1. number \in 0..MaxConnections /\ 0 \in 0..MaxCalls
  BY ClientAssumption DEF IInv, ClientSound
<1> QED BY <1>1 DEF Failed, Results

\* The messages of client and coordinator.
LEMMA MessageType ==
  ASSUME IInv
  PROVE  /\ \A type \in Answers \cup {"error_message", "epoch_advance"}, id \in 0..MaxCalls, ok \in BOOLEAN :
              /\ Message(type, id, ok) \in Received
              /\ Message(type, id, ok).type = type /\ Message(type, id, ok).id = id
              /\ Message(type, id, ok).connection = number /\ Message(type, id, ok).epoch = epoch
         /\ \A type \in Requests \cup {"heartbeat", "occupancy_batch", "shutdown"}, id \in 0..MaxCalls :
              /\ Request(type, id) \in Sent /\ Request(type, id).type = type /\ Request(type, id).id = id
<1>1. number \in 0..MaxConnections /\ epoch \in Epochs
  BY DEF IInv, ClientSound, EpochsInOrder
<1> QED BY <1>1 DEF Message, Request, Received, Sent

-----------------------------------------------------------------------------
(* The steps of the client's program *)

\* What leaves the messages to the client alone keeps what is said of them.
LEMMA PipeUnchanged ==
  ASSUME IInv, UNCHANGED <<decoder, down>>
  PROVE  /\ Pipe' = Pipe
         /\ UNCHANGED <<coordinator_epoch, epoch>> => EpochsInOrder'
         /\ number' = number => ThisConnection'
BY DEF Pipe, IInv, EpochsInOrder, ThisConnection

\* A new connection starts with nothing in flight and an empty decoder.
LEMMA ConnectKeeps ==
  ASSUME IInv, Connect
  PROVE  IInv'
<1>1. /\ call = Idle /\ number < MaxConnections
      /\ open' = TRUE /\ number' = number + 1 /\ closed' = FALSE
      /\ decoder' = << >> /\ up' = << >> /\ down' = << >>
      /\ handshaken' = FALSE /\ skewed' = FALSE
      /\ UNCHANGED <<admitted, coordinator_epoch, call, reading, calls, results, epoch, outcome>>
  BY DEF Connect, Cleared
<1>2. Pipe' = << >>
  BY <1>1, NothingSent DEF Pipe
<1>3. number + 1 \in 0..MaxConnections
  BY <1>1, ClientAssumption DEF IInv, ClientSound
<1>4. << >> \in Seq(Sent) /\ << >> \in Seq(Received)
  BY EmptySeq
<1>5. ClientSound'
  BY <1>1, <1>3, <1>4 DEF IInv, ClientSound
<1>6. EpochsInOrder'
  BY <1>1, <1>2, NothingSent DEF IInv, EpochsInOrder
<1>7. ThisConnection'
  BY <1>2, NothingSent DEF ThisConnection
<1>8. OneOutstanding'
  BY <1>1, <1>2, NothingSent DEF OneOutstanding
<1> QED BY <1>5, <1>6, <1>7, <1>8 DEF IInv

\* A call starts only when none is in progress, so its request is the only one.
LEMMA StartKeeps ==
  ASSUME IInv, NEW type \in Requests, Start(type)
  PROVE  IInv'
<1> DEFINE e == Request(type, calls + 1)
           c == [type |-> type, id |-> calls + 1]
<1>1. /\ call = Idle /\ open /\ calls < MaxCalls
      /\ calls' = calls + 1 /\ up' = Append(up, e) /\ call' = c /\ reading' = FALSE
      /\ UNCHANGED <<open, number, admitted, coordinator_epoch, decoder, results, skewed, coordVars, down>>
  BY DEF Start
<1>2. UNCHANGED <<closed, epoch, handshaken>>
  BY <1>1 DEF coordVars
<1>3. calls \in Nat /\ calls + 1 \in 0..MaxCalls /\ calls + 1 \in 1..(calls + 1) /\ calls + 1 # 0
  BY <1>1, ClientAssumption DEF IInv, ClientSound
<1>4. e \in Sent /\ e.type = type /\ e.id = calls + 1
  BY <1>3, MessageType
<1>5. c \in [type : Requests, id : 1..(calls + 1)] /\ c.id = calls + 1 /\ c # Idle
  BY <1>3 DEF Idle
<1> HIDE DEF e, c
<1>6. up \in Seq(Sent) /\ up' \in Seq(Sent)
  BY <1>1, <1>4, PipeType, BackAdded
<1>7. ClientSound'
  BY <1>1, <1>2, <1>3, <1>5, <1>6 DEF IInv, ClientSound
<1>8. Pipe' = Pipe /\ EpochsInOrder' /\ ThisConnection'
  BY <1>1, <1>2, PipeUnchanged
<1>9. OneOutstanding'
  <2> SUFFICES ASSUME ~skewed
               PROVE  /\ Single(Pipe, Answers, c) /\ None(decoder, Answers)
                      /\ ~closed => Single(up', Requests, c) /\ None(Pipe, Answers)
    BY <1>1, <1>2, <1>8 DEF OneOutstanding
  <2>1. Single(Pipe, Answers, Idle) /\ (~closed => Single(up, Requests, Idle))
    BY <1>1 DEF IInv, OneOutstanding
  <2>2. None(Pipe, Answers) /\ (~closed => None(up, Requests))
    BY <2>1, NoneOutstanding
  <2>3. None(decoder, Answers)
    BY <2>2, PipeType, StretchKeeps
  <2>4. ~closed => Single(up', Requests, c)
    BY <1>1, <1>4, <1>5, <1>6, <2>2, BackAdded
  <2> QED BY <2>2, <2>3, <2>4, NoneOutstanding
<1> QED BY <1>7, <1>8, <1>9 DEF IInv

\* A call that cannot be sent fails at once.
LEMMA StartFailsKeeps ==
  ASSUME IInv, StartFails
  PROVE  IInv'
<1>1. /\ call = Idle /\ calls < MaxCalls
      /\ calls' = calls + 1 /\ results' = [results EXCEPT ![calls + 1] = Failed]
      /\ UNCHANGED <<open, number, admitted, coordinator_epoch, decoder, call, reading, skewed, coordVars,
                     up, down>>
  BY DEF StartFails
<1>2. UNCHANGED <<closed, epoch, handshaken>>
  BY <1>1 DEF coordVars
<1>3. calls + 1 \in 0..MaxCalls
  BY <1>1, ClientAssumption DEF IInv, ClientSound
<1>4. results' \in [Calls -> Results]
  BY <1>1, FailedType DEF IInv, ClientSound
<1>5. ClientSound'
  BY <1>1, <1>2, <1>3, <1>4 DEF IInv, ClientSound
<1>6. Pipe' = Pipe /\ EpochsInOrder' /\ ThisConnection'
  BY <1>1, <1>2, PipeUnchanged
<1>7. OneOutstanding'
  BY <1>1, <1>2, <1>6 DEF IInv, OneOutstanding
<1> QED BY <1>5, <1>6, <1>7 DEF IInv

\* publish, send_heartbeat and send_shutdown send no request that is answered.
LEMMA SendKeeps ==
  ASSUME IInv, NEW type \in {"heartbeat", "occupancy_batch", "shutdown"}, Send(type)
  PROVE  IInv'
<1> DEFINE e == Request(type, 0)
<1>1. up' = Append(up, e) /\ UNCHANGED <<clientVars, coordVars, down>>
  BY DEF Send
<1>2. UNCHANGED <<open, number, admitted, coordinator_epoch, decoder, call, reading, calls, results, skewed,
                  closed, epoch, handshaken, down>>
  BY <1>1 DEF clientVars, coordVars
<1>3. 0 \in 0..MaxCalls
  BY ClientAssumption
<1>4. e \in Sent /\ e.type = type
  BY <1>3, MessageType
<1>5. type \notin Requests
  BY DEF Requests
<1> HIDE DEF e
<1>6. up \in Seq(Sent) /\ up' \in Seq(Sent)
  BY <1>1, <1>4, PipeType, BackAdded
<1>7. ClientSound'
  BY <1>2, <1>6 DEF IInv, ClientSound
<1>8. Pipe' = Pipe /\ EpochsInOrder' /\ ThisConnection'
  BY <1>2, PipeUnchanged
<1>9. /\ Single(up, Requests, call) => Single(up', Requests, call)
      /\ None(up, Requests) => None(up', Requests)
  BY <1>1, <1>4, <1>5, <1>6, BackAdded
<1>10. OneOutstanding'
  BY <1>2, <1>8, <1>9 DEF IInv, OneOutstanding
<1> QED BY <1>7, <1>8, <1>10 DEF IInv

\* Closing the transport leaves nothing outstanding.
LEMMA CloseKeeps ==
  ASSUME IInv, Close
  PROVE  IInv'
<1>1. /\ call = Idle /\ open' = FALSE /\ admitted' = FALSE
      /\ UNCHANGED <<number, coordinator_epoch, decoder, call, reading, calls, results, skewed, coordVars,
                     up, down>>
  BY DEF Close
<1>2. UNCHANGED <<closed, epoch, handshaken>>
  BY <1>1 DEF coordVars
<1>3. ClientSound'
  BY <1>1, <1>2 DEF IInv, ClientSound
<1>4. Pipe' = Pipe /\ EpochsInOrder' /\ ThisConnection'
  BY <1>1, <1>2, PipeUnchanged
<1>5. OneOutstanding'
  BY <1>1, <1>2, <1>4 DEF IInv, OneOutstanding
<1> QED BY <1>3, <1>4, <1>5 DEF IInv

-----------------------------------------------------------------------------
(* The steps of await *)

\* Receiving changes where the messages are, not which.
LEMMA AwaitReceiveKeeps ==
  ASSUME IInv, NEW n \in 1..MaxFlight, AwaitReceive(n)
  PROVE  IInv'
<1>1. /\ reading' = TRUE
      /\ UNCHANGED <<open, number, admitted, coordinator_epoch, call, calls, results, skewed, coordVars, up>>
  BY DEF AwaitReceive
<1>2. UNCHANGED <<closed, epoch, handshaken>>
  BY <1>1 DEF coordVars
<1>3. n \in Nat
  BY ClientAssumption
<1>4. Pipe' = Pipe /\ decoder' \in Seq(Received) /\ down' \in Seq(Received)
  BY <1>3, PipeReceived
<1>5. ClientSound'
  BY <1>1, <1>2, <1>4 DEF IInv, ClientSound
<1>6. EpochsInOrder' /\ ThisConnection' /\ OneOutstanding'
  BY <1>1, <1>2, <1>4 DEF IInv, EpochsInOrder, ThisConnection, OneOutstanding
<1> QED BY <1>5, <1>6 DEF IInv

\* await asks for more only when it has decoded all it had.
LEMMA AwaitMoreKeeps ==
  ASSUME IInv, AwaitMore
  PROVE  IInv'
<1>1. /\ decoder = << >> /\ reading' = FALSE
      /\ UNCHANGED <<open, number, admitted, coordinator_epoch, decoder, call, calls, results, skewed,
                     coordVars, up, down>>
  BY DEF AwaitMore
<1>2. UNCHANGED <<closed, epoch, handshaken>>
  BY <1>1 DEF coordVars
<1>3. ClientSound'
  BY <1>1, <1>2 DEF IInv, ClientSound
<1>4. Pipe' = Pipe /\ EpochsInOrder' /\ ThisConnection'
  BY <1>1, <1>2, PipeUnchanged
<1>5. None(decoder', Answers)
  BY <1>1, NothingSent
<1>6. OneOutstanding'
  BY <1>1, <1>2, <1>4, <1>5 DEF IInv, OneOutstanding
<1> QED BY <1>3, <1>4, <1>6 DEF IInv

\* At the end of the stream and after a reset no answer is left in the decoder,
\* and no request will be read any more.
LEMMA AwaitFailedKeeps ==
  ASSUME IInv, AwaitClosed \/ AwaitReset
  PROVE  IInv'
<1>1. /\ call # Idle /\ ~reading /\ closed /\ down' = << >> /\ Return(Failed)
      /\ open' \in {open, FALSE}
      /\ UNCHANGED <<number, admitted, coordinator_epoch, decoder, calls, skewed, coordVars, up>>
  BY DEF AwaitClosed, AwaitReset
<1>2. UNCHANGED <<closed, epoch, handshaken>>
  BY <1>1 DEF coordVars
<1>3. results' \in [Calls -> Results] /\ call' = Idle /\ reading' = FALSE
  BY <1>1, FailedType, Returned
<1>4. Pipe' = decoder /\ down' \in Seq(Received)
  BY <1>1, PipeCut
<1>5. open' \in BOOLEAN
  BY <1>1 DEF IInv, ClientSound
<1>6. ClientSound'
  BY <1>1, <1>2, <1>3, <1>4, <1>5 DEF IInv, ClientSound
<1>7. /\ Pipe \in Seq(Received) /\ decoder \in Seq(Received) /\ Within(decoder, Pipe)
  BY PipeType
<1>8. InOrder(decoder, coordinator_epoch, epoch)
  BY <1>7, StretchKeeps DEF IInv, EpochsInOrder
<1>9. EpochsInOrder'
  BY <1>1, <1>2, <1>4, <1>8 DEF IInv, EpochsInOrder
<1>10. SentOver(decoder, number)
  BY <1>7, StretchKeeps DEF IInv, ThisConnection
<1>11. ThisConnection'
  BY <1>1, <1>4, <1>10 DEF ThisConnection
<1>12. ~skewed => None(decoder, Answers)
  BY <1>1 DEF IInv, OneOutstanding
<1>13. OneOutstanding'
  BY <1>1, <1>2, <1>3, <1>4, <1>12, NoneOutstanding DEF OneOutstanding
<1> QED BY <1>6, <1>9, <1>11, <1>13 DEF IInv

\* The message that await decodes next: from this connection, and not from
\* before the epoch the client has heard of.
LEMMA NextMessage ==
  ASSUME IInv, TakesNext, down' = down
  PROVE  LET m == Head(decoder) IN
         /\ m \in Received /\ m.connection = number /\ m.epoch \in Epochs
         /\ coordinator_epoch <= m.epoch /\ m.epoch <= epoch
         /\ decoder' \in Seq(Received)
         /\ InOrder(Pipe', m.epoch, epoch) /\ InOrder(Pipe', coordinator_epoch, epoch)
         /\ SentOver(Pipe', number)
         /\ ~skewed => Single(Pipe', Answers, call)
         /\ ~skewed /\ m.type \in Answers =>
              call # Idle /\ m.id = call.id /\ None(Pipe', Answers) /\ (~closed => None(up, Requests))
         /\ None(Pipe, Answers) => None(Pipe', Answers)
<1> DEFINE m == Head(decoder)
<1>1. Pipe \in Seq(Received) /\ Pipe # << >> /\ Pipe' = Tail(Pipe) /\ m = Head(Pipe) /\ decoder' \in Seq(Received)
  BY PipeType, PipeTaken
<1> HIDE DEF m
<1>2. InOrder(Pipe, coordinator_epoch, epoch)
  BY DEF IInv, EpochsInOrder
<1>3. m \in Received /\ m = Pipe[1] /\ 1 \in 1..Len(Pipe) /\ Pipe' \in Seq(Received) /\ Within(Pipe', Pipe)
  BY <1>1, FrontTaken
<1>4. coordinator_epoch <= m.epoch /\ m.epoch <= epoch /\ InOrder(Pipe', m.epoch, epoch)
  BY <1>1, <1>2, FrontTaken
<1>5. InOrder(Pipe', coordinator_epoch, epoch)
  BY <1>1, <1>2, <1>3, StretchKeeps
<1>6. m.connection = number /\ SentOver(Pipe', number)
  <2>1. SentOver(Pipe, number)
    BY DEF IInv, ThisConnection
  <2>2. m.connection = number
    BY <1>3, <2>1 DEF SentOver
  <2> QED BY <1>1, <1>3, <2>1, <2>2, StretchKeeps
<1>7. ~skewed => Single(Pipe, Answers, call) /\ Single(Pipe', Answers, call)
  BY <1>1, <1>3, StretchKeeps DEF IInv, OneOutstanding
<1>8. ASSUME ~skewed, m.type \in Answers
      PROVE  call # Idle /\ m.id = call.id /\ None(Pipe', Answers) /\ (~closed => None(up, Requests))
  <2>1. None(Pipe', Answers)
    BY <1>1, <1>7, <1>8, FrontTaken
  <2>2. call # Idle /\ m.id = call.id /\ ~None(Pipe, Answers)
    BY <1>3, <1>7, <1>8 DEF Single, None
  <2> QED BY <1>8, <2>1, <2>2 DEF IInv, OneOutstanding
<1>9. None(Pipe, Answers) => None(Pipe', Answers)
  BY <1>1, <1>3, StretchKeeps
<1>10. m.epoch \in Epochs
  BY <1>3 DEF Received
<1> QED BY <1>1, <1>3, <1>4, <1>5, <1>6, <1>7, <1>8, <1>9, <1>10 DEF m

\* The epoch that a message carries is one the client may take.
LEMMA EpochTaken ==
  ASSUME IInv, NEW e \in Epochs, e <= epoch
  PROVE  e \in 0..MaxEpoch
BY ClientAssumption DEF Epochs

\* The answer that ends a call is its own, from this connection, and leaves no
\* other behind.
LEMMA AwaitAnswerKeeps ==
  ASSUME IInv, AwaitAnswer
  PROVE  /\ IInv' /\ coordinator_epoch <= coordinator_epoch'
         /\ \A c \in Calls : results'[c] # results[c] =>
              results'[c].connection = number /\ (~skewed => results'[c].id = c)
<1> DEFINE m == Head(decoder)
           r == [kind |-> "answer", id |-> m.id, connection |-> m.connection, ok |-> m.ok]
<1>1. /\ TakesNext /\ call # Idle /\ m.type = Expected[call.type] /\ Return(r)
      /\ admitted' = (IF m.type = "hello_ack" THEN m.ok ELSE admitted)
      /\ coordinator_epoch' = (IF m.type = "hello_ack" THEN m.epoch ELSE coordinator_epoch)
      /\ UNCHANGED <<open, number, calls, skewed, coordVars, up, down>>
  BY DEF AwaitAnswer, TakesNext
<1>2. UNCHANGED <<closed, epoch, handshaken>>
  BY <1>1 DEF coordVars
<1>3. /\ m \in Received /\ m.connection = number /\ m.epoch \in Epochs
      /\ coordinator_epoch <= m.epoch /\ m.epoch <= epoch
      /\ decoder' \in Seq(Received)
      /\ InOrder(Pipe', m.epoch, epoch) /\ InOrder(Pipe', coordinator_epoch, epoch)
      /\ SentOver(Pipe', number)
      /\ ~skewed /\ m.type \in Answers =>
           m.id = call.id /\ None(Pipe', Answers) /\ (~closed => None(up, Requests))
  BY <1>1, NextMessage
<1> HIDE DEF m
<1>4. m.type \in Answers
  BY <1>1, CallKnown
<1>5. r \in Results /\ r.connection = number /\ r.id = m.id
  BY <1>3 DEF Received, Results
<1> HIDE DEF r
<1>6. /\ results' \in [Calls -> Results] /\ call' = Idle /\ reading' = FALSE
      /\ \A c \in Calls : results'[c] # results[c] => c = call.id /\ results'[c] = r
  BY <1>1, <1>5, Returned
<1>7. admitted' \in BOOLEAN
  <2>1. m.ok \in BOOLEAN /\ admitted \in BOOLEAN
    BY <1>3 DEF Received, IInv, ClientSound
  <2> QED BY <1>1, <2>1
<1>8. ClientSound'
  BY <1>1, <1>2, <1>3, <1>6, <1>7 DEF IInv, ClientSound
<1>9. coordinator_epoch <= coordinator_epoch'
  <2>1. coordinator_epoch <= coordinator_epoch
    BY ClientAssumption DEF IInv, EpochsInOrder
  <2> QED BY <1>1, <1>3, <2>1
<1>10. EpochsInOrder'
  <2>1. m.epoch \in 0..MaxEpoch
    BY <1>3, EpochTaken
  <2> QED BY <1>1, <1>2, <1>3, <2>1 DEF IInv, EpochsInOrder
<1>11. ThisConnection'
  BY <1>1, <1>3 DEF ThisConnection
<1>12. None(decoder', Answers) \/ skewed
  <2>1. Pipe' = decoder' \o down' /\ down' \in Seq(Received)
    BY <1>8 DEF Pipe, ClientSound
  <2> QED BY <1>3, <1>4, <2>1, DecoderFirst
<1>13. OneOutstanding'
  BY <1>1, <1>2, <1>3, <1>4, <1>6, <1>12, NoneOutstanding DEF OneOutstanding
<1> QED BY <1>3, <1>4, <1>5, <1>6, <1>8, <1>9, <1>10, <1>11, <1>13 DEF IInv

\* An error ends the call whatever is still outstanding.
LEMMA AwaitErrorKeeps ==
  ASSUME IInv, AwaitError
  PROVE  /\ IInv' /\ coordinator_epoch' = coordinator_epoch
         /\ \A c \in Calls : results'[c] # results[c] =>
              results'[c].connection = number /\ results'[c].kind = "error"
<1> DEFINE m == Head(decoder)
           r == [kind |-> "error", id |-> 0, connection |-> m.connection, ok |-> FALSE]
<1>1. /\ TakesNext /\ call # Idle /\ Return(r) /\ skewed' = TRUE
      /\ UNCHANGED <<open, number, admitted, coordinator_epoch, calls, coordVars, up, down>>
  BY DEF AwaitError, TakesNext
<1>2. UNCHANGED <<closed, epoch, handshaken>>
  BY <1>1 DEF coordVars
<1>3. /\ m \in Received /\ m.connection = number
      /\ decoder' \in Seq(Received) /\ InOrder(Pipe', coordinator_epoch, epoch)
      /\ SentOver(Pipe', number)
  BY <1>1, NextMessage
<1> HIDE DEF m
<1>4. r \in Results /\ r.connection = number /\ r.kind = "error"
  <2>1. number \in 0..MaxConnections /\ 0 \in 0..MaxCalls
    BY ClientAssumption DEF IInv, ClientSound
  <2> QED BY <1>3, <2>1 DEF Results
<1> HIDE DEF r
<1>5. /\ results' \in [Calls -> Results] /\ call' = Idle /\ reading' = FALSE
      /\ \A c \in Calls : results'[c] # results[c] => c = call.id /\ results'[c] = r
  BY <1>1, <1>4, Returned
<1>6. ClientSound'
  BY <1>1, <1>2, <1>3, <1>5 DEF IInv, ClientSound
<1>7. EpochsInOrder' /\ ThisConnection' /\ OneOutstanding'
  BY <1>1, <1>2, <1>3 DEF IInv, EpochsInOrder, ThisConnection, OneOutstanding
<1> QED BY <1>1, <1>4, <1>5, <1>6, <1>7 DEF IInv

\* Any other message is passed over, and its epoch noted if it announces one.
LEMMA AwaitNoticeKeeps ==
  ASSUME IInv, AwaitNotice
  PROVE  IInv' /\ coordinator_epoch <= coordinator_epoch'
<1> DEFINE m == Head(decoder)
<1>1. /\ TakesNext /\ reading /\ coordinator_epoch' \in {m.epoch, coordinator_epoch}
      /\ UNCHANGED <<open, number, admitted, call, reading, calls, results, skewed, coordVars, up, down>>
  BY DEF AwaitNotice, TakesNext, Notified
<1>2. UNCHANGED <<closed, epoch, handshaken>>
  BY <1>1 DEF coordVars
<1>3. /\ m.epoch \in Epochs /\ coordinator_epoch <= m.epoch /\ m.epoch <= epoch
      /\ decoder' \in Seq(Received)
      /\ InOrder(Pipe', m.epoch, epoch) /\ InOrder(Pipe', coordinator_epoch, epoch)
      /\ SentOver(Pipe', number)
      /\ ~skewed => Single(Pipe', Answers, call)
      /\ None(Pipe, Answers) => None(Pipe', Answers)
  BY <1>1, NextMessage
<1> HIDE DEF m
<1>4. coordinator_epoch <= coordinator_epoch'
  <2>1. coordinator_epoch <= coordinator_epoch
    BY ClientAssumption DEF IInv, EpochsInOrder
  <2> QED BY <1>1, <1>3, <2>1
<1>5. ClientSound'
  BY <1>1, <1>2, <1>3 DEF IInv, ClientSound
<1>6. EpochsInOrder'
  <2>1. m.epoch \in 0..MaxEpoch
    BY <1>3, EpochTaken
  <2> QED BY <1>1, <1>2, <1>3, <2>1 DEF IInv, EpochsInOrder
<1>7. ThisConnection'
  BY <1>1, <1>3 DEF ThisConnection
<1>8. OneOutstanding'
  BY <1>1, <1>2, <1>3 DEF IInv, OneOutstanding
<1> QED BY <1>4, <1>5, <1>6, <1>7, <1>8 DEF IInv

-----------------------------------------------------------------------------
(* The steps of the coordinator *)

\* A message that the coordinator adds is of this connection and of its epoch.
LEMMA MessageAdded ==
  ASSUME IInv, NEW e \in Received, e.connection = number, e.epoch = epoch,
         decoder' = decoder, down' = Append(down, e)
  PROVE  /\ down' \in Seq(Received) /\ InOrder(Pipe', coordinator_epoch, epoch) /\ SentOver(Pipe', number)
         /\ ~skewed /\ e.type \notin Answers => Single(Pipe', Answers, call)
         /\ e.type \notin Answers /\ None(Pipe, Answers) => None(Pipe', Answers)
         /\ None(Pipe, Answers) /\ call # Idle /\ e.id = call.id => Single(Pipe', Answers, call)
<1>1. Pipe \in Seq(Received) /\ Pipe' = Append(Pipe, e) /\ down' \in Seq(Received)
  BY PipeType, PipeGrown
<1>2. InOrder(Pipe, coordinator_epoch, epoch) /\ coordinator_epoch <= epoch /\ epoch <= epoch
  BY ClientAssumption DEF IInv, EpochsInOrder, Epochs
<1>3. InOrder(Pipe', coordinator_epoch, epoch)
  BY <1>1, <1>2, BackAdded
<1>4. SentOver(Pipe', number)
  BY <1>1, BackAdded DEF IInv, ThisConnection
<1>5. ~skewed => Single(Pipe, Answers, call)
  BY DEF IInv, OneOutstanding
<1> QED BY <1>1, <1>3, <1>4, <1>5, BackAdded

\* Handling a request takes it from the socket, and answers it at most once.
LEMMA HandleKeeps ==
  ASSUME IInv, Handle
  PROVE  IInv'
<1> DEFINE m == Head(up)
<1>1. /\ ~closed /\ up # << >> /\ up' = Tail(up)
      /\ UNCHANGED <<clientVars, closed, epoch>>
  BY DEF Handle, Serving
<1>2. UNCHANGED <<open, number, admitted, coordinator_epoch, decoder, call, reading, calls, results, skewed,
                  closed, epoch>>
  BY <1>1 DEF clientVars
<1>3. up \in Seq(Sent) /\ Pipe \in Seq(Received) /\ down \in Seq(Received)
  BY PipeType
<1>4. /\ m \in Sent /\ m = up[1] /\ 1 \in 1..Len(up) /\ up' \in Seq(Sent) /\ Within(up', up)
      /\ Single(up, Requests, call) /\ m.type \in Requests => None(up', Requests)
  BY <1>1, <1>3, FrontTaken
<1>5. m.id \in 0..MaxCalls
  BY <1>4 DEF Sent
<1>6. handshaken' \in BOOLEAN
  <2>1. handshaken \in BOOLEAN /\ (handshaken \/ epoch = ConfigEpoch) \in BOOLEAN
    BY DEF IInv, ClientSound
  <2>2. handshaken' = handshaken \/ handshaken' = (handshaken \/ epoch = ConfigEpoch)
    BY DEF Handle
  <2> QED BY <2>1, <2>2
\* What it adds: an answer to a request, something that is no answer, or nothing.
<1>7. \/ down' = down
      \/ \E type \in Answers, ok \in BOOLEAN :
           m.type \in Requests /\ down' = Append(down, Message(type, m.id, ok))
      \/ down' = Append(down, Message("error_message", 0, FALSE))
  <2>1. (epoch = ConfigEpoch) \in BOOLEAN /\ TRUE \in BOOLEAN
    OBVIOUS
  <2>2. {"hello", "mutation", "stats_request"} = Requests
        /\ {"hello_ack", "mutation_response", "stats_response"} = Answers
    BY DEF Requests, Answers
  <2> QED BY <2>1, <2>2 DEF Handle
<1> HIDE DEF m
<1>8. ASSUME ~skewed
      PROVE  /\ Single(up', Requests, call)
             /\ None(up, Requests) => None(up', Requests)
             /\ m.type \in Requests => /\ None(up', Requests) /\ None(Pipe, Answers)
                                       /\ call # Idle /\ m.id = call.id
  <2>1. Single(up, Requests, call) /\ (None(up, Requests) \/ None(Pipe, Answers))
    BY <1>1, <1>8 DEF IInv, OneOutstanding
  <2>2. Single(up', Requests, call) /\ (None(up, Requests) => None(up', Requests))
    BY <1>3, <1>4, <2>1, StretchKeeps
  <2>3. ASSUME m.type \in Requests
        PROVE  ~None(up, Requests) /\ call # Idle /\ m.id = call.id
    BY <1>4, <2>1, <2>3 DEF Single, None
  <2> QED BY <1>4, <2>1, <2>2, <2>3
<1>9. ~skewed => Single(Pipe, Answers, call) /\ (None(up, Requests) \/ None(Pipe, Answers))
  BY <1>1 DEF IInv, OneOutstanding
<1>10. /\ down' \in Seq(Received) /\ InOrder(Pipe', coordinator_epoch, epoch) /\ SentOver(Pipe', number)
       /\ ~skewed => /\ Single(Pipe', Answers, call)
                     /\ None(up', Requests) \/ None(Pipe', Answers)
  <2>1. CASE down' = down
    <3>1. Pipe' = Pipe
      BY <1>2, <2>1 DEF Pipe
    <3> QED BY <1>3, <1>8, <1>9, <2>1, <3>1 DEF IInv, EpochsInOrder, ThisConnection
  <2>2. CASE \E type \in Answers, ok \in BOOLEAN :
               m.type \in Requests /\ down' = Append(down, Message(type, m.id, ok))
    <3>1. PICK type \in Answers, ok \in BOOLEAN :
                 m.type \in Requests /\ down' = Append(down, Message(type, m.id, ok))
      BY <2>2
    <3> DEFINE e == Message(type, m.id, ok)
    <3>2. /\ e \in Received /\ e.id = m.id /\ e.connection = number /\ e.epoch = epoch
          /\ down' = Append(down, e)
      BY <1>5, <3>1, MessageType
    <3> HIDE DEF e
    <3>3. /\ down' \in Seq(Received) /\ InOrder(Pipe', coordinator_epoch, epoch) /\ SentOver(Pipe', number)
          /\ None(Pipe, Answers) /\ call # Idle /\ e.id = call.id => Single(Pipe', Answers, call)
      BY <1>2, <3>2, MessageAdded
    <3> QED BY <1>8, <3>1, <3>2, <3>3
  <2>3. CASE down' = Append(down, Message("error_message", 0, FALSE))
    <3> DEFINE e == Message("error_message", 0, FALSE)
    <3>1. 0 \in 0..MaxCalls /\ FALSE \in BOOLEAN
      BY ClientAssumption
    <3>2. /\ e \in Received /\ e.type = "error_message" /\ e.connection = number /\ e.epoch = epoch
      BY <3>1, MessageType
    <3>3. e.type \notin Answers
      BY <3>2 DEF Answers
    <3>4. down' = Append(down, e)
      BY <2>3
    <3> HIDE DEF e
    <3>5. /\ down' \in Seq(Received) /\ InOrder(Pipe', coordinator_epoch, epoch) /\ SentOver(Pipe', number)
          /\ ~skewed => Single(Pipe', Answers, call)
          /\ None(Pipe, Answers) => None(Pipe', Answers)
      BY <1>2, <3>2, <3>3, <3>4, MessageAdded
    <3> QED BY <1>8, <1>9, <3>5
  <2> QED BY <1>7, <2>1, <2>2, <2>3
<1>11. ClientSound'
  BY <1>2, <1>4, <1>6, <1>10 DEF IInv, ClientSound
<1>12. EpochsInOrder' /\ ThisConnection'
  BY <1>2, <1>10 DEF IInv, EpochsInOrder, ThisConnection
<1>13. OneOutstanding'
  BY <1>2, <1>8, <1>10 DEF IInv, OneOutstanding
<1> QED BY <1>11, <1>12, <1>13 DEF IInv

\* A later epoch is ahead of every message sent before it was announced.
LEMMA LaterEpoch ==
  ASSUME IInv, epoch < MaxEpoch
  PROVE  /\ epoch + 1 \in Epochs /\ coordinator_epoch <= epoch + 1
         /\ InOrder(Pipe, coordinator_epoch, epoch + 1)
<1>1. epoch \in Nat /\ epoch + 1 \in Epochs /\ coordinator_epoch \in Nat /\ coordinator_epoch <= epoch
  BY ClientAssumption DEF IInv, EpochsInOrder, Epochs
<1>2. \A i \in 1..Len(Pipe) : Pipe[i].epoch \in Nat
  <2>1. \A i \in 1..Len(Pipe) : Pipe[i] \in Received
    BY PipeType, ElementOfSeq
  <2>2. Epochs \subseteq Nat
    BY ClientAssumption DEF Epochs
  <2> QED BY <2>1, <2>2 DEF Received
<1>3. \A i \in 1..Len(Pipe) : Pipe[i].epoch <= epoch + 1
  BY <1>1, <1>2 DEF IInv, EpochsInOrder, InOrder
<1> QED BY <1>1, <1>3 DEF IInv, EpochsInOrder, InOrder

\* Announcing a new epoch.
LEMMA AdvanceEpochKeeps ==
  ASSUME IInv, AdvanceEpoch
  PROVE  IInv'
<1> DEFINE e == [Message("epoch_advance", 0, TRUE) EXCEPT !.epoch = epoch + 1]
<1>1. /\ epoch < MaxEpoch /\ epoch' = epoch + 1
      /\ down' = down \/ down' = Append(down, e)
      /\ UNCHANGED <<clientVars, closed, handshaken, outcome, up>>
  BY DEF AdvanceEpoch
<1>2. UNCHANGED <<open, number, admitted, coordinator_epoch, decoder, call, reading, calls, results, skewed,
                  closed, handshaken, up>>
  BY <1>1 DEF clientVars
<1>3. /\ epoch + 1 \in Epochs /\ coordinator_epoch <= epoch + 1 /\ epoch + 1 <= epoch + 1
      /\ InOrder(Pipe, coordinator_epoch, epoch + 1)
  BY <1>1, LaterEpoch, ClientAssumption DEF Epochs
<1>4. /\ Pipe \in Seq(Received) /\ SentOver(Pipe, number)
      /\ ~skewed => Single(Pipe, Answers, call)
  BY PipeType DEF IInv, ThisConnection, OneOutstanding
<1>5. /\ down' \in Seq(Received) /\ InOrder(Pipe', coordinator_epoch, epoch') /\ SentOver(Pipe', number)
      /\ ~skewed => Single(Pipe', Answers, call)
      /\ None(Pipe, Answers) => None(Pipe', Answers)
  <2>1. CASE down' = down
    <3>1. Pipe' = Pipe
      BY <1>2, <2>1 DEF Pipe
    <3> QED BY <1>1, <1>3, <1>4, <2>1, <3>1, PipeType
  <2>2. CASE down' = Append(down, e)
    <3>1. number \in 0..MaxConnections /\ 0 \in 0..MaxCalls
      BY ClientAssumption DEF IInv, ClientSound
    <3>2. /\ e \in Received /\ e.type = "epoch_advance" /\ e.connection = number /\ e.epoch = epoch + 1
      BY <1>3, <3>1 DEF Message, Received
    <3>3. e.type \notin Answers
      BY <3>2 DEF Answers
    <3> HIDE DEF e
    <3>4. Pipe' = Append(Pipe, e) /\ down' \in Seq(Received)
      BY <1>2, <2>2, <3>2, PipeGrown
    <3>5. InOrder(Append(Pipe, e), coordinator_epoch, epoch + 1)
      <4> DEFINE high == epoch + 1
      <4>1. InOrder(Pipe, coordinator_epoch, high) /\ coordinator_epoch <= high /\ high <= high /\ e.epoch = high
        BY <1>3, <3>2
      <4> HIDE DEF high
      <4>2. InOrder(Append(Pipe, e), coordinator_epoch, high)
        BY <1>4, <3>2, <4>1, BackAdded
      <4> QED BY <4>2 DEF high
    <3>6. /\ SentOver(Append(Pipe, e), number)
          /\ ~skewed => Single(Append(Pipe, e), Answers, call)
          /\ None(Pipe, Answers) => None(Append(Pipe, e), Answers)
      BY <1>4, <3>2, <3>3, BackAdded
    <3> QED BY <1>1, <3>4, <3>5, <3>6
  <2> QED BY <1>1, <2>1, <2>2
<1>6. ClientSound'
  BY <1>2, <1>5 DEF IInv, ClientSound
<1>7. EpochsInOrder' /\ ThisConnection'
  BY <1>1, <1>2, <1>3, <1>5 DEF IInv, EpochsInOrder, ThisConnection
<1>8. OneOutstanding'
  BY <1>2, <1>5 DEF IInv, OneOutstanding
<1> QED BY <1>6, <1>7, <1>8 DEF IInv

\* The coordinator closes its end: no request is read any more.
LEMMA CloseByCoordinatorKeeps ==
  ASSUME IInv, CloseByCoordinator
  PROVE  IInv'
<1>1. /\ closed' = TRUE /\ up' = << >>
      /\ UNCHANGED <<clientVars, epoch, handshaken, outcome, down>>
  BY DEF CloseByCoordinator
<1>2. UNCHANGED <<open, number, admitted, coordinator_epoch, decoder, call, reading, calls, results, skewed>>
  BY <1>1 DEF clientVars
<1>3. up' \in Seq(Sent)
  BY <1>1, EmptySeq
<1>4. ClientSound'
  BY <1>1, <1>2, <1>3 DEF IInv, ClientSound
<1>5. Pipe' = Pipe /\ EpochsInOrder' /\ ThisConnection'
  BY <1>1, <1>2, PipeUnchanged
<1>6. OneOutstanding'
  BY <1>1, <1>2, <1>5 DEF IInv, OneOutstanding
<1> QED BY <1>4, <1>5, <1>6 DEF IInv

-----------------------------------------------------------------------------
(* The theorems *)

\* The invariant holds initially.
LEMMA InitInv == Init => IInv
<1> SUFFICES ASSUME Init PROVE IInv
  OBVIOUS
<1>1. << >> \in Seq(Sent) /\ << >> \in Seq(Received)
  BY EmptySeq
<1>2. decoder = << >> /\ up = << >> /\ down = << >> /\ Pipe = << >>
  BY NothingSent DEF Init, Pipe
<1>3. results \in [Calls -> Results]
  <2>1. Pending \in Results
    BY ClientAssumption DEF Pending, Results
  <2> QED BY <2>1 DEF Init
<1>4. ClientSound
  <2>1. 0 \in 0..MaxConnections /\ 0 \in 0..MaxCalls
    BY ClientAssumption
  <2>2. number \in 0..MaxConnections /\ calls \in 0..MaxCalls
    BY <2>1 DEF Init
  <2>3. /\ open \in BOOLEAN /\ admitted \in BOOLEAN /\ reading \in BOOLEAN /\ skewed \in BOOLEAN
        /\ closed \in BOOLEAN /\ handshaken \in BOOLEAN /\ call = Idle
    BY DEF Init
  <2> QED BY <1>1, <1>2, <1>3, <2>2, <2>3 DEF ClientSound
<1>5. EpochsInOrder
  <2>1. epoch = 1 /\ coordinator_epoch = 0
    BY DEF Init
  <2>2. epoch \in Epochs /\ coordinator_epoch \in 0..MaxEpoch /\ coordinator_epoch <= epoch
    BY <2>1, ClientAssumption DEF Epochs
  <2> QED BY <1>2, <2>2, NothingSent DEF EpochsInOrder
<1>6. ThisConnection /\ OneOutstanding
  BY <1>2, NothingSent DEF ThisConnection, OneOutstanding
<1> QED BY <1>4, <1>5, <1>6 DEF IInv

\* Every step of the client, of its program and of the coordinator keeps it.
LEMMA NextInv == IInv /\ [Next]_vars => IInv'
<1> SUFFICES ASSUME IInv, [Next]_vars PROVE IInv'
  OBVIOUS
<1>1. CASE Await
  <2>1. CASE \E n \in 1..MaxFlight : AwaitReceive(n)
    BY <2>1, AwaitReceiveKeeps
  <2> QED BY <1>1, <2>1, AwaitMoreKeeps, AwaitFailedKeeps, AwaitAnswerKeeps, AwaitErrorKeeps,
             AwaitNoticeKeeps DEF Await
<1>2. CASE \E type \in Requests : Start(type)
  BY <1>2, StartKeeps
<1>3. CASE \E type \in {"heartbeat", "occupancy_batch", "shutdown"} : Send(type)
  BY <1>3, SendKeeps
<1>4. CASE UNCHANGED vars
  <2>1. UNCHANGED <<open, number, admitted, coordinator_epoch, decoder, call, reading, calls, results, skewed,
                    closed, epoch, handshaken, up, down>>
    BY <1>4 DEF vars, clientVars, coordVars
  <2>2. ClientSound'
    BY <2>1 DEF IInv, ClientSound
  <2>3. Pipe' = Pipe /\ EpochsInOrder' /\ ThisConnection'
    BY <2>1, PipeUnchanged
  <2>4. OneOutstanding'
    BY <2>1, <2>3 DEF IInv, OneOutstanding
  <2> QED BY <2>2, <2>3, <2>4 DEF IInv
<1> QED BY <1>1, <1>2, <1>3, <1>4, ConnectKeeps, StartFailsKeeps, CloseKeeps, HandleKeeps,
           AdvanceEpochKeeps, CloseByCoordinatorKeeps DEF Next

\* So it holds in every state of every behaviour.
LEMMA Invariance == Spec => []IInv
BY InitInv, NextInv, PTL DEF Spec

\* For any number of calls, connections, epochs and messages in flight: a call
\* in progress is on an open transport and was numbered, and the client never
\* reports an epoch that the coordinator has not reached.
THEOREM TypeCorrect == Spec => []TypeOK
<1>1. ASSUME IInv PROVE TypeOK
  <2>1. /\ open \in BOOLEAN /\ closed \in BOOLEAN /\ admitted \in BOOLEAN /\ reading \in BOOLEAN
        /\ skewed \in BOOLEAN /\ handshaken \in BOOLEAN
    BY <1>1 DEF IInv, ClientSound
  <2>2. {open, closed, admitted, reading, skewed, handshaken} \subseteq BOOLEAN
    BY <2>1, Zenon
  <2>3. coordinator_epoch \in 0..MaxEpoch /\ epoch \in Epochs /\ coordinator_epoch <= epoch
    BY <1>1 DEF IInv, EpochsInOrder
  <2>4. calls \in 0..MaxCalls /\ number \in 0..MaxConnections
    BY <1>1 DEF IInv, ClientSound
  <2>5. CASE call = Idle
    <3>1. call.type = "idle" /\ call.id = 0 /\ 0 \in 0..calls
      BY <2>4, <2>5, ClientAssumption DEF Idle
    <3> QED BY <2>2, <2>3, <2>4, <2>5, <3>1 DEF TypeOK
  <2>6. CASE call # Idle
    <3>1. call.type \in Requests /\ call.id \in 1..calls /\ open
      BY <1>1, <2>6, CallKnown DEF IInv, ClientSound
    <3>2. call.id \in 0..calls
      BY <2>4, <3>1
    <3> QED BY <2>2, <2>3, <2>4, <3>1, <3>2 DEF TypeOK
  <2> QED BY <2>5, <2>6
<1> QED BY <1>1, Invariance, PTL

\* What a step may do to the results of the calls and to the reported epoch.
LEMMA StepResults ==
  ASSUME IInv, [Next]_vars
  PROVE  /\ coordinator_epoch' >= coordinator_epoch
         /\ \A c \in Calls : results'[c] # results[c] =>
              /\ results'[c].connection = number
              /\ results'[c].kind = "answer" /\ ~skewed => results'[c].id = c
<1>1. coordinator_epoch \in Nat /\ coordinator_epoch >= coordinator_epoch
  BY ClientAssumption DEF IInv, EpochsInOrder
<1>2. CASE UNCHANGED <<coordinator_epoch, results>>
  BY <1>1, <1>2
<1>3. CASE StartFails
  <2>1. results' = [results EXCEPT ![calls + 1] = Failed] /\ coordinator_epoch' = coordinator_epoch
    BY <1>3 DEF StartFails
  <2>2. results \in [Calls -> Results]
    BY DEF IInv, ClientSound
  <2>3. \A c \in Calls : results'[c] # results[c] => results'[c] = Failed
    BY <2>1, <2>2
  <2> QED BY <1>1, <2>1, <2>3, FailedType
<1>4. CASE AwaitClosed \/ AwaitReset
  <2>1. call # Idle /\ Return(Failed) /\ coordinator_epoch' = coordinator_epoch
    BY <1>4 DEF AwaitClosed, AwaitReset
  <2>2. \A c \in Calls : results'[c] # results[c] => results'[c] = Failed
    BY <2>1, FailedType, Returned
  <2> QED BY <1>1, <2>1, <2>2, FailedType
<1>5. CASE AwaitAnswer
  <2>1. coordinator_epoch' \in Nat
    <3>1. IInv'
      BY <1>5, AwaitAnswerKeeps
    <3> QED BY <3>1, ClientAssumption DEF IInv, EpochsInOrder
  <2> QED BY <1>1, <1>5, <2>1, AwaitAnswerKeeps
<1>6. CASE AwaitError
  BY <1>1, <1>6, AwaitErrorKeeps
<1>7. CASE AwaitNotice
  <2>1. coordinator_epoch' \in Nat
    <3>1. IInv'
      BY <1>7, AwaitNoticeKeeps
    <3> QED BY <3>1, ClientAssumption DEF IInv, EpochsInOrder
  <2>2. results' = results
    BY <1>7 DEF AwaitNotice
  <2> QED BY <1>1, <1>7, <2>1, <2>2, AwaitNoticeKeeps
<1>8. CASE Await
  <2>1. CASE (\E n \in 1..MaxFlight : AwaitReceive(n)) \/ AwaitMore
    BY <1>2, <2>1 DEF AwaitReceive, AwaitMore
  <2> QED BY <1>4, <1>5, <1>6, <1>7, <1>8, <2>1 DEF Await
<1>9. CASE \/ Connect \/ Close \/ Handle \/ AdvanceEpoch \/ CloseByCoordinator
           \/ \E type \in Requests : Start(type)
           \/ \E type \in {"heartbeat", "occupancy_batch", "shutdown"} : Send(type)
           \/ UNCHANGED vars
  BY <1>2, <1>9 DEF Connect, Close, Handle, AdvanceEpoch, CloseByCoordinator, Start, Send, vars, clientVars
<1> QED BY <1>3, <1>8, <1>9 DEF Next

\* A call that gets an answer gets its own, in every order of requests, notices
\* and leftovers, unless an error message ended an earlier call of the
\* connection.
THEOREM OwnAnswers == Spec => AnswersOwnCall
<1>1. IInv /\ [Next]_vars =>
        [\A c \in Calls :
           results'[c] # results[c] /\ results'[c].kind = "answer" /\ ~skewed => results'[c].id = c]_vars
  BY StepResults
<1> QED BY <1>1, Invariance, PTL DEF Spec, AnswersOwnCall

\* Whatever ends a call came over the connection the call was made on.
THEOREM OwnConnection == Spec => AnswersThisConnection
<1>1. IInv /\ [Next]_vars =>
        [\A c \in Calls : results'[c] # results[c] => results'[c].connection = number]_vars
  BY StepResults
<1> QED BY <1>1, Invariance, PTL DEF Spec, AnswersThisConnection

\* The epoch the client reports never goes back.
THEOREM EpochNeverBack == Spec => EpochFollows
<1>1. IInv /\ [Next]_vars => [coordinator_epoch' >= coordinator_epoch]_vars
  BY StepResults
<1> QED BY <1>1, Invariance, PTL DEF Spec, EpochFollows
=============================================================================
