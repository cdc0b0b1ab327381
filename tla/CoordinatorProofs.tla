------------------------- MODULE CoordinatorProofs --------------------------
(***************************************************************************)
(* Proofs about Coordinator, for every value of its constants.             *)
(***************************************************************************)
EXTENDS Coordinator, Induction, SequenceTheorems, FiniteSetTheorems, TLAPS

-----------------------------------------------------------------------------
(* Erasing the closed connections *)

\* Erasing keeps the order and every connection that is not closed, and adds
\* none: in particular no connection comes to be in the vector twice.
LEMMA RemainingKeeps ==
  ASSUME NEW S, NEW s \in Seq(S), NEW closed, IsInjective(s)
  PROVE  /\ Remaining(s, closed) \in Seq(S)
         /\ Len(Remaining(s, closed)) <= Len(s)
         /\ IsInjective(Remaining(s, closed))
         /\ ToSet(Remaining(s, closed)) = ToSet(s) \ closed
<1> DEFINE n == Len(s)
           B(F, i) == IF i = 0 THEN << >>
                      ELSE IF s[i] \in closed THEN F[i - 1] ELSE Append(F[i - 1], s[i])
           Kept == CHOOSE F : F = [i \in 0..n |-> B(F, i)]
           h == [i \in 1..n |-> [t \in Seq(S) |-> IF s[i] \in closed THEN t ELSE Append(t, s[i])]]
           e == << >>
           V == Seq(S)
<1>1. n \in Nat /\ DOMAIN s = 1..n /\ \A i \in 1..n : s[i] \in S
  BY LenProperties, ElementOfSeq
<1>2. h \in [1..n -> [V -> V]]
  BY <1>1, AppendProperties
<1>3. e \in V /\ Len(e) = 0
  BY EmptySeq
<1>4. PICK G \in [0..n -> V] : Recurses(G, n, e, h)
  <2> HIDE DEF h, n, e, Kept, V
  <2>1. n \in Nat /\ e \in V
    BY <1>1, <1>3
  <2> QED BY <1>2, <2>1, RecursionDefines
<1>5. \A i \in 0..n : G[i] = B(G, i)
  <2>0. G[0] = e /\ \A i \in 1..n : G[i] = h[i][G[i - 1]]
    BY <1>4 DEF Recurses
  <2>1. ASSUME NEW i \in 1..n
        PROVE  G[i] = IF s[i] \in closed THEN G[i - 1] ELSE Append(G[i - 1], s[i])
    <3>1. i - 1 \in 0..n
      BY <1>1
    <3>2. G[i - 1] \in Seq(S)
      BY <3>1
    <3> QED BY <2>0, <3>2
  <2>2. 0..n = {0} \cup 1..n /\ 0 \notin 1..n
    BY <1>1
  <2> HIDE DEF n, h, Kept, V
  <2> QED BY <2>0, <2>1, <2>2
<1>6. \A i \in 0..n : Kept[i] = B(Kept, i)
  <2> HIDE DEF B, n
  <2>1. G = [i \in 0..n |-> B(G, i)]
    BY <1>5
  <2>2. Kept = [i \in 0..n |-> B(Kept, i)]
    BY <2>1, Zenon
  <2> HIDE DEF Kept
  <2> QED BY <2>2, Zenon
<1>7. Remaining(s, closed) = Kept[n]
  BY DEF Remaining
<1> HIDE DEF Kept, h
<1>8. /\ Kept[0] = e
      /\ \A i \in 1..n : Kept[i] = IF s[i] \in closed THEN Kept[i - 1] ELSE Append(Kept[i - 1], s[i])
  <2> HIDE DEF n
  <2> QED BY <1>1, <1>6
<1> HIDE DEF n, e, B
<1> DEFINE Good(k) ==
             /\ Kept[k] \in Seq(S) /\ Len(Kept[k]) <= k
             /\ \A j \in 1..Len(Kept[k]) : \E i \in 1..k : Kept[k][j] = s[i] /\ s[i] \notin closed
             /\ \A i \in 1..k : s[i] \notin closed => \E j \in 1..Len(Kept[k]) : Kept[k][j] = s[i]
             /\ \A i, j \in 1..Len(Kept[k]) : Kept[k][i] = Kept[k][j] => i = j
           I == {k \in Nat : k <= n => Good(k)}
<1>9. 0 \in I
  <2>1. Good(0)
    BY <1>3, <1>8
  <2> HIDE DEF Good
  <2> QED BY <2>1
<1>10. ASSUME NEW k \in Nat, k \in I PROVE k + 1 \in I
  <2> HIDE DEF Good
  <2> SUFFICES ASSUME k + 1 <= n PROVE Good(k + 1)
    OBVIOUS
  <2> DEFINE t == Kept[k]
             u == Kept[k + 1]
  <2>1. Good(k) /\ k + 1 \in 1..n /\ (k + 1) - 1 = k
    BY <1>1, <1>10
  <2>2. u = IF s[k + 1] \in closed THEN t ELSE Append(t, s[k + 1])
    BY <1>8, <2>1
  <2>3. /\ t \in Seq(S) /\ Len(t) <= k /\ Len(t) \in Nat
        /\ \A j \in 1..Len(t) : \E i \in 1..k : t[j] = s[i] /\ s[i] \notin closed
        /\ \A i \in 1..k : s[i] \notin closed => \E j \in 1..Len(t) : t[j] = s[i]
        /\ \A i, j \in 1..Len(t) : t[i] = t[j] => i = j
    BY <2>1, LenProperties DEF Good
  <2> SUFFICES /\ u \in Seq(S) /\ Len(u) <= k + 1
               /\ \A j \in 1..Len(u) : \E i \in 1..(k + 1) : u[j] = s[i] /\ s[i] \notin closed
               /\ \A i \in 1..(k + 1) : s[i] \notin closed => \E j \in 1..Len(u) : u[j] = s[i]
               /\ \A i, j \in 1..Len(u) : u[i] = u[j] => i = j
    BY DEF Good
  <2> HIDE DEF t, u
  <2>4. 1..k \subseteq 1..(k + 1) /\ \A i \in 1..(k + 1) : i \in 1..k \/ i = k + 1
    OBVIOUS
  <2>5. CASE s[k + 1] \in closed
    <3>1. u = t
      BY <2>2, <2>5
    <3>2. \A j \in 1..Len(u) : \E i \in 1..(k + 1) : u[j] = s[i] /\ s[i] \notin closed
      BY <2>3, <2>4, <3>1
    <3>3. \A i \in 1..(k + 1) : s[i] \notin closed => \E j \in 1..Len(u) : u[j] = s[i]
      BY <2>3, <2>4, <2>5, <3>1
    <3>4. u \in Seq(S) /\ Len(u) <= k + 1
      BY <2>3, <3>1
    <3> QED BY <2>3, <3>1, <3>2, <3>3, <3>4
  <2>6. CASE s[k + 1] \notin closed
    <3> DEFINE m == Len(t)
    <3>1. /\ u \in Seq(S) /\ Len(u) = m + 1
          /\ \A j \in 1..m : u[j] = t[j]
          /\ u[m + 1] = s[k + 1]
      BY <1>1, <2>1, <2>2, <2>3, <2>6, AppendProperties
    <3>2. m \in Nat /\ m <= k
      BY <2>3
    <3>3. \A j \in 1..m : \E i \in 1..k : t[j] = s[i] /\ s[i] \notin closed
      BY <2>3
    <3>4. \A i \in 1..k : s[i] \notin closed => \E j \in 1..m : t[j] = s[i]
      BY <2>3
    <3>5. \A i, j \in 1..m : t[i] = t[j] => i = j
      BY <2>3
    <3> HIDE DEF m
    <3>6. 1..m \subseteq 1..(m + 1) /\ m + 1 \in 1..(m + 1) /\ k + 1 \in 1..(k + 1)
          /\ \A j \in 1..(m + 1) : j \in 1..m \/ j = m + 1
      BY <3>2
    <3>7. \A j \in 1..(m + 1) : \E i \in 1..(k + 1) : u[j] = s[i] /\ s[i] \notin closed
      <4> TAKE j \in 1..(m + 1)
      <4>1. CASE j \in 1..m
        BY <2>4, <3>1, <3>3, <4>1
      <4>2. CASE j = m + 1
        BY <2>6, <3>1, <3>6, <4>2
      <4> QED BY <3>6, <4>1, <4>2
    <3>8. \A i \in 1..(k + 1) : s[i] \notin closed => \E j \in 1..(m + 1) : u[j] = s[i]
      <4> SUFFICES ASSUME NEW i \in 1..(k + 1), s[i] \notin closed
                   PROVE  \E j \in 1..(m + 1) : u[j] = s[i]
        OBVIOUS
      <4>1. CASE i \in 1..k
        <5>1. PICK j \in 1..m : t[j] = s[i]
          BY <3>4, <4>1
        <5> QED BY <3>1, <3>6, <5>1
      <4>2. CASE i = k + 1
        BY <3>1, <3>6, <4>2
      <4> QED BY <2>4, <4>1, <4>2
    <3>9. \A j \in 1..m : t[j] # s[k + 1]
      <4> TAKE j \in 1..m
      <4>1. PICK i \in 1..k : t[j] = s[i]
        BY <3>3
      <4>2. i \in DOMAIN s /\ k + 1 \in DOMAIN s /\ i # k + 1
        BY <1>1, <2>1
      <4> QED BY <4>1, <4>2 DEF IsInjective
    <3>10. \A i, j \in 1..(m + 1) : u[i] = u[j] => i = j
      <4> SUFFICES ASSUME NEW i \in 1..(m + 1), NEW j \in 1..(m + 1), u[i] = u[j]
                   PROVE  i = j
        OBVIOUS
      <4>1. CASE i \in 1..m /\ j \in 1..m
        BY <3>1, <3>5, <4>1
      <4>2. CASE i = m + 1 /\ j \in 1..m
        BY <3>1, <3>9, <4>2
      <4>3. CASE i \in 1..m /\ j = m + 1
        BY <3>1, <3>9, <4>3
      <4> QED BY <3>6, <4>1, <4>2, <4>3
    <3> QED BY <3>1, <3>2, <3>7, <3>8, <3>10
  <2> QED BY <2>5, <2>6
<1>11. Good(n)
  <2> HIDE DEF Good
  <2>1. \A k \in Nat : k \in I
    <3> HIDE DEF I
    <3> QED BY <1>9, <1>10, SetInduction
  <2> QED BY <1>1, <2>1
<1> DEFINE r == Remaining(s, closed)
<1>12. /\ r \in Seq(S) /\ Len(r) <= n
       /\ \A j \in 1..Len(r) : \E i \in 1..n : r[j] = s[i] /\ s[i] \notin closed
       /\ \A i \in 1..n : s[i] \notin closed => \E j \in 1..Len(r) : r[j] = s[i]
       /\ \A i, j \in 1..Len(r) : r[i] = r[j] => i = j
  BY <1>7, <1>11
<1> HIDE DEF r
<1>13. DOMAIN r = 1..Len(r)
  BY <1>12, LenProperties
<1>14. IsInjective(r)
  BY <1>12, <1>13 DEF IsInjective
<1>15. ToSet(r) = ToSet(s) \ closed
  <2>1. ASSUME NEW x \in ToSet(r) PROVE x \in ToSet(s) \ closed
    <3>1. PICK j \in 1..Len(r) : x = r[j]
      BY <1>13 DEF ToSet
    <3> QED BY <1>1, <1>12, <3>1 DEF ToSet
  <2>2. ASSUME NEW x \in ToSet(s) \ closed PROVE x \in ToSet(r)
    <3>1. PICK i \in 1..n : x = s[i]
      BY <1>1 DEF ToSet
    <3>2. PICK j \in 1..Len(r) : r[j] = s[i]
      BY <1>12, <3>1
    <3> QED BY <1>13, <3>1, <3>2 DEF ToSet
  <2> QED BY <2>1, <2>2
<1> QED BY <1>12, <1>14, <1>15 DEF r, n

-----------------------------------------------------------------------------
(* The inductive invariant *)

Peers ==
  [state : {"unused", "pending", "accepted", "closed"}, node : Nodes \cup {0},
   incarnation : Nat, role : Roles \cup {"none"}, gone : BOOLEAN]

Connections ==
  [open : BOOLEAN, decoder : Seq(Frame), handshaken : BOOLEAN, queues : SUBSET Queues,
   age : 0..(Deadline + 1)]

Stamps == [incarnation : 0..MaxIncarnation, sequence : 0..MaxSequence]

\* A socket that is in use leads to a process that was started.
PeersKnown ==
  /\ process \in [Nodes -> Seq(Epochs)]
  /\ \A n \in Nodes : Len(process[n]) <= MaxIncarnation
  /\ link \in [Links -> Peers]
  /\ \A c \in Links :
       link[c].state \in {"pending", "accepted"} =>
         link[c].node \in Nodes /\ link[c].incarnation \in DOMAIN process[link[c].node]

\* The vector holds accepted sockets, each once.
VectorSound ==
  /\ connections \in Seq(Links) /\ IsInjective(connections)
  /\ Len(connections) <= MaxConnections
  /\ \A c \in ToSet(connections) : link[c].state = "accepted"

\* A frame is decoded only of a connection in the vector that has one, and only
\* while the cycle may take one more.
LoopSound ==
  /\ pc \in {"accept", "service", "decode"}
  /\ cursor \in 0..(Len(connections) + 1) /\ frames \in 0..MaxFrames
  /\ pc = "accept" => cursor = 0
  /\ pc # "accept" => cursor >= 1
  /\ pc = "decode" => /\ cursor \in DOMAIN connections
                      /\ conn[Serving].decoder # << >>
                      /\ frames < MaxFrames

\* Decoders keep to their bound and only connections of the vector are open.
ConnectionsSound ==
  /\ conn \in [Links -> Connections]
  /\ \A c \in Links :
       /\ Len(conn[c].decoder) <= MaxBuffered
       /\ IsFiniteSet(conn[c].queues)
       /\ conn[c].open => c \in ToSet(connections)

\* A trusted sample that did not escape came over an open connection that has
\* noted its queue: closing that connection will find it.
Noted ==
  /\ stopped \in BOOLEAN
  /\ evidence \in [Queues -> [link : 0..MaxLinks, escaped : BOOLEAN]]
  /\ ~stopped => \A q \in Queues, c \in Links :
                   Trusts(q, c) /\ ~evidence[q].escaped => conn[c].open /\ q \in conn[c].queues

\* A later process of a node has read a later epoch, or the same.
EpochsOrdered ==
  /\ epoch \in Epochs
  /\ \A n \in Nodes : \A i, j \in DOMAIN process[n] :
       process[n][i] <= epoch /\ (i <= j => process[n][i] <= process[n][j])

\* The newest sample of a node is not ahead of the tracker, or was taken in an
\* epoch that is over, so that its process is refused.
NewestKnown ==
  /\ tracker \in [Nodes -> Stamps] /\ newest \in [Nodes -> Stamps]
  /\ \A n \in Nodes :
       LET new == newest[n] IN
       \/ new.incarnation = 0 /\ new.sequence = 0
       \/ /\ new.incarnation \in DOMAIN process[n]
          /\ \/ process[n][new.incarnation] < epoch
             \/ new = tracker[n] \/ Older(new, tracker[n])

IInv ==
  /\ PeersKnown /\ VectorSound /\ LoopSound /\ ConnectionsSound
  /\ Noted /\ EpochsOrdered /\ NewestKnown

-----------------------------------------------------------------------------
(* What leaves a part of the state alone keeps its part of the invariant *)

\* Processes and sockets.
LEMMA PeersUnchanged ==
  ASSUME IInv, UNCHANGED peerVars
  PROVE  PeersKnown'
BY DEF IInv, PeersKnown, peerVars

\* The vector, when no socket changes its state.
LEMMA VectorUnchanged ==
  ASSUME IInv, connections' = connections, \A c \in Links : link'[c].state = link[c].state
  PROVE  VectorSound'
<1>1. ToSet(connections) \subseteq Links
  BY LenProperties, ElementOfSeq DEF IInv, VectorSound, ToSet
<1> QED BY <1>1 DEF IInv, VectorSound, ToSet, IsInjective

\* Where run_once stands, when the decoder it reads is as it was.
LEMMA LoopUnchanged ==
  ASSUME IInv, UNCHANGED loopVars,
         pc = "decode" => conn'[Serving].decoder = conn[Serving].decoder
  PROVE  LoopSound'
BY DEF IInv, LoopSound, loopVars, Serving

\* The connections.
LEMMA ConnectionsUnchanged ==
  ASSUME IInv, UNCHANGED <<conn, connections>>
  PROVE  ConnectionsSound'
BY DEF IInv, ConnectionsSound, ToSet

\* The evidence and the queues that the connections have noted.
LEMMA NotedUnchanged ==
  ASSUME IInv, UNCHANGED <<conn, stopped, evidence>>
  PROVE  Noted'
BY DEF IInv, Noted, Trusts

\* The epochs that the processes have read.
LEMMA EpochsUnchanged ==
  ASSUME IInv, UNCHANGED <<process, epoch>>
  PROVE  EpochsOrdered'
BY DEF IInv, EpochsOrdered

\* The tracker and the newest samples.
LEMMA NewestUnchanged ==
  ASSUME IInv, UNCHANGED <<process, epoch, tracker, newest>>
  PROVE  NewestKnown'
BY DEF IInv, NewestKnown, Older

-----------------------------------------------------------------------------
(* The connection in service *)

\* It is an accepted socket of a process that was started.
LEMMA ServingKnown ==
  ASSUME IInv, cursor \in DOMAIN connections
  PROVE  /\ Serving \in Links /\ Serving \in ToSet(connections)
         /\ conn[Serving] \in Connections /\ link[Serving] \in Peers
         /\ Len(conn[Serving].decoder) <= MaxBuffered /\ IsFiniteSet(conn[Serving].queues)
         /\ link[Serving].state = "accepted" /\ link[Serving].node \in Nodes
         /\ link[Serving].incarnation \in DOMAIN process[link[Serving].node]
<1>1. connections \in Seq(Links)
  BY DEF IInv, VectorSound
<1>2. Serving \in Links /\ Serving \in ToSet(connections)
  BY <1>1, ElementOfSeq, LenProperties DEF Serving, ToSet
<1>3. link[Serving].state = "accepted"
  BY <1>2 DEF IInv, VectorSound
<1> QED BY <1>2, <1>3 DEF IInv, PeersKnown, ConnectionsSound

\* A connection is in service in both phases of the loop.
LEMMA ServiceCursor ==
  ASSUME IInv, InService \/ pc = "decode"
  PROVE  cursor \in DOMAIN connections /\ cursor + 1 \in 0..(Len(connections) + 1)
<1>1. connections \in Seq(Links) /\ DOMAIN connections = 1..Len(connections) /\ Len(connections) \in Nat
  BY LenProperties DEF IInv, VectorSound
<1>2. cursor \in 0..(Len(connections) + 1) /\ (pc # "accept" => cursor >= 1)
  BY DEF IInv, LoopSound
<1>3. cursor \in DOMAIN connections
  BY <1>1, <1>2 DEF IInv, LoopSound, InService
<1> QED BY <1>1, <1>3

\* Moving on to the next connection.
LEMMA MovedOn ==
  ASSUME IInv, InService \/ pc = "decode", MoveOn
  PROVE  LoopSound' /\ connections' = connections
<1>1. cursor \in DOMAIN connections /\ cursor + 1 \in 0..(Len(connections) + 1)
  BY ServiceCursor
<1>2. connections \in Seq(Links) /\ DOMAIN connections = 1..Len(connections)
  BY LenProperties DEF IInv, VectorSound
<1>3. cursor + 1 >= 1
  BY <1>1, <1>2
<1> QED BY <1>1, <1>3, CoordinatorAssumption DEF MoveOn, LoopSound

\* Taking one frame out of the decoder leaves a frame in it, and room in the
\* cycle, if decoding goes on.
LEMMA FrameTaken ==
  ASSUME IInv, NEW types, NextFrame(types),
         conn'[Serving].decoder = Tail(conn[Serving].decoder)
  PROVE  LoopSound'
<1> DEFINE d == conn[Serving].decoder
<1>1. /\ pc = "decode" /\ cursor \in DOMAIN connections /\ d # << >> /\ frames < MaxFrames
      /\ frames \in 0..MaxFrames /\ cursor \in 0..(Len(connections) + 1) /\ cursor >= 1
  BY DEF IInv, LoopSound, NextFrame
<1>2. d \in Seq(Frame)
  BY <1>1, ServingKnown DEF Connections
<1>3. Len(Tail(d)) = Len(d) - 1 /\ Len(d) \in Nat /\ Tail(d) \in Seq(Frame)
  BY <1>1, <1>2, HeadTailProperties, LenProperties
<1>4. frames' = frames + 1 /\ frames' \in 0..MaxFrames
  BY <1>1, CoordinatorAssumption DEF NextFrame, Counted
<1>5. Serving' = Serving /\ connections' = connections /\ cursor' = cursor
  BY DEF NextFrame, Serving
<1>6. pc' = IF frames' < MaxFrames /\ Len(d) > 1 THEN "decode" ELSE "service"
  BY DEF NextFrame
<1> HIDE DEF d
<1>7. pc' = "decode" => frames' < MaxFrames /\ Tail(d) # << >>
  <2> DEFINE u == Tail(d)
  <2>1. pc' = "decode" => frames' < MaxFrames /\ Len(d) > 1
    BY <1>6
  <2>2. u \in Seq(Frame) /\ Len(u) = Len(d) - 1 /\ Len(d) \in Nat
    BY <1>3
  <2> HIDE DEF u
  <2>3. Len(u) # 0 => u # << >>
    BY <2>2, EmptySeq
  <2>4. pc' = "decode" => frames' < MaxFrames /\ u # << >>
    BY <2>1, <2>2, <2>3
  <2> QED BY <2>4 DEF u
<1>8. pc' \in {"service", "decode"}
  BY <1>6
<1> QED BY <1>1, <1>4, <1>5, <1>7, <1>8 DEF LoopSound, d

\* What handle_message makes of its connection before the kind of the message
\* matters.
LEMMA HeardType ==
  ASSUME IInv, pc = "decode"
  PROVE  \A k \in {Heard(Serving), Popped(Serving)} :
           /\ k \in Connections /\ Len(k.decoder) <= MaxBuffered
           /\ k.open = conn[Serving].open /\ k.queues = conn[Serving].queues
           /\ k.handshaken = conn[Serving].handshaken
           /\ k.decoder = Tail(conn[Serving].decoder)
<1> DEFINE d == conn[Serving].decoder
<1>1. cursor \in DOMAIN connections /\ d # << >>
  BY DEF IInv, LoopSound
<1>2. conn[Serving] \in Connections /\ Len(d) <= MaxBuffered
  BY <1>1, ServingKnown
<1>3. Len(Tail(d)) = Len(d) - 1 /\ Len(d) \in Nat /\ Tail(d) \in Seq(Frame)
  BY <1>1, <1>2, HeadTailProperties, LenProperties DEF Connections
<1>4. Len(Tail(d)) <= MaxBuffered
  BY <1>2, <1>3, CoordinatorAssumption
<1>5. 0 \in 0..(Deadline + 1)
  BY CoordinatorAssumption
<1> QED BY <1>2, <1>3, <1>4, <1>5 DEF Heard, Popped, Connections

-----------------------------------------------------------------------------
(* Closing a connection, and answering *)

\* A connection becomes k, or becomes k and is closed.
Settled(c, k) ==
  \/ conn' = [conn EXCEPT ![c] = k] /\ evidence' = evidence
  \/ /\ conn' = [conn EXCEPT ![c] = [k EXCEPT !.open = FALSE]]
     /\ evidence' = IF k.open THEN Distrusted(evidence, k.queues) ELSE evidence

\* A reply settles the connection, closed or not.
LEMMA ReplySettles ==
  ASSUME NEW c, NEW k, Reply(c, k, evidence)
  PROVE  Settled(c, k)
BY DEF Reply, Lost, Settled

\* So does handle_disconnect.
LEMMA DisconnectSettles ==
  ASSUME NEW c, Disconnect(c)
  PROVE  Settled(c, conn[c])
BY DEF Disconnect, Lost, Settled

\* However a connection is settled, no sample of it stays trusted when it is
\* closed: all that it noted is distrusted, and it had noted all that is trusted.
LEMMA SettledSound ==
  ASSUME IInv, NEW c \in Links, c \in ToSet(connections), NEW k \in Connections,
         k.open = conn[c].open, conn[c].queues \subseteq k.queues, IsFiniteSet(k.queues),
         Len(k.decoder) <= MaxBuffered, Settled(c, k),
         connections' = connections, stopped' \in {stopped, TRUE}
  PROVE  ConnectionsSound' /\ Noted' /\ conn'[c].decoder = k.decoder
<1> DEFINE closed == [k EXCEPT !.open = FALSE]
<1>1. conn \in [Links -> Connections]
  BY DEF IInv, ConnectionsSound
<1>2. /\ closed \in Connections /\ ~closed.open /\ closed.queues = k.queues
      /\ closed.decoder = k.decoder
  BY DEF Connections
<1>3. PICK k2 \in {k, closed} : conn' = [conn EXCEPT ![c] = k2]
  BY DEF Settled
<1> HIDE DEF closed
<1>4. /\ conn' \in [Links -> Connections] /\ conn'[c] = k2
      /\ \A x \in Links \ {c} : conn'[x] = conn[x]
  BY <1>1, <1>2, <1>3
<1>5. /\ k2.queues = k.queues /\ k2.decoder = k.decoder /\ (k2.open => k.open)
  BY <1>2
<1>6. ConnectionsSound'
  <2> SUFFICES ASSUME NEW x \in Links
               PROVE  /\ Len(conn'[x].decoder) <= MaxBuffered
                      /\ IsFiniteSet(conn'[x].queues)
                      /\ conn'[x].open => x \in ToSet(connections)
    BY <1>4 DEF ConnectionsSound
  <2>1. CASE x = c
    BY <1>4, <1>5, <2>1
  <2>2. CASE x # c
    BY <1>4, <2>2 DEF IInv, ConnectionsSound
  <2> QED BY <2>1, <2>2
<1>7. evidence \in [Queues -> [link : 0..MaxLinks, escaped : BOOLEAN]]
  BY DEF IInv, Noted
<1>8. Distrusted(evidence, k.queues) \in [Queues -> [link : 0..MaxLinks, escaped : BOOLEAN]]
  BY <1>7, CoordinatorAssumption DEF Distrusted, NoSample
<1>9. evidence' \in {evidence, Distrusted(evidence, k.queues)}
  BY DEF Settled
<1>10. ASSUME ~stopped', NEW q \in Queues, NEW x \in Links, evidence'[q].link = x,
              ~evidence'[q].escaped
       PROVE  conn'[x].open /\ q \in conn'[x].queues
  <2>1. evidence'[q] = evidence[q]
    <3>1. x # 0
      BY CoordinatorAssumption DEF Links
    <3>2. CASE evidence' = evidence
      BY <3>2
    <3>3. CASE evidence' = Distrusted(evidence, k.queues)
      BY <1>10, <3>1, <3>3 DEF Distrusted, NoSample
    <3> QED BY <1>9, <3>2, <3>3
  <2>2. ~stopped
    BY <1>10
  <2>3. conn[x].open /\ q \in conn[x].queues
    BY <1>10, <2>1, <2>2 DEF IInv, Noted, Trusts
  <2>4. CASE x # c
    BY <1>4, <2>3, <2>4
  <2>5. CASE x = c /\ k2 = k
    BY <1>4, <2>3, <2>5
  <2>6. CASE x = c /\ k2 # k
    <3>1. k.open /\ evidence' = Distrusted(evidence, k.queues)
      <4>1. conn'[c] # k
        BY <1>4, <2>6
      <4>2. conn' # [conn EXCEPT ![c] = k]
        BY <1>1, <4>1
      <4> QED BY <2>3, <2>6, <4>2 DEF Settled
    <3>2. q \in k.queues
      BY <2>3, <2>6
    <3>3. evidence'[q].link = 0
      BY <3>1, <3>2 DEF Distrusted, NoSample
    <3> QED BY <1>10, <3>3, CoordinatorAssumption DEF Links
  <2> QED BY <2>4, <2>5, <2>6
<1>11. stopped' \in BOOLEAN
  BY DEF IInv, Noted
<1>12. Noted'
  BY <1>7, <1>8, <1>9, <1>10, <1>11 DEF Noted, Trusts
<1> QED BY <1>4, <1>5, <1>6, <1>12

-----------------------------------------------------------------------------
(* The provenance tracker and the newest samples *)

\* A request is of a queue, with a sequence number.
LEMMA RequestType ==
  ASSUME NEW f \in Frame, f.type \in Requests
  PROVE  f.sequence \in 1..MaxSequence /\ f.queue \in Queues
BY DEF Frame

\* Whatever is taken of a node is newer than every sample taken of it: newer
\* than the tracker has it, or of a process that read a later epoch.
LEMMA TakenIsNewer ==
  ASSUME IInv, NEW c \in Links, link[c].state = "accepted",
         NEW f \in Frame, f.type \in Requests, Takes(c, f)
  PROVE  /\ link[c].node \in Nodes /\ Stamp(c, f) \in Stamps
         /\ Stamp(c, f).incarnation \in DOMAIN process[link[c].node]
         /\ Older(tracker[link[c].node], Stamp(c, f))
         /\ Older(newest[link[c].node], Stamp(c, f))
<1> DEFINE n == link[c].node
           i == link[c].incarnation
           p == process[n]
           new == newest[n]
<1>1. n \in Nodes /\ i \in DOMAIN p /\ p \in Seq(Epochs) /\ Len(p) <= MaxIncarnation
  BY DEF IInv, PeersKnown
<1>2. DOMAIN p = 1..Len(p) /\ Len(p) \in Nat
  BY <1>1, LenProperties
<1>3. f.sequence \in 1..MaxSequence
  BY RequestType
<1>4. Stamp(c, f) \in Stamps /\ Stamp(c, f).incarnation = i /\ Stamp(c, f).sequence = f.sequence
  BY <1>1, <1>2, <1>3, CoordinatorAssumption DEF Stamp, Stamps
<1>5. p[i] = epoch
  BY DEF Takes, EpochOf
<1>6. \/ i > tracker[n].incarnation
      \/ i = tracker[n].incarnation /\ f.sequence > tracker[n].sequence
  BY DEF Takes, Classify
<1>7. tracker[n] \in Stamps /\ new \in Stamps
  BY <1>1 DEF IInv, NewestKnown
<1>8. \/ new.incarnation = 0 /\ new.sequence = 0
      \/ /\ new.incarnation \in DOMAIN p
         /\ \/ p[new.incarnation] < epoch
            \/ new = tracker[n] \/ Older(new, tracker[n])
  BY <1>1 DEF IInv, NewestKnown
<1>9. \A a, b \in DOMAIN p : a <= b => p[a] <= p[b]
  BY <1>1 DEF IInv, EpochsOrdered
<1>10. \A a \in DOMAIN p : p[a] \in Nat
  BY <1>1, <1>2, ElementOfSeq, CoordinatorAssumption DEF Epochs
<1> HIDE DEF n, i, p, new
<1>11. Older(tracker[n], Stamp(c, f))
  BY <1>4, <1>6, <1>7, CoordinatorAssumption DEF Older, Stamps
<1>12. Older(new, Stamp(c, f))
  <2>1. CASE new.incarnation = 0
    BY <1>1, <1>2, <1>4, <1>7, <2>1 DEF Older
  <2>2. CASE new.incarnation \in DOMAIN p /\ p[new.incarnation] < epoch
    <3>1. ~(i <= new.incarnation)
      BY <1>1, <1>5, <1>9, <1>10, <2>2
    <3> QED BY <1>1, <1>2, <1>4, <2>2, <3>1 DEF Older
  <2>3. CASE new = tracker[n] \/ Older(new, tracker[n])
    <3>1. /\ new.incarnation \in Nat /\ new.sequence \in Nat
          /\ tracker[n].incarnation \in Nat /\ tracker[n].sequence \in Nat
          /\ i \in Nat /\ f.sequence \in Nat
      BY <1>1, <1>2, <1>3, <1>7, CoordinatorAssumption DEF Stamps
    <3> QED BY <1>4, <1>6, <2>3, <3>1 DEF Older
  <2> QED BY <1>8, <2>1, <2>2, <2>3
<1> QED BY <1>1, <1>4, <1>11, <1>12 DEF n, i, p, new

\* Older is transitive.
LEMMA OlderTransitive ==
  ASSUME NEW a \in Stamps, NEW b \in Stamps, NEW d \in Stamps, Older(a, b), Older(b, d)
  PROVE  Older(a, d)
<1>1. /\ a.incarnation \in Nat /\ a.sequence \in Nat
      /\ b.incarnation \in Nat /\ b.sequence \in Nat
      /\ d.incarnation \in Nat /\ d.sequence \in Nat
  BY CoordinatorAssumption DEF Stamps
<1> QED BY <1>1 DEF Older

\* The tracker moves on to what was taken; the newest sample moves with it or stays.
LEMMA TakenKeeps ==
  ASSUME IInv, NEW c \in Links, link[c].state = "accepted",
         NEW f \in Frame, f.type \in Requests, Takes(c, f),
         tracker' = [tracker EXCEPT ![link[c].node] = Stamp(c, f)],
         newest' \in {newest, [newest EXCEPT ![link[c].node] = Stamp(c, f)]},
         process' = process, epoch' = epoch
  PROVE  NewestKnown'
<1> DEFINE n == link[c].node
           s == Stamp(c, f)
<1>1. /\ n \in Nodes /\ s \in Stamps /\ s.incarnation \in DOMAIN process[n]
      /\ Older(tracker[n], s)
  BY TakenIsNewer
<1>2. tracker \in [Nodes -> Stamps] /\ newest \in [Nodes -> Stamps]
  BY DEF IInv, NewestKnown
<1>3. /\ tracker' = [tracker EXCEPT ![n] = s]
      /\ newest' \in {newest, [newest EXCEPT ![n] = s]}
  OBVIOUS
<1> HIDE DEF n, s
<1>4. /\ tracker' \in [Nodes -> Stamps] /\ newest' \in [Nodes -> Stamps]
      /\ tracker'[n] = s /\ newest'[n] \in {newest[n], s}
      /\ \A x \in Nodes \ {n} : tracker'[x] = tracker[x] /\ newest'[x] = newest[x]
  <2>1. /\ tracker' \in [Nodes -> Stamps] /\ tracker'[n] = s
        /\ \A x \in Nodes \ {n} : tracker'[x] = tracker[x]
    BY <1>1, <1>2, <1>3
  <2>2. CASE newest' = newest
    BY <1>2, <2>1, <2>2
  <2>3. CASE newest' = [newest EXCEPT ![n] = s]
    BY <1>1, <1>2, <2>1, <2>3
  <2> QED BY <1>3, <2>2, <2>3
<1> DEFINE Known(x, new, t) ==
             \/ new.incarnation = 0 /\ new.sequence = 0
             \/ /\ new.incarnation \in DOMAIN process[x]
                /\ \/ process[x][new.incarnation] < epoch
                   \/ new = t \/ Older(new, t)
<1>5. \A x \in Nodes : Known(x, newest[x], tracker[x])
  BY DEF IInv, NewestKnown
<1>6. ASSUME NEW x \in Nodes PROVE Known(x, newest'[x], tracker'[x])
  <2>1. CASE x # n
    BY <1>4, <1>5, <2>1
  <2>2. CASE x = n /\ newest'[n] = s
    BY <1>1, <1>4, <2>2
  <2>3. CASE x = n /\ newest'[n] = newest[n]
    <3>1. Known(n, newest[n], tracker[n]) /\ newest[n] \in Stamps /\ tracker[n] \in Stamps
      BY <1>1, <1>2, <1>5
    <3>2. newest[n] = tracker[n] \/ Older(newest[n], tracker[n]) => Older(newest[n], s)
      BY <1>1, <3>1, OlderTransitive
    <3> QED BY <1>4, <2>3, <3>1, <3>2
  <2> QED BY <1>4, <2>1, <2>2, <2>3
<1> QED BY <1>4, <1>6 DEF NewestKnown

-----------------------------------------------------------------------------
(* The handlers *)

\* A handler that settles its connection and leaves the tracker alone.
LEMMA HandledKeeps ==
  ASSUME IInv, NEW types, NextFrame(types), NEW k \in Connections,
         k.open = conn[Serving].open, conn[Serving].queues \subseteq k.queues,
         IsFiniteSet(k.queues), Len(k.decoder) <= MaxBuffered,
         k.decoder = Tail(conn[Serving].decoder), Settled(Serving, k),
         stopped' \in {stopped, TRUE}, epoch' = epoch, NewestKnown'
  PROVE  IInv'
<1>1. pc = "decode" /\ UNCHANGED <<peerVars, connections, cursor>>
  BY DEF NextFrame
<1>2. cursor \in DOMAIN connections
  BY <1>1, ServiceCursor
<1>3. Serving \in Links /\ Serving \in ToSet(connections)
  BY <1>2, ServingKnown
<1>4. ConnectionsSound' /\ Noted' /\ conn'[Serving].decoder = k.decoder
  BY <1>1, <1>3, SettledSound
<1>5. LoopSound'
  BY <1>4, FrameTaken
<1>6. PeersKnown' /\ VectorSound' /\ EpochsOrdered'
  BY <1>1, PeersUnchanged, VectorUnchanged, EpochsUnchanged DEF peerVars
<1> QED BY <1>4, <1>5, <1>6 DEF IInv

\* The handlers that only note the activity, and answer.
LEMMA AnsweredKeeps ==
  ASSUME IInv, HandleMalformed \/ HandleEarly \/ HandleHeartbeat \/ HandleStats \/ HandleShutdown
  PROVE  IInv'
<1>1. pc = "decode"
  BY DEF HandleMalformed, HandleEarly, HandleHeartbeat, HandleStats, HandleShutdown, NextFrame
<1>2. PICK types : NextFrame(types)
  BY DEF HandleMalformed, HandleEarly, HandleHeartbeat, HandleStats, HandleShutdown
<1>3. PICK k \in {Heard(Serving), Popped(Serving)} : Settled(Serving, k)
  BY ReplySettles
     DEF HandleMalformed, HandleEarly, HandleHeartbeat, HandleStats, HandleShutdown, Settled, fabricVars
<1>4. /\ stopped' \in {stopped, TRUE} /\ UNCHANGED <<epoch, tracker, newest>>
  BY DEF HandleMalformed, HandleEarly, HandleHeartbeat, HandleStats, HandleShutdown, fabricVars
<1>5. NewestKnown'
  BY <1>2, <1>4, NewestUnchanged DEF NextFrame, peerVars
<1>6. /\ k \in Connections /\ Len(k.decoder) <= MaxBuffered
      /\ k.open = conn[Serving].open /\ k.queues = conn[Serving].queues
      /\ k.decoder = Tail(conn[Serving].decoder)
  BY <1>1, HeardType
<1>7. IsFiniteSet(k.queues)
  BY <1>1, <1>6, ServiceCursor, ServingKnown
<1> QED BY <1>2, <1>3, <1>4, <1>5, <1>6, <1>7, HandledKeeps

\* handle_hello, whether it admits the session or not.
LEMMA HandleHelloKeeps ==
  ASSUME IInv, HandleHello
  PROVE  IInv'
<1> DEFINE k == [Heard(Serving) EXCEPT !.handshaken = @ \/ CanAdmit(Serving)]
<1>1. /\ pc = "decode" /\ NextFrame({"hello"}) /\ Reply(Serving, k, evidence)
      /\ UNCHANGED <<stopped, epoch, tracker, newest>>
  BY DEF HandleHello, NextFrame
<1>2. /\ Heard(Serving) \in Connections /\ Len(Heard(Serving).decoder) <= MaxBuffered
      /\ Heard(Serving).open = conn[Serving].open /\ Heard(Serving).queues = conn[Serving].queues
      /\ Heard(Serving).decoder = Tail(conn[Serving].decoder)
  BY <1>1, HeardType
<1>3. (Heard(Serving).handshaken \/ CanAdmit(Serving)) \in BOOLEAN
  OBVIOUS
<1>4. /\ k \in Connections /\ Len(k.decoder) <= MaxBuffered
      /\ k.open = conn[Serving].open /\ k.queues = conn[Serving].queues
      /\ k.decoder = Tail(conn[Serving].decoder)
  BY <1>2, <1>3 DEF Connections
<1> HIDE DEF k
<1>5. IsFiniteSet(k.queues)
  BY <1>1, <1>4, ServiceCursor, ServingKnown
<1>6. NewestKnown'
  BY <1>1, NewestUnchanged DEF NextFrame, peerVars
<1> QED BY <1>1, <1>4, <1>5, <1>6, ReplySettles, HandledKeeps

\* Noting a queue.
LEMMA SubscribedType ==
  ASSUME NEW k \in Connections, NEW q \in Queues, IsFiniteSet(k.queues)
  PROVE  /\ Subscribed(k, q) \in Connections
         /\ Subscribed(k, q).open = k.open /\ Subscribed(k, q).decoder = k.decoder
         /\ k.queues \subseteq Subscribed(k, q).queues /\ IsFiniteSet(Subscribed(k, q).queues)
         /\ Cardinality(k.queues \cup {q}) <= MaxSubscribed => q \in Subscribed(k, q).queues
<1>1. IsFiniteSet(k.queues \cup {q})
  BY FS_AddElement
<1>2. CASE q \in k.queues \/ Cardinality(k.queues) < MaxSubscribed
  <2>1. Subscribed(k, q) = [k EXCEPT !.queues = k.queues \cup {q}]
    BY <1>2 DEF Subscribed
  <2> QED BY <1>1, <2>1 DEF Connections
<1>3. CASE ~(q \in k.queues \/ Cardinality(k.queues) < MaxSubscribed)
  <2>1. Subscribed(k, q) = k
    BY <1>3 DEF Subscribed
  <2>2. Cardinality(k.queues \cup {q}) = Cardinality(k.queues) + 1
    BY <1>3, FS_AddElement
  <2>3. ~(Cardinality(k.queues \cup {q}) <= MaxSubscribed)
    BY <1>3, <2>2, FS_CardinalityType, CoordinatorAssumption
  <2> QED BY <2>1, <2>3
<1> QED BY <1>2, <1>3

\* The frame in front of the decoder.
LEMMA FrontFrame ==
  ASSUME IInv, pc = "decode"
  PROVE  Head(conn[Serving].decoder) \in Frame
<1>1. cursor \in DOMAIN connections /\ conn[Serving].decoder # << >>
  BY DEF IInv, LoopSound
<1>2. conn[Serving].decoder \in Seq(Frame)
  BY <1>1, ServingKnown DEF Connections
<1> QED BY <1>1, <1>2, HeadTailProperties

\* handle_mutation: the tracker may move on, the newest sample does not.
LEMMA HandleMutationKeeps ==
  ASSUME IInv, HandleMutation
  PROVE  IInv'
<1> DEFINE c == Serving
           f == Head(conn[c].decoder)
           k == IF Takes(c, f) THEN Subscribed(Heard(c), f.queue) ELSE Heard(c)
<1>1. /\ pc = "decode" /\ NextFrame({"mutation"}) /\ Reply(c, k, evidence)
      /\ f.type = "mutation"
      /\ tracker' = IF Takes(c, f) THEN [tracker EXCEPT ![link[c].node] = Stamp(c, f)] ELSE tracker
      /\ UNCHANGED <<process, stopped, epoch, newest>>
  BY DEF HandleMutation, NextFrame, peerVars
<1>2. f \in Frame /\ f.type \in Requests
  BY <1>1, FrontFrame DEF Requests
<1>3. /\ c \in Links /\ link[c].state = "accepted" /\ IsFiniteSet(conn[c].queues)
  BY <1>1, ServiceCursor, ServingKnown
<1>4. /\ Heard(c) \in Connections /\ Len(Heard(c).decoder) <= MaxBuffered
      /\ Heard(c).open = conn[c].open /\ Heard(c).queues = conn[c].queues
      /\ Heard(c).decoder = Tail(conn[c].decoder)
  BY <1>1, HeardType
<1>5. f.queue \in Queues
  BY <1>2, RequestType
<1>6. NewestKnown'
  <2>1. CASE Takes(c, f)
    BY <1>1, <1>2, <1>3, <2>1, TakenKeeps
  <2>2. CASE ~Takes(c, f)
    BY <1>1, <2>2, NewestUnchanged
  <2> QED BY <2>1, <2>2
<1>7. /\ k \in Connections /\ Len(k.decoder) <= MaxBuffered
      /\ k.open = conn[c].open /\ conn[c].queues \subseteq k.queues
      /\ IsFiniteSet(k.queues) /\ k.decoder = Tail(conn[c].decoder)
  BY <1>3, <1>4, <1>5, SubscribedType
<1> HIDE DEF k, f
<1>8. Settled(Serving, k)
  BY <1>1, ReplySettles
<1> HIDE DEF c
<1> QED BY <1>1, <1>6, <1>7, <1>8, HandledKeeps DEF c

\* A sample that is taken is noted with its connection, or escapes.
LEMMA SampleNoted ==
  ASSUME IInv, NEW c \in Links, c \in ToSet(connections), NEW h \in Connections, NEW q \in Queues,
         IsFiniteSet(h.queues), Len(h.decoder) <= MaxBuffered,
         h.open = conn[c].open, h.queues = conn[c].queues,
         conn' = [conn EXCEPT ![c] = Subscribed(h, q)],
         evidence' = [evidence EXCEPT ![q] =
                        [link    |-> c,
                         escaped |-> \/ ~conn[c].open
                                     \/ Cardinality(conn[c].queues \cup {q}) > MaxSubscribed]],
         connections' = connections, stopped' = stopped
  PROVE  ConnectionsSound' /\ Noted' /\ conn'[c].decoder = h.decoder
<1> DEFINE k == Subscribed(h, q)
           esc == ~conn[c].open \/ Cardinality(conn[c].queues \cup {q}) > MaxSubscribed
<1>1. /\ k \in Connections /\ k.open = conn[c].open /\ k.decoder = h.decoder
      /\ conn[c].queues \subseteq k.queues /\ IsFiniteSet(k.queues)
      /\ Cardinality(conn[c].queues \cup {q}) <= MaxSubscribed => q \in k.queues
  BY SubscribedType
<1>2. conn \in [Links -> Connections]
  BY DEF IInv, ConnectionsSound
<1>3. evidence \in [Queues -> [link : 0..MaxLinks, escaped : BOOLEAN]] /\ stopped \in BOOLEAN
  BY DEF IInv, Noted
<1>4. ~esc => conn[c].open /\ q \in k.queues
  <2>1. Cardinality(conn[c].queues \cup {q}) \in Nat
    BY FS_AddElement, FS_CardinalityType
  <2> QED BY <1>1, <2>1, CoordinatorAssumption
<1>5. conn' = [conn EXCEPT ![c] = k] /\ evidence' = [evidence EXCEPT ![q] = [link |-> c, escaped |-> esc]]
  OBVIOUS
<1>6. esc \in BOOLEAN /\ c \in 0..MaxLinks
  BY CoordinatorAssumption DEF Links
<1> HIDE DEF k, esc
<1>7. /\ conn' \in [Links -> Connections] /\ conn'[c] = k
      /\ \A x \in Links \ {c} : conn'[x] = conn[x]
  BY <1>1, <1>2, <1>5
<1>8. /\ evidence' \in [Queues -> [link : 0..MaxLinks, escaped : BOOLEAN]]
      /\ evidence'[q].link = c /\ evidence'[q].escaped = esc
      /\ \A x \in Queues \ {q} : evidence'[x] = evidence[x]
  <2> DEFINE sample == [link |-> c, escaped |-> esc]
  <2>1. sample \in [link : 0..MaxLinks, escaped : BOOLEAN] /\ sample.link = c /\ sample.escaped = esc
    BY <1>6, Zenon
  <2>2. evidence' = [evidence EXCEPT ![q] = sample]
    BY <1>5
  <2> HIDE DEF sample
  <2>3. /\ evidence' \in [Queues -> [link : 0..MaxLinks, escaped : BOOLEAN]]
        /\ evidence'[q] = sample
        /\ \A x \in Queues \ {q} : evidence'[x] = evidence[x]
    BY <1>3, <2>1, <2>2, Zenon
  <2> QED BY <2>1, <2>3, Zenon
<1>9. ConnectionsSound'
  <2> SUFFICES ASSUME NEW x \in Links
               PROVE  /\ Len(conn'[x].decoder) <= MaxBuffered
                      /\ IsFiniteSet(conn'[x].queues)
                      /\ conn'[x].open => x \in ToSet(connections)
    BY <1>7 DEF ConnectionsSound
  <2>1. CASE x = c
    BY <1>1, <1>7, <2>1
  <2>2. CASE x # c
    BY <1>7, <2>2 DEF IInv, ConnectionsSound
  <2> QED BY <2>1, <2>2
<1>10. ASSUME ~stopped, NEW y \in Queues, NEW x \in Links, evidence'[y].link = x,
              ~evidence'[y].escaped
       PROVE  conn'[x].open /\ y \in conn'[x].queues
  <2>1. CASE y = q
    BY <1>1, <1>4, <1>7, <1>8, <1>10, <2>1
  <2>2. CASE y # q
    <3>1. conn[x].open /\ y \in conn[x].queues
      BY <1>8, <1>10, <2>2 DEF IInv, Noted, Trusts
    <3> QED BY <1>1, <1>7, <3>1
  <2> QED BY <2>1, <2>2
<1>11. Noted'
  BY <1>3, <1>8, <1>10 DEF Noted, Trusts
<1> QED BY <1>1, <1>7, <1>9, <1>11

\* handle_occupancy: a sample that is taken is noted, or has escaped, and is the
\* newest of its node.
LEMMA HandleOccupancyKeeps ==
  ASSUME IInv, HandleOccupancy
  PROVE  IInv'
<1> DEFINE c == Serving
           f == Head(conn[c].decoder)
           h == Heard(c)
<1>1. /\ pc = "decode" /\ NextFrame({"occupancy_batch"}) /\ f.type = "occupancy_batch"
      /\ UNCHANGED <<peerVars, connections, stopped, epoch>>
  BY DEF HandleOccupancy, NextFrame
<1>2. f \in Frame /\ f.type \in Requests
  BY <1>1, FrontFrame DEF Requests
<1>3. /\ c \in Links /\ c \in ToSet(connections) /\ link[c].state = "accepted"
      /\ IsFiniteSet(conn[c].queues)
  BY <1>1, ServiceCursor, ServingKnown
<1>4. /\ h \in Connections /\ Len(h.decoder) <= MaxBuffered
      /\ h.open = conn[c].open /\ h.queues = conn[c].queues
      /\ h.decoder = Tail(conn[c].decoder)
  BY <1>1, HeardType
<1>5. f.queue \in Queues
  BY <1>2, RequestType
<1>6. CASE Takes(c, f)
  <2>1. /\ conn' = [conn EXCEPT ![c] = Subscribed(h, f.queue)]
        /\ evidence' = [evidence EXCEPT ![f.queue] =
                          [link    |-> c,
                           escaped |-> \/ ~conn[c].open
                                       \/ Cardinality(conn[c].queues \cup {f.queue}) > MaxSubscribed]]
        /\ tracker' = [tracker EXCEPT ![link[c].node] = Stamp(c, f)]
        /\ newest' = [newest EXCEPT ![link[c].node] = Stamp(c, f)]
    BY <1>6 DEF HandleOccupancy
  <2> HIDE DEF f, h
  <2>2. NewestKnown'
    BY <1>1, <1>2, <1>3, <1>6, <2>1, TakenKeeps DEF peerVars
  <2> HIDE DEF c
  <2>3. ConnectionsSound' /\ Noted' /\ conn'[c].decoder = h.decoder
    BY <1>1, <1>3, <1>4, <1>5, <2>1, SampleNoted
  <2>4. LoopSound'
    BY <1>1, <1>4, <2>3, FrameTaken DEF c
  <2>5. PeersKnown' /\ VectorSound' /\ EpochsOrdered'
    BY <1>1, PeersUnchanged, VectorUnchanged, EpochsUnchanged DEF peerVars
  <2> QED BY <2>2, <2>3, <2>4, <2>5 DEF IInv
<1>7. CASE ~Takes(c, f)
  <2>1. conn' = [conn EXCEPT ![c] = h] /\ UNCHANGED <<tracker, evidence, newest>>
    BY <1>7 DEF HandleOccupancy
  <2>2. Settled(Serving, h)
    BY <2>1 DEF Settled
  <2>3. NewestKnown'
    BY <1>1, <2>1, NewestUnchanged DEF peerVars
  <2> HIDE DEF h, f
  <2> QED BY <1>1, <1>3, <1>4, <2>2, <2>3, HandledKeeps
<1> QED BY <1>6, <1>7

\* Closing the connection in service and moving on.
LEMMA ClosedKeeps ==
  ASSUME IInv, InService \/ pc = "decode", Disconnect(Serving), MoveOn,
         process' = process, link' \in [Links -> Peers],
         \A c \in Links : /\ link'[c].state = link[c].state
                          /\ link'[c].node = link[c].node
                          /\ link'[c].incarnation = link[c].incarnation,
         UNCHANGED <<stopped, epoch, tracker, newest>>
  PROVE  IInv'
<1>1. cursor \in DOMAIN connections
  BY ServiceCursor
<1>2. /\ Serving \in Links /\ Serving \in ToSet(connections) /\ conn[Serving] \in Connections
      /\ Len(conn[Serving].decoder) <= MaxBuffered /\ IsFiniteSet(conn[Serving].queues)
  BY <1>1, ServingKnown
<1>3. LoopSound' /\ connections' = connections
  BY MovedOn
<1>4. ConnectionsSound' /\ Noted'
  BY <1>2, <1>3, DisconnectSettles, SettledSound
<1>5. PeersKnown'
  BY DEF IInv, PeersKnown
<1>6. VectorSound' /\ EpochsOrdered' /\ NewestKnown'
  BY <1>3, VectorUnchanged, EpochsUnchanged, NewestUnchanged
<1> QED BY <1>3, <1>4, <1>5, <1>6 DEF IInv

\* A broken stream and the end of the stream close the connection.
LEMMA HandleBrokenKeeps ==
  ASSUME IInv, HandleBroken \/ ReceiveNothing
  PROVE  IInv'
<1>1. /\ InService \/ pc = "decode"
      /\ Disconnect(Serving) /\ MoveOn /\ UNCHANGED <<peerVars, stopped, epoch, tracker, newest>>
  BY DEF HandleBroken, ReceiveNothing, MayReceive
<1>2. link' \in [Links -> Peers]
  BY <1>1 DEF IInv, PeersKnown, peerVars
<1> QED BY <1>1, <1>2, ClosedKeeps DEF peerVars

\* A burst is a nonempty sequence of frames.
LEMMA BurstType ==
  ASSUME NEW received \in Bursts
  PROVE  received \in Seq(Frame) /\ Len(received) >= 1 /\ Len(received) \in Nat
<1>1. PICK n \in 1..MaxBurst : received \in [1..n -> Frame]
  BY DEF Bursts
<1>2. n \in Nat /\ n >= 1
  BY <1>1, CoordinatorAssumption
<1>3. received \in Seq(Frame)
  BY <1>1, <1>2, SeqDef
<1>4. Len(received) = n
  BY <1>1, <1>2, <1>3, LenProperties
<1> QED BY <1>2, <1>3, <1>4

\* Receiving fills the decoder up to its bound, or closes the connection.
LEMMA ReceiveKeeps ==
  ASSUME IInv, NEW received \in Bursts, NEW last \in BOOLEAN, Receive(received, last)
  PROVE  IInv'
<1> DEFINE c == Serving
           d == conn[c].decoder
<1>1. /\ InService /\ frames < MaxFrames
      /\ link' = [link EXCEPT ![c].gone = last]
      /\ UNCHANGED <<process, stopped, epoch, tracker, newest>>
  BY DEF Receive, MayReceive
<1>2. cursor \in DOMAIN connections
  BY <1>1, ServiceCursor
<1>3. /\ c \in Links /\ c \in ToSet(connections) /\ conn[c] \in Connections
      /\ IsFiniteSet(conn[c].queues)
  BY <1>2, ServingKnown
<1>4. /\ link' \in [Links -> Peers]
      /\ \A x \in Links : /\ link'[x].state = link[x].state
                           /\ link'[x].node = link[x].node
                           /\ link'[x].incarnation = link[x].incarnation
  BY <1>1 DEF IInv, PeersKnown, Peers
<1>5. CASE Disconnect(c) /\ MoveOn
  BY <1>1, <1>4, <1>5, ClosedKeeps
<1>6. CASE /\ Fits(c, received)
           /\ conn' = [conn EXCEPT ![c].decoder = @ \o received]
           /\ pc' = "decode"
           /\ UNCHANGED <<cursor, frames, connections, evidence>>
  <2> DEFINE k == [conn[c] EXCEPT !.decoder = d \o received]
  <2>1. received \in Seq(Frame) /\ Len(received) >= 1 /\ Len(received) \in Nat
    BY BurstType
  <2>2. d \in Seq(Frame) /\ Len(d) \in Nat
    BY <1>3, LenProperties DEF Connections
  <2>3. d \o received \in Seq(Frame) /\ Len(d \o received) = Len(d) + Len(received)
    BY <2>1, <2>2, ConcatProperties
  <2>4. Len(d) + Len(received) <= MaxBuffered
    BY <1>6 DEF Fits
  <2>5. /\ k \in Connections /\ k.open = conn[c].open /\ k.queues = conn[c].queues
        /\ k.decoder = d \o received
    BY <1>3, <2>3 DEF Connections
  <2>6. conn' = [conn EXCEPT ![c] = k]
    BY <1>6
  <2>7. Settled(c, k)
    BY <1>6, <2>6 DEF Settled
  <2> HIDE DEF k
  <2>8. Len(k.decoder) <= MaxBuffered /\ IsFiniteSet(k.queues)
    BY <1>3, <2>3, <2>4, <2>5
  <2>9. ConnectionsSound' /\ Noted' /\ conn'[c].decoder = k.decoder
    BY <1>1, <1>3, <1>6, <2>5, <2>7, <2>8, SettledSound
  <2>10. k.decoder # << >>
    <3> DEFINE u == k.decoder
    <3>1. u \in Seq(Frame) /\ Len(u) # 0
      BY <2>1, <2>2, <2>3, <2>5
    <3> HIDE DEF u
    <3>2. u # << >>
      BY <3>1, EmptySeq
    <3> QED BY <3>2 DEF u
  <2>11. LoopSound'
    <3>1. Serving' = Serving /\ connections' = connections /\ cursor' = cursor /\ frames' = frames
      BY <1>6 DEF Serving
    <3>2. cursor \in 0..(Len(connections) + 1) /\ frames \in 0..MaxFrames /\ cursor >= 1
      BY <1>1 DEF IInv, LoopSound, InService
    <3> HIDE DEF d
    <3> QED BY <1>1, <1>2, <1>6, <2>9, <2>10, <3>1, <3>2 DEF LoopSound
  <2>12. PeersKnown'
    BY <1>1, <1>4 DEF IInv, PeersKnown
  <2>13. VectorSound' /\ EpochsOrdered' /\ NewestKnown'
    BY <1>1, <1>4, <1>6, VectorUnchanged, EpochsUnchanged, NewestUnchanged
  <2> QED BY <2>9, <2>11, <2>12, <2>13 DEF IInv
<1> QED BY <1>5, <1>6 DEF Receive

-----------------------------------------------------------------------------
(* The cycle *)

\* Nothing to read.
LEMMA SkipKeeps ==
  ASSUME IInv, Skip
  PROVE  IInv'
<1>1. InService /\ MoveOn /\ UNCHANGED <<peerVars, conn, stopped, fabricVars>>
  BY DEF Skip
<1>2. LoopSound' /\ connections' = connections
  BY <1>1, MovedOn
<1>3. PeersKnown' /\ VectorSound' /\ EpochsOrdered' /\ NewestKnown'
  BY <1>1, <1>2, PeersUnchanged, VectorUnchanged, EpochsUnchanged, NewestUnchanged
     DEF peerVars, fabricVars
<1>4. ConnectionsSound' /\ Noted'
  BY <1>1, <1>2, ConnectionsUnchanged, NotedUnchanged DEF fabricVars
<1> QED BY <1>2, <1>3, <1>4 DEF IInv

\* The oldest pending socket joins the vector, which does not hold it yet.
LEMMA AcceptKeeps ==
  ASSUME IInv, Accept
  PROVE  IInv'
<1> DEFINE n == Len(connections)
<1>1. /\ pc' = "service" /\ cursor' = 1 /\ frames' = 0
      /\ UNCHANGED <<process, stopped, fabricVars>>
  BY DEF Accept
<1>2. EpochsOrdered' /\ NewestKnown'
  BY <1>1, EpochsUnchanged, NewestUnchanged DEF fabricVars
<1>3. /\ connections \in Seq(Links) /\ n \in Nat /\ DOMAIN connections = 1..n
      /\ \A i \in 1..n : connections[i] \in Links
  BY LenProperties, ElementOfSeq DEF IInv, VectorSound
<1>4. ASSUME NEW s \in Seq(Links), connections' = s PROVE LoopSound'
  <2>1. Len(s) \in Nat
    BY LenProperties
  <2>2. 1 \in 0..(Len(s) + 1)
    BY <2>1
  <2> QED BY <1>1, <1>4, <2>2, CoordinatorAssumption DEF LoopSound
<1>5. CASE UNCHANGED <<connections, conn, link>>
  <2>1. PeersKnown' /\ VectorSound' /\ ConnectionsSound' /\ Noted'
    BY <1>1, <1>5, PeersUnchanged, VectorUnchanged, ConnectionsUnchanged, NotedUnchanged
       DEF peerVars, fabricVars
  <2> QED BY <1>2, <1>3, <1>4, <1>5, <2>1 DEF IInv
<1>6. CASE n < MaxConnections /\ Pending # {}
  <2> DEFINE c == Min(Pending)
  <2>1. c \in Links /\ link[c].state = "pending"
    <3>1. Pending \in SUBSET Nat /\ Pending # {}
      BY <1>6, CoordinatorAssumption DEF Pending, Links
    <3>2. c \in Pending
      BY <3>1, MinOfSet
    <3> QED BY <3>2 DEF Pending
  <2>2. /\ connections' = Append(connections, c)
        /\ conn' = [conn EXCEPT ![c].open = TRUE]
        /\ link' = [link EXCEPT ![c].state = "accepted"]
    BY <1>6 DEF Accept
  <2> HIDE DEF c
  <2>3. conn \in [Links -> Connections] /\ link \in [Links -> Peers]
    BY DEF IInv, ConnectionsSound, PeersKnown
  <2> DEFINE k == [conn[c] EXCEPT !.open = TRUE]
             l == [link[c] EXCEPT !.state = "accepted"]
  <2>3a. k \in Connections /\ k.decoder = conn[c].decoder /\ k.queues = conn[c].queues /\ k.open
    BY <2>1, <2>3 DEF Connections
  <2>3b. /\ l \in Peers /\ l.state = "accepted" /\ l.node = link[c].node
         /\ l.incarnation = link[c].incarnation
    BY <2>1, <2>3 DEF Peers
  <2>3c. conn' = [conn EXCEPT ![c] = k] /\ link' = [link EXCEPT ![c] = l]
    BY <2>2
  <2> HIDE DEF k, l
  <2>4. /\ conn' \in [Links -> Connections] /\ link' \in [Links -> Peers]
        /\ conn'[c] = k /\ link'[c] = l
        /\ \A x \in Links : x # c => conn'[x] = conn[x] /\ link'[x] = link[x]
    BY <2>1, <2>3, <2>3a, <2>3b, <2>3c
  <2>5. /\ connections' \in Seq(Links) /\ Len(connections') = n + 1
        /\ \A i \in 1..n : connections'[i] = connections[i]
        /\ connections'[n + 1] = c
    BY <1>3, <2>1, <2>2, AppendProperties
  <2> HIDE DEF n
  <2>6. DOMAIN connections' = 1..(n + 1)
    BY <2>5, LenProperties
  <2>7. 1..n \subseteq 1..(n + 1) /\ n + 1 \in 1..(n + 1) /\ \A i \in 1..(n + 1) : i \in 1..n \/ i = n + 1
    BY <1>3
  <2>8. \A x : x \in ToSet(connections') <=> x \in ToSet(connections) \/ x = c
    BY <1>3, <2>5, <2>6, <2>7 DEF ToSet
  <2>9. c \notin ToSet(connections)
    BY <2>1 DEF IInv, VectorSound
  <2>10. IsInjective(connections')
    <3> SUFFICES ASSUME NEW i \in 1..(n + 1), NEW j \in 1..(n + 1), connections'[i] = connections'[j]
                 PROVE  i = j
      BY <2>6 DEF IsInjective
    <3>1. \A a \in 1..n : connections[a] # c
      BY <1>3, <2>9 DEF ToSet
    <3>2. CASE i \in 1..n /\ j \in 1..n
      BY <1>3, <2>5, <3>2 DEF IInv, VectorSound, IsInjective
    <3>3. CASE i = n + 1 /\ j \in 1..n
      BY <2>5, <3>1, <3>3
    <3>4. CASE i \in 1..n /\ j = n + 1
      BY <2>5, <3>1, <3>4
    <3> QED BY <2>7, <3>2, <3>3, <3>4
  <2>11. Len(connections') <= MaxConnections
    BY <1>3, <1>6, <2>5, CoordinatorAssumption
  <2>12. \A x \in ToSet(connections') : link'[x].state = "accepted"
    <3>1. ToSet(connections) \subseteq Links
      BY <1>3 DEF ToSet
    <3> QED BY <2>3b, <2>4, <2>8, <3>1 DEF IInv, VectorSound
  <2>13. VectorSound'
    BY <2>5, <2>10, <2>11, <2>12 DEF VectorSound
  <2>14. PeersKnown'
    <3>1. process' = process
      BY <1>1
    <3> SUFFICES ASSUME NEW x \in Links, link'[x].state \in {"pending", "accepted"}
                 PROVE  /\ link'[x].node \in Nodes
                        /\ link'[x].incarnation \in DOMAIN process[link'[x].node]
      BY <2>4, <3>1 DEF IInv, PeersKnown
    <3>2. CASE x = c
      BY <2>1, <2>3b, <2>4, <3>2 DEF IInv, PeersKnown
    <3>3. CASE x # c
      BY <2>4, <3>3 DEF IInv, PeersKnown
    <3> QED BY <3>2, <3>3
  <2>15. ConnectionsSound'
    <3> SUFFICES ASSUME NEW x \in Links
                 PROVE  /\ Len(conn'[x].decoder) <= MaxBuffered
                        /\ IsFiniteSet(conn'[x].queues)
                        /\ conn'[x].open => x \in ToSet(connections')
      BY <2>4 DEF ConnectionsSound
    <3>1. CASE x = c
      BY <2>1, <2>3a, <2>4, <2>8, <3>1 DEF IInv, ConnectionsSound
    <3>2. CASE x # c
      BY <2>4, <2>8, <3>2 DEF IInv, ConnectionsSound
    <3> QED BY <3>1, <3>2
  <2>16. Noted'
    <3>1. UNCHANGED <<stopped, evidence>>
      BY <1>1 DEF fabricVars
    <3> SUFFICES ASSUME ~stopped, NEW q \in Queues, NEW x \in Links,
                        evidence[q].link = x, ~evidence[q].escaped
                 PROVE  conn'[x].open /\ q \in conn'[x].queues
      BY <3>1 DEF IInv, Noted, Trusts
    <3>2. conn[x].open /\ q \in conn[x].queues
      BY DEF IInv, Noted, Trusts
    <3>3. CASE x = c
      BY <2>3a, <2>4, <3>2, <3>3
    <3>4. CASE x # c
      BY <2>4, <3>2, <3>4
    <3> QED BY <3>3, <3>4
  <2> QED BY <1>2, <1>4, <2>5, <2>13, <2>14, <2>15, <2>16 DEF IInv
<1> QED BY <1>5, <1>6 DEF Accept

\* The records that stand for no peer and no connection.
LEMMA NothingType ==
  /\ NoConnection \in Connections /\ ~NoConnection.open
  /\ NoConnection.decoder = << >> /\ Len(NoConnection.decoder) = 0
  /\ NoConnection.queues = {} /\ IsFiniteSet(NoConnection.queues)
  /\ Closed \in Peers /\ Closed.state = "closed"
  /\ NoPeer \in Peers /\ NoPeer.state = "unused"
<1>1. << >> \in Seq(Frame) /\ Len(<< >>) = 0
  BY EmptySeq
<1>2. 0 \in 0..(Deadline + 1)
  BY CoordinatorAssumption
<1>3. NoConnection \in Connections
  BY <1>1, <1>2 DEF NoConnection, Connections
<1>4. /\ ~NoConnection.open /\ NoConnection.decoder = << >> /\ NoConnection.queues = {}
  BY DEF NoConnection
<1>5. NoPeer \in Peers /\ NoPeer.state = "unused"
  BY DEF NoPeer, Peers
<1>6. Closed \in Peers /\ Closed.state = "closed"
  BY <1>5 DEF Closed, Peers
<1> QED BY <1>1, <1>3, <1>4, <1>5, <1>6, FS_EmptySet

\* The end of a cycle: what has expired is distrusted and what is closed erased.
LEMMA ReapKeeps ==
  ASSUME IInv, Reap
  PROVE  IInv'
<1> DEFINE expired == {c \in ToSet(connections) : Expired(c)}
           closed  == expired \cup {c \in ToSet(connections) : ~conn[c].open}
           lost    == UNION {conn[c].queues : c \in expired}
<1>1. /\ evidence' = Distrusted(evidence, lost)
      /\ conn' = [c \in Links |-> IF c \in closed THEN NoConnection ELSE conn[c]]
      /\ link' = [c \in Links |-> IF c \in closed THEN Closed ELSE link[c]]
      /\ connections' = Remaining(connections, closed)
      /\ pc' = "accept" /\ cursor' = 0 /\ frames' = 0
      /\ UNCHANGED <<process, stopped, epoch, tracker, newest>>
  BY DEF Reap
<1>2. \A c \in ToSet(connections) \ closed : conn[c].open /\ c \notin expired
  OBVIOUS
<1>3. \A c \in expired : conn[c].queues \subseteq lost
  OBVIOUS
<1>4. expired \subseteq closed /\ \A c \in closed : c \in expired \/ ~conn[c].open
  OBVIOUS
<1> HIDE DEF expired, closed, lost
<1>5. /\ connections' \in Seq(Links) /\ Len(connections') <= Len(connections)
      /\ IsInjective(connections')
      /\ ToSet(connections') = ToSet(connections) \ closed
  BY <1>1, RemainingKeeps DEF IInv, VectorSound
<1>6. Len(connections) \in Nat /\ Len(connections') \in Nat /\ ToSet(connections) \subseteq Links
  BY <1>5, LenProperties, ElementOfSeq DEF IInv, VectorSound, ToSet
<1>7. PeersKnown'
  <2>1. link' \in [Links -> Peers]
    BY <1>1, NothingType DEF IInv, PeersKnown
  <2>2. \A c \in Links : link'[c].state \in {"pending", "accepted"} => link'[c] = link[c]
    BY <1>1, NothingType
  <2> QED BY <1>1, <2>1, <2>2 DEF IInv, PeersKnown
<1>8. VectorSound'
  <2>1. \A c \in ToSet(connections') : link'[c].state = "accepted"
    BY <1>1, <1>5, <1>6 DEF IInv, VectorSound
  <2>2. Len(connections') <= MaxConnections
    BY <1>5, <1>6, CoordinatorAssumption DEF IInv, VectorSound
  <2> QED BY <1>5, <2>1, <2>2 DEF VectorSound
<1>9. LoopSound'
  BY <1>1, <1>6, CoordinatorAssumption DEF LoopSound
<1>10. conn \in [Links -> Connections] /\ evidence \in [Queues -> [link : 0..MaxLinks, escaped : BOOLEAN]]
  BY DEF IInv, ConnectionsSound, Noted
<1>11. conn' \in [Links -> Connections]
  BY <1>1, <1>10, NothingType
<1>12. ConnectionsSound'
  <2> SUFFICES ASSUME NEW c \in Links
               PROVE  /\ Len(conn'[c].decoder) <= MaxBuffered
                      /\ IsFiniteSet(conn'[c].queues)
                      /\ conn'[c].open => c \in ToSet(connections')
    BY <1>11 DEF ConnectionsSound
  <2>1. CASE c \in closed
    <3>1. conn'[c] = NoConnection
      BY <1>1, <2>1
    <3> QED BY <3>1, NothingType, CoordinatorAssumption
  <2>2. CASE c \notin closed
    <3>1. conn'[c] = conn[c]
      BY <1>1, <2>2
    <3> QED BY <1>5, <2>2, <3>1 DEF IInv, ConnectionsSound
  <2> QED BY <2>1, <2>2
<1>13. evidence' \in [Queues -> [link : 0..MaxLinks, escaped : BOOLEAN]]
  BY <1>1, <1>10, CoordinatorAssumption DEF Distrusted, NoSample
<1>14. ASSUME ~stopped, NEW q \in Queues, NEW c \in Links, evidence'[q].link = c, ~evidence'[q].escaped
       PROVE  conn'[c].open /\ q \in conn'[c].queues
  <2>1. c # 0
    BY CoordinatorAssumption DEF Links
  <2>2. q \notin lost /\ evidence'[q] = evidence[q]
    BY <1>1, <1>14, <2>1 DEF Distrusted, NoSample
  <2>3. conn[c].open /\ q \in conn[c].queues
    BY <1>14, <2>2 DEF IInv, Noted, Trusts
  <2>4. c \notin expired
    BY <1>3, <2>2, <2>3
  <2>5. c \notin closed
    BY <1>4, <2>3, <2>4
  <2> QED BY <1>1, <2>3, <2>5
<1>15. Noted'
  BY <1>1, <1>13, <1>14 DEF IInv, Noted, Trusts
<1>16. EpochsOrdered' /\ NewestKnown'
  BY <1>1, EpochsUnchanged, NewestUnchanged
<1> QED BY <1>7, <1>8, <1>9, <1>12, <1>15, <1>16 DEF IInv

-----------------------------------------------------------------------------
(* The owner of the server, crashes, and the environment *)

\* An empty vector is sound.
LEMMA EmptyVector ==
  ASSUME connections' = << >>
  PROVE  VectorSound' /\ Len(connections') = 0
<1>1. << >> \in Seq(Links) /\ Len(<< >>) = 0
  BY EmptySeq
<1>2. DOMAIN << >> = {}
  OBVIOUS
<1> QED BY <1>1, <1>2, CoordinatorAssumption DEF VectorSound, IsInjective, ToSet

\* Fresh connections are sound.
LEMMA NoConnectionSound ==
  ASSUME conn' = [c \in Links |-> NoConnection]
  PROVE  ConnectionsSound'
<1>1. conn' \in [Links -> Connections] /\ \A c \in Links : conn'[c] = NoConnection
  BY NothingType
<1>2. Len(NoConnection.decoder) <= MaxBuffered /\ IsFiniteSet(NoConnection.queues) /\ ~NoConnection.open
  BY NothingType, CoordinatorAssumption
<1> QED BY <1>1, <1>2 DEF ConnectionsSound

\* Restored evidence is not trusted.
LEMMA NoEvidence ==
  ASSUME stopped' = FALSE, evidence' = [q \in Queues |-> NoSample]
  PROVE  Noted'
<1>1. 0 \in 0..MaxLinks /\ 0 \notin Links
  BY CoordinatorAssumption DEF Links
<1> QED BY <1>1 DEF Noted, Trusts, NoSample

\* A new epoch is ahead of every process that was started: whatever the tracker
\* has forgotten, the process of the newest sample is refused from here on.
LEMMA EpochOver ==
  ASSUME IInv, epoch < MaxEpoch, epoch' = epoch + 1,
         UNCHANGED <<process, newest>>, tracker' \in [Nodes -> Stamps]
  PROVE  EpochsOrdered' /\ NewestKnown'
<1>1. epoch \in Nat /\ epoch' \in Epochs /\ epoch < epoch'
  BY CoordinatorAssumption DEF IInv, EpochsOrdered, Epochs
<1>2. \A m \in Nodes : \A i \in DOMAIN process[m] : process[m][i] \in Nat
  BY CoordinatorAssumption, ElementOfSeq, LenProperties DEF IInv, PeersKnown, Epochs
<1>3. \A m \in Nodes : \A i \in DOMAIN process[m] : process[m][i] < epoch' /\ process[m][i] <= epoch'
  BY <1>1, <1>2 DEF IInv, EpochsOrdered
<1>4. EpochsOrdered'
  BY <1>1, <1>3 DEF IInv, EpochsOrdered
<1>5. NewestKnown'
  BY <1>3 DEF IInv, NewestKnown
<1> QED BY <1>4, <1>5

\* Closing every connection after a shutdown request: nothing is promised of
\* the evidence any more.
LEMMA StopKeeps ==
  ASSUME IInv, Stop
  PROVE  IInv'
<1>1. /\ pc = "accept" /\ stopped
      /\ conn' = [c \in Links |-> NoConnection]
      /\ link' = [c \in Links |-> IF c \in ToSet(connections) THEN Closed ELSE link[c]]
      /\ connections' = << >>
      /\ UNCHANGED <<process, pc, cursor, frames, stopped, fabricVars>>
  BY DEF Stop
<1>2. UNCHANGED <<epoch, tracker, evidence, newest>>
  BY <1>1 DEF fabricVars
<1>3. PeersKnown'
  <2>1. link' \in [Links -> Peers]
    BY <1>1, NothingType DEF IInv, PeersKnown
  <2>2. \A c \in Links : link'[c].state \in {"pending", "accepted"} => link'[c] = link[c]
    BY <1>1, NothingType
  <2> QED BY <1>1, <2>1, <2>2 DEF IInv, PeersKnown
<1>4. VectorSound'
  BY <1>1, EmptyVector
<1>5. LoopSound'
  BY <1>1 DEF IInv, LoopSound
<1>6. ConnectionsSound'
  BY <1>1, NoConnectionSound
<1>7. Noted'
  BY <1>1, <1>2 DEF IInv, Noted
<1>8. EpochsOrdered' /\ NewestKnown'
  BY <1>1, <1>2, EpochsUnchanged, NewestUnchanged
<1> QED BY <1>3, <1>4, <1>5, <1>6, <1>7, <1>8 DEF IInv

\* The owner of the server advances the epoch between two cycles.
LEMMA AdvanceEpochKeeps ==
  ASSUME IInv, AdvanceEpoch
  PROVE  IInv'
<1>1. /\ epoch < MaxEpoch /\ epoch' = epoch + 1
      /\ UNCHANGED <<peerVars, conn, loopVars, stopped, tracker, evidence, newest>>
  BY DEF AdvanceEpoch
<1>2. UNCHANGED <<process, link, connections>>
  BY <1>1 DEF peerVars, loopVars
<1>3. tracker' \in [Nodes -> Stamps]
  BY <1>1 DEF IInv, NewestKnown
<1>4. EpochsOrdered' /\ NewestKnown'
  BY <1>1, <1>2, <1>3, EpochOver
<1>5. PeersKnown' /\ VectorSound' /\ ConnectionsSound' /\ Noted'
  BY <1>1, <1>2, PeersUnchanged, VectorUnchanged, ConnectionsUnchanged, NotedUnchanged
<1>6. LoopSound'
  BY <1>1, LoopUnchanged
<1> QED BY <1>4, <1>5, <1>6 DEF IInv

\* A crash and a restart forget the sessions, the evidence and the tracker.
LEMMA RestartKeeps ==
  ASSUME IInv, Restart
  PROVE  IInv'
<1>1. /\ epoch < MaxEpoch /\ epoch' = epoch + 1 /\ stopped' = FALSE
      /\ conn' = [c \in Links |-> NoConnection]
      /\ link' = [c \in Links |-> IF link[c].state = "unused" THEN link[c] ELSE Closed]
      /\ connections' = << >> /\ pc' = "accept" /\ cursor' = 0 /\ frames' = 0
      /\ tracker' = [n \in Nodes |-> [incarnation |-> 0, sequence |-> 0]]
      /\ evidence' = [q \in Queues |-> NoSample]
      /\ UNCHANGED <<process, newest>>
  BY DEF Restart
<1>2. tracker' \in [Nodes -> Stamps]
  BY <1>1, CoordinatorAssumption DEF Stamps
<1>3. EpochsOrdered' /\ NewestKnown'
  BY <1>1, <1>2, EpochOver
<1>4. VectorSound' /\ Len(connections') = 0
  BY <1>1, EmptyVector
<1>5. ConnectionsSound'
  BY <1>1, NoConnectionSound
<1>6. LoopSound'
  BY <1>1, <1>4, CoordinatorAssumption DEF LoopSound
<1>7. PeersKnown'
  <2>1. link' \in [Links -> Peers]
    BY <1>1, NothingType DEF IInv, PeersKnown
  <2>2. \A c \in Links : link'[c].state \notin {"pending", "accepted"}
    BY <1>1, NothingType
  <2> QED BY <1>1, <2>1, <2>2 DEF IInv, PeersKnown
<1>8. Noted'
  BY <1>1, NoEvidence
<1> QED BY <1>3, <1>4, <1>5, <1>6, <1>7, <1>8 DEF IInv

\* Another process of a node has read the epoch in force, the latest so far.
LEMMA StartKeeps ==
  ASSUME IInv, NEW n \in Nodes, Start(n)
  PROVE  IInv'
<1> DEFINE s == process[n]
           u == Append(s, epoch)
           m == Len(s)
<1>1. /\ m < MaxIncarnation
      /\ process' = [process EXCEPT ![n] = u]
      /\ UNCHANGED <<link, conn, loopVars, stopped, fabricVars>>
  BY DEF Start
<1>2. UNCHANGED <<connections, epoch, tracker, evidence, newest>>
  BY <1>1 DEF loopVars, fabricVars
<1>3. process \in [Nodes -> Seq(Epochs)] /\ s \in Seq(Epochs) /\ epoch \in Epochs
  BY DEF IInv, PeersKnown, EpochsOrdered
<1>4. m \in Nat /\ DOMAIN s = 1..m
  BY <1>3, LenProperties
<1>5. /\ u \in Seq(Epochs) /\ Len(u) = m + 1 /\ u[m + 1] = epoch
      /\ \A i \in 1..m : u[i] = s[i]
  BY <1>3, AppendProperties
<1> HIDE DEF m, u
<1>6. /\ DOMAIN u = 1..(m + 1) /\ 1..m \subseteq 1..(m + 1) /\ \A i \in 1..(m + 1) : i \in 1..m \/ i = m + 1
      /\ m + 1 <= MaxIncarnation /\ \A i \in 1..m : ~(m + 1 <= i)
  BY <1>1, <1>4, <1>5, LenProperties, CoordinatorAssumption
<1> HIDE DEF s
<1>7. /\ process' \in [Nodes -> Seq(Epochs)] /\ process'[n] = u
      /\ \A x \in Nodes : x # n => process'[x] = process[x]
  BY <1>1, <1>3, <1>5
<1>8. /\ \A x \in Nodes : Len(process'[x]) <= MaxIncarnation
      /\ \A x \in Nodes : \A i \in DOMAIN process[x] :
           i \in DOMAIN process'[x] /\ process'[x][i] = process[x][i]
  <2>1. Len(process'[n]) <= MaxIncarnation /\ \A x \in Nodes : Len(process[x]) <= MaxIncarnation
    BY <1>5, <1>6, <1>7 DEF IInv, PeersKnown
  <2>2. \A i \in DOMAIN process[n] : i \in DOMAIN process'[n] /\ process'[n][i] = process[n][i]
    BY <1>4, <1>5, <1>6, <1>7 DEF s
  <2> QED BY <1>7, <2>1, <2>2
<1>9. PeersKnown'
  BY <1>1, <1>7, <1>8 DEF IInv, PeersKnown
<1>10. VectorSound' /\ ConnectionsSound' /\ Noted'
  BY <1>1, <1>2, VectorUnchanged, ConnectionsUnchanged, NotedUnchanged
<1>11. LoopSound'
  BY <1>1, LoopUnchanged
<1>12. EpochsOrdered'
  <2> SUFFICES ASSUME NEW x \in Nodes, NEW i \in DOMAIN process'[x], NEW j \in DOMAIN process'[x]
               PROVE  process'[x][i] <= epoch /\ (i <= j => process'[x][i] <= process'[x][j])
    BY <1>2, <1>3 DEF EpochsOrdered
  <2>1. CASE x # n
    BY <1>7, <2>1 DEF IInv, EpochsOrdered
  <2>2. CASE x = n
    <3>1. i \in 1..(m + 1) /\ j \in 1..(m + 1) /\ process'[x] = u
      BY <1>6, <1>7, <2>2
    <3>2. \A a, b \in 1..m : s[a] <= epoch /\ (a <= b => s[a] <= s[b])
      BY <1>4 DEF IInv, EpochsOrdered, s
    <3>3. epoch <= epoch
      BY <1>3, CoordinatorAssumption DEF Epochs
    <3>4. u[i] <= epoch
      BY <1>5, <1>6, <3>1, <3>2, <3>3
    <3>5. ASSUME i <= j PROVE u[i] <= u[j]
      <4>1. CASE j = m + 1
        BY <1>5, <3>4, <4>1
      <4>2. CASE j \in 1..m
        <5>1. i \in 1..m
          BY <1>6, <3>1, <3>5, <4>2
        <5> QED BY <1>5, <3>2, <3>5, <4>2, <5>1
      <4> QED BY <1>6, <3>1, <4>1, <4>2
    <3> QED BY <3>1, <3>4, <3>5
  <2> QED BY <2>1, <2>2
<1>13. NewestKnown'
  BY <1>2, <1>8 DEF IInv, NewestKnown, Older
<1> QED BY <1>9, <1>10, <1>11, <1>12, <1>13 DEF IInv

\* A process connects.
LEMMA ConnectKeeps ==
  ASSUME IInv, NEW c \in Links, NEW n \in Nodes, NEW i \in Incarnations, NEW role \in Roles,
         Connect(c, n, i, role)
  PROVE  IInv'
<1> DEFINE l == [state |-> "pending", node |-> n, incarnation |-> i, role |-> role, gone |-> FALSE]
<1>1. /\ link[c].state = "unused" /\ i \in DOMAIN process[n]
      /\ link' = [link EXCEPT ![c] = l]
      /\ UNCHANGED <<process, conn, loopVars, stopped, fabricVars>>
  BY DEF Connect
<1>2. UNCHANGED <<connections, epoch, tracker, evidence, newest>>
  BY <1>1 DEF loopVars, fabricVars
<1>3. l \in Peers /\ l.node = n /\ l.incarnation = i
  BY CoordinatorAssumption DEF Peers, Incarnations
<1> HIDE DEF l
<1>4. /\ link' \in [Links -> Peers] /\ link'[c] = l
      /\ \A x \in Links : x # c => link'[x] = link[x]
  BY <1>1, <1>3 DEF IInv, PeersKnown
<1>5. PeersKnown'
  BY <1>1, <1>3, <1>4 DEF IInv, PeersKnown
<1>6. VectorSound'
  <2>1. ToSet(connections) \subseteq Links /\ c \notin ToSet(connections)
    BY <1>1, LenProperties, ElementOfSeq DEF IInv, VectorSound, ToSet
  <2> QED BY <1>2, <1>4, <2>1 DEF IInv, VectorSound, ToSet, IsInjective
<1>7. LoopSound' /\ ConnectionsSound' /\ Noted' /\ EpochsOrdered' /\ NewestKnown'
  BY <1>1, <1>2, LoopUnchanged, ConnectionsUnchanged, NotedUnchanged, EpochsUnchanged, NewestUnchanged
<1> QED BY <1>5, <1>6, <1>7 DEF IInv

\* The process at the other end leaves.
LEMMA LeaveKeeps ==
  ASSUME IInv, Leave
  PROVE  IInv'
<1>1. /\ InService /\ link' = [link EXCEPT ![Serving].gone = TRUE]
      /\ UNCHANGED <<process, conn, loopVars, stopped, fabricVars>>
  BY DEF Leave
<1>2. UNCHANGED <<connections, epoch, tracker, evidence, newest>>
  BY <1>1 DEF loopVars, fabricVars
<1>3. /\ link' \in [Links -> Peers]
      /\ \A x \in Links : /\ link'[x].state = link[x].state
                           /\ link'[x].node = link[x].node
                           /\ link'[x].incarnation = link[x].incarnation
  BY <1>1 DEF IInv, PeersKnown, Peers
<1>4. PeersKnown'
  BY <1>1, <1>3 DEF IInv, PeersKnown
<1>5. VectorSound' /\ LoopSound' /\ ConnectionsSound' /\ Noted' /\ EpochsOrdered' /\ NewestKnown'
  BY <1>1, <1>2, <1>3, VectorUnchanged, LoopUnchanged, ConnectionsUnchanged, NotedUnchanged,
     EpochsUnchanged, NewestUnchanged
<1> QED BY <1>4, <1>5 DEF IInv

\* Time passes: only the ages of the sessions change, up to the deadline.
LEMMA TickKeeps ==
  ASSUME IInv, Tick
  PROVE  IInv'
<1> DEFINE Older1(c) == [conn[c] EXCEPT !.age = Min({conn[c].age + 1, Deadline + 1})]
<1>1. /\ conn' = [c \in Links |-> IF conn[c].handshaken THEN Older1(c) ELSE conn[c]]
      /\ UNCHANGED <<peerVars, loopVars, stopped, fabricVars>>
  BY DEF Tick
<1>2. UNCHANGED <<process, link, connections, epoch, tracker, evidence, newest>>
  BY <1>1 DEF peerVars, loopVars, fabricVars
<1>3. ASSUME NEW c \in Links
      PROVE  /\ conn'[c] \in Connections /\ conn'[c].open = conn[c].open
             /\ conn'[c].decoder = conn[c].decoder /\ conn'[c].queues = conn[c].queues
  <2> DEFINE a == Min({conn[c].age + 1, Deadline + 1})
  <2>1. conn[c] \in Connections
    BY DEF IInv, ConnectionsSound
  <2>2. conn[c].age \in 0..(Deadline + 1) /\ Deadline \in Nat
    BY <2>1, CoordinatorAssumption DEF Connections
  <2>3. conn[c].age + 1 \in Nat /\ Deadline + 1 \in Nat
    BY <2>2
  <2>4. a \in {conn[c].age + 1, Deadline + 1} /\ a <= Deadline + 1
    BY <2>3, MinOfPair
  <2>5. a \in 0..(Deadline + 1)
    BY <2>2, <2>3, <2>4
  <2> HIDE DEF a
  <2>6. conn'[c] = IF conn[c].handshaken THEN [conn[c] EXCEPT !.age = a] ELSE conn[c]
    BY <1>1 DEF a
  <2>7. [conn[c] EXCEPT !.age = a] \in Connections
    BY <2>1, <2>5 DEF Connections
  <2> QED BY <2>1, <2>6, <2>7 DEF Connections
<1>4. conn' \in [Links -> Connections]
  BY <1>1, <1>3
<1>5. ConnectionsSound'
  BY <1>2, <1>3, <1>4 DEF IInv, ConnectionsSound, ToSet
<1>6. Noted'
  BY <1>1, <1>2, <1>3 DEF IInv, Noted, Trusts
<1>7. pc = "decode" => conn'[Serving].decoder = conn[Serving].decoder
  <2>1. pc = "decode" => Serving \in Links
    BY ServingKnown DEF IInv, LoopSound
  <2> QED BY <1>3, <2>1
<1>8. LoopSound'
  BY <1>1, <1>7, LoopUnchanged
<1>9. PeersKnown' /\ VectorSound' /\ EpochsOrdered' /\ NewestKnown'
  BY <1>1, <1>2, PeersUnchanged, VectorUnchanged, EpochsUnchanged, NewestUnchanged
<1> QED BY <1>5, <1>6, <1>8, <1>9 DEF IInv

-----------------------------------------------------------------------------
(* The theorems *)

\* The invariant holds initially.
LEMMA InitInv == Init => IInv
<1> SUFFICES ASSUME Init PROVE IInv
  OBVIOUS
<1> DEFINE first == <<1>>
           none  == [incarnation |-> 0, sequence |-> 0]
<1>1. 1 \in Epochs /\ none \in Stamps /\ none.incarnation = 0 /\ none.sequence = 0
  BY CoordinatorAssumption DEF Epochs, Stamps
<1>2. first \in Seq(Epochs) /\ Len(first) = 1 /\ first[1] = 1 /\ DOMAIN first = {1}
  BY <1>1
<1>3. process \in [Nodes -> Seq(Epochs)] /\ \A n \in Nodes : process[n] = first
  BY <1>2 DEF Init
<1>4. tracker = [n \in Nodes |-> none] /\ newest = [n \in Nodes |-> none]
  BY DEF Init
<1> HIDE DEF first, none
<1>5. PeersKnown
  <2>1. link \in [Links -> Peers] /\ \A c \in Links : link[c].state \notin {"pending", "accepted"}
    BY NothingType DEF Init
  <2>2. \A n \in Nodes : Len(process[n]) <= MaxIncarnation
    <3>1. 1 <= MaxIncarnation
      BY CoordinatorAssumption
    <3> QED BY <1>2, <1>3, <3>1
  <2> QED BY <1>3, <2>1, <2>2 DEF PeersKnown
<1>6. VectorSound
  <2>1. connections = << >> /\ << >> \in Seq(Links) /\ Len(<< >>) = 0 /\ DOMAIN << >> = {}
    BY EmptySeq DEF Init
  <2> QED BY <2>1, CoordinatorAssumption DEF VectorSound, IsInjective, ToSet
<1>7. LoopSound
  <2>1. pc = "accept" /\ cursor = 0 /\ frames = 0 /\ Len(connections) = 0
    BY EmptySeq DEF Init
  <2> QED BY <2>1, CoordinatorAssumption DEF LoopSound
<1>8. ConnectionsSound
  <2>1. conn \in [Links -> Connections] /\ \A c \in Links : conn[c] = NoConnection
    BY NothingType DEF Init
  <2>2. Len(NoConnection.decoder) <= MaxBuffered /\ IsFiniteSet(NoConnection.queues) /\ ~NoConnection.open
    BY NothingType, CoordinatorAssumption
  <2> QED BY <2>1, <2>2 DEF ConnectionsSound
<1>9. Noted
  <2>1. 0 \in 0..MaxLinks /\ 0 \notin Links
    BY CoordinatorAssumption DEF Links
  <2>2. stopped = FALSE /\ evidence = [q \in Queues |-> NoSample]
    BY DEF Init
  <2> QED BY <2>1, <2>2 DEF Noted, Trusts, NoSample
<1>10. EpochsOrdered
  <2>1. epoch = 1
    BY DEF Init
  <2> QED BY <1>1, <1>2, <1>3, <2>1 DEF EpochsOrdered
<1>11. NewestKnown
  BY <1>1, <1>4 DEF NewestKnown
<1> QED BY <1>5, <1>6, <1>7, <1>8, <1>9, <1>10, <1>11 DEF IInv

\* Every step of the coordinator and of its environment keeps it.
LEMMA NextInv == IInv /\ [Next]_vars => IInv'
<1> SUFFICES ASSUME IInv, [Next]_vars PROVE IInv'
  OBVIOUS
<1>1. CASE RunOnce
  <2>1. CASE HandleFrame
    BY <2>1, AnsweredKeeps, HandleBrokenKeeps, HandleHelloKeeps, HandleOccupancyKeeps,
       HandleMutationKeeps DEF HandleFrame
  <2>2. CASE \E received \in Bursts, last \in BOOLEAN : Receive(received, last)
    BY <2>2, ReceiveKeeps
  <2> QED BY <1>1, <2>1, <2>2, AcceptKeeps, SkipKeeps, HandleBrokenKeeps, ReapKeeps DEF RunOnce
<1>2. CASE Environment
  <2>1. CASE \E n \in Nodes : Start(n)
    BY <2>1, StartKeeps
  <2>2. CASE \E c \in Links, n \in Nodes, i \in Incarnations, role \in Roles : Connect(c, n, i, role)
    BY <2>2, ConnectKeeps
  <2> QED BY <1>2, <2>1, <2>2, LeaveKeeps DEF Environment
<1>3. CASE UNCHANGED vars
  <2>1. UNCHANGED <<peerVars, process, link, conn, connections, loopVars, stopped,
                    epoch, tracker, evidence, newest>>
    BY <1>3 DEF vars, peerVars, loopVars, fabricVars
  <2>2. PeersKnown' /\ VectorSound' /\ LoopSound' /\ ConnectionsSound'
    BY <2>1, PeersUnchanged, VectorUnchanged, LoopUnchanged, ConnectionsUnchanged
  <2>3. Noted' /\ EpochsOrdered' /\ NewestKnown'
    BY <2>1, NotedUnchanged, EpochsUnchanged, NewestUnchanged
  <2> QED BY <2>2, <2>3 DEF IInv
<1> QED BY <1>1, <1>2, <1>3, StopKeeps, AdvanceEpochKeeps, RestartKeeps, TickKeeps DEF Next

\* So it holds in every state of every behaviour.
LEMMA Invariance == Spec => []IInv
<1> QED BY InitInv, NextInv, PTL DEF Spec

\* The invariant says what the run checks of every variable.
LEMMA InvType == IInv => TypeOK
<1> SUFFICES ASSUME IInv PROVE TypeOK
  OBVIOUS
<1>1. process \in [Nodes -> Seq(Epochs)]
  BY DEF IInv, PeersKnown
<1>2. ASSUME NEW c \in Links
      PROVE  /\ conn[c].decoder \in Seq(Frame) /\ Len(conn[c].decoder) <= MaxBuffered
             /\ link[c].state \in {"pending", "accepted"} =>
                  link[c].incarnation \in DOMAIN process[link[c].node]
             /\ conn[c].queues \subseteq Queues /\ conn[c].age \in 0..(Deadline + 1)
             /\ conn[c].open => c \in ToSet(connections)
  <2>1. conn[c] \in Connections
    BY DEF IInv, ConnectionsSound
  <2>2. conn[c].decoder \in Seq(Frame) /\ conn[c].queues \subseteq Queues
    BY <2>1 DEF Connections
  <2>3. conn[c].age \in 0..(Deadline + 1)
    BY <2>1 DEF Connections
  <2>4. Len(conn[c].decoder) <= MaxBuffered /\ (conn[c].open => c \in ToSet(connections))
    BY DEF IInv, ConnectionsSound
  <2> QED BY <2>2, <2>3, <2>4 DEF IInv, PeersKnown
<1>3. Len(connections) <= MaxConnections /\ IsInjective(connections)
  BY DEF IInv, VectorSound
<1>4. /\ pc \in {"accept", "service", "decode"}
      /\ cursor \in 0..(Len(connections) + 1) /\ frames \in 0..MaxFrames
      /\ pc = "decode" => cursor \in DOMAIN connections
  BY DEF IInv, LoopSound
<1>5. epoch \in Epochs /\ stopped \in BOOLEAN
  BY DEF IInv, EpochsOrdered, Noted
<1>6. tracker \in [Nodes -> [incarnation : 0..MaxIncarnation, sequence : 0..MaxSequence]]
  BY DEF IInv, NewestKnown, Stamps
<1> QED BY <1>1, <1>2, <1>3, <1>4, <1>5, <1>6 DEF TypeOK

\* For any number of nodes, sockets and frames and any limits: decoders and the
\* vector keep to their bounds, every socket in use leads to a process that was
\* started, and a frame is only ever decoded of a connection in the vector.
THEOREM TypeCorrect == Spec => []TypeOK
BY Invariance, InvType, PTL

\* No trusted sample came over a connection that the running coordinator has
\* closed, by a disconnect, a full decoder, a broken stream, a failed reply or
\* the deadline, unless it escaped the bookkeeping when it was taken.
THEOREM LossIsDistrusted == Spec => []LossDistrusted
<1>1. IInv => LossDistrusted
  BY DEF IInv, Noted, LossDistrusted
<1> QED BY <1>1, Invariance, PTL

\* A step that replaces the newest sample of a node takes one that is newer.
LEMMA NewestStep ==
  ASSUME IInv, [Next]_vars, NEW n \in Nodes, newest'[n] # newest[n]
  PROVE  Older(newest[n], newest'[n])
<1>1. HandleOccupancy
  <2>1. newest' # newest
    OBVIOUS
  <2>2. CASE RunOnce
    BY <2>1, <2>2 DEF RunOnce, HandleFrame, HandleMalformed, HandleBroken, HandleEarly, HandleHello,
       HandleHeartbeat, HandleMutation, HandleStats, HandleShutdown, Accept, Skip, ReceiveNothing,
       Receive, Reap, fabricVars
  <2>3. CASE Environment
    BY <2>1, <2>3 DEF Environment, Start, Connect, Leave, fabricVars
  <2> QED BY <2>1, <2>2, <2>3 DEF Next, Stop, AdvanceEpoch, Restart, Tick, vars, fabricVars
<1> DEFINE c == Serving
           f == Head(conn[c].decoder)
<1>2. pc = "decode" /\ f.type = "occupancy_batch"
  BY <1>1 DEF HandleOccupancy, NextFrame
<1>3. f \in Frame /\ f.type \in Requests
  BY <1>1, <1>2, FrontFrame DEF Requests, HandleOccupancy
<1>4. c \in Links /\ link[c].state = "accepted"
  BY <1>2, ServiceCursor, ServingKnown
<1>5. Takes(c, f) /\ newest' = [newest EXCEPT ![link[c].node] = Stamp(c, f)]
  BY <1>1 DEF HandleOccupancy
<1> HIDE DEF c, f
<1>6. link[c].node \in Nodes /\ Older(newest[link[c].node], Stamp(c, f))
  BY <1>3, <1>4, <1>5, TakenIsNewer
<1>7. newest \in [Nodes -> Stamps]
  BY DEF IInv, NewestKnown
<1>8. n = link[c].node /\ newest'[n] = Stamp(c, f)
  BY <1>5, <1>6, <1>7
<1> QED BY <1>6, <1>8

\* A sample replaces evidence only if it is newer than every sample ever taken
\* from that node, for any number of processes and connections of the node, any
\* order in which they are served, any number of epochs and of restarts.
THEOREM NewestSampleWins == Spec => NewestWins
<1>1. IInv /\ [Next]_vars =>
        [\A n \in Nodes : newest'[n] # newest[n] => Older(newest[n], newest'[n])]_vars
  BY NewestStep
<1> QED BY <1>1, Invariance, PTL DEF Spec, NewestWins
=============================================================================
