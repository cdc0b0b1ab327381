---------------------------- MODULE Coordinator -----------------------------
(***************************************************************************)
(* The single-threaded coordinator service: run_once accepts a connection, *)
(* receives and handles the frames of every connection in turn, enforces   *)
(* the liveness deadline and reaps what was closed.  Its environment are   *)
(* worker processes, which may be superseded, hang or die at any moment,   *)
(* their sockets, the clock, the owner of the server, who advances the     *)
(* epoch between two cycles, and crashes.                                  *)
(*                                                                         *)
(* A received frame is whole (FrameDecoder has the bytes) and a sample is  *)
(* what makes it acceptable: its process, its sequence number and its      *)
(* epoch.  Governance has what the fabric makes of the sample beyond that, *)
(* Attempts what it makes of a repeated one.  A send never blocks: the     *)
(* socket buffer takes the replies.                                        *)
(***************************************************************************)
EXTENDS Naturals, FiniteSetsExt, SequencesExt

CONSTANTS
  Nodes, Queues,
  Frames,          \* the kinds of frames that peers send
  Roles,           \* the roles they claim: a subset of {"worker", "monitor"}
  MaxConnections,  \* config.max_connections
  MaxFrames,       \* config.max_frames_per_cycle
  MaxBuffered,     \* the bound of a decoder, in frames
  MaxSubscribed,   \* limits::kMaxSubscribeQueues
  Deadline,        \* config.heartbeat_deadline
  MaxLinks, MaxBurst, MaxIncarnation, MaxSequence, MaxEpoch   \* bounds

VARIABLES
  process,      \* node -> the epoch that each of its incarnations has read
  link,         \* socket -> the process at its other end
  conn,         \* socket -> Connection
  connections,  \* the vector of accepted sockets
  pc,           \* "accept", "service" or "decode"
  cursor, frames,   \* the connection in service, frames_this_cycle
  epoch, stopped,
  tracker,      \* ProvenanceTracker: node -> last incarnation and sequence
  evidence,     \* queue -> the connection its trusted sample came over, if any
  newest        \* history: node -> the newest sample ever accepted from it

peerVars   == <<process, link>>
loopVars   == <<connections, pc, cursor, frames>>
fabricVars == <<epoch, tracker, evidence, newest>>
vars == <<peerVars, conn, loopVars, stopped, fabricVars>>

-----------------------------------------------------------------------------

Links        == 1..MaxLinks
Incarnations == 1..MaxIncarnation
Epochs       == 1..MaxEpoch

ASSUME CoordinatorAssumption ==
  /\ MaxConnections \in Nat /\ MaxFrames \in Nat \ {0} /\ MaxBuffered \in Nat
  /\ MaxSubscribed \in Nat /\ Deadline \in Nat \ {0}
  /\ MaxLinks \in Nat /\ MaxBurst \in Nat /\ MaxSequence \in Nat
  /\ MaxIncarnation \in Nat \ {0} /\ MaxEpoch \in Nat \ {0}
  /\ Roles \subseteq {"worker", "monitor"}
  /\ Frames \subseteq {"hello", "heartbeat", "occupancy_batch", "mutation", "stats_request", "shutdown",
                       "malformed", "broken"}

Requests == {"occupancy_batch", "mutation"}

Frame ==
  [type : Frames \ Requests, sequence : {0}, queue : {0}]
  \cup [type : Frames \cap Requests, sequence : 1..MaxSequence, queue : Queues]

NoPeer == [state |-> "unused", node |-> 0, incarnation |-> 0, role |-> "none", gone |-> FALSE]

Closed == [NoPeer EXCEPT !.state = "closed"]

\* struct Connection; age is the time since last_activity, up to one more than
\* the deadline.
NoConnection == [open |-> FALSE, decoder |-> << >>, handshaken |-> FALSE, queues |-> {}, age |-> 0]

NoSample == [link |-> 0, escaped |-> FALSE]

Init ==
  /\ process = [n \in Nodes |-> <<1>>]
  /\ link = [c \in Links |-> NoPeer]
  /\ conn = [c \in Links |-> NoConnection]
  /\ connections = << >> /\ pc = "accept" /\ cursor = 0 /\ frames = 0
  /\ epoch = 1 /\ stopped = FALSE
  /\ tracker = [n \in Nodes |-> [incarnation |-> 0, sequence |-> 0]]
  /\ newest = tracker
  /\ evidence = [q \in Queues |-> NoSample]

-----------------------------------------------------------------------------
(* Worker processes and their sockets.  The coordinator looks at a socket  *)
(* only when it serves it and at its backlog only when it accepts, so that *)
(* is when the steps of its peers are taken: earlier would look the same.  *)

EpochOf(c) == process[link[c].node][link[c].incarnation]

\* The node starts another process, which reads the epoch in force; its earlier
\* processes may linger.
Start(n) ==
  /\ pc = "accept"
  /\ Len(process[n]) < MaxIncarnation
  /\ process' = [process EXCEPT ![n] = Append(@, epoch)]
  /\ UNCHANGED <<link, conn, loopVars, stopped, fabricVars>>

\* TcpTransport::connect
Connect(c, n, i, role) ==
  /\ pc = "accept"
  /\ link[c].state = "unused"
  /\ \A earlier \in 1..(c - 1) : link[earlier].state # "unused"
  /\ i \in DOMAIN process[n]
  /\ link' = [link EXCEPT ![c] = [state |-> "pending", node |-> n, incarnation |-> i,
                                 role |-> role, gone |-> FALSE]]
  /\ UNCHANGED <<process, conn, loopVars, stopped, fabricVars>>

Serving == connections[cursor]

InService == pc = "service" /\ cursor <= Len(connections)

\* The process closes its socket or dies.
Leave ==
  /\ InService /\ ~link[Serving].gone
  /\ link' = [link EXCEPT ![Serving].gone = TRUE]
  /\ UNCHANGED <<process, conn, loopVars, stopped, fabricVars>>

\* The age of a session that has not said hello makes no difference.
Tick ==
  /\ conn' = [c \in Links |-> IF conn[c].handshaken THEN [conn[c] EXCEPT !.age = Min({@ + 1, Deadline + 1})]
                              ELSE conn[c]]
  /\ conn' # conn
  /\ UNCHANGED <<peerVars, loopVars, stopped, fabricVars>>

-----------------------------------------------------------------------------
(* handle_disconnect and the replies *)

\* invalidate_evidence, for every queue of qs
Distrusted(ev, qs) == [q \in Queues |-> IF q \in qs THEN NoSample ELSE ev[q]]

\* Mutant: the evidence is left alone.
Lost_trusting(k, ev) == [conn |-> [k EXCEPT !.open = FALSE], evidence |-> ev]

\* Closing the connection k distrusts what it published, once.
Lost(k, ev) ==
  [conn     |-> [k EXCEPT !.open = FALSE],
   evidence |-> IF k.open THEN Distrusted(ev, k.queues) ELSE ev]

Disconnect(c) ==
  LET lost == Lost(conn[c], evidence) IN
  /\ conn' = [conn EXCEPT ![c] = lost.conn]
  /\ evidence' = lost.evidence

\* handle_message ends with a reply, which fails on a closed transport and may
\* fail once the peer has gone: then the connection is closed.
Reply(c, k, ev) ==
  \/ k.open /\ conn' = [conn EXCEPT ![c] = k] /\ evidence' = ev
  \/ LET lost == Lost(k, ev) IN
     /\ ~k.open \/ link[c].gone
     /\ conn' = [conn EXCEPT ![c] = lost.conn]
     /\ evidence' = lost.evidence

-----------------------------------------------------------------------------
(* run_once *)

\* Move on to the next connection.
MoveOn == pc' = "service" /\ cursor' = cursor + 1 /\ frames' = 0 /\ UNCHANGED connections

Pending == {c \in Links : link[c].state = "pending"}

Accept ==
  /\ pc = "accept" /\ ~stopped
  /\ IF Len(connections) < MaxConnections /\ Pending # {}
     THEN LET c == Min(Pending) IN
          /\ connections' = Append(connections, c)
          /\ conn' = [conn EXCEPT ![c].open = TRUE]
          /\ link' = [link EXCEPT ![c].state = "accepted"]
     ELSE UNCHANGED <<connections, conn, link>>
  /\ pc' = "service" /\ cursor' = 1 /\ frames' = 0
  /\ UNCHANGED <<process, stopped, fabricVars>>

MayReceive == InService /\ conn[Serving].open /\ frames < MaxFrames

\* Nothing is readable, or no more may be read in this cycle.
Skip ==
  /\ InService
  /\ MayReceive => ~link[Serving].gone
  /\ MoveOn
  /\ UNCHANGED <<peerVars, conn, stopped, fabricVars>>

\* The end of the stream, or a reset.
ReceiveNothing ==
  /\ MayReceive /\ link[Serving].gone
  /\ Disconnect(Serving)
  /\ MoveOn
  /\ UNCHANGED <<peerVars, stopped, epoch, tracker, newest>>

\* Mutant: off by one against the bound.
Fits_late(c, received) == Len(conn[c].decoder) + Len(received) <= MaxBuffered + 1

\* FrameDecoder::push; frames that an earlier cycle left in the decoder count.
Fits(c, received) == Len(conn[c].decoder) + Len(received) <= MaxBuffered

\* receive and push of what the peer has sent, possibly its last.
Receive(received, last) ==
  LET c == Serving IN
  /\ MayReceive /\ ~link[c].gone
  /\ link' = [link EXCEPT ![c].gone = last]
  /\ \/ /\ Fits(c, received)
        /\ conn' = [conn EXCEPT ![c].decoder = @ \o received]
        /\ pc' = "decode"
        /\ UNCHANGED <<cursor, frames, connections, evidence>>
     \/ /\ ~Fits(c, received)
        /\ Disconnect(c)
        /\ MoveOn
  /\ UNCHANGED <<process, stopped, epoch, tracker, newest>>

\* Mutant: frames_this_cycle stays as it is.
Counted_never(n) == n

Counted(n) == n + 1

\* The next frame is one of a type in types.  Decoding goes on with what is
\* left, up to the frames of a cycle.
NextFrame(types) ==
  /\ pc = "decode"
  /\ Head(conn[Serving].decoder).type \in types
  /\ frames' = Counted(frames)
  /\ pc' = IF frames' < MaxFrames /\ Len(conn[Serving].decoder) > 1 THEN "decode" ELSE "service"
  /\ UNCHANGED <<peerVars, connections, cursor>>

Popped(c) == [conn[c] EXCEPT !.decoder = Tail(@)]

\* handle_message notes the activity of its connection before anything else.
Heard(c) == [Popped(c) EXCEPT !.age = 0]

\* A body that cannot be decoded is answered, whether or not that works.
HandleMalformed ==
  /\ NextFrame({"malformed"})
  /\ conn' = [conn EXCEPT ![Serving] = Popped(Serving)]
  /\ UNCHANGED <<stopped, fabricVars>>

\* The decoder fails: no frame of this connection is decoded any more.
HandleBroken ==
  /\ pc = "decode" /\ Head(conn[Serving].decoder).type = "broken"
  /\ Disconnect(Serving)
  /\ MoveOn
  /\ UNCHANGED <<peerVars, stopped, epoch, tracker, newest>>

HandleEarly ==
  /\ NextFrame(Frames \ {"hello", "malformed", "broken"})
  /\ ~conn[Serving].handshaken
  /\ Reply(Serving, Heard(Serving), evidence)
  /\ UNCHANGED <<stopped, epoch, tracker, newest>>

\* Only the sessions that are still in the vector are compared.
CanAdmit(c) ==
  /\ link[c].role = "worker" => EpochOf(c) = epoch
  /\ \A other \in ToSet(connections) :
       conn[other].handshaken /\ link[other].node = link[c].node
         => link[c].incarnation >= link[other].incarnation

HandleHello ==
  LET c == Serving IN
  /\ NextFrame({"hello"})
  /\ Reply(c, [Heard(c) EXCEPT !.handshaken = @ \/ CanAdmit(c)], evidence)
  /\ UNCHANGED <<stopped, epoch, tracker, newest>>

HandleHeartbeat ==
  LET c == Serving IN
  /\ NextFrame({"heartbeat"})
  /\ conn[c].handshaken
  /\ IF EpochOf(c) # epoch
     THEN Reply(c, Heard(c), evidence)
     ELSE conn' = [conn EXCEPT ![c] = Heard(c)] /\ UNCHANGED evidence
  /\ UNCHANGED <<stopped, epoch, tracker, newest>>

\* Mutant: a superseded incarnation is not recognised.
Classify_sequence(c, f) ==
  LET t == tracker[link[c].node] IN link[c].incarnation # t.incarnation \/ f.sequence > t.sequence

\* ProvenanceTracker::classify on the provenance of a request.
Classify(c, f) ==
  LET t == tracker[link[c].node]
      i == link[c].incarnation
  IN i > t.incarnation \/ (i = t.incarnation /\ f.sequence > t.sequence)

\* The fabric takes the request f, made in the epoch of its process.
Takes(c, f) == EpochOf(c) = epoch /\ Classify(c, f)

Stamp(c, f) == [incarnation |-> link[c].incarnation, sequence |-> f.sequence]

\* The queue is noted for invalidation, unless there are too many.
Subscribed(k, q) ==
  IF q \in k.queues \/ Cardinality(k.queues) < MaxSubscribed
  THEN [k EXCEPT !.queues = @ \cup {q}]
  ELSE k

\* A sample escapes the invalidation if its connection is closed already, or
\* has too many queues to note this one.
HandleOccupancy ==
  LET c == Serving
      f == Head(conn[c].decoder)
      k == Subscribed(Heard(c), f.queue)
  IN
  /\ NextFrame({"occupancy_batch"})
  /\ conn[c].handshaken
  /\ IF Takes(c, f)
     THEN /\ conn' = [conn EXCEPT ![c] = k]
          /\ tracker' = [tracker EXCEPT ![link[c].node] = Stamp(c, f)]
          /\ newest' = [newest EXCEPT ![link[c].node] = Stamp(c, f)]
          /\ evidence' = [evidence EXCEPT ![f.queue] =
                            [link    |-> c,
                             escaped |-> \/ ~conn[c].open
                                         \/ Cardinality(conn[c].queues \cup {f.queue}) > MaxSubscribed]]
     ELSE /\ conn' = [conn EXCEPT ![c] = Heard(c)]
          /\ UNCHANGED <<tracker, evidence, newest>>
  /\ UNCHANGED <<stopped, epoch>>

\* A mutation that is itself an ingest_occupancy is taken as one that sets no
\* evidence: it notes its queue as a batch does, and reports are sent in batches.
HandleMutation ==
  LET c == Serving
      f == Head(conn[c].decoder)
  IN
  /\ NextFrame({"mutation"})
  /\ conn[c].handshaken
  /\ tracker' = IF Takes(c, f) THEN [tracker EXCEPT ![link[c].node] = Stamp(c, f)] ELSE tracker
  /\ Reply(c, IF Takes(c, f) THEN Subscribed(Heard(c), f.queue) ELSE Heard(c), evidence)
  /\ UNCHANGED <<stopped, epoch, newest>>

\* A message of a type that peers do not send is answered in the same way.
HandleStats ==
  /\ NextFrame({"stats_request"})
  /\ conn[Serving].handshaken
  /\ Reply(Serving, Heard(Serving), evidence)
  /\ UNCHANGED <<stopped, epoch, tracker, newest>>

HandleShutdown ==
  /\ NextFrame({"shutdown"})
  /\ conn[Serving].handshaken
  /\ stopped' = TRUE
  /\ conn' = [conn EXCEPT ![Serving] = Heard(Serving)]
  /\ UNCHANGED fabricVars

\* Mutant: the deadline never expires.
Expired_never(c) == FALSE

\* Only a session that has said hello expires.
Expired(c) == conn[c].open /\ conn[c].handshaken /\ conn[c].age > Deadline

\* What is left of the vector, in its order, once the closed are erased.
Remaining(s, closed) ==
  LET Kept[i \in 0..Len(s)] ==
        IF i = 0 THEN << >>
        ELSE IF s[i] \in closed THEN Kept[i - 1] ELSE Append(Kept[i - 1], s[i])
  IN Kept[Len(s)]

\* Liveness and reaping end the cycle.
Reap ==
  LET expired == {c \in ToSet(connections) : Expired(c)}
      closed  == expired \cup {c \in ToSet(connections) : ~conn[c].open}
  IN
  /\ pc = "service" /\ cursor > Len(connections)
  /\ evidence' = Distrusted(evidence, UNION {conn[c].queues : c \in expired})
  /\ conn' = [c \in Links |-> IF c \in closed THEN NoConnection ELSE conn[c]]
  /\ link' = [c \in Links |-> IF c \in closed THEN Closed ELSE link[c]]
  /\ connections' = Remaining(connections, closed)
  /\ pc' = "accept" /\ cursor' = 0 /\ frames' = 0
  /\ UNCHANGED <<process, stopped, epoch, tracker, newest>>

\* After a shutdown request the owner of the server closes everything.
Stop ==
  /\ pc = "accept" /\ stopped /\ connections # << >>
  /\ conn' = [c \in Links |-> NoConnection]
  /\ link' = [c \in Links |-> IF c \in ToSet(connections) THEN Closed ELSE link[c]]
  /\ connections' = << >>
  /\ UNCHANGED <<process, pc, cursor, frames, stopped, fabricVars>>

\* Sessions and evidence stay, and the notices change nothing here.  The server
\* can do so once it knows the owner of a resource, its embedding program always.
AdvanceEpoch ==
  /\ pc = "accept" /\ ~stopped
  /\ epoch < MaxEpoch
  /\ epoch' = epoch + 1
  /\ UNCHANGED <<peerVars, conn, loopVars, stopped, tracker, evidence, newest>>

\* The coordinator dies, wherever it is, and another one starts: restored
\* evidence is not trusted, and the sockets are reset.
Restart ==
  /\ epoch < MaxEpoch
  /\ epoch' = epoch + 1
  /\ stopped' = FALSE
  /\ conn' = [c \in Links |-> NoConnection]
  /\ link' = [c \in Links |-> IF link[c].state = "unused" THEN link[c] ELSE Closed]
  /\ connections' = << >> /\ pc' = "accept" /\ cursor' = 0 /\ frames' = 0
  /\ tracker' = [n \in Nodes |-> [incarnation |-> 0, sequence |-> 0]]
  /\ evidence' = [q \in Queues |-> NoSample]
  /\ UNCHANGED <<process, newest>>

-----------------------------------------------------------------------------

HandleFrame ==
  \/ HandleMalformed
  \/ HandleBroken
  \/ HandleEarly
  \/ HandleHello
  \/ HandleHeartbeat
  \/ HandleOccupancy
  \/ HandleMutation
  \/ HandleStats
  \/ HandleShutdown

Bursts == UNION {[1..n -> Frame] : n \in 1..MaxBurst}

RunOnce ==
  \/ Accept
  \/ Skip
  \/ ReceiveNothing
  \/ \E received \in Bursts, last \in BOOLEAN : Receive(received, last)
  \/ HandleFrame
  \/ Reap

Environment ==
  \/ \E n \in Nodes : Start(n)
  \/ \E c \in Links, n \in Nodes, i \in Incarnations, role \in Roles : Connect(c, n, i, role)
  \/ Leave

Next == RunOnce \/ Stop \/ AdvanceEpoch \/ Restart \/ Environment \/ Tick

\* The loop of the coordinator program runs cycle after cycle, and time passes.
Spec == Init /\ [][Next]_vars /\ WF_vars(RunOnce) /\ WF_vars(Tick)

-----------------------------------------------------------------------------
(* Properties *)

TypeOK ==
  /\ process \in [Nodes -> Seq(Epochs)]
  /\ \A c \in Links :
       /\ conn[c].decoder \in Seq(Frame) /\ Len(conn[c].decoder) <= MaxBuffered
       /\ link[c].state \in {"pending", "accepted"} => link[c].incarnation \in DOMAIN process[link[c].node]
       /\ conn[c].queues \subseteq Queues /\ conn[c].age \in 0..(Deadline + 1)
       /\ conn[c].open => c \in ToSet(connections)
  /\ Len(connections) <= MaxConnections /\ IsInjective(connections)
  /\ pc \in {"accept", "service", "decode"}
  /\ cursor \in 0..(Len(connections) + 1) /\ frames \in 0..MaxFrames
  /\ pc = "decode" => cursor \in DOMAIN connections
  /\ epoch \in Epochs /\ stopped \in BOOLEAN
  /\ tracker \in [Nodes -> [incarnation : 0..MaxIncarnation, sequence : 0..MaxSequence]]

Trusts(q, c) == evidence[q].link = c

\* README, Distributed operation: on loss the coordinator invalidates the
\* evidence that worker published.  No trusted sample came over a connection
\* that the running coordinator has closed, for whatever reason and however the
\* same queue was published by others, unless it escaped the bookkeeping.
LossDistrusted ==
  ~stopped => \A q \in Queues, c \in Links :
                Trusts(q, c) /\ ~evidence[q].escaped => conn[c].open

Older(a, b) == a.incarnation < b.incarnation \/ (a.incarnation = b.incarnation /\ a.sequence < b.sequence)

\* A sample replaces evidence only if it is newer than every sample ever taken
\* from that node: no superseded process and no delayed frame of an earlier
\* connection is believed again, in whichever order the connections are served,
\* after epoch advances and after restarts, which forget the tracker.
NewestWins ==
  [][\A n \in Nodes : newest'[n] # newest[n] => Older(newest[n], newest'[n])]_vars

\* Every cycle of run_once ends, whatever the peers send.
CyclesEnd == []<>(pc = "accept")

\* README: worker loss is detected by connection close or liveness deadline.
\* Evidence stays trusted for ever only if the coordinator hears from its
\* connection for ever: that of a worker that left, died or hangs is eventually
\* distrusted, however busy the other peers keep the coordinator.
LossDetected ==
  \A q \in Queues, c \in Links :
    \/ []<>(~Trusts(q, c) \/ evidence[q].escaped \/ stopped)
    \/ []<>(pc = "decode" /\ Serving = c)

-----------------------------------------------------------------------------
(* What the repository says of this state and the code does not keep *)

\* README: on loss the coordinator invalidates the evidence that worker
\* published instead of trusting it.
LossAlwaysDistrusted ==
  ~stopped => \A q \in Queues, c \in Links : Trusts(q, c) => conn[c].open
=============================================================================
