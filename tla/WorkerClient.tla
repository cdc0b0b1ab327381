---------------------------- MODULE WorkerClient ----------------------------
(***************************************************************************)
(* WorkerClient, the worker's end of the protocol: one call at a time,     *)
(* each of which sends a request and reads messages until one of the       *)
(* expected type, or an error, is its result.  Its program calls it in any *)
(* order; the coordinator answers in order, announces epochs and may close *)
(* the connection.                                                         *)
(*                                                                         *)
(* A call has a number, which the coordinator's response carries back (the *)
(* attempt of a mutation) and which the client does not look at.  A        *)
(* message arrives whole; FrameDecoder has the bytes.                      *)
(***************************************************************************)
EXTENDS Naturals, SequencesExt

CONSTANTS MaxCalls, MaxConnections, MaxEpoch, MaxFlight   \* bounds

VARIABLES
  open,       \* the transport is open
  number,     \* the number of this connection
  closed,     \* the coordinator has closed its end
  admitted, coordinator_epoch,
  decoder,    \* messages received and not yet decoded
  up, down,   \* the messages in flight
  call,       \* the call in progress, or Idle
  reading,    \* await has received and decodes what it has
  calls,      \* how many calls were made
  results,    \* history: call -> what it returned
  skewed,     \* history: a call of this connection ended with an error message
  epoch, handshaken,   \* the coordinator's epoch and session
  outcome     \* history: call -> what the coordinator made of it

clientVars == <<open, number, admitted, coordinator_epoch, decoder, call, reading, calls, results, skewed>>
coordVars  == <<closed, epoch, handshaken, outcome>>
vars == <<clientVars, coordVars, up, down>>

-----------------------------------------------------------------------------

Calls  == 1..MaxCalls
Epochs == 1..MaxEpoch

ASSUME ClientAssumption ==
  MaxCalls \in Nat /\ MaxConnections \in Nat /\ MaxEpoch \in Nat \ {0} /\ MaxFlight \in Nat

\* The epoch the worker was configured with, WorkerConfig::epoch, for good.
ConfigEpoch == 1

Requests == {"hello", "mutation", "stats_request"}

\* The type of message each call waits for.
Expected == [hello |-> "hello_ack", mutation |-> "mutation_response", stats_request |-> "stats_response"]

Idle == [type |-> "idle", id |-> 0]

Request(type, id) == [type |-> type, id |-> id, connection |-> number]

\* ok: admitted, applied, or simply answered.
Message(type, id, ok) == [type |-> type, id |-> id, connection |-> number, ok |-> ok, epoch |-> epoch]

Pending == [kind |-> "pending", id |-> 0, connection |-> 0, ok |-> FALSE]

Failed == [kind |-> "failed", id |-> 0, connection |-> number, ok |-> FALSE]

Init ==
  /\ open = FALSE /\ number = 0 /\ closed = FALSE
  /\ admitted = FALSE /\ coordinator_epoch = 0
  /\ decoder = << >> /\ up = << >> /\ down = << >>
  /\ call = Idle /\ reading = FALSE /\ calls = 0
  /\ results = [c \in Calls |-> Pending]
  /\ skewed = FALSE
  /\ epoch = 1 /\ handshaken = FALSE
  /\ outcome = [c \in Calls |-> "none"]

-----------------------------------------------------------------------------
(* The client's program *)

\* Mutant: what the last connection left behind is kept.
Cleared_kept(d) == d

\* FrameDecoder::reset
Cleared(d) == << >>

\* Also replaces a transport that is open; admitted is left as it was.
Connect ==
  /\ call = Idle
  /\ number < MaxConnections
  /\ open' = TRUE /\ number' = number + 1 /\ closed' = FALSE
  /\ decoder' = Cleared(decoder) /\ up' = << >> /\ down' = << >>
  /\ handshaken' = FALSE /\ skewed' = FALSE
  /\ UNCHANGED <<admitted, coordinator_epoch, call, reading, calls, results, epoch, outcome>>

\* handshake, send_mutation and request_stats
Start(type) ==
  /\ call = Idle /\ open
  /\ calls < MaxCalls /\ Len(up) < MaxFlight
  /\ calls' = calls + 1
  /\ up' = Append(up, Request(type, calls + 1))
  /\ call' = [type |-> type, id |-> calls + 1]
  /\ reading' = FALSE
  /\ UNCHANGED <<open, number, admitted, coordinator_epoch, decoder, results, skewed, coordVars, down>>

\* The request cannot be sent: the connection is gone.
StartFails ==
  /\ call = Idle /\ open /\ closed
  /\ calls < MaxCalls
  /\ calls' = calls + 1
  /\ results' = [results EXCEPT ![calls + 1] = Failed]
  /\ UNCHANGED <<open, number, admitted, coordinator_epoch, decoder, call, reading, skewed, coordVars,
                 up, down>>

\* publish, send_heartbeat and send_shutdown do not wait for anything.
Send(type) ==
  /\ call = Idle /\ open
  /\ type = "occupancy_batch" => admitted
  /\ Len(up) < MaxFlight
  /\ up' = Append(up, Request(type, 0))
  /\ UNCHANGED <<clientVars, coordVars, down>>

\* close(), which makes no difference to a call in progress: there is none.
Close ==
  /\ call = Idle /\ open
  /\ open' = FALSE /\ admitted' = FALSE
  /\ UNCHANGED <<number, coordinator_epoch, decoder, call, reading, calls, results, skewed, coordVars,
                 up, down>>

-----------------------------------------------------------------------------
(* await *)

Return(result) ==
  /\ results' = [results EXCEPT ![call.id] = result]
  /\ call' = Idle /\ reading' = FALSE

\* What is left in the decoder is looked at only after more has arrived.
AwaitReceive(n) ==
  /\ call # Idle /\ ~reading
  /\ n <= Len(down)
  /\ decoder' = decoder \o SubSeq(down, 1, n)
  /\ down' = SubSeq(down, n + 1, Len(down))
  /\ reading' = TRUE
  /\ UNCHANGED <<open, number, admitted, coordinator_epoch, call, calls, results, skewed, coordVars, up>>

AwaitMore ==
  /\ call # Idle /\ reading /\ decoder = << >>
  /\ reading' = FALSE
  /\ UNCHANGED <<open, number, admitted, coordinator_epoch, decoder, call, calls, results, skewed,
                 coordVars, up, down>>

AwaitClosed ==
  /\ call # Idle /\ ~reading
  /\ closed /\ down = << >>
  /\ open' = FALSE
  /\ Return(Failed)
  /\ UNCHANGED <<number, admitted, coordinator_epoch, decoder, calls, skewed, coordVars, up, down>>

\* A reset loses what was in flight, and leaves the transport open.
AwaitReset ==
  /\ call # Idle /\ ~reading
  /\ closed
  /\ down' = << >>
  /\ Return(Failed)
  /\ UNCHANGED <<open, number, admitted, coordinator_epoch, decoder, calls, skewed, coordVars, up>>

TakesNext == call # Idle /\ reading /\ decoder # << >> /\ decoder' = Tail(decoder)

\* The first message of the expected type is the result, whichever call it
\* answers.
AwaitAnswer ==
  LET m == Head(decoder) IN
  /\ TakesNext
  /\ m.type = Expected[call.type]
  /\ Return([kind |-> "answer", id |-> m.id, connection |-> m.connection, ok |-> m.ok])
  /\ admitted' = IF m.type = "hello_ack" THEN m.ok ELSE admitted
  /\ coordinator_epoch' = IF m.type = "hello_ack" THEN m.epoch ELSE coordinator_epoch
  /\ UNCHANGED <<open, number, calls, skewed, coordVars, up, down>>

\* Mutant: an error message is passed over like a notice.
IsError_never(m) == FALSE

\* handle_notice: an error message ends the call, whatever it is about.
IsError(m) == m.type = "error_message"

AwaitError ==
  /\ TakesNext
  /\ Head(decoder).type # Expected[call.type] /\ IsError(Head(decoder))
  /\ Return([kind |-> "error", id |-> 0, connection |-> Head(decoder).connection, ok |-> FALSE])
  /\ skewed' = TRUE
  /\ UNCHANGED <<open, number, admitted, coordinator_epoch, calls, coordVars, up, down>>

\* Mutant: the notice is taken for one more than the epoch in force.
Notified_ahead(m) == IF m.type = "epoch_advance" THEN m.epoch + 1 ELSE coordinator_epoch

\* Mutant: a notice sets the epoch the worker was configured with.
Notified_config(m) == ConfigEpoch

Notified(m) == IF m.type = "epoch_advance" THEN m.epoch ELSE coordinator_epoch

AwaitNotice ==
  /\ TakesNext
  /\ Head(decoder).type # Expected[call.type] /\ ~IsError(Head(decoder))
  /\ coordinator_epoch' = Notified(Head(decoder))
  /\ UNCHANGED <<open, number, admitted, call, reading, calls, results, skewed, coordVars, up, down>>

Await ==
  \/ \E n \in 1..MaxFlight : AwaitReceive(n)
  \/ AwaitMore
  \/ AwaitClosed
  \/ AwaitReset
  \/ AwaitAnswer
  \/ AwaitError
  \/ AwaitNotice

-----------------------------------------------------------------------------
(* The coordinator, as this connection sees it *)

Serving == open /\ ~closed

\* handle_message, which answers every request in turn.  A heartbeat carries
\* the configured epoch and is answered only when that is superseded.
Handle ==
  LET m == Head(up) IN
  /\ Serving /\ up # << >> /\ Len(down) < MaxFlight
  /\ up' = Tail(up)
  /\ \/ /\ m.type # "hello" /\ ~handshaken
        /\ down' = Append(down, Message("error_message", 0, FALSE))
        /\ UNCHANGED <<handshaken, outcome>>
     \/ /\ m.type = "hello"
        /\ handshaken' = (handshaken \/ epoch = ConfigEpoch)
        /\ down' = Append(down, Message("hello_ack", m.id, epoch = ConfigEpoch))
        /\ UNCHANGED outcome
     \/ /\ m.type = "heartbeat" /\ handshaken
        /\ down' = IF epoch = ConfigEpoch THEN down ELSE Append(down, Message("error_message", 0, FALSE))
        /\ UNCHANGED <<handshaken, outcome>>
     \/ /\ m.type = "mutation" /\ handshaken
        /\ \E applied \in BOOLEAN :
             /\ outcome' = [outcome EXCEPT ![m.id] = IF applied THEN "applied" ELSE "refused"]
             /\ down' = Append(down, Message("mutation_response", m.id, applied))
        /\ UNCHANGED handshaken
     \/ /\ m.type = "stats_request" /\ handshaken
        /\ down' = Append(down, Message("stats_response", m.id, TRUE))
        /\ UNCHANGED <<handshaken, outcome>>
     \/ /\ m.type \in {"occupancy_batch", "shutdown"} /\ handshaken
        /\ UNCHANGED <<down, handshaken, outcome>>
  /\ UNCHANGED <<clientVars, closed, epoch>>

AdvanceEpoch ==
  /\ epoch < MaxEpoch /\ Len(down) < MaxFlight
  /\ epoch' = epoch + 1
  /\ down' = IF Serving THEN Append(down, [Message("epoch_advance", 0, TRUE) EXCEPT !.epoch = epoch + 1])
             ELSE down
  /\ UNCHANGED <<clientVars, closed, handshaken, outcome, up>>

\* The coordinator closes the connection: a deadline, a failure, a crash, or a
\* shutdown, which it is free to delay.
CloseByCoordinator ==
  /\ Serving
  /\ closed' = TRUE /\ up' = << >>
  /\ UNCHANGED <<clientVars, epoch, handshaken, outcome, down>>

Next ==
  \/ Connect
  \/ \E type \in Requests : Start(type)
  \/ StartFails
  \/ \E type \in {"heartbeat", "occupancy_batch", "shutdown"} : Send(type)
  \/ Close
  \/ Await
  \/ Handle
  \/ AdvanceEpoch
  \/ CloseByCoordinator

\* await blocks in receive until there is something to receive, and the
\* coordinator serves every connection in every cycle.
Spec == Init /\ [][Next]_vars /\ WF_vars(Await) /\ WF_vars(Handle)

-----------------------------------------------------------------------------
(* Properties *)

TypeOK ==
  /\ {open, closed, admitted, reading, skewed, handshaken} \subseteq BOOLEAN
  /\ coordinator_epoch \in 0..MaxEpoch /\ epoch \in Epochs
  /\ call.type \in Requests \cup {"idle"} /\ call.id \in 0..calls
  /\ call # Idle => open
  /\ calls \in 0..MaxCalls /\ number \in 0..MaxConnections
  /\ coordinator_epoch <= epoch

\* A call that gets an answer gets its own, from this connection, whatever
\* arrived together, was left over or was announced in between, as long as no
\* earlier call of the connection was ended by an error message.
AnswersOwnCall ==
  [][\A c \in Calls :
       results'[c] # results[c] /\ results'[c].kind = "answer" /\ ~skewed => results'[c].id = c]_vars

\* An answer or an error that ends a call came over the connection the call was
\* made on, also after errors: nothing of an earlier connection is left over.
AnswersThisConnection ==
  [][\A c \in Calls : results'[c] # results[c] => results'[c].connection = number]_vars

\* The epoch the client reports follows the coordinator's: it never goes back,
\* over notices, late answers and reconnections.
EpochFollows == [][coordinator_epoch' >= coordinator_epoch]_vars

\* Every call returns, with an answer, an error or the end of the connection.
CallReturns == \A c \in Calls : (call.id = c) ~> (call.id # c)

-----------------------------------------------------------------------------
(* What the repository says of this state and the code does not keep *)

\* worker.hpp: the client never reports a mutation as applied without a response
\* from the coordinator.
AppliedReported ==
  \A c \in Calls : results[c].kind = "answer" /\ results[c].ok /\ outcome[c] # "none"
                     => outcome[c] = "applied"
=============================================================================
