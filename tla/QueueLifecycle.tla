--------------------------- MODULE QueueLifecycle ---------------------------
(***************************************************************************)
(* What the fabric promises about one queue to an observer who sees only   *)
(* its lifecycle, whether it is fenced, and its definition generation: the *)
(* transition table is the only way to move, a fence freezes lifecycle and *)
(* definition until it is lifted, generations grow by one, and a queue     *)
(* that has left service is never redefined or fenced again.               *)
(***************************************************************************)
EXTENDS QueueRules

CONSTANT Queues

VARIABLES lifecycle, fenced, generation

lvars == <<lifecycle, fenced, generation>>

InService(q) == lifecycle[q] \notin {"undeclared", "retired", "failed"}

Init ==
  /\ lifecycle = [q \in Queues |-> "undeclared"]
  /\ fenced = [q \in Queues |-> FALSE]
  /\ generation = [q \in Queues |-> 0]

Declare(q) ==
  /\ lifecycle[q] = "undeclared"
  /\ lifecycle' = [lifecycle EXCEPT ![q] = "declared"]
  /\ generation' = [generation EXCEPT ![q] = 1]
  /\ UNCHANGED fenced

Move(q, to) ==
  /\ ~fenced[q]
  /\ <<lifecycle[q], to>> \in kRules
  /\ lifecycle' = [lifecycle EXCEPT ![q] = to]
  /\ UNCHANGED <<fenced, generation>>

Redefine(q) ==
  /\ ~fenced[q] /\ InService(q)
  /\ generation' = [generation EXCEPT ![q] = @ + 1]
  /\ UNCHANGED <<lifecycle, fenced>>

Fence(q) ==
  /\ ~fenced[q] /\ InService(q)
  /\ fenced' = [fenced EXCEPT ![q] = TRUE]
  /\ UNCHANGED <<lifecycle, generation>>

Unfence(q) ==
  /\ fenced[q]
  /\ fenced' = [fenced EXCEPT ![q] = FALSE]
  /\ UNCHANGED <<lifecycle, generation>>

Next ==
  \E q \in Queues :
    \/ Declare(q)
    \/ \E to \in Lifecycles : Move(q, to)
    \/ Redefine(q)
    \/ Fence(q)
    \/ Unfence(q)

Spec == Init /\ [][Next]_lvars
=============================================================================
