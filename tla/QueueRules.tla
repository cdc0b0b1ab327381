----------------------------- MODULE QueueRules -----------------------------
(***************************************************************************)
(* The pure decision functions of Queue Fabric: the lifecycle table, the   *)
(* authority evaluation, occupancy freshness, drain assessment and backend *)
(* verification.  Each takes plain values and returns a decision; the C++  *)
(* functions also return a status code and the name of the rule that       *)
(* decided, which no property here tells apart.                            *)
(*                                                                         *)
(* Identifiers and counters are naturals, 0 being the C++ invalid value.   *)
(***************************************************************************)
EXTENDS Naturals

-----------------------------------------------------------------------------
(* Lifecycle and applicability (lifecycle.hpp, lifecycle.cpp)              *)

Lifecycles ==
  {"declared", "validated", "active", "draining", "quiesced", "retired", "failed"}

Applicabilities == {"stale", "fenced"}

\* The complete transition table; whatever is not listed is refused.
kRules ==
  { <<"declared", "validated">>, <<"declared", "retired">>, <<"declared", "failed">>,
    <<"validated", "active">>,   <<"validated", "retired">>, <<"validated", "failed">>,
    <<"active", "draining">>,    <<"active", "failed">>,
    <<"draining", "quiesced">>,  <<"draining", "active">>,  <<"draining", "failed">>,
    <<"quiesced", "active">>,    <<"quiesced", "retired">>, <<"quiesced", "failed">>,
    <<"failed", "retired">> }

\* Mutant: the table is read in either direction.
check_transition_both_ways(from, to) ==
  from = to \/ <<from, to>> \in kRules \/ <<to, from>> \in kRules

check_transition(from, to) == from = to \/ <<from, to>> \in kRules

-----------------------------------------------------------------------------
(* Authority (authority.cpp, mutation.cpp)                                 *)

Capabilities ==
  { "declare_topology", "declare_queue", "validate_queue", "activate_queue",
    "rebind_class", "set_thresholds", "ingest_occupancy", "request_drain",
    "submit_evidence", "quiesce_queue", "retire_queue", "fence_queue",
    "unfence_queue", "fail_queue", "transfer_ownership", "acknowledge_backend",
    "admin" }

\* Most kinds need the capability of their own name.
required_capability(kind) ==
  CASE kind = "cancel_drain"          -> "request_drain"
    [] kind = "submit_drain_evidence" -> "submit_evidence"
    [] OTHER                          -> kind

\* Mutant: the fence stage is missing.
authorize_ignoring_fence(granted, required, presented, current, flags, lifecycle) ==
  /\ presented = current
  /\ required \in granted
  /\ lifecycle \in {"retired", "failed"} => required \in {"retire_queue", "admin"}

\* Mutant: the terminal lifecycle stage is missing.
authorize_ignoring_lifecycle(granted, required, presented, current, flags, lifecycle) ==
  /\ presented = current
  /\ required \in granted
  /\ "fenced" \in flags => required \in {"unfence_queue", "admin"}

\* The four stages of authorize(), in the order the code evaluates them.
authorize(granted, required, presented, current, flags, lifecycle) ==
  /\ presented = current
  /\ required \in granted
  /\ "fenced" \in flags => required \in {"unfence_queue", "admin"}
  /\ lifecycle \in {"retired", "failed"} => required \in {"retire_queue", "admin"}

-----------------------------------------------------------------------------
(* Occupancy freshness (occupancy.cpp)                                     *)

Freshnesses ==
  { "unknown", "fresh", "stale_age", "stale_restart", "stale_generation",
    "stale_epoch", "future_timestamp", "stale_backend" }

occupancy_age(now, observed_at) ==
  IF observed_at >= now THEN 0 ELSE now - observed_at

\* Mutant: an epoch change is not sticky.
is_sticky_within_epoch(reason) == reason \in {"stale_restart", "stale_backend"}

is_sticky(reason) == reason \in {"stale_restart", "stale_epoch", "stale_backend"}

\* o is an occupancy state; the policy is max_age and max_future_skew, with
\* require_generation_match at its default, true.
classify_freshness(o, now, max_age, max_future_skew, generation) ==
  IF ~o.present THEN "unknown"
  ELSE IF is_sticky(o.freshness) THEN o.freshness
  ELSE IF o.generation # generation THEN "stale_generation"
  ELSE IF o.observed_at > now /\ o.observed_at - now > max_future_skew THEN "future_timestamp"
  ELSE IF max_age > 0 /\ occupancy_age(now, o.observed_at) > max_age THEN "stale_age"
  ELSE "fresh"

\* Overwrites whatever reason was recorded before, a sticky one included.
invalidate_occupancy(o, reason) ==
  [o EXCEPT !.freshness = IF o.present THEN reason ELSE "unknown"]

-----------------------------------------------------------------------------
(* Backend verification (backend.cpp) and drain assessment (drain.cpp).    *)
(* "live" is the incarnation of the live registry entry that               *)
(* find_live_backend returned for the named backend, 0 for a null pointer. *)

\* Mutant: the class binding is not compared.
verify_any_class(a, backend, live, epoch, generation, cls) ==
  /\ a.known /\ live # 0 /\ a.backend = backend /\ a.incarnation = live
  /\ a.epoch = epoch /\ a.generation = generation

verify_backend_applied(a, backend, live, epoch, generation, cls) ==
  /\ a.known
  /\ live # 0
  /\ a.backend = backend
  /\ a.incarnation = live
  /\ a.epoch = epoch
  /\ a.generation = generation
  /\ a.cls = cls

in_progress(d) == d.phase \in {"requested", "evidence_pending"}

assess_drain(d, o, live, epoch, max_age, now) ==
  \/ d.phase = "completed"
  \/ /\ d.phase # "idle"
     /\ d.revalidated
     /\ d.records # 0
     /\ d.request_accepted
     /\ d.reported_drained
     /\ d.epoch = epoch
     /\ live # 0
     /\ d.incarnation = live
     /\ d.zero_observed
     /\ o.present
     /\ o.freshness = "fresh"
     /\ o.level = 0
     /\ o.observed_at >= d.requested_at
     /\ max_age > 0 => occupancy_age(now, o.observed_at) <= max_age
=============================================================================
