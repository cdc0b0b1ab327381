---------------------------- MODULE MCGovernance ----------------------------
(***************************************************************************)
(* Small instances of Governance.  Each run names the operations that can  *)
(* disturb its properties in Workload, so that its state space is spent on *)
(* their interleavings.                                                    *)
(***************************************************************************)
EXTENDS Governance

\* A revocation that leaves only the right to fence.
MCCapabilitySets == {{"fence_queue"}}

\* Honest and dishonest evidence: absent or present records, backend 1 with
\* its first or a wrong incarnation, the first or the second epoch.
MCEvidence ==
  [records : {1}, request_accepted : {TRUE}, reported_drained : BOOLEAN,
   backend : {0, 1}, incarnation : {1}, epoch : {0, 1, 2}, zero_observed : {FALSE, TRUE}]

NoEvidence == {}

EvidenceWorkload ==
  { "declare_queue", "ingest_occupancy", "rebind_class", "set_thresholds", "declare_class",
    "declare_pool", "advance_epoch", "invalidate_evidence", "refresh_freshness", "shutdown",
    "restart" }

DrainWorkload ==
  { "declare_queue", "validate_queue", "activate_queue", "ingest_occupancy", "request_drain",
    "cancel_drain", "submit_drain_evidence", "quiesce_queue", "retire_queue", "fail_queue",
    "acknowledge_backend", "register_backend", "mark_backend_dead", "rebind_class",
    "declare_class", "restart" }

FenceWorkload ==
  { "declare_queue", "fail_queue", "ingest_occupancy", "fence_queue", "unfence_queue",
    "retire_queue", "transfer_ownership", "grant_capabilities", "restart" }
=============================================================================
