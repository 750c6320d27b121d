----------------------------- MODULE MCServices -----------------------------
(***************************************************************************)
(* The services around a request that share no state with one another,     *)
(* side by side for TLC: the initial state says which of them runs.        *)
(***************************************************************************)
EXTENDS CapacityLeases, ProviderHealth, Approvals, AuditLog, TLC

CONSTANTS c1, c2, c3, c4, cli, free, p1, p2, r1, r2, e1, e2

\* Two calls of a group of one slot, one of an unlimited group, one of none.
MCGroupOf == c1 :> cli @@ c2 :> cli @@ c3 :> free @@ c4 :> Ungrouped
MCLimit == cli :> 1 @@ free :> 0

\* Each process writes an event, the second one from its event loop.
MCHome == e1 :> p1 @@ e2 :> p2

VARIABLE running

Init ==
    /\ LeaseInit /\ HealthInit /\ ApprovalInit /\ AuditInit
    /\ running \in {"leases", "health", "approvals", "audit"}
    /\ scoped => running = "health"

Leases == running = "leases" /\ LeaseNext /\ UNCHANGED <<running, healthVars, approvalVars, auditVars>>
Health == running = "health" /\ HealthNext /\ UNCHANGED <<running, leaseVars, approvalVars, auditVars>>
Approving == running = "approvals" /\ ApprovalNext /\ UNCHANGED <<running, leaseVars, healthVars, auditVars>>
Auditing == running = "audit" /\ AuditNext /\ UNCHANGED <<running, leaseVars, healthVars, approvalVars>>

Next == Leases \/ Health \/ Approving \/ Auditing

Spec == Init /\ [][Next]_<<running, leaseVars, healthVars, approvalVars, auditVars>>

\* Each service keeps to the types of its variables (lease counts, windows and
\* runs of failures, approvals, lines of the audit log).
ServicesTypeOK == LeaseTypeOK /\ HealthTypeOK /\ ApprovalTypeOK /\ AuditTypeOK
=============================================================================
