----------------------------- MODULE MemoryLedger -----------------------------
(* The byte ledger of one memory-constrained request: MemoryLedger,           *)
(* MemoryReservation and StorageLease of                                      *)
(* src/native/runtime/memory_accounting.cpp.  A token stands for the bridge   *)
(* token of one GPU buffer (H3MemoryToken): it holds a reservation, then an   *)
(* active lease, then possibly a pending release, and is free again once      *)
(* nothing is charged for it.  A buffer has a handle of its own, so a storage *)
(* has one reference and is identified with its token; the cache              *)
(* (StorageLease::cache, reactivate_cached, drop_cached) has no caller in the *)
(* runtime and is left out.                                                   *)
EXTENDS MemoryPlan

CONSTANTS
    Token,      \* buffers that may exist at the same time
    Plans,      \* plans of a request: [instances, schedule, explicit]
    Baseline,   \* bytes of the process when the request is admitted
    NoInstance  \* the allocation site of a token that charges nothing

\* The budget of the ledger: MemoryAdmission takes the framework's share off
\* the planned increment, which leaves the baseline and the peak of the plan.
Ceiling(p) == Baseline + PeakBytes(p.instances)

\* Every plan is one compile_memory_plan accepts.
ASSUME PlanAssumption ==
    /\ Baseline \in Nat
    /\ IsFiniteSet(Token)
    /\ \A p \in Plans :
           /\ IsFiniteSet(p.instances) /\ ManifestValid(p.instances)
           /\ p.schedule # <<>> => p.explicit /\ ScheduleValid(p.schedule, p.instances)
           /\ \A i \in p.instances : {i.id, i.upper, i.begin, i.end} \subseteq Nat
           /\ NoInstance \notin p.instances

VARIABLES
    plan,            \* compiled_plan_
    alloc,           \* token -> what it charges: [status, inst, upper, bytes]
    reserved_bytes,  \* state_->reserved_bytes
    storage_bytes    \* state_->storage_bytes

ledgerVars == <<plan, alloc, reserved_bytes, storage_bytes>>

Status == {"free", "reserved", "active", "pending"}
FreeToken == [status |-> "free", inst |-> NoInstance, upper |-> 0, bytes |-> 0]

Tokens(status) == {t \in Token : alloc[t].status = status}
Occupying == {t \in Token : alloc[t].status # "free"}
Occupied == {alloc[t].inst : t \in Occupying}

LedgerInit ==
    /\ plan \in Plans
    /\ alloc = [t \in Token |-> FreeToken]
    /\ reserved_bytes = 0
    /\ storage_bytes = 0

-------------------------------------------------------------------------------
(* checked_committed, and what try_reserve_site asks of the manifest before   *)
(* it looks at the budget.                                                    *)

Committed == Baseline + reserved_bytes + storage_bytes

InstancesOf(site) == {i \in plan.instances : i.site = site}

\* The site has an instance left and bytes left of its aggregate upper bound.
SiteOpen(site, n) ==
    LET here == {t \in Occupying : alloc[t].inst.site = site}
    IN  /\ Cardinality(here) < Cardinality(InstancesOf(site))
        /\ n + MapThenSumSet(LAMBDA t : alloc[t].upper, here)
              <= MapThenSumSet(LAMBDA i : i.upper, InstancesOf(site))

Candidates(site, n, e) ==
    {i \in InstancesOf(site) \ Occupied : i.begin <= e /\ e < i.end /\ n <= i.upper}

\* The smallest instance that is large enough, the lowest number of those.
Selected(site, n, e) ==
    CHOOSE i \in Candidates(site, n, e) : \A j \in Candidates(site, n, e) :
        i.upper < j.upper \/ (i.upper = j.upper /\ i.id <= j.id)

AliasFree(i) == i.alias # 0 => \A j \in Occupied : j.alias # i.alias

\* The manifest allows the reservation at epoch e.
Permits(site, n, e) ==
    /\ SiteOpen(site, n)
    /\ Candidates(site, n, e) # {}
    /\ AliasFree(Selected(site, n, e))

\* Wrong on purpose: an epoch is entered whatever is still charged.
ValidEpochUnchecked(e) == e \in Nat

\* validate_site_epoch: nothing charged has outlived its interval.
ValidEpoch(e) == \A i \in Occupied : e < i.end

-------------------------------------------------------------------------------
(* The operations.                                                            *)

\* Wrong on purpose: a committed or cancelled reservation stays charged.
ReservationKept(t) == reserved_bytes

WithoutReservation(t) == reserved_bytes - alloc[t].bytes

WithoutStorage(t) == storage_bytes - alloc[t].bytes

\* MemoryLedger::try_reserve_site, when it returns a reservation.
Reserve(t, site, n, e) ==
    /\ alloc[t].status = "free"
    /\ Permits(site, n, e)
    /\ Committed <= Ceiling(plan)
    /\ n <= Ceiling(plan) - Committed
    /\ alloc' = [alloc EXCEPT ![t] =
           [status |-> "reserved", inst |-> Selected(site, n, e),
            upper |-> n, bytes |-> n]]
    /\ reserved_bytes' = reserved_bytes + n
    /\ UNCHANGED <<plan, storage_bytes>>

\* MemoryReservation::commit: the buffer has its real size.
Commit(t, actual) ==
    /\ alloc[t].status = "reserved"
    /\ actual <= alloc[t].bytes
    /\ reserved_bytes >= alloc[t].bytes
    /\ alloc' = [alloc EXCEPT ![t].status = "active", ![t].bytes = actual]
    /\ reserved_bytes' = WithoutReservation(t)
    /\ storage_bytes' = storage_bytes + actual
    /\ UNCHANGED plan

\* MemoryReservation::cancel.
CancelReservation(t) ==
    /\ alloc[t].status = "reserved"
    /\ reserved_bytes >= alloc[t].bytes
    /\ alloc' = [alloc EXCEPT ![t] = FreeToken]
    /\ reserved_bytes' = WithoutReservation(t)
    /\ UNCHANGED <<plan, storage_bytes>>

\* erase_storage_if_unreferenced: the storage of t is no longer charged.
EraseStorage(t) ==
    /\ storage_bytes >= alloc[t].bytes
    /\ alloc' = [alloc EXCEPT ![t] = FreeToken]
    /\ storage_bytes' = WithoutStorage(t)
    /\ UNCHANGED <<plan, reserved_bytes>>

\* StorageLease::release, also when a lease is destroyed.
Release(t) == alloc[t].status = "active" /\ EraseStorage(t)

\* StorageLease::retire, of every token of S in turn.
Retire(S) ==
    /\ \A t \in S : alloc[t].status = "active"
    /\ alloc' = [t \in Token |->
           IF t \in S THEN [alloc[t] EXCEPT !.status = "pending"] ELSE alloc[t]]
    /\ UNCHANGED <<plan, reserved_bytes, storage_bytes>>

\* MemoryLedger::complete_pending.
CompletePending(t) == alloc[t].status = "pending" /\ EraseStorage(t)

-------------------------------------------------------------------------------
(* Properties.                                                                *)

LedgerTypeOK ==
    /\ plan \in Plans
    /\ alloc \in [Token -> [status : Status,
                            inst : plan.instances \union {NoInstance},
                            upper : Nat, bytes : Nat]]
    /\ reserved_bytes \in Nat
    /\ storage_bytes \in Nat

\* The bytes promised and the bytes committed stay within the budget together,
\* whatever is reserved, shrunk, cancelled, retired and completed in between
\* (memory_accounting.cpp:548-552).
WithinBudget == Committed <= Ceiling(plan)
===============================================================================
