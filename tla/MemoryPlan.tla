------------------------------ MODULE MemoryPlan ------------------------------
(* The plan a memory-constrained request is admitted with                     *)
(* (src/native/runtime/memory_manifest.cpp, memory_plan.cpp,                  *)
(* memory_schedule.cpp): a manifest of allocation instances, each with an     *)
(* upper bound of its bytes and the half-open interval of epochs it lives in, *)
(* the peak they can reach, and the schedule of events that drives the        *)
(* epochs.  Pure operators; an instance is a record                           *)
(*   [site, id, upper, begin, end, alias],  alias = 0 when it aliases nothing *)
(* and a binding of the schedule is a record                                  *)
(*   [key, epoch, safe, drained, terminal].                                   *)
EXTENDS Integers, Sequences, FiniteSets, FiniteSetsExt

\* MemoryManifest::validate: the identities are distinct, no lifetime or upper
\* bound is empty, and members of an alias group never live at the same time.
ManifestValid(M) ==
    /\ \A i \in M : i.upper > 0 /\ i.begin < i.end
    /\ \A i, j \in M : i # j =>
           /\ <<i.site, i.id>> # <<j.site, j.id>>
           /\ i.alias # 0 /\ i.alias = j.alias =>
                  i.end <= j.begin \/ j.end <= i.begin

\* The epochs of the plan: 0 and every boundary of a lifetime.
Epochs(M) == {0} \union {i.begin : i \in M} \union {i.end : i \in M}

\* What is live at an epoch: releases are applied before acquisitions.
LiveAt(M, e) == {i \in M : i.begin <= e /\ e < i.end}

AliasKey(i) == IF i.alias = 0 THEN <<0, i.site, i.id>> ELSE <<i.alias, "", 0>>

\* live_bytes: an alias group is backed once, by its largest live member.
LiveBytes(S) ==
    MapThenSumSet(
        LAMBDA k : Max({i.upper : i \in {j \in S : AliasKey(j) = k}}),
        {AliasKey(i) : i \in S})

\* compile_memory_plan: the largest live set over the epochs of the plan.
PeakBytes(M) == Max({0} \union {LiveBytes(LiveAt(M, e)) : e \in Epochs(M)})

\* compile_memory_schedule: the events a session must emit, in order.
ScheduleValid(s, M) ==
    /\ s # <<>> /\ s[Len(s)].terminal
    /\ \A n \in DOMAIN s :
           /\ s[n].epoch \in Epochs(M)
           /\ s[n].drained => s[n].safe
           /\ s[n].terminal => s[n].drained /\ n = Len(s)
           /\ \A m \in 1 .. n - 1 : s[m].epoch <= s[n].epoch /\ s[m].key # s[n].key
===============================================================================
