---------------------------- MODULE MemoryContract ----------------------------
(* What memory-constrained execution promises the process it runs in: every   *)
(* byte is charged before the buffer exists, the charges never exceed the     *)
(* budget, a buffer the GPU may touch stays charged, and the engine is        *)
(* declared reusable only when nothing is charged or in use.                  *)
EXTENDS Integers, FiniteSetsExt

CONSTANT Buffer

VARIABLES
    budget,   \* bytes the request may charge
    charged,  \* buffer -> bytes charged for it
    used,     \* buffers the GPU may touch
    verdict   \* "none" until the request ends, then "reusable" or "quarantined"

contractVars == <<budget, charged, used, verdict>>

Sum(S) == MapThenSumSet(LAMBDA b : charged[b], S)

Init ==
    /\ budget \in Nat
    /\ charged = [b \in Buffer |-> 0]
    /\ used = {}
    /\ verdict = "none"

Charge(b, n) ==
    /\ verdict = "none"
    /\ charged[b] = 0 /\ n <= budget - Sum(Buffer)
    /\ charged' = [charged EXCEPT ![b] = n]
    /\ UNCHANGED <<budget, used, verdict>>

\* The buffer turned out smaller than its reservation.
Shrink(b, n) ==
    /\ n <= charged[b]
    /\ charged' = [charged EXCEPT ![b] = n]
    /\ UNCHANGED <<budget, used, verdict>>

Discharge(b) ==
    /\ b \notin used
    /\ charged' = [charged EXCEPT ![b] = 0]
    /\ UNCHANGED <<budget, used, verdict>>

\* Commands are committed and end.
Execute(S) ==
    /\ \A b \in S : charged[b] > 0
    /\ used' = S
    /\ UNCHANGED <<budget, charged, verdict>>

Judge(v) ==
    /\ verdict = "none" /\ verdict' = v
    /\ v = "reusable" => used = {} /\ \A b \in Buffer : charged[b] = 0
    /\ UNCHANGED <<budget, charged, used>>

Next ==
    \/ \E b \in Buffer, n \in 1 .. budget : Charge(b, n) \/ Shrink(b, n)
    \/ \E b \in Buffer : Discharge(b)
    \/ \E S \in SUBSET Buffer : Execute(S)
    \/ \E v \in {"reusable", "quarantined"} : Judge(v)

Spec == Init /\ [][Next]_contractVars
===============================================================================
