------------------------------- MODULE JobProofs -------------------------------
(* Proofs about JobService, for any set of jobs, any length of the queue and    *)
(* any number of crashes and failing saves.                                     *)
(*                                                                              *)
(* The invariant has five parts beside the types: what the worker thread and    *)
(* the child process are doing (Thread), what waits in the queue (Waiting),     *)
(* how the files relate to the jobs in memory (Files), why a job may be         *)
(* cancelled (Reasons), and which jobs have not begun (Starts).                 *)
EXTENDS JobService, FiniteSetTheorems, SequenceTheorems, TLAPS

Distinct(s) == \A m, n \in DOMAIN s : m # n => s[m] # s[n]

Thread ==
    /\ main = "down" => /\ state = NoRecords /\ pending = <<>> /\ active = NoJob
                        /\ worker = "ended" /\ cancellation = {}
    /\ worker \in Executing => active \in Job
    /\ worker \in {"spawned", "polling", "reading"} => child # "none"
    /\ RunningIsExecuted

(* A job in the queue is queued or was cancelled in vain; it is not active.     *)
Waiting ==
    /\ QueueHoldsQueued
    /\ \A j \in ToSet(pending) : state[j] # "absent" /\ j # active
    /\ main = "serving" => \A j \in ToSet(pending) : state[j] = "queued" \/ j \in cancellation
    /\ active \in Job => state[active] # "absent"
    /\ \A j \in cancellation : state[j] \notin {"queued", "absent"}

(* A file may be behind, but never says that a job has ended which has not.     *)
Files ==
    /\ FileIsCurrent
    /\ main # "down" => \A j \in Job : /\ disk[j] \in Finished => state[j] = disk[j]
                                       /\ disk[j] = "absent" <=> state[j] = "absent"

Reasons ==
    /\ CancelledForAReason
    /\ cancellation \subseteq excused
    /\ main = "joining" /\ active \in Job => active \in excused
    /\ worker \in Executing /\ status = 2 => active \in excused
    /\ worker = "generating" /\ stop_flag => active \in excused

Starts ==
    /\ StartedOnce
    /\ \A j \in Job : disk[j] = "absent" => started[j] = 0
    /\ main # "down" => \A j \in Job : state[j] = "queued" => started[j] = 0
    /\ worker = "picked" => started[active] = 0

IInv == TypeOK /\ Thread /\ Waiting /\ Files /\ Reasons /\ Starts

(* What a step may not do to a finished job.                                    *)
Final ==
    \A j \in Job :
        /\ disk[j] \in Finished => disk'[j] = disk[j]
        /\ state[j] \in Finished => state'[j] \in {state[j], "absent"}
        /\ {disk[j], state[j]} \intersect Finished # {} => started'[j] = started[j]

USE JobAssumption

--------------------------------------------------------------------------------
(* The queue.                                                                   *)

LEMMA AppendQueue ==
  ASSUME NEW s \in Seq(Job), Distinct(s), NEW j \in Job, j \notin ToSet(s)
  PROVE  /\ Append(s, j) \in Seq(Job) /\ Distinct(Append(s, j))
         /\ Len(Append(s, j)) = Len(s) + 1
         /\ ToSet(Append(s, j)) = ToSet(s) \union {j}
<1> DEFINE t == Append(s, j)
<1>1. /\ t \in Seq(Job) /\ Len(t) = Len(s) + 1 /\ t[Len(s) + 1] = j
      /\ \A i \in 1 .. Len(s) : t[i] = s[i]
  BY AppendProperties
<1>2. DOMAIN t = 1 .. Len(s) + 1 /\ DOMAIN s = 1 .. Len(s) /\ Len(s) \in Nat
  BY <1>1
<1> HIDE DEF t
<1>3. ToSet(t) = ToSet(s) \union {j}
  BY <1>1, <1>2 DEF ToSet
<1>4. Distinct(t)
  BY <1>1, <1>2 DEF Distinct, ToSet
<1> QED
  BY <1>1, <1>3, <1>4 DEF t

LEMMA TailQueue ==
  ASSUME NEW s \in Seq(Job), Distinct(s), s # <<>>
  PROVE  /\ Tail(s) \in Seq(Job) /\ Distinct(Tail(s)) /\ Len(Tail(s)) = Len(s) - 1
         /\ Head(s) \in ToSet(s) /\ Head(s) \in Job
         /\ ToSet(Tail(s)) = ToSet(s) \ {Head(s)}
<1> DEFINE t == Tail(s)
<1>1. /\ t \in Seq(Job) /\ Len(t) = Len(s) - 1 /\ Head(s) = s[1] /\ Head(s) \in Job
      /\ \A i \in 1 .. Len(t) : t[i] = s[i + 1]
  BY HeadTailProperties
<1>2. DOMAIN t = 1 .. Len(s) - 1 /\ DOMAIN s = 1 .. Len(s) /\ Len(s) \in Nat \ {0}
  BY <1>1, EmptySeq
<1> HIDE DEF t
<1>3. ToSet(t) = ToSet(s) \ {s[1]}
  <2>1. ASSUME NEW x \in ToSet(t) PROVE x \in ToSet(s) \ {s[1]}
    <3> PICK i \in 1 .. Len(s) - 1 : x = t[i]
      BY <1>2 DEF ToSet
    <3>1. i + 1 \in DOMAIN s /\ i + 1 # 1 /\ 1 \in DOMAIN s /\ x = s[i + 1]
      BY <1>1, <1>2
    <3> QED
      BY <3>1 DEF ToSet, Distinct
  <2>2. ASSUME NEW x \in ToSet(s) \ {s[1]} PROVE x \in ToSet(t)
    <3> PICK i \in 1 .. Len(s) : x = s[i]
      BY <1>2 DEF ToSet
    <3>1. i - 1 \in 1 .. Len(t) /\ t[i - 1] = s[(i - 1) + 1]
      BY <1>1, <1>2
    <3> QED
      BY <1>2, <3>1 DEF ToSet
  <2> QED
    BY <2>1, <2>2
<1>4. Distinct(t)
  <2> SUFFICES ASSUME NEW m \in DOMAIN t, NEW n \in DOMAIN t, m # n PROVE t[m] # t[n]
    BY DEF Distinct
  <2>1. m + 1 \in DOMAIN s /\ n + 1 \in DOMAIN s /\ m + 1 # n + 1
    BY <1>2
  <2> QED
    BY <1>1, <1>2, <2>1 DEF Distinct
<1> QED
  BY <1>1, <1>2, <1>3, <1>4 DEF t, ToSet

LEMMA PartOfQueue ==
  ASSUME NEW s \in Seq(Job), NEW m \in 1 .. Len(s) + 1
  PROVE  /\ SubSeq(s, m, Len(s)) \in Seq(Job)
         /\ Len(SubSeq(s, m, Len(s))) = Len(s) - m + 1
         /\ \A i \in 1 .. Len(s) - m + 1 : SubSeq(s, m, Len(s))[i] = s[m + i - 1]
<1>1. m \in Int /\ Len(s) \in Int /\ \A i \in m .. Len(s) : s[i] \in Job
  OBVIOUS
<1> QED
  BY <1>1, SubSeqProperties

LEMMA WithoutQueue ==
  ASSUME pending \in Seq(Job), Distinct(pending), NEW j \in Job
  PROVE  /\ QueueWithout(j) \in Seq(Job) /\ Distinct(QueueWithout(j))
         /\ Len(QueueWithout(j)) <= Len(pending)
         /\ ToSet(QueueWithout(j)) = ToSet(pending) \ {j}
<1>1. CASE j \notin ToSet(pending)
  BY <1>1 DEF QueueWithout
<1>2. CASE j \in ToSet(pending)
  <2> DEFINE s == pending
             p == CHOOSE n \in DOMAIN pending : pending[n] = j
             a == SubSeq(s, 1, p - 1)
             b == SubSeq(s, p + 1, Len(s))
             t == a \o b
  <2>1. p \in 1 .. Len(s) /\ s[p] = j /\ DOMAIN s = 1 .. Len(s) /\ Len(s) \in Nat
    BY <1>2 DEF ToSet
  <2>2. QueueWithout(j) = t
    <3>1. QueueWithout(j) = RemoveAt(pending, p)
      BY <1>2, Zenon DEF QueueWithout
    <3> HIDE DEF p
    <3> QED
      BY <3>1 DEF RemoveAt
  <2> HIDE DEF p
  <2>3. /\ a \in Seq(Job) /\ Len(a) = p - 1 /\ \A i \in 1 .. p - 1 : a[i] = s[i]
    BY <2>1, SubSeqProperties
  <2>4. /\ b \in Seq(Job) /\ Len(b) = Len(s) - p
        /\ \A i \in 1 .. Len(s) - p : b[i] = s[p + i]
    <3>1. /\ b \in Seq(Job) /\ Len(b) = Len(s) - (p + 1) + 1
          /\ \A i \in 1 .. Len(s) - (p + 1) + 1 : b[i] = s[(p + 1) + i - 1]
      <4>1. pending \in Seq(Job) /\ p + 1 \in 1 .. Len(pending) + 1
        BY <2>1
      <4> DEFINE q == p + 1
      <4> HIDE DEF q
      <4>2. q \in 1 .. Len(pending) + 1
        BY <4>1 DEF q
      <4>3. /\ SubSeq(pending, q, Len(pending)) \in Seq(Job)
            /\ Len(SubSeq(pending, q, Len(pending))) = Len(pending) - q + 1
            /\ \A i \in 1 .. Len(pending) - q + 1 :
                 SubSeq(pending, q, Len(pending))[i] = pending[q + i - 1]
        BY <4>2, PartOfQueue
      <4> QED
        BY <4>3 DEF q
    <3> HIDE DEF b
    <3>2. Len(b) = Len(s) - p /\ Len(s) - (p + 1) + 1 = Len(s) - p
      BY <2>1, <3>1
    <3>3. ASSUME NEW i \in 1 .. Len(s) - p PROVE b[i] = s[p + i]
      <4>1. (p + 1) + i - 1 = p + i
        BY <2>1
      <4> QED
        BY <3>1, <3>2, <4>1
    <3> QED
      BY <3>1, <3>2, <3>3
  <2> HIDE DEF a, b
  <2>5. /\ t \in Seq(Job) /\ Len(t) = Len(s) - 1 /\ DOMAIN t = 1 .. Len(s) - 1
        /\ \A i \in 1 .. Len(s) - 1 : t[i] = IF i < p THEN s[i] ELSE s[i + 1]
    <3>1. t \in Seq(Job) /\ Len(t) = Len(a) + Len(b)
          /\ \A i \in 1 .. Len(a) + Len(b) :
                t[i] = IF i <= Len(a) THEN a[i] ELSE b[i - Len(a)]
      BY <2>3, <2>4, ConcatProperties
    <3>2. Len(a) + Len(b) = Len(s) - 1
      BY <2>1, <2>3, <2>4
    <3>3. ASSUME NEW i \in 1 .. Len(s) - 1
          PROVE  t[i] = IF i < p THEN s[i] ELSE s[i + 1]
      <4>1. CASE i < p
        BY <4>1, <2>1, <2>3, <3>1, <3>2
      <4>2. CASE ~(i < p)
        <5>1. t[i] = b[i - (p - 1)]
          BY <4>2, <2>1, <2>3, <3>1, <3>2
        <5>2. i - (p - 1) \in 1 .. Len(s) - p /\ p + (i - (p - 1)) = i + 1
          BY <4>2, <2>1
        <5> QED
          BY <4>2, <5>1, <5>2, <2>4
      <4> QED
        BY <4>1, <4>2
    <3> HIDE DEF t
    <3>4. DOMAIN t = 1 .. Len(t)
      BY <3>1, LenProperties
    <3> QED
      BY <2>1, <3>1, <3>2, <3>3, <3>4
  <2> HIDE DEF t
  <2>6. ToSet(t) = ToSet(s) \ {j}
    <3>1. ASSUME NEW x \in ToSet(t) PROVE x \in ToSet(s) \ {j}
      <4> PICK i \in 1 .. Len(s) - 1 : x = t[i]
        BY <2>5 DEF ToSet
      <4> DEFINE k == IF i < p THEN i ELSE i + 1
      <4>1. k \in DOMAIN s /\ k # p /\ x = s[k] /\ p \in DOMAIN s
        BY <2>1, <2>5
      <4> QED
        BY <2>1, <4>1 DEF ToSet, Distinct
    <3>2. ASSUME NEW x \in ToSet(s) \ {j} PROVE x \in ToSet(t)
      <4> PICK i \in 1 .. Len(s) : x = s[i]
        BY <2>1 DEF ToSet
      <4> DEFINE k == IF i < p THEN i ELSE i - 1
      <4>1. i # p
        BY <2>1
      <4>2. k \in 1 .. Len(s) - 1 /\ t[k] = s[i]
        BY <2>1, <2>5, <4>1
      <4> QED
        BY <2>5, <4>2 DEF ToSet
    <3> QED
      BY <3>1, <3>2
  <2>7. Distinct(t)
    <3> SUFFICES ASSUME NEW m \in 1 .. Len(s) - 1, NEW n \in 1 .. Len(s) - 1, m # n
                 PROVE  t[m] # t[n]
      BY <2>5 DEF Distinct
    <3> DEFINE k == IF m < p THEN m ELSE m + 1
               l == IF n < p THEN n ELSE n + 1
    <3>1. k \in DOMAIN s /\ l \in DOMAIN s /\ k # l /\ t[m] = s[k] /\ t[n] = s[l]
      BY <2>1, <2>5
    <3> QED
      BY <3>1 DEF Distinct
  <2> QED
    BY <2>1, <2>2, <2>5, <2>6, <2>7
<1> QED
  BY <1>1, <1>2

--------------------------------------------------------------------------------
(* Saving.                                                                      *)

LEMMA SaveRow ==
  ASSUME TypeOK, NEW j \in Job, NEW saved \in BOOLEAN, Save(j, saved),
         state' \in [Job -> Recorded]
  PROVE  /\ disk' \in [Job -> Recorded] /\ unsaved' \subseteq Job /\ refused' \in 0 .. MaxRefused
         /\ disk'[j] = IF saved THEN state'[j] ELSE disk[j]
         /\ \A k \in Job \ {j} : disk'[k] = disk[k] /\ (k \in unsaved' <=> k \in unsaved)
         /\ j \in unsaved' <=> ~saved
<1>1. disk \in [Job -> Recorded] /\ unsaved \subseteq Job /\ refused \in Nat /\ refused <= MaxRefused
  BY DEF TypeOK
<1>2. refused' \in 0 .. MaxRefused
  BY <1>1 DEF Save
<1>3. /\ disk' = IF saved THEN [disk EXCEPT ![j] = state'[j]] ELSE disk
      /\ unsaved' = IF saved THEN unsaved \ {j} ELSE unsaved \union {j}
  BY DEF Save, Written
<1> QED
  BY <1>1, <1>2, <1>3

(* A section that changes the state of one job and saves it.                    *)
LEMMA SaveStep ==
  ASSUME TypeOK, Files, Starts, NEW j \in Job, NEW saved \in BOOLEAN, Save(j, saved),
         state' \in [Job -> Recorded], main # "down", main' # "down",
         state'[j] # "absent", state[j] = "absent" => saved,
         \A k \in Job \ {j} : state'[k] = state[k],
         state[j] \in Finished => state'[j] = state[j],
         UNCHANGED started
  PROVE  /\ disk' \in [Job -> Recorded] /\ unsaved' \subseteq Job /\ refused' \in 0 .. MaxRefused
         /\ Files' /\ Final
         /\ \A k \in Job : disk'[k] = "absent" => disk[k] = "absent"
         /\ \A k \in Job : disk'[k] \in {disk[k], state'[k]}
<1>1. /\ disk' \in [Job -> Recorded] /\ unsaved' \subseteq Job /\ refused' \in 0 .. MaxRefused
      /\ disk'[j] = IF saved THEN state'[j] ELSE disk[j]
      /\ \A k \in Job \ {j} : disk'[k] = disk[k] /\ (k \in unsaved' <=> k \in unsaved)
      /\ j \in unsaved' <=> ~saved
  BY SaveRow
<1>2. FileIsCurrent'
  BY <1>1 DEF Files, FileIsCurrent
<1>3. \A k \in Job : /\ disk'[k] \in Finished => state'[k] = disk'[k]
                     /\ disk'[k] = "absent" <=> state'[k] = "absent"
  <2> TAKE k \in Job
  <2>1. disk[k] \in Finished => state[k] = disk[k]
    BY DEF Files
  <2>2. disk[k] = "absent" <=> state[k] = "absent"
    BY DEF Files
  <2>3. CASE k = j
    BY <1>1, <2>1, <2>2, <2>3
  <2>4. CASE k # j
    BY <1>1, <2>1, <2>2, <2>4
  <2> QED
    BY <2>3, <2>4
<1>4. Final
  <2> SUFFICES ASSUME NEW k \in Job
               PROVE  /\ disk[k] \in Finished => disk'[k] = disk[k]
                      /\ state[k] \in Finished => state'[k] = state[k]
    BY DEF Final
  <2>1. disk[k] \in Finished => state[k] = disk[k]
    BY DEF Files
  <2> QED
    BY <1>1, <2>1
<1> QED
  BY <1>1, <1>2, <1>3, <1>4 DEF Files

LEMMA StartsKept ==
  ASSUME Starts, UNCHANGED started, main # "down",
         \A k \in Job : disk'[k] = "absent" => disk[k] = "absent",
         \A k \in Job : state'[k] = "queued" => state[k] \in {"queued", "absent"},
         Files, worker' = "picked" => worker = "picked" /\ active' = active
  PROVE  Starts'
BY DEF Starts, StartedOnce, Files

--------------------------------------------------------------------------------
(* Requests.                                                                    *)

LEMMA SubmitStep ==
  ASSUME IInv, NEW j \in Job, Submit(j)
  PROVE  IInv' /\ Final
<1> USE DEF IInv
<1>1. /\ main = "serving" /\ main' = main /\ state[j] = "absent" /\ disk[j] = "absent"
      /\ state' = [state EXCEPT ![j] = "queued"] /\ pending' = Append(pending, j)
      /\ Len(pending) < MaxPending /\ external' \subseteq Job
      /\ UNCHANGED <<cancellation, active, worker, status, engineVars, childVars, started, excused>>
  BY DEF Submit, TypeOK
<1>2. Save(j, TRUE)
  BY DEF Submit
<1>3. state' \in [Job -> Recorded] /\ state'[j] = "queued" /\ \A k \in Job \ {j} : state'[k] = state[k]
  BY <1>1 DEF TypeOK, Recorded, Unfinished
<1>4. /\ disk' \in [Job -> Recorded] /\ unsaved' \subseteq Job /\ refused' \in 0 .. MaxRefused
      /\ Files' /\ Final
      /\ \A k \in Job : disk'[k] = "absent" => disk[k] = "absent"
      /\ \A k \in Job : disk'[k] \in {disk[k], state'[k]}
  BY <1>1, <1>2, <1>3, SaveStep DEF Finished
<1>5. /\ pending \in Seq(Job) /\ Distinct(pending) /\ j \notin ToSet(pending)
  BY <1>1 DEF TypeOK, Waiting, QueueHoldsQueued, Distinct
<1>6. /\ pending' \in Seq(Job) /\ Distinct(pending') /\ Len(pending') = Len(pending) + 1
      /\ ToSet(pending') = ToSet(pending) \union {j}
  BY <1>1, <1>5, AppendQueue
<1>7. TypeOK'
  BY <1>1, <1>3, <1>4, <1>6 DEF TypeOK, engineVars, childVars
<1>8. j # active
  BY <1>1 DEF Waiting
<1>9. Thread'
  BY <1>1, <1>3, <1>8 DEF Thread, RunningIsExecuted, childVars
<1>10. Waiting'
  <2>1. QueueHoldsQueued'
    <3>1. \A k \in Job : state'[k] = "queued" => k \in ToSet(pending')
      BY <1>3, <1>6 DEF Waiting, QueueHoldsQueued
    <3>2. \A k \in ToSet(pending') : state'[k] \in Unfinished => state'[k] = "queued"
      <4> SUFFICES ASSUME NEW k \in ToSet(pending), k # j, state'[k] \in Unfinished
                   PROVE  state'[k] = "queued"
        BY <1>3, <1>6
      <4>1. k \in Job
        BY DEF TypeOK, ToSet
      <4> QED
        BY <1>3, <4>1 DEF Waiting, QueueHoldsQueued
    <3> QED
      BY <1>6, <3>1, <3>2 DEF QueueHoldsQueued, Distinct
  <2>2. \A k \in cancellation : k # j /\ k \in Job
    BY <1>1 DEF Waiting, TypeOK
  <2>3. \A k \in cancellation' : state'[k] \notin {"queued", "absent"}
    BY <1>1, <1>3, <2>2 DEF Waiting
  <2> QED
    BY <1>1, <1>3, <1>6, <1>8, <2>1, <2>3 DEF Waiting
<1>11. Reasons'
  BY <1>1, <1>3, <1>4 DEF Reasons, CancelledForAReason, engineVars
<1>12. Starts'
  BY <1>1, <1>3, <1>4, StartsKept
<1> QED
  BY <1>4, <1>7, <1>9, <1>10, <1>11, <1>12

LEMMA CancelStep ==
  ASSUME IInv, NEW j \in Job, Cancel(j)
  PROVE  IInv' /\ Final
<1> USE DEF IInv
<1>1. /\ main = "serving" /\ main' = main /\ state[j] \in Unfinished
      /\ cancellation' = cancellation \union {j} /\ excused' = excused \union {j}
      /\ state' = [state EXCEPT ![j] = CancelledState(j)]
      /\ UNCHANGED <<external, active, worker, status, engine, child, child_known, started>>
  BY DEF Cancel
<1> PICK saved \in BOOLEAN :
           /\ Save(j, saved)
           /\ pending' = IF saved /\ active # j THEN QueueWithout(j) ELSE pending
  BY DEF Cancel
<1>2. /\ stop_flag' \in BOOLEAN /\ signalled' \in BOOLEAN
      /\ active # j => stop_flag' = stop_flag
  BY DEF Cancel, SignalChild, SignalEngine, TypeOK
<1>3. /\ state' \in [Job -> Recorded] /\ \A k \in Job \ {j} : state'[k] = state[k]
      /\ state'[j] = IF active = j THEN "cancelling" ELSE "cancelled"
  BY <1>1 DEF TypeOK, Recorded, Unfinished, Finished, CancelledState
<1>4. /\ disk' \in [Job -> Recorded] /\ unsaved' \subseteq Job /\ refused' \in 0 .. MaxRefused
      /\ Files' /\ Final
      /\ \A k \in Job : disk'[k] = "absent" => disk[k] = "absent"
      /\ \A k \in Job : disk'[k] \in {disk[k], state'[k]}
  BY <1>1, <1>3, SaveStep DEF Finished, Unfinished
<1>5. pending \in Seq(Job) /\ Distinct(pending)
  BY DEF TypeOK, Waiting, QueueHoldsQueued, Distinct
<1>6. /\ pending' \in Seq(Job) /\ Distinct(pending') /\ Len(pending') <= MaxPending
      /\ ToSet(pending') = IF saved /\ active # j THEN ToSet(pending) \ {j} ELSE ToSet(pending)
  <2>1. /\ QueueWithout(j) \in Seq(Job) /\ Distinct(QueueWithout(j))
        /\ Len(QueueWithout(j)) <= Len(pending)
        /\ ToSet(QueueWithout(j)) = ToSet(pending) \ {j}
    BY <1>5, WithoutQueue
  <2>2. Len(pending) \in Nat /\ Len(pending) <= MaxPending
    BY DEF TypeOK
  <2>3. CASE saved /\ active # j
    <3>1. pending' = QueueWithout(j)
      BY <2>3
    <3>2. Len(QueueWithout(j)) \in Nat
      BY <2>1
    <3> QED
      BY <2>1, <2>2, <2>3, <3>1, <3>2
  <2>4. CASE ~(saved /\ active # j)
    BY <1>5, <2>2, <2>4
  <2> QED
    BY <2>3, <2>4
<1>7. TypeOK'
  BY <1>1, <1>2, <1>3, <1>4, <1>6 DEF TypeOK
<1>8. active = j => worker \in Executing /\ state[j] \in {"running", "cancelling"}
  BY <1>1 DEF Thread, RunningIsExecuted, Waiting, QueueHoldsQueued, Unfinished
<1>9. Thread'
  <2>1. RunningIsExecuted'
    <3> SUFFICES ASSUME NEW k \in Job
                 PROVE  state'[k] \in {"running", "cancelling"} <=> worker \in Executing /\ k = active
      BY <1>1 DEF RunningIsExecuted, Executing
    <3>1. state[k] \in {"running", "cancelling"} <=> worker \in Executing /\ k = active
      BY DEF Thread, RunningIsExecuted
    <3> QED
      BY <1>3, <1>8, <3>1
  <2> QED
    BY <1>1, <2>1 DEF Thread, Executing
<1>10. Waiting'
  <2>1. \A k \in Job : state'[k] = "queued" => k # j /\ state[k] = "queued"
    BY <1>3
  <2>2. \A k \in ToSet(pending) : k \in Job /\ k # active
    BY DEF Waiting, TypeOK, ToSet
  <2>3. \A k \in ToSet(pending') : k \in ToSet(pending) /\ k \in Job
    BY <1>6, <2>2
  <2>4. QueueHoldsQueued'
    <3>1. \A k \in Job : state'[k] = "queued" => k \in ToSet(pending')
      BY <1>6, <2>1 DEF Waiting, QueueHoldsQueued
    <3>2. \A k \in ToSet(pending') : state'[k] \in Unfinished => state'[k] = "queued"
      <4> TAKE k \in ToSet(pending')
      <4>1. CASE k = j
        BY <1>3, <2>2, <2>3, <4>1 DEF Unfinished
      <4>2. CASE k # j
        BY <1>3, <2>3, <4>2 DEF Waiting, QueueHoldsQueued
      <4> QED
        BY <4>1, <4>2
    <3> QED
      BY <1>6, <3>1, <3>2 DEF QueueHoldsQueued, Distinct
  <2>5. \A k \in ToSet(pending') : state'[k] # "absent" /\ k # active
    BY <1>3, <2>2, <2>3 DEF Waiting
  <2>6. \A k \in ToSet(pending') : state'[k] = "queued" \/ k \in cancellation'
    BY <1>1, <1>3, <2>3 DEF Waiting
  <2>7. active \in Job => state'[active] # "absent"
    BY <1>3 DEF Waiting
  <2>8. \A k \in cancellation' : state'[k] \notin {"queued", "absent"}
    BY <1>1, <1>3 DEF Waiting, TypeOK
  <2> QED
    BY <1>1, <2>4, <2>5, <2>6, <2>7, <2>8 DEF Waiting
<1>11. Reasons'
  <2>1. CancelledForAReason'
    BY <1>1, <1>3, <1>4 DEF Reasons, CancelledForAReason
  <2>2. worker = "generating" /\ stop_flag' => active \in excused'
    BY <1>1, <1>2 DEF Reasons
  <2> QED
    BY <1>1, <2>1, <2>2 DEF Reasons, Executing
<1>12. Starts'
  BY <1>1, <1>3, <1>4, StartsKept
<1> QED
  BY <1>4, <1>7, <1>9, <1>10, <1>11, <1>12

--------------------------------------------------------------------------------
(* The worker thread.                                                           *)

(* What is at the head of the queue can be begun.                               *)
LEMMA HeadOfQueue ==
  ASSUME IInv, pending # <<>>
  PROVE  /\ Head(pending) \in Job /\ Head(pending) # active /\ state[Head(pending)] # "absent"
         /\ Tail(pending) \in Seq(Job) /\ Distinct(Tail(pending)) /\ Len(Tail(pending)) <= MaxPending
         /\ ToSet(Tail(pending)) = ToSet(pending) \ {Head(pending)}
         /\ main # "joining" /\ Head(pending) \notin cancellation => 
              main = "serving" /\ state[Head(pending)] = "queued"
<1> USE DEF IInv
<1>1. pending \in Seq(Job) /\ Distinct(pending) /\ Len(pending) <= MaxPending
  BY DEF TypeOK, Waiting, QueueHoldsQueued, Distinct
<1>2. /\ Tail(pending) \in Seq(Job) /\ Distinct(Tail(pending)) /\ Len(Tail(pending)) = Len(pending) - 1
      /\ Head(pending) \in ToSet(pending) /\ Head(pending) \in Job
      /\ ToSet(Tail(pending)) = ToSet(pending) \ {Head(pending)}
  BY <1>1, TailQueue
<1>3. Len(pending) \in Nat /\ Len(Tail(pending)) <= MaxPending
  BY <1>1, <1>2
<1>4. main \in {"down", "serving", "joining"} /\ main # "down"
  BY DEF TypeOK, Thread
<1> QED
  BY <1>2, <1>3, <1>4 DEF Waiting

(* The queue without its head, which no longer is "queued".                     *)
LEMMA WaitingWithoutHead ==
  ASSUME IInv, pending # <<>>, pending' = Tail(pending), UNCHANGED <<main, cancellation>>,
         \A k \in Job \ {Head(pending)} : state'[k] = state[k],
         state'[Head(pending)] \notin {"queued", "absent"},
         active' \in {Head(pending), NoJob}
  PROVE  Waiting'
<1> USE DEF IInv
<1> DEFINE j == Head(pending)
<1>1. /\ j \in Job /\ Distinct(pending') /\ ToSet(pending') = ToSet(pending) \ {j}
  <2>1. j \in Job /\ Distinct(Tail(pending)) /\ ToSet(Tail(pending)) = ToSet(pending) \ {j}
    BY HeadOfQueue
  <2> QED
    BY <2>1
<1>2. \A k \in ToSet(pending') : k \in Job /\ k # j /\ k \in ToSet(pending) /\ state'[k] = state[k]
  <2>1. ToSet(pending) \subseteq Job
    BY DEF TypeOK, ToSet
  <2> QED
    BY <1>1, <2>1
<1> HIDE DEF j
<1>3. QueueHoldsQueued'
  <2>1. \A k \in Job : state'[k] = "queued" => k \in ToSet(pending')
    <3> SUFFICES ASSUME NEW k \in Job, state'[k] = "queued" PROVE k \in ToSet(pending')
      OBVIOUS
    <3>1. k # j
      BY DEF j
    <3>2. state[k] = "queued"
      BY <3>1 DEF j
    <3> QED
      BY <1>1, <3>1, <3>2 DEF Waiting, QueueHoldsQueued
  <2> QED
    BY <1>1, <1>2, <2>1 DEF Waiting, QueueHoldsQueued, Distinct
<1>4. NoJob \notin Job
  OBVIOUS
<1>5. active' \in Job => state'[active'] # "absent"
  BY <1>4
<1>6. \A k \in ToSet(pending') : state'[k] # "absent" /\ k # active'
  BY <1>2, <1>4 DEF Waiting, j
<1>7. main = "serving" => \A k \in ToSet(pending') : state'[k] = "queued" \/ k \in cancellation'
  BY <1>2 DEF Waiting
<1>8. \A k \in cancellation' : state'[k] \notin {"queued", "absent"}
  BY DEF Waiting, TypeOK
<1> QED
  BY <1>3, <1>5, <1>6, <1>7, <1>8 DEF Waiting

LEMMA SkipStep ==
  ASSUME IInv, Skip
  PROVE  IInv' /\ Final
<1> USE DEF IInv
<1>1. /\ worker = "waiting" /\ worker' = worker /\ pending # <<>> /\ pending' = Tail(pending)
      /\ Head(pending) \in cancellation /\ active' = NoJob
      /\ UNCHANGED <<records, external, cancellation, status, engineVars, childVars, main, started, excused>>
  BY DEF Skip, WorkerAt, SkipsCancelled
<1>2. main # "down" /\ worker \notin Executing /\ NoJob \notin Job
  BY <1>1 DEF Thread, Executing
<1>3. /\ Head(pending) \in Job /\ state[Head(pending)] # "absent"
      /\ pending' \in Seq(Job) /\ Len(pending') <= MaxPending
      /\ ToSet(pending') = ToSet(pending) \ {Head(pending)} /\ Distinct(pending')
  BY <1>1, HeadOfQueue
<1>4. TypeOK'
  BY <1>1, <1>3 DEF TypeOK, records, engineVars, childVars
<1>5. Thread'
  BY <1>1, <1>2 DEF Thread, RunningIsExecuted, records, childVars, Executing
<1>6. Waiting'
  <2>1. state'[Head(pending)] \notin {"queued", "absent"}
    BY <1>1 DEF Waiting, records
  <2> QED
    BY <1>1, <2>1, WaitingWithoutHead DEF records
<1>7. Files' /\ Final
  BY <1>1 DEF Files, FileIsCurrent, Final, records
<1>8. Reasons'
  BY <1>1, <1>2 DEF Reasons, CancelledForAReason, records, Executing
<1>9. Starts'
  BY <1>1 DEF Starts, StartedOnce, records
<1> QED
  BY <1>4, <1>5, <1>6, <1>7, <1>8, <1>9

LEMMA PickUnsavedStep ==
  ASSUME IInv, PickUnsaved
  PROVE  IInv' /\ Final
<1> USE DEF IInv
<1> DEFINE j == Head(pending)
<1>1. /\ worker = "waiting" /\ worker' = worker /\ main # "joining" /\ pending # <<>>
      /\ pending' = Tail(pending) /\ j \notin cancellation /\ active' = j
      /\ state' = [state EXCEPT ![j] = "failed"]
      /\ UNCHANGED <<external, cancellation, status, engineVars, childVars, main, started, excused>>
  BY DEF PickUnsaved, WorkerAt, SkipsCancelled, closing
<1>2. Save(j, FALSE)
  BY DEF PickUnsaved
<1>3. /\ j \in Job /\ main = "serving" /\ state[j] = "queued"
      /\ pending' \in Seq(Job) /\ Len(pending') <= MaxPending
  BY <1>1, HeadOfQueue
<1> HIDE DEF j
<1>4. state' \in [Job -> Recorded] /\ state'[j] = "failed" /\ \A k \in Job \ {j} : state'[k] = state[k]
  BY <1>1, <1>3 DEF TypeOK, Recorded, Finished
<1>5. /\ disk' \in [Job -> Recorded] /\ unsaved' \subseteq Job /\ refused' \in 0 .. MaxRefused
      /\ Files' /\ Final
      /\ \A k \in Job : disk'[k] = "absent" => disk[k] = "absent"
      /\ \A k \in Job : disk'[k] \in {disk[k], state'[k]}
  BY <1>1, <1>2, <1>3, <1>4, SaveStep DEF Finished
<1>6. TypeOK'
  BY <1>1, <1>3, <1>4, <1>5 DEF TypeOK, engineVars, childVars
<1>7. Thread'
  BY <1>1, <1>3, <1>4 DEF Thread, RunningIsExecuted, childVars, Executing
<1>8. Waiting'
  BY <1>1, <1>4, WaitingWithoutHead DEF j
<1>9. Reasons'
  BY <1>1, <1>3, <1>4, <1>5 DEF Reasons, CancelledForAReason, Executing
<1>10. Starts'
  BY <1>1, <1>3, <1>4, <1>5, StartsKept
<1> QED
  BY <1>5, <1>6, <1>7, <1>8, <1>9, <1>10

LEMMA PickStep ==
  ASSUME IInv, Pick
  PROVE  IInv' /\ Final
<1> USE DEF IInv
<1> DEFINE j == Head(pending)
<1>1. /\ worker = "waiting" /\ main # "joining" /\ pending # <<>>
      /\ pending' = Tail(pending) /\ j \notin cancellation /\ active' = j
      /\ state' = [state EXCEPT ![j] = "running"]
      /\ UNCHANGED <<external, cancellation, childVars, main, started, excused>>
  BY DEF Pick, SkipsCancelled, closing
<1>2. Save(j, TRUE)
  BY <1>1 DEF Pick
<1>3. /\ j \in Job /\ main = "serving" /\ state[j] = "queued"
      /\ pending' \in Seq(Job) /\ Len(pending') <= MaxPending
  BY <1>1, HeadOfQueue
<1>4. /\ engine' \in BOOLEAN /\ stop_flag' \in BOOLEAN /\ status' \in {0, 1}
      /\ worker' \in {"picked", "judging"}
  BY DEF Pick, Prepare, TypeOK, engineVars
<1> HIDE DEF j
<1>5. state' \in [Job -> Recorded] /\ state'[j] = "running" /\ \A k \in Job \ {j} : state'[k] = state[k]
  BY <1>1, <1>3 DEF TypeOK, Recorded, Unfinished
<1>6. /\ disk' \in [Job -> Recorded] /\ unsaved' \subseteq Job /\ refused' \in 0 .. MaxRefused
      /\ Files' /\ Final
      /\ \A k \in Job : disk'[k] = "absent" => disk[k] = "absent"
      /\ \A k \in Job : disk'[k] \in {disk[k], state'[k]}
  BY <1>1, <1>2, <1>3, <1>5, SaveStep DEF Finished
<1>7. TypeOK'
  BY <1>1, <1>3, <1>4, <1>5, <1>6 DEF TypeOK, childVars, Executing
<1>8. Thread'
  <2>1. RunningIsExecuted'
    BY <1>1, <1>3, <1>4, <1>5 DEF Thread, RunningIsExecuted, Executing
  <2> QED
    BY <1>1, <1>3, <1>4, <2>1 DEF Thread, Executing
<1>9. Waiting'
  BY <1>1, <1>5, WaitingWithoutHead DEF j
<1>10. Reasons'
  <2>1. CancelledForAReason'
    BY <1>1, <1>5, <1>6 DEF Reasons, CancelledForAReason
  <2> QED
    BY <1>1, <1>3, <1>4, <2>1 DEF Reasons
<1>11. Starts'
  <2>1. started'[active'] = 0
    BY <1>1, <1>3 DEF Starts
  <2>2. \A k \in Job : state'[k] = "queued" => state[k] = "queued"
    BY <1>5
  <2> QED
    BY <1>1, <1>3, <1>6, <2>1, <2>2 DEF Starts, StartedOnce
<1> QED
  BY <1>6, <1>7, <1>8, <1>9, <1>10, <1>11

LEMMA JudgeStep ==
  ASSUME IInv, Judge
  PROVE  IInv' /\ Final
<1> USE DEF IInv
<1> DEFINE j == active
<1>1. /\ worker = "judging" /\ worker' = "waiting" /\ active' = NoJob
      /\ UNCHANGED <<external, cancellation, pending, status, engineVars, childVars, main, started, excused>>
  BY DEF Judge, WorkerAt
<1> PICK result \in Outcome(status) : state' = [state EXCEPT ![j] = result]
  BY DEF Judge
<1> PICK saved \in BOOLEAN : Save(j, saved)
  BY DEF Judge
<1>2. j \in Job /\ main # "down" /\ status \in 0 .. 2 /\ NoJob \notin Job
  BY <1>1 DEF Thread, Executing, TypeOK
<1>3. result \in {"succeeded", "failed", "cancelled"} /\ (result = "cancelled" => status = 2)
  BY <1>2 DEF Outcome
<1>4. state[j] \in {"running", "cancelling"}
  BY <1>1, <1>2 DEF Thread, RunningIsExecuted, Executing
<1>5. state' \in [Job -> Recorded] /\ state'[j] = result /\ \A k \in Job \ {j} : state'[k] = state[k]
  BY <1>2, <1>3 DEF TypeOK, Recorded, Finished
<1>6. /\ disk' \in [Job -> Recorded] /\ unsaved' \subseteq Job /\ refused' \in 0 .. MaxRefused
      /\ Files' /\ Final
      /\ \A k \in Job : disk'[k] = "absent" => disk[k] = "absent"
      /\ \A k \in Job : disk'[k] \in {disk[k], state'[k]}
  BY <1>1, <1>2, <1>3, <1>4, <1>5, SaveStep DEF Finished
<1>7. TypeOK'
  BY <1>1, <1>5, <1>6 DEF TypeOK, engineVars, childVars
<1>8. Thread'
  <2>1. RunningIsExecuted'
    BY <1>1, <1>2, <1>3, <1>5 DEF Thread, RunningIsExecuted, Executing
  <2> QED
    BY <1>1, <1>2, <2>1 DEF Thread, Executing
<1>9. Waiting'
  <2>1. \A k \in ToSet(pending) : k \in Job /\ k # j
    BY DEF Waiting, TypeOK, ToSet
  <2>2. QueueHoldsQueued'
    <3>1. \A k \in Job : state'[k] = "queued" => k \in ToSet(pending)
      BY <1>3, <1>5 DEF Waiting, QueueHoldsQueued
    <3>2. \A k \in ToSet(pending) : state'[k] \in Unfinished => state'[k] = "queued"
      BY <1>5, <2>1 DEF Waiting, QueueHoldsQueued
    <3> QED
      BY <1>1, <3>1, <3>2 DEF Waiting, QueueHoldsQueued
  <2>3. \A k \in cancellation' : state'[k] \notin {"queued", "absent"}
    BY <1>1, <1>3, <1>5 DEF Waiting, TypeOK
  <2> QED
    BY <1>1, <1>2, <1>5, <2>1, <2>2, <2>3 DEF Waiting
<1>10. Reasons'
  <2>1. result = "cancelled" => j \in excused
    BY <1>1, <1>3 DEF Reasons, Executing
  <2>2. CancelledForAReason'
    BY <1>1, <1>5, <1>6, <2>1 DEF Reasons, CancelledForAReason
  <2> QED
    BY <1>1, <1>2, <2>2 DEF Reasons, Executing
<1>11. Starts'
  BY <1>1, <1>2, <1>3, <1>5, <1>6, StartsKept
<1> QED
  BY <1>6, <1>7, <1>8, <1>9, <1>10, <1>11

(* A step of the thread or the child that changes no state and saves nothing.   *)
LEMMA QuietStep ==
  ASSUME IInv, TypeOK', UNCHANGED <<records, queue, main>>,
         excused \subseteq excused',
         worker' \in Executing <=> worker \in Executing,
         worker = "ended" => worker' = "ended",
         worker' \in {"spawned", "polling", "reading"} => child' # "none",
         worker' \in Executing /\ status' = 2 => active \in excused',
         worker' = "generating" /\ stop_flag' => active \in excused',
         Starts',
         \/ UNCHANGED started
         \/ worker \in Executing /\ \A j \in Job \ {active} : started'[j] = started[j]
  PROVE  IInv' /\ Final
<1> USE DEF IInv, records, queue
<1>1. Thread'
  BY DEF Thread, RunningIsExecuted, Executing
<1>2. Waiting'
  BY DEF Waiting, QueueHoldsQueued
<1>3. Files'
  BY DEF Files, FileIsCurrent
<1>4. Reasons'
  BY DEF Reasons, CancelledForAReason
<1>5. Final
  <2>1. \A j \in Job : disk'[j] = disk[j] /\ state'[j] = state[j]
    OBVIOUS
  <2>2. CASE UNCHANGED started
    BY <2>1, <2>2 DEF Final
  <2>3. CASE worker \in Executing /\ \A j \in Job \ {active} : started'[j] = started[j]
    <3>1. main # "down" /\ active \in Job /\ state[active] \in {"running", "cancelling"}
      BY <2>3 DEF Thread, RunningIsExecuted, Executing
    <3>2. state[active] \notin Finished /\ disk[active] \notin Finished
      BY <3>1 DEF Files, Finished
    <3> QED
      BY <2>1, <2>3, <3>2 DEF Final
  <2> QED
    BY <2>2, <2>3
<1> QED
  BY <1>1, <1>2, <1>3, <1>4, <1>5

LEMMA ChildStep ==
  ASSUME IInv, ChildExits
  PROVE  IInv' /\ Final
<1> USE DEF IInv
<1>1. /\ child' = "exited" /\ status' \in {0, 1} /\ excused' = excused
      /\ UNCHANGED <<records, queue, worker, engineVars, child_known, signalled, main, started>>
  BY DEF ChildExits
<1>2. TypeOK'
  BY <1>1 DEF TypeOK, records, queue, engineVars
<1>3. Starts'
  BY <1>1 DEF Starts, StartedOnce, records, queue
<1>4. worker' = "generating" /\ stop_flag' => active \in excused'
  BY <1>1 DEF Reasons, engineVars
<1> QED
  BY <1>1, <1>2, <1>3, <1>4, QuietStep

LEMMA BeginStep ==
  ASSUME IInv, Generate \/ Spawn
  PROVE  IInv' /\ Final
<1> USE DEF IInv
<1>1. /\ worker = "picked" /\ worker' \in {"generating", "spawned"}
      /\ started' = [started EXCEPT ![active] = @ + 1]
      /\ UNCHANGED <<records, queue, status, engine, child_known, signalled, main, excused>>
      /\ stop_flag' \in BOOLEAN /\ (worker' = "generating" => ~stop_flag')
      /\ child' \in {child, "running"} /\ (worker' = "spawned" => child' = "running")
  <2>1. CASE Generate
    BY <2>1 DEF Generate, WorkerAt, ResetFlag, Begin, childVars
  <2>2. CASE Spawn
    BY <2>2 DEF Spawn, WorkerAt, Begin, engineVars, TypeOK
  <2> QED
    BY <2>1, <2>2
<1>2. active \in Job /\ started[active] = 0 /\ started \in [Job -> Nat] /\ main # "down"
      /\ state[active] \in {"running", "cancelling"}
  BY <1>1 DEF Thread, RunningIsExecuted, Executing, Starts, TypeOK
<1>3. /\ started' \in [Job -> Nat] /\ started'[active] = 1
      /\ \A j \in Job \ {active} : started'[j] = started[j]
  BY <1>1, <1>2
<1>4. TypeOK'
  BY <1>1, <1>3 DEF TypeOK, records, queue, Executing
<1>5. Starts'
  <2>1. disk[active] # "absent" /\ state[active] # "queued"
    BY <1>2 DEF Files
  <2>2. StartedOnce'
    BY <1>3 DEF Starts, StartedOnce
  <2> QED
    BY <1>1, <1>3, <2>1, <2>2 DEF Starts, records
<1> QED
  BY <1>1, <1>3, <1>4, <1>5, QuietStep DEF Executing, Reasons

LEMMA ThreadStep ==
  ASSUME IInv,
         \/ Quit \/ GenerateEnds \/ GenerateStops \/ BeginFails
         \/ PublishChild \/ PollChild \/ Reap \/ ForgetChild \/ ChildVerdict
  PROVE  IInv' /\ Final
<1> USE DEF IInv
<1>1. /\ UNCHANGED <<records, queue, main, engine, stop_flag, started, excused>>
      /\ worker' \in Executing \union {"ended"} /\ worker' # "picked"
      /\ worker' \in Executing <=> worker \in Executing
      /\ worker' = "generating" => worker = "generating"
      /\ worker # "ended"
  BY DEF Quit, GenerateEnds, GenerateStops, BeginFails, PublishChild, PollChild, Reap,
         ForgetChild, ChildVerdict, WorkerAt, Executing, engineVars
<1>2. /\ {child_known', signalled'} \subseteq BOOLEAN
      /\ child' \in {"none", "running", "exited", "reaped"}
      /\ child_known' => child' # "none"
      /\ worker' \in {"spawned", "polling", "reading"} => child' # "none"
  <2> USE DEF WorkerAt, childVars, Thread, TypeOK
  <2>1. CASE Quit
    BY <2>1 DEF Quit
  <2>2. CASE GenerateEnds \/ GenerateStops \/ BeginFails
    BY <2>2 DEF GenerateEnds, GenerateStops, BeginFails
  <2>3. CASE PublishChild
    BY <2>3 DEF PublishChild
  <2>4. CASE PollChild
    BY <2>4 DEF PollChild
  <2>5. CASE Reap
    BY <2>5 DEF Reap
  <2>6. CASE ForgetChild
    BY <2>6 DEF ForgetChild
  <2>7. CASE ChildVerdict
    BY <2>7 DEF ChildVerdict
  <2> QED
    BY <2>1, <2>2, <2>3, <2>4, <2>5, <2>6, <2>7
<1>3. status' \in 0 .. 2 /\ (worker' \in Executing /\ status' = 2 => active \in excused)
  <2>1. CASE GenerateStops
    BY <2>1 DEF GenerateStops, WorkerAt, Reasons
  <2>2. CASE ChildVerdict
    BY <2>2 DEF ChildVerdict, WorkerAt, Reasons, CancelAsked, closing, Executing, TypeOK, Thread
  <2>3. CASE GenerateEnds \/ BeginFails
    BY <2>3 DEF GenerateEnds, BeginFails
  <2>4. CASE Quit \/ PublishChild \/ PollChild \/ Reap \/ ForgetChild
    <3>1. status' = status
      BY <2>4 DEF Quit, PublishChild, PollChild, Reap, ForgetChild
    <3> QED
      BY <3>1, <1>1 DEF Reasons, TypeOK
  <2> QED
    BY <2>1, <2>2, <2>3, <2>4
<1>4. TypeOK'
  BY <1>1, <1>2, <1>3 DEF TypeOK, records, queue
<1>5. Starts'
  BY <1>1 DEF Starts, StartedOnce, records, queue
<1>6. worker' = "generating" /\ stop_flag' => active \in excused'
  BY <1>1 DEF Reasons
<1> QED
  BY <1>1, <1>2, <1>3, <1>4, <1>5, <1>6, QuietStep

(* A progress event saves the state as it is.                                   *)
LEMMA EventStep ==
  ASSUME IInv, ProgressEvent \/ EventUnsaved
  PROVE  IInv' /\ Final
<1> USE DEF IInv
<1> DEFINE j == active
<1>1. /\ worker = "generating" /\ UNCHANGED <<state, queue, worker, status, engine, childVars, main, started>>
      /\ excused' \in {excused, excused \union {j}}
      /\ stop_flag' \in BOOLEAN
      /\ stop_flag' => stop_flag \/ j \in cancellation \/ j \in excused'
      /\ (\E saved \in BOOLEAN : Save(j, saved)) \/ UNCHANGED <<disk, unsaved, refused>>
  BY DEF ProgressEvent, EventUnsaved, EventCancels, CancelAsked, TypeOK
<1>2. j \in Job /\ main # "down" /\ state[j] \in {"running", "cancelling"}
  BY <1>1 DEF Thread, RunningIsExecuted, Executing
<1>3. /\ disk' \in [Job -> Recorded] /\ unsaved' \subseteq Job /\ refused' \in 0 .. MaxRefused
      /\ Files' /\ Final
      /\ \A k \in Job : disk'[k] = "absent" => disk[k] = "absent"
      /\ \A k \in Job : disk'[k] \in {disk[k], state'[k]}
  <2>1. ASSUME NEW saved \in BOOLEAN, Save(j, saved) PROVE <1>3
    <3>1. state' \in [Job -> Recorded] /\ state'[j] # "absent"
      BY <1>1, <1>2 DEF TypeOK
    <3> QED
      BY <1>1, <1>2, <2>1, <3>1, SaveStep
  <2>2. CASE UNCHANGED <<disk, unsaved, refused>>
    BY <1>1, <2>2 DEF TypeOK, Files, FileIsCurrent, Final
  <2> QED
    BY <1>1, <2>1, <2>2
<1>4. TypeOK'
  BY <1>1, <1>2, <1>3 DEF TypeOK, queue, childVars
<1>5. Thread'
  BY <1>1 DEF Thread, RunningIsExecuted, queue, childVars, Executing
<1>6. Waiting'
  BY <1>1 DEF Waiting, QueueHoldsQueued, queue
<1>7. Reasons'
  <2>1. CancelledForAReason'
    BY <1>1, <1>3 DEF Reasons, CancelledForAReason
  <2> QED
    BY <1>1, <2>1 DEF Reasons, queue
<1>8. Starts'
  BY <1>1, <1>2, <1>3, StartsKept DEF queue
<1> QED
  BY <1>3, <1>4, <1>5, <1>6, <1>7, <1>8

--------------------------------------------------------------------------------
(* The process.                                                                 *)

LEMMA VanishStep ==
  ASSUME IInv, Vanish
  PROVE  IInv' /\ Final
<1> USE DEF IInv
<1>1. /\ state' = NoRecords /\ external' = {} /\ cancellation' = {} /\ pending' = <<>>
      /\ active' = NoJob /\ worker' = "ended" /\ status' = 0 /\ engine' = FALSE
      /\ stop_flag' = FALSE /\ child' = "none" /\ child_known' = FALSE /\ signalled' = FALSE
      /\ main' = "down" /\ UNCHANGED <<disk, unsaved, refused, started, excused>>
  BY DEF Vanish
<1>2. state' \in [Job -> Recorded] /\ \A j \in Job : state'[j] = "absent"
  BY <1>1 DEF NoRecords, Recorded
<1>3. pending' \in Seq(Job) /\ Len(pending') = 0 /\ ToSet(pending') = {} /\ DOMAIN pending' = {}
  BY <1>1 DEF ToSet
<1>4. TypeOK'
  <2>1. {engine', stop_flag', child_known', signalled'} \subseteq BOOLEAN
    BY <1>1
  <2>2. external' \subseteq Job /\ cancellation' \subseteq Job /\ Len(pending') <= MaxPending
    BY <1>1, <1>3
  <2>3. status' \in 0 .. 2
    BY <1>1
  <2> QED
    BY <1>1, <1>2, <1>3, <2>1, <2>2, <2>3 DEF TypeOK
<1>5. Thread' /\ Files' /\ Final
  <2>1. Thread'
    BY <1>1, <1>2 DEF Thread, RunningIsExecuted, Executing
  <2>2. Files'
    BY <1>1 DEF Files, FileIsCurrent
  <2>3. Final
    BY <1>1, <1>2 DEF Final
  <2> QED
    BY <2>1, <2>2, <2>3
<1>6. Waiting'
  BY <1>1, <1>2, <1>3 DEF Waiting, QueueHoldsQueued
<1>7. Reasons' /\ Starts'
  <2>1. Reasons'
    BY <1>1, <1>2 DEF Reasons, CancelledForAReason, Executing
  <2>2. Starts'
    BY <1>1, <1>2 DEF Starts, StartedOnce
  <2> QED
    BY <2>1, <2>2
<1> QED
  BY <1>4, <1>5, <1>6, <1>7

LEMMA StartStep ==
  ASSUME IInv, Start
  PROVE  IInv' /\ Final
<1> USE DEF IInv
<1>1. /\ main = "down" /\ main' = "serving" /\ worker' = "waiting"
      /\ disk' = [j \in Job |-> Recovered(disk[j])] /\ state' = disk' /\ unsaved' = {}
      /\ UNCHANGED <<refused, queue, status, engineVars, childVars, started, excused>>
  BY DEF Start
<1>2. pending = <<>> /\ active = NoJob /\ NoJob \notin Job /\ cancellation = {}
      /\ \A j \in Job : state[j] = "absent"
  BY <1>1 DEF Thread, NoRecords
<1>3. /\ disk' \in [Job -> Recorded]
      /\ \A j \in Job : /\ disk'[j] \notin Unfinished
                        /\ disk[j] \in Finished \union {"absent"} => disk'[j] = disk[j]
                        /\ disk[j] \in Unfinished => disk'[j] = "interrupted"
  BY <1>1 DEF TypeOK, Recovered, Recorded, Unfinished, Finished
<1>4. \A j \in Job : disk[j] \in Unfinished \union Finished \union {"absent"}
  BY DEF TypeOK, Recorded
<1>5. TypeOK'
  BY <1>1, <1>3 DEF TypeOK, queue, engineVars, childVars
<1>6. Thread'
  <2>1. RunningIsExecuted'
    BY <1>1, <1>3 DEF RunningIsExecuted, Executing, Unfinished
  <2> QED
    BY <1>1, <2>1 DEF Thread, childVars, Executing
<1>7. Waiting'
  <2>1. pending' = <<>> /\ ToSet(pending') = {} /\ DOMAIN pending' = {}
    BY <1>1, <1>2 DEF queue, ToSet
  <2> QED
    BY <1>1, <1>2, <1>3, <2>1 DEF Waiting, QueueHoldsQueued, queue, Unfinished
<1>8. Files'
  BY <1>1 DEF Files, FileIsCurrent
<1>9. Final
  BY <1>1, <1>2, <1>3 DEF Final, Finished
<1>10. Reasons'
  <2>1. CancelledForAReason'
    <3> SUFFICES ASSUME NEW j \in Job, disk'[j] = "cancelled" PROVE j \in excused
      BY <1>1 DEF CancelledForAReason
    <3>1. disk[j] = "cancelled"
      BY <1>3, <1>4
    <3> QED
      BY <3>1 DEF Reasons, CancelledForAReason
  <2> QED
    BY <1>1, <1>2, <2>1 DEF Reasons, queue, Executing
<1>11. Starts'
  <2>1. \A j \in Job : disk'[j] = "absent" => disk[j] = "absent"
    BY <1>3, <1>4
  <2>2. \A j \in Job : state'[j] # "queued"
    BY <1>1, <1>3 DEF Unfinished
  <2> QED
    BY <1>1, <2>1, <2>2 DEF Starts, StartedOnce
<1> QED
  BY <1>5, <1>6, <1>7, <1>8, <1>9, <1>10, <1>11

LEMMA StartFailsStep ==
  ASSUME IInv, StartFails
  PROVE  IInv' /\ Final
<1> USE DEF IInv
<1> PICK j \in Job : disk[j] \in Unfinished /\ disk' = [disk EXCEPT ![j] = Recovered(disk[j])]
  BY DEF StartFails
<1>1. /\ main = "down"
      /\ UNCHANGED <<state, unsaved, refused, queue, worker, status, engineVars, childVars,
                     main, started, excused>>
  BY DEF StartFails
<1>2. /\ disk' \in [Job -> Recorded] /\ disk'[j] = "interrupted"
      /\ \A k \in Job \ {j} : disk'[k] = disk[k]
  BY DEF TypeOK, Recovered, Recorded, Finished
<1>3. TypeOK'
  BY <1>1, <1>2 DEF TypeOK, queue, engineVars, childVars
<1>4. Thread' /\ Waiting'
  BY <1>1 DEF Thread, RunningIsExecuted, Waiting, QueueHoldsQueued, queue, childVars, Executing
<1>5. Files' /\ Final
  BY <1>1, <1>2 DEF Files, FileIsCurrent, Final, Unfinished, Finished
<1>6. Reasons'
  BY <1>1, <1>2 DEF Reasons, CancelledForAReason, queue, engineVars, Executing
<1>7. Starts'
  BY <1>1, <1>2 DEF Starts, StartedOnce, queue
<1> QED
  BY <1>3, <1>4, <1>5, <1>6, <1>7

LEMMA FiniteQueue ==
  ASSUME pending \in Seq(Job)
  PROVE  IsFiniteSet(ToSet(pending))
<1> DEFINE f == [n \in 1 .. Len(pending) |-> pending[n]]
<1>1. IsFiniteSet(1 .. Len(pending))
  BY FS_Interval, LenProperties
<1>2. f \in Surjection(1 .. Len(pending), ToSet(pending))
  BY LenProperties DEF Surjection, ToSet
<1> QED
  BY <1>1, <1>2, FS_Surjection

LEMMA ShutdownStep ==
  ASSUME IInv, Shutdown
  PROVE  IInv' /\ Final
<1> USE DEF IInv
<1>1. /\ main = "serving" /\ main' = "joining"
      /\ stop_flag' \in BOOLEAN /\ signalled' \in BOOLEAN
      /\ state' = [j \in Job |-> IF j \in Interrupts THEN "interrupted" ELSE state[j]]
      /\ excused' = excused \union ({active} \intersect Job)
      /\ UNCHANGED <<queue, worker, status, engine, child, child_known, started>>
  BY DEF Shutdown, TypeOK
<1> PICK failed \in SUBSET Interrupts :
           /\ disk' = [j \in Job |->
                  IF j \in Interrupts \ failed THEN "interrupted" ELSE disk[j]]
           /\ unsaved' = (unsaved \ Interrupts) \union failed
           /\ refused' = refused + Cardinality(failed) /\ refused' <= MaxRefused
  BY DEF Shutdown
<1>2. \A j \in Interrupts : j \in Job /\ j \in ToSet(pending) /\ state[j] = "queued" /\ j # active
  BY DEF Interrupts, TypeOK, ToSet, Waiting
<1>3. refused' \in 0 .. MaxRefused
  <2>1. IsFiniteSet(failed)
    BY FiniteQueue, FS_Subset DEF TypeOK, Interrupts
  <2>2. Cardinality(failed) \in Nat
    BY <2>1, FS_CardinalityType
  <2> QED
    BY <2>2 DEF TypeOK
<1>4. /\ state' \in [Job -> Recorded] /\ disk' \in [Job -> Recorded]
      /\ \A j \in Interrupts : state'[j] = "interrupted" /\ disk'[j] \in {disk[j], "interrupted"}
      /\ \A j \in Job \ Interrupts : state'[j] = state[j] /\ disk'[j] = disk[j]
  BY <1>1, <1>2 DEF TypeOK, Recorded, Finished
<1>5. TypeOK'
  BY <1>1, <1>2, <1>3, <1>4 DEF TypeOK, queue
<1>6. Thread'
  <2>1. RunningIsExecuted'
    <3> SUFFICES ASSUME NEW j \in Job
                 PROVE  state'[j] \in {"running", "cancelling"} <=> worker \in Executing /\ j = active
      BY <1>1 DEF RunningIsExecuted, Executing, queue
    <3>1. state'[j] \in {"running", "cancelling"} <=> state[j] \in {"running", "cancelling"}
      BY <1>2, <1>4
    <3> QED
      BY <3>1 DEF Thread, RunningIsExecuted
  <2> QED
    BY <1>1, <2>1 DEF Thread, queue, Executing
<1>7. \A j \in Job : state'[j] = "queued" => state[j] = "queued" /\ j \notin Interrupts
  BY <1>2, <1>4
<1>8. Waiting'
  <2>1. QueueHoldsQueued'
    <3>1. \A j \in Job : state'[j] = "queued" => j \in ToSet(pending)
      BY <1>7 DEF Waiting, QueueHoldsQueued
    <3>2. \A j \in ToSet(pending) : state'[j] \in Unfinished => state'[j] = "queued"
      <4> SUFFICES ASSUME NEW j \in ToSet(pending), state'[j] \in Unfinished
                   PROVE  state'[j] = "queued"
        OBVIOUS
      <4>1. j \in Job
        BY DEF TypeOK, ToSet
      <4>2. j \notin Interrupts
        BY <1>4 DEF Unfinished
      <4> QED
        BY <1>4, <4>1, <4>2 DEF Waiting, QueueHoldsQueued
    <3> QED
      BY <1>1, <3>1, <3>2 DEF Waiting, QueueHoldsQueued, queue
  <2>2. \A j \in Job : state'[j] = "absent" => state[j] = "absent"
    BY <1>4
  <2>3. \A j \in ToSet(pending) : j \in Job /\ state'[j] # "absent" /\ j # active
    BY <2>2 DEF Waiting, TypeOK, ToSet
  <2>4. \A j \in cancellation : state'[j] \notin {"queued", "absent"}
    BY <1>7, <2>2 DEF Waiting, TypeOK
  <2>5. active \in Job => state'[active] # "absent"
    BY <2>2 DEF Waiting
  <2> QED
    BY <1>1, <2>1, <2>3, <2>4, <2>5 DEF Waiting, queue
<1>9. Files'
  <2>1. FileIsCurrent'
    <3> SUFFICES ASSUME NEW j \in Job, j \notin unsaved' PROVE disk'[j] = state'[j]
      BY DEF FileIsCurrent
    <3>1. CASE j \in Interrupts
      BY <1>1, <1>2, <3>1
    <3>2. CASE j \notin Interrupts
      BY <1>1, <1>4, <3>2 DEF Files, FileIsCurrent
    <3> QED
      BY <3>1, <3>2
  <2>2. \A j \in Job : /\ disk'[j] \in Finished => state'[j] = disk'[j]
                       /\ disk'[j] = "absent" <=> state'[j] = "absent"
    <3> TAKE j \in Job
    <3>1. /\ disk[j] \in Finished => state[j] = disk[j]
          /\ disk[j] = "absent" <=> state[j] = "absent"
      BY <1>1 DEF Files
    <3>2. CASE j \in Interrupts
      BY <1>2, <1>4, <3>1, <3>2 DEF Finished
    <3>3. CASE j \notin Interrupts
      BY <1>4, <3>1, <3>3
    <3> QED
      BY <3>2, <3>3
  <2> QED
    BY <2>1, <2>2 DEF Files
<1>10. Final
  <2> SUFFICES ASSUME NEW j \in Job
               PROVE  /\ disk[j] \in Finished => disk'[j] = disk[j]
                      /\ state[j] \in Finished => state'[j] = state[j]
    BY <1>1 DEF Final
  <2>1. disk[j] \in Finished => state[j] = disk[j]
    BY <1>1 DEF Files
  <2>2. state[j] \in Finished => j \notin Interrupts
    BY <1>2 DEF Finished
  <2> QED
    BY <1>4, <2>1, <2>2
<1>11. Reasons'
  <2>1. CancelledForAReason'
    <3> SUFFICES ASSUME NEW j \in Job, "cancelled" \in {disk'[j], state'[j]} PROVE j \in excused
      BY <1>1 DEF CancelledForAReason
    <3>1. "cancelled" \in {disk[j], state[j]}
      BY <1>4
    <3> QED
      BY <3>1 DEF Reasons, CancelledForAReason
  <2>2. worker \in Executing => active \in excused'
    BY <1>1 DEF Thread
  <2> QED
    BY <1>1, <2>1, <2>2 DEF Reasons, queue, Executing
<1>12. Starts'
  <2>1. \A j \in Job : disk'[j] = "absent" => disk[j] = "absent"
    BY <1>4
  <2> QED
    BY <1>1, <1>7, <2>1 DEF Starts, StartedOnce, queue
<1> QED
  BY <1>5, <1>6, <1>8, <1>9, <1>10, <1>11, <1>12

--------------------------------------------------------------------------------
(* The theorems.                                                                *)

LEMMA InitInvariant == Init => IInv
<1> SUFFICES ASSUME Init PROVE IInv
  OBVIOUS
<1> USE DEF Init, NoRecords
<1>1. pending \in Seq(Job) /\ Len(pending) = 0 /\ ToSet(pending) = {} /\ DOMAIN pending = {}
  BY DEF ToSet
<1>2. TypeOK
  <2>1. {engine, stop_flag, child_known, signalled} \subseteq BOOLEAN
    OBVIOUS
  <2>2. disk \in [Job -> Recorded] /\ state \in [Job -> Recorded] /\ started \in [Job -> Nat]
    BY DEF Recorded
  <2>3. Len(pending) <= MaxPending /\ refused \in 0 .. MaxRefused /\ status \in 0 .. 2
    BY <1>1
  <2> QED
    BY <1>1, <2>1, <2>2, <2>3 DEF TypeOK
<1>3. Thread /\ Files
  BY DEF Thread, RunningIsExecuted, Executing, Files, FileIsCurrent
<1>4. Waiting
  BY <1>1 DEF Waiting, QueueHoldsQueued
<1>5. Reasons
  BY DEF Reasons, CancelledForAReason, Executing
<1>6. Starts
  BY DEF Starts, StartedOnce
<1> QED
  BY <1>2, <1>3, <1>4, <1>5, <1>6 DEF IInv

LEMMA StepInvariant == IInv /\ [Next]_vars => IInv' /\ Final
<1> SUFFICES ASSUME IInv, [Next]_vars PROVE IInv' /\ Final
  OBVIOUS
<1>1. CASE Main
  BY <1>1, StartStep, StartFailsStep, SubmitStep, CancelStep, ShutdownStep, VanishStep DEF Main, Exit
<1>2. CASE Worker
  BY <1>2, ThreadStep, BeginStep, EventStep, SkipStep, PickUnsavedStep, PickStep, JudgeStep
     DEF Worker, Prompt
<1>3. CASE ChildExits
  BY <1>3, ChildStep
<1>4. CASE Crash
  BY <1>4, VanishStep DEF Crash
<1>5. CASE UNCHANGED vars
  <2> USE <1>5 DEF vars, records, queue, engineVars, childVars
  <2>1. TypeOK'
    BY DEF IInv, TypeOK
  <2>2. Thread' /\ Waiting' /\ Files'
    BY DEF IInv, Thread, RunningIsExecuted, Waiting, QueueHoldsQueued, Files, FileIsCurrent
  <2>3. Reasons' /\ Starts' /\ Final
    BY DEF IInv, Reasons, CancelledForAReason, Starts, StartedOnce, Final
  <2> QED
    BY <2>1, <2>2, <2>3 DEF IInv
<1> QED
  BY <1>1, <1>2, <1>3, <1>4, <1>5 DEF Next

LEMMA Invariant == Spec => []IInv
BY InitInvariant, StepInvariant, PTL DEF Spec

(* Every reachable state has the shape TypeOK gives: the queue keeps its limit, *)
(* and a child process the service believes in exists.                          *)
THEOREM TypeCorrect == Spec => []TypeOK
<1>1. IInv => TypeOK
  BY DEF IInv
<1> QED
  BY <1>1, Invariant, PTL

(* What a client is told to be running is what the worker thread executes, one  *)
(* job at a time (service.mm:411-414, 453-470, 567).                            *)
THEOREM RunningJob == Spec => []RunningIsExecuted
<1>1. IInv => RunningIsExecuted
  BY DEF IInv, Thread
<1> QED
  BY <1>1, Invariant, PTL

(* No queued job is forgotten or queued twice, also when the save of a          *)
(* cancellation fails half-way (service.mm:553, 567-568).                       *)
THEOREM QueueIntact == Spec => []QueueHoldsQueued
<1>1. IInv => QueueHoldsQueued
  BY DEF IInv, Waiting
<1> QED
  BY <1>1, Invariant, PTL

(* The file of a job is only behind if its last save failed                     *)
(* (service.mm:235-240).                                                        *)
THEOREM FilesCurrent == Spec => []FileIsCurrent
<1>1. IInv => FileIsCurrent
  BY DEF IInv, Files
<1> QED
  BY <1>1, Invariant, PTL

(* No job ends as cancelled by a stop that was meant for another one            *)
(* (service.mm:241-249, c_api.mm:1182).                                         *)
THEOREM CancelReasons == Spec => []CancelledForAReason
<1>1. IInv => CancelledForAReason
  BY DEF IInv, Reasons
<1> QED
  BY <1>1, Invariant, PTL

(* No job is generated twice, whatever number of crashes and restarts there is: *)
(* the state "running" is saved before the generation begins                    *)
(* (service.mm:424-433) and a restart interrupts what was unfinished.           *)
THEOREM GeneratedOnce == Spec => []StartedOnce
<1>1. IInv => StartedOnce
  BY DEF IInv, Starts
<1> QED
  BY <1>1, Invariant, PTL

(* A finished job is never changed or begun again, in memory and on disk.       *)
THEOREM Finality == Spec => FinishedIsFinal
<1>1. IInv /\ [Next]_vars => [Final]_vars
  BY StepInvariant
<1>2. Final <=> \A j \in Job :
           /\ disk[j] \in Finished => disk'[j] = disk[j]
           /\ state[j] \in Finished => state'[j] \in {state[j], "absent"}
           /\ {disk[j], state[j]} \intersect Finished # {} => started'[j] = started[j]
  BY DEF Final
<1> QED
  BY <1>1, <1>2, Invariant, PTL DEF Spec, FinishedIsFinal
================================================================================
