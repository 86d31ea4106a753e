------------------------------- MODULE IoProofs -------------------------------
(***************************************************************************)
(* Proofs about IoExecutor, for any number of workers, jobs, credits and   *)
(* completion records.                                                     *)
(*                                                                         *)
(* A job is followed through its places - the ring, the hands of a worker, *)
(* the mailbox, then delivered or dropped - which exclude one another      *)
(* (Places); the credits taken are counted by where the workers are        *)
(* (Credits).                                                              *)
(***************************************************************************)
EXTENDS IoExecutor, FiniteSetTheorems, SequenceTheorems, TLAPS

InRing(j) == \E i \in DOMAIN jobs : jobs[i] = j
InHand(j) == \E w \in Worker : held[w] = j
InMail(j) == \E i \in DOMAIN mailbox : mailbox[i].job = j

Holding == {"filling", "crediting", "posting"}
Busy == {w \in Worker : pc[w] \in {"filling", "crediting"}}
Hands == {w \in Worker : held[w] # NoJob}
InFlight == {j \in Job : InRing(j) \/ InHand(j)}

NoRepetition ==
  /\ \A i, k \in DOMAIN jobs : i # k => jobs[i] # jobs[k]
  /\ \A i, k \in DOMAIN mailbox : i # k => mailbox[i].job # mailbox[k].job
  /\ \A v, w \in Worker : v # w /\ held[v] # NoJob => held[v] # held[w]

Places ==
  /\ \A j \in Job : j \in submitted <=>
       InRing(j) \/ InHand(j) \/ InMail(j) \/ delivered[j] > 0 \/ j \in dropped
  /\ \A j \in Job : InRing(j) => ~InHand(j)
  /\ \A j \in Job : InRing(j) \/ InHand(j) => ~InMail(j)
  /\ \A j \in Job : InRing(j) \/ InHand(j) \/ InMail(j) => delivered[j] = 0
  /\ \A j \in Job : InRing(j) \/ InHand(j) \/ InMail(j) \/ delivered[j] > 0 => j \notin dropped
  /\ \A j \in Job : delivered[j] \in {0, 1}
  /\ dropped # {} => overflow

Credits ==
  /\ \A w \in Worker : held[w] # NoJob <=> pc[w] \in Holding
  /\ running = Cardinality(Busy)
  /\ IsFiniteSet(InFlight)
  /\ Len(jobs) + Cardinality(Hands) = Cardinality(InFlight)

Joined == owner = "joined" => \A w \in Worker : pc[w] = "exited"

IInv == TypeOK /\ NoRepetition /\ Places /\ Credits /\ Joined

(* What no step may touch after the join.                                  *)
Quiet ==
  owner = "joined" => UNCHANGED <<jobs, running, cancelled, overflow, pc, held, result>>

USE IoAssumption

-----------------------------------------------------------------------------
(* Rings.                                                                  *)

LEMMA AppendRing ==
  ASSUME NEW S, NEW s \in Seq(S), NEW e \in S
  PROVE  /\ Append(s, e) \in Seq(S) /\ Len(Append(s, e)) = Len(s) + 1
         /\ DOMAIN s = 1 .. Len(s) /\ DOMAIN Append(s, e) = 1 .. Len(s) + 1 /\ Len(s) \in Nat
         /\ Append(s, e)[Len(s) + 1] = e
         /\ \A i \in DOMAIN s : Append(s, e)[i] = s[i]
BY AppendProperties

LEMMA TailRing ==
  ASSUME NEW S, NEW s \in Seq(S), s # <<>>
  PROVE  /\ Tail(s) \in Seq(S) /\ Len(Tail(s)) = Len(s) - 1 /\ Head(s) \in S /\ Head(s) = s[1]
         /\ DOMAIN s = 1 .. Len(s) /\ DOMAIN Tail(s) = 1 .. Len(s) - 1 /\ Len(s) \in Nat \ {0}
         /\ \A i \in 1 .. Len(s) - 1 : Tail(s)[i] = s[i + 1]
<1>1. Len(s) \in Nat \ {0} /\ DOMAIN s = 1 .. Len(s)
  BY EmptySeq, LenProperties
<1>2. /\ Tail(s) \in Seq(S) /\ Len(Tail(s)) = Len(s) - 1 /\ Head(s) \in S
      /\ Head(s) = s[1] /\ \A i \in 1 .. Len(Tail(s)) : Tail(s)[i] = s[i + 1]
  BY HeadTailProperties
<1> QED
  BY <1>1, <1>2, LenProperties

(* Workers that join or leave a set of workers.                            *)
LEMMA WorkerCount ==
  ASSUME NEW A \in SUBSET Worker, NEW w \in Worker
  PROVE  /\ IsFiniteSet(A) /\ Cardinality(A) \in Nat
         /\ w \notin A => Cardinality(A \cup {w}) = Cardinality(A) + 1
         /\ w \in A => Cardinality(A \ {w}) = Cardinality(A) - 1 /\ Cardinality(A) # 0
<1>1. IsFiniteSet(A)
  BY FS_Subset DEF IoAssumption
<1> QED
  BY <1>1, FS_CardinalityType, FS_AddElement, FS_RemoveElement, FS_EmptySet

-----------------------------------------------------------------------------
(* Steps that move no job.                                                 *)

LEMMA PlacesKept ==
  ASSUME NoRepetition, Places, UNCHANGED <<jobs, held, mailbox, overflow, history>>
  PROVE  NoRepetition' /\ Places' /\ InFlight' = InFlight /\ Hands' = Hands
<1> USE DEF history
<1>1. NoRepetition'
  BY DEF NoRepetition
<1>2. /\ \A j : InRing(j)' = InRing(j) /\ InHand(j)' = InHand(j) /\ InMail(j)' = InMail(j)
  BY DEF InRing, InHand, InMail
<1>3. Places'
  BY <1>2 DEF Places
<1> QED
  BY <1>1, <1>2, <1>3 DEF InFlight, Hands

(* A step of a worker within the test, the sleep and the notification, or  *)
(* of the owner.                                                           *)
LEMMA MovesNothing ==
  ASSUME IInv, UNCHANGED <<jobs, running, held, mailbox, overflow, history>>,
         pc' \in [Worker -> WorkerState],
         \A w \in Worker : pc'[w] \in Holding <=> pc[w] \in Holding,
         \A w \in Worker : pc'[w] \in {"filling", "crediting"} <=> pc[w] \in {"filling", "crediting"},
         cancelled' \in BOOLEAN, result' \in [Worker -> BOOLEAN],
         owner' \in {"open", "notifying", "joining", "joined"}, Joined'
  PROVE  IInv'
<1>1. NoRepetition' /\ Places' /\ InFlight' = InFlight /\ Hands' = Hands
  BY PlacesKept DEF IInv
<1>2. TypeOK'
  BY DEF IInv, TypeOK, history
<1>3. Busy' = Busy
  BY DEF Busy
<1>4. Credits'
  BY <1>1, <1>3 DEF IInv, Credits
<1> QED
  BY <1>1, <1>2, <1>4 DEF IInv

LEMMA OwnerStepKeeps ==
  ASSUME IInv, StoreCancelled \/ NotifyAll \/ Join
  PROVE  IInv' /\ Quiet
<1> USE DEF IInv, TypeOK, mailVars, queueVars, history
<1>1. CASE StoreCancelled
  BY <1>1, MovesNothing DEF StoreCancelled, Joined, Quiet
<1>2. CASE NotifyAll
  <2>1. /\ pc' \in [Worker -> WorkerState]
        /\ \A w \in Worker : pc'[w] = pc[w] \/ (pc[w] = "asleep" /\ pc'[w] = "test")
    BY <1>2 DEF NotifyAll, WakeAll, WorkerState
  <2>2. \A w \in Worker : /\ pc'[w] \in Holding <=> pc[w] \in Holding
                          /\ pc'[w] \in {"filling", "crediting"} <=> pc[w] \in {"filling", "crediting"}
    BY <2>1 DEF Holding
  <2> QED
    BY <1>2, <2>1, <2>2, MovesNothing DEF NotifyAll, Joined, Quiet
<1>3. CASE Join
  BY <1>3, MovesNothing DEF Join, Joined, Quiet
<1> QED
  BY <1>1, <1>2, <1>3

LEMMA WaitingKeeps ==
  ASSUME IInv, NEW w \in Worker,
         Exit(w) \/ FindNothing(w) \/ Park(w) \/ WakeSpuriously(w) \/ Abort(w) \/ Notify(w)
         \/ \E ok \in BOOLEAN : Fill(w, ok)
  PROVE  IInv' /\ Quiet
<1> USE DEF IInv, mailVars, queueVars, history
<1>1. /\ UNCHANGED <<jobs, running, held, mailbox, overflow, history, owner>>
      /\ cancelled' \in BOOLEAN /\ result' \in [Worker -> BOOLEAN]
      /\ pc[w] # "exited"
  BY DEF TypeOK, Exit, FindNothing, Park, WakeSpuriously, Abort, Notify, Fill, Goto
<1>2. /\ pc' \in [Worker -> WorkerState]
      /\ \A v \in Worker : /\ pc'[v] \in Holding <=> pc[v] \in Holding
                           /\ pc'[v] \in {"filling", "crediting"} <=> pc[v] \in {"filling", "crediting"}
  <2>1. CASE Notify(w)
    BY <2>1 DEF TypeOK, Notify, WakeAll, WorkerState, Holding
  <2>2. CASE Exit(w) \/ FindNothing(w) \/ Park(w) \/ WakeSpuriously(w) \/ Abort(w)
    BY <2>2 DEF TypeOK, Exit, FindNothing, Park, WakeSpuriously, Abort, Goto, WorkerState, Holding
  <2>3. CASE \E ok \in BOOLEAN : Fill(w, ok)
    BY <2>3 DEF TypeOK, Fill, Goto, WorkerState, Holding
  <2> QED
    BY <2>1, <2>2, <2>3
<1>3. owner # "joined"
  BY <1>1 DEF Joined
<1> QED
  BY <1>1, <1>2, <1>3, MovesNothing DEF TypeOK, Joined, Quiet

LEMMA ReturnCreditKeeps ==
  ASSUME IInv, NEW w \in Worker, ReturnCredit(w)
  PROVE  IInv' /\ Quiet
<1> USE DEF IInv, mailVars, queueVars, history
<1>1. /\ UNCHANGED <<jobs, held, mailbox, overflow, history, owner, cancelled, result>>
      /\ pc[w] = "crediting" /\ pc' = [pc EXCEPT ![w] = "posting"] /\ running' = running - 1
  BY DEF ReturnCredit, Goto
<1>2. NoRepetition' /\ Places' /\ InFlight' = InFlight /\ Hands' = Hands
  BY <1>1, PlacesKept
<1>3. w \in Busy /\ Busy' = Busy \ {w}
  BY <1>1 DEF Busy, TypeOK
<1>4. Cardinality(Busy) \in Nat \ {0} /\ Cardinality(Busy') = Cardinality(Busy) - 1
  <2>1. Busy \in SUBSET Worker
    BY DEF Busy
  <2> QED
    BY <1>3, <2>1, WorkerCount
<1>5. TypeOK'
  BY <1>1, <1>4 DEF TypeOK, Credits, WorkerState
<1>6. \A v \in Worker : held'[v] # NoJob <=> pc'[v] \in Holding
  BY <1>1 DEF Credits, TypeOK, Holding
<1>7. Credits'
  BY <1>1, <1>2, <1>4, <1>6 DEF Credits
<1>8. owner # "joined"
  BY <1>1 DEF Joined
<1> QED
  BY <1>1, <1>2, <1>5, <1>7, <1>8 DEF Joined, Quiet

-----------------------------------------------------------------------------
(* Steps that move a job from one place to the next.                       *)

LEMMA EnqueueKeeps ==
  ASSUME IInv, NEW j \in Job, Enqueue(j)
  PROVE  IInv' /\ Quiet
<1> USE DEF IInv, mailVars
<1>1. /\ owner = "open" /\ j \notin submitted /\ HasCredit
      /\ jobs' = Append(jobs, j) /\ submitted' = submitted \cup {j}
      /\ UNCHANGED <<running, cancelled, mailbox, overflow, held, result, owner, delivered, dropped>>
  BY DEF Enqueue
<1>2. /\ jobs' \in Seq(Job) /\ Len(jobs') = Len(jobs) + 1 /\ Len(jobs) \in Nat
      /\ DOMAIN jobs = 1 .. Len(jobs) /\ DOMAIN jobs' = 1 .. Len(jobs) + 1
      /\ jobs'[Len(jobs) + 1] = j /\ \A i \in DOMAIN jobs : jobs'[i] = jobs[i]
  BY <1>1, AppendRing DEF TypeOK
<1>3. /\ pc' \in [Worker -> WorkerState]
      /\ \A v \in Worker : pc'[v] = pc[v] \/ (pc[v] = "asleep" /\ pc'[v] = "test")
  BY DEF Enqueue, TypeOK, WorkerState
<1>4. /\ \A k : InRing(k)' <=> InRing(k) \/ k = j
      /\ \A k : InHand(k)' = InHand(k) /\ InMail(k)' = InMail(k)
  <2>1. ASSUME NEW k PROVE InRing(k)' <=> InRing(k) \/ k = j
    BY <1>2 DEF InRing
  <2> QED
    BY <1>1, <2>1 DEF InHand, InMail
<1>5. ~InRing(j) /\ ~InHand(j) /\ ~InMail(j) /\ ~(delivered[j] > 0) /\ j \notin dropped
  BY <1>1 DEF Places
<1>6. TypeOK'
  <2>1. Len(jobs') + running <= QueueCapacity
    <3>1. Len(jobs) + running # QueueCapacity /\ Len(jobs) + running <= QueueCapacity
      BY <1>1 DEF HasCredit, TypeOK
    <3>2. running \in Nat /\ QueueCapacity \in Nat
      BY DEF TypeOK, IoAssumption
    <3> QED
      BY <1>2, <3>1, <3>2
  <2> QED
    BY <1>1, <1>2, <1>3, <2>1 DEF TypeOK
<1>7. NoRepetition'
  <2>1. \A i, k \in DOMAIN jobs' : i # k => jobs'[i] # jobs'[k]
    BY <1>2, <1>5 DEF NoRepetition, InRing
  <2> QED
    BY <1>1, <2>1 DEF NoRepetition
<1>8. Places'
  <2>1. delivered[j] = 0
    BY <1>5 DEF Places
  <2> QED
    BY <1>1, <1>4, <1>5, <2>1 DEF Places
<1>9. Credits'
  <2>1. Busy' = Busy /\ Hands' = Hands
    BY <1>1, <1>3 DEF Busy, Hands
  <2>2. InFlight' = InFlight \cup {j} /\ j \notin InFlight
    BY <1>4, <1>5 DEF InFlight
  <2>3. IsFiniteSet(InFlight') /\ Cardinality(InFlight') = Cardinality(InFlight) + 1
    BY <2>2, FS_AddElement DEF Credits
  <2>4. Cardinality(Hands) \in Nat /\ Cardinality(InFlight) \in Nat
    BY WorkerCount, FS_CardinalityType DEF Hands, Credits
  <2>5. \A v \in Worker : held'[v] # NoJob <=> pc'[v] \in Holding
    BY <1>1, <1>3 DEF Credits, Holding
  <2> QED
    BY <1>1, <1>2, <2>1, <2>3, <2>4, <2>5 DEF Credits
<1>10. Joined' /\ Quiet
  BY <1>1 DEF Joined, Quiet
<1> QED
  BY <1>6, <1>7, <1>8, <1>9, <1>10

LEMMA TakeKeeps ==
  ASSUME IInv, NEW w \in Worker, Take(w)
  PROVE  IInv' /\ Quiet
<1> USE DEF IInv, mailVars, history
<1> DEFINE j == Head(jobs)
<1>1. /\ pc[w] = "test" /\ pc' = [pc EXCEPT ![w] = "filling"] /\ jobs # <<>>
      /\ held' = [held EXCEPT ![w] = j] /\ jobs' = Tail(jobs) /\ running' = running + 1
      /\ UNCHANGED <<cancelled, mailbox, overflow, result, owner, submitted, delivered, dropped>>
  BY DEF Take, Goto
<1>2. /\ jobs' \in Seq(Job) /\ Len(jobs') = Len(jobs) - 1 /\ j \in Job /\ j = jobs[1]
      /\ DOMAIN jobs = 1 .. Len(jobs) /\ DOMAIN jobs' = 1 .. Len(jobs) - 1
      /\ Len(jobs) \in Nat \ {0} /\ \A i \in 1 .. Len(jobs) - 1 : jobs'[i] = jobs[i + 1]
  BY <1>1, TailRing DEF TypeOK
<1> HIDE DEF j
<1>3. held[w] = NoJob /\ j # NoJob /\ held' \in [Worker -> Job \cup {NoJob}]
      /\ held'[w] = j /\ \A v \in Worker \ {w} : held'[v] = held[v]
  BY <1>1, <1>2 DEF Credits, Holding, TypeOK, IoAssumption
<1>4. InRing(j) /\ ~InHand(j) /\ ~InMail(j)
  <2>1. InRing(j)
    BY <1>2 DEF InRing
  <2> QED
    BY <1>2, <2>1 DEF Places
<1>5. ASSUME NEW k PROVE InRing(k)' <=> InRing(k) /\ k # j
  <2>1. ASSUME InRing(k)' PROVE InRing(k) /\ k # j
    <3> PICK i \in 1 .. Len(jobs) - 1 : jobs'[i] = k
      BY <1>2, <2>1 DEF InRing
    <3>1. i + 1 \in DOMAIN jobs /\ 1 \in DOMAIN jobs /\ i + 1 # 1 /\ jobs[i + 1] = k
      BY <1>2
    <3> QED
      BY <1>2, <3>1 DEF InRing, NoRepetition
  <2>2. ASSUME InRing(k), k # j PROVE InRing(k)'
    <3> PICK i \in 1 .. Len(jobs) : jobs[i] = k
      BY <1>2, <2>2 DEF InRing
    <3>1. i # 1
      BY <1>2, <2>2
    <3>2. i - 1 \in 1 .. Len(jobs) - 1 /\ jobs'[i - 1] = jobs[(i - 1) + 1] /\ (i - 1) + 1 = i
      BY <1>2, <3>1
    <3> QED
      BY <1>2, <3>2 DEF InRing
  <2> QED
    BY <2>1, <2>2
<1>6. ASSUME NEW k \in Job PROVE InHand(k)' <=> InHand(k) \/ k = j
  BY <1>3 DEF InHand, IoAssumption
<1>7. \A k : InMail(k)' = InMail(k)
  BY <1>1 DEF InMail
<1>8. TypeOK'
  <2>1. Len(jobs') + running' <= QueueCapacity /\ running' \in Nat
    BY <1>1, <1>2 DEF TypeOK
  <2>2. pc' \in [Worker -> WorkerState]
    BY <1>1 DEF TypeOK, WorkerState
  <2> QED
    BY <1>1, <1>2, <1>3, <2>1, <2>2 DEF TypeOK
<1>9. NoRepetition'
  <2>1. \A i, k \in DOMAIN jobs' : i # k => jobs'[i] # jobs'[k]
    <3> SUFFICES ASSUME NEW i \in 1 .. Len(jobs) - 1, NEW k \in 1 .. Len(jobs) - 1, i # k
                 PROVE  jobs'[i] # jobs'[k]
      BY <1>2
    <3>1. i + 1 \in DOMAIN jobs /\ k + 1 \in DOMAIN jobs /\ i + 1 # k + 1
      BY <1>2
    <3> QED
      BY <1>2, <3>1 DEF NoRepetition
  <2>2. \A v, u \in Worker : v # u /\ held'[v] # NoJob => held'[v] # held'[u]
    BY <1>3, <1>4 DEF NoRepetition, InHand
  <2> QED
    BY <1>1, <2>1, <2>2 DEF NoRepetition
<1>10. Places'
  BY <1>1, <1>2, <1>4, <1>5, <1>6, <1>7 DEF Places
<1>11. Credits'
  <2>1. Busy' = Busy \cup {w} /\ w \notin Busy /\ Hands' = Hands \cup {w} /\ w \notin Hands
    BY <1>1, <1>3 DEF Busy, Hands, TypeOK
  <2>2. InFlight' = InFlight
    BY <1>4, <1>5, <1>6 DEF InFlight
  <2>3. Cardinality(Busy') = Cardinality(Busy) + 1 /\ Cardinality(Hands') = Cardinality(Hands) + 1
        /\ Cardinality(Hands) \in Nat
    <3>1. Busy \in SUBSET Worker /\ Hands \in SUBSET Worker
      BY DEF Busy, Hands
    <3> QED
      BY <2>1, <3>1, WorkerCount
  <2>4. \A v \in Worker : held'[v] # NoJob <=> pc'[v] \in Holding
    BY <1>1, <1>3 DEF Credits, Holding, TypeOK
  <2> QED
    BY <1>1, <1>2, <2>2, <2>3, <2>4 DEF Credits
<1>12. Joined' /\ Quiet
  BY <1>1 DEF Joined, Quiet
<1> QED
  BY <1>8, <1>9, <1>10, <1>11, <1>12

(* A worker lets go of its job: it is in the mailbox or dropped.           *)
LEMMA PostKeeps ==
  ASSUME IInv, NEW w \in Worker, Post(w) \/ PostRefused(w)
  PROVE  IInv' /\ Quiet
<1> USE DEF IInv, queueVars, history
<1> PICK j : j = held[w]
  OBVIOUS
<1>1. /\ pc[w] = "posting" /\ pc' \in {[pc EXCEPT ![w] = "notifying"], [pc EXCEPT ![w] = "aborting"]}
      /\ held' = [held EXCEPT ![w] = NoJob]
      /\ UNCHANGED <<jobs, running, cancelled, result, owner, submitted, delivered>>
  BY DEF Post, PostRefused, Goto
<1>2. /\ j \in Job /\ j # NoJob /\ held' \in [Worker -> Job \cup {NoJob}]
      /\ held'[w] = NoJob /\ \A v \in Worker \ {w} : held'[v] = held[v] /\ held[v] # j
  BY <1>1 DEF Credits, Holding, TypeOK, NoRepetition
<1>3. InHand(j) /\ ~InRing(j) /\ ~InMail(j) /\ delivered[j] = 0 /\ j \notin dropped
  <2>1. InHand(j)
    BY DEF InHand
  <2> QED
    BY <1>2, <2>1 DEF Places
<1>4. /\ \A k : InRing(k)' = InRing(k)
      /\ \A k \in Job : InHand(k)' <=> InHand(k) /\ k # j
  <2>1. ASSUME NEW k \in Job PROVE InHand(k)' <=> InHand(k) /\ k # j
    BY <1>2 DEF InHand, IoAssumption
  <2> QED
    BY <1>1, <2>1 DEF InRing
<1>5. /\ mailbox' \in Seq([job : Job, ok : BOOLEAN]) /\ Len(mailbox') <= MailboxCapacity
      /\ overflow' \in BOOLEAN /\ dropped' \subseteq Job
      /\ \A i, k \in DOMAIN mailbox' : i # k => mailbox'[i].job # mailbox'[k].job
      /\ dropped' # {} => overflow'
      /\ \A k \in Job : (InMail(k)' \/ k \in dropped') <=> InMail(k) \/ k \in dropped \/ k = j
      /\ \A k \in Job : k # j => (InMail(k)' <=> InMail(k)) /\ (k \in dropped' <=> k \in dropped)
      /\ ~(InMail(j)' /\ j \in dropped')
  <2>1. CASE Post(w)
    <3> DEFINE m == [job |-> j, ok |-> result[w]]
    <3>1. /\ mailbox' = Append(mailbox, m) /\ Len(mailbox) < MailboxCapacity
          /\ UNCHANGED <<overflow, dropped>>
      BY <2>1 DEF Post
    <3>2. m \in [job : Job, ok : BOOLEAN] /\ m.job = j
      BY <1>2 DEF TypeOK
    <3> HIDE DEF m
    <3>3. /\ mailbox' \in Seq([job : Job, ok : BOOLEAN]) /\ Len(mailbox') = Len(mailbox) + 1
          /\ DOMAIN mailbox = 1 .. Len(mailbox) /\ DOMAIN mailbox' = 1 .. Len(mailbox) + 1
          /\ Len(mailbox) \in Nat /\ mailbox'[Len(mailbox) + 1] = m
          /\ \A i \in DOMAIN mailbox : mailbox'[i] = mailbox[i]
      BY <3>1, <3>2, AppendRing DEF TypeOK
    <3>4. ASSUME NEW k PROVE InMail(k)' <=> InMail(k) \/ k = j
      BY <3>2, <3>3 DEF InMail
    <3>5. \A i, k \in DOMAIN mailbox' : i # k => mailbox'[i].job # mailbox'[k].job
      BY <1>3, <3>2, <3>3 DEF NoRepetition, InMail
    <3>6. Len(mailbox') <= MailboxCapacity
      BY <3>1, <3>3 DEF IoAssumption
    <3> QED
      BY <1>3, <3>1, <3>3, <3>4, <3>5, <3>6 DEF TypeOK, Places
  <2>2. CASE PostRefused(w)
    <3>1. mailbox' = mailbox /\ overflow' = TRUE /\ dropped' = dropped \cup {j}
      BY <2>2 DEF PostRefused
    <3>2. \A k : InMail(k)' = InMail(k)
      BY <3>1 DEF InMail
    <3>3. /\ mailbox' \in Seq([job : Job, ok : BOOLEAN]) /\ Len(mailbox') <= MailboxCapacity
          /\ dropped' \subseteq Job
      BY <1>2, <3>1 DEF TypeOK
    <3>4. \A i, k \in DOMAIN mailbox' : i # k => mailbox'[i].job # mailbox'[k].job
      BY <3>1 DEF NoRepetition
    <3>5. ~InMail(j)' /\ \A k \in Job : k # j => (k \in dropped' <=> k \in dropped)
      BY <1>3, <3>1, <3>2
    <3>6. \A k \in Job : (InMail(k)' \/ k \in dropped') <=> InMail(k) \/ k \in dropped \/ k = j
      BY <3>1, <3>2
    <3> QED
      BY <3>1, <3>2, <3>3, <3>4, <3>5, <3>6
  <2> QED
    BY <2>1, <2>2
<1>6. pc' \in [Worker -> WorkerState] /\ pc'[w] \in {"notifying", "aborting"}
      /\ \A v \in Worker \ {w} : pc'[v] = pc[v]
  BY <1>1 DEF TypeOK, WorkerState
<1>7. TypeOK'
  BY <1>1, <1>2, <1>5, <1>6 DEF TypeOK
<1>8. NoRepetition'
  BY <1>1, <1>2, <1>5 DEF NoRepetition
<1>9. Places'
  <2>1. \A k \in Job \ {j} : (InMail(k)' <=> InMail(k)) /\ (k \in dropped' <=> k \in dropped)
    BY <1>5
  <2>2. (InMail(j)' \/ j \in dropped') /\ ~(InMail(j)' /\ j \in dropped')
    <3>1. (InMail(j)' \/ j \in dropped') <=> InMail(j) \/ j \in dropped \/ j = j
      BY <1>2, <1>5
    <3> QED
      BY <1>5, <3>1
  <2>3. j \in submitted
    BY <1>2, <1>3 DEF Places
  <2>4. ~InHand(j)' /\ ~InRing(j)'
    BY <1>2, <1>3, <1>4
  <2>5. dropped' # {} => overflow'
    BY <1>5
  <2>6. ASSUME NEW k \in Job
        PROVE  /\ k \in submitted' <=>
                    InRing(k)' \/ InHand(k)' \/ InMail(k)' \/ delivered'[k] > 0 \/ k \in dropped'
               /\ InRing(k)' => ~InHand(k)'
               /\ InRing(k)' \/ InHand(k)' => ~InMail(k)'
               /\ InRing(k)' \/ InHand(k)' \/ InMail(k)' => delivered'[k] = 0
               /\ InRing(k)' \/ InHand(k)' \/ InMail(k)' \/ delivered'[k] > 0 => k \notin dropped'
               /\ delivered'[k] \in {0, 1}
    <3>1. CASE k = j
      BY <1>1, <1>3, <2>2, <2>3, <2>4, <3>1
    <3>2. CASE k # j
      <4>1. /\ InRing(k)' = InRing(k) /\ (InHand(k)' <=> InHand(k)) /\ (InMail(k)' <=> InMail(k))
            /\ (k \in dropped' <=> k \in dropped)
        BY <1>4, <2>1, <3>2
      <4> QED
        BY <1>1, <4>1 DEF Places
    <3> QED
      BY <3>1, <3>2
  <2> QED
    BY <2>5, <2>6 DEF Places
<1>10. Credits'
  <2>1. Busy' = Busy /\ Hands' = Hands \ {w} /\ w \in Hands
    BY <1>1, <1>2, <1>6 DEF Busy, Hands, TypeOK
  <2>2. InFlight' = InFlight \ {j} /\ j \in InFlight
    BY <1>2, <1>3, <1>4 DEF InFlight
  <2>3. IsFiniteSet(InFlight') /\ Cardinality(InFlight') = Cardinality(InFlight) - 1
    BY <2>2, FS_RemoveElement DEF Credits
  <2>4. /\ Cardinality(Hands') = Cardinality(Hands) - 1
        /\ Cardinality(Hands) \in Nat /\ Cardinality(InFlight) \in Nat
    <3>1. Hands \in SUBSET Worker
      BY DEF Hands
    <3> QED
      BY <2>1, <3>1, WorkerCount, FS_CardinalityType DEF Credits
  <2>5. \A v \in Worker : held'[v] # NoJob <=> pc'[v] \in Holding
    BY <1>2, <1>6 DEF Credits, Holding
  <2>6. Len(jobs) \in Nat
    BY LenProperties DEF TypeOK
  <2> QED
    BY <1>1, <2>1, <2>3, <2>4, <2>5, <2>6 DEF Credits
<1>11. Joined' /\ Quiet
  BY <1>1 DEF Joined, Quiet
<1> QED
  BY <1>7, <1>8, <1>9, <1>10, <1>11

LEMMA PopKeeps ==
  ASSUME IInv, Pop
  PROVE  IInv' /\ Quiet
<1> USE DEF IInv, queueVars
<1> DEFINE j == Head(mailbox).job
<1>1. /\ mailbox # <<>> /\ mailbox' = Tail(mailbox)
      /\ delivered' = [delivered EXCEPT ![j] = @ + 1]
      /\ UNCHANGED <<jobs, running, cancelled, overflow, pc, held, result, owner, submitted, dropped>>
  BY DEF Pop
<1>2. /\ mailbox' \in Seq([job : Job, ok : BOOLEAN]) /\ Len(mailbox') = Len(mailbox) - 1
      /\ j \in Job /\ j = mailbox[1].job
      /\ DOMAIN mailbox = 1 .. Len(mailbox) /\ DOMAIN mailbox' = 1 .. Len(mailbox) - 1
      /\ Len(mailbox) \in Nat \ {0} /\ \A i \in 1 .. Len(mailbox) - 1 : mailbox'[i] = mailbox[i + 1]
  <2>1. mailbox \in Seq([job : Job, ok : BOOLEAN])
    BY DEF TypeOK
  <2>2. /\ Tail(mailbox) \in Seq([job : Job, ok : BOOLEAN]) /\ Len(Tail(mailbox)) = Len(mailbox) - 1
        /\ Head(mailbox) \in [job : Job, ok : BOOLEAN] /\ Head(mailbox) = mailbox[1]
        /\ DOMAIN mailbox = 1 .. Len(mailbox) /\ DOMAIN Tail(mailbox) = 1 .. Len(mailbox) - 1
        /\ Len(mailbox) \in Nat \ {0}
        /\ \A i \in 1 .. Len(mailbox) - 1 : Tail(mailbox)[i] = mailbox[i + 1]
    BY <1>1, <2>1, TailRing
  <2>3. Head(mailbox).job \in Job
    BY <2>2
  <2> QED
    BY <1>1, <2>2, <2>3
<1> HIDE DEF j
<1>3. InMail(j) /\ ~InRing(j) /\ ~InHand(j) /\ delivered[j] = 0 /\ j \notin dropped
  <2>1. InMail(j)
    BY <1>2 DEF InMail
  <2> QED
    BY <1>2, <2>1 DEF Places
<1>4. ASSUME NEW k PROVE InMail(k)' <=> InMail(k) /\ k # j
  <2>1. ASSUME InMail(k)' PROVE InMail(k) /\ k # j
    <3> PICK i \in 1 .. Len(mailbox) - 1 : mailbox'[i].job = k
      BY <1>2, <2>1 DEF InMail
    <3>1. i + 1 \in DOMAIN mailbox /\ 1 \in DOMAIN mailbox /\ i + 1 # 1 /\ mailbox[i + 1].job = k
      BY <1>2
    <3> QED
      BY <1>2, <3>1 DEF InMail, NoRepetition
  <2>2. ASSUME InMail(k), k # j PROVE InMail(k)'
    <3> PICK i \in 1 .. Len(mailbox) : mailbox[i].job = k
      BY <1>2, <2>2 DEF InMail
    <3>1. i # 1
      BY <1>2, <2>2
    <3>2. i - 1 \in 1 .. Len(mailbox) - 1 /\ mailbox'[i - 1] = mailbox[(i - 1) + 1] /\ (i - 1) + 1 = i
      BY <1>2, <3>1
    <3> QED
      BY <1>2, <3>2 DEF InMail
  <2> QED
    BY <2>1, <2>2
<1>5. /\ \A k : InRing(k)' = InRing(k) /\ InHand(k)' = InHand(k)
      /\ InFlight' = InFlight /\ Hands' = Hands /\ Busy' = Busy
  <2>1. \A k : InRing(k)' = InRing(k) /\ InHand(k)' = InHand(k)
    BY <1>1 DEF InRing, InHand
  <2> QED
    BY <1>1, <2>1 DEF InFlight, Hands, Busy
<1>6. delivered' \in [Job -> Nat] /\ delivered'[j] = 1 /\ \A k \in Job \ {j} : delivered'[k] = delivered[k]
  BY <1>1, <1>2, <1>3 DEF TypeOK
<1>7. TypeOK'
  <2>1. Len(mailbox') <= MailboxCapacity
    BY <1>2 DEF TypeOK, IoAssumption
  <2> QED
    BY <1>1, <1>2, <1>6, <2>1 DEF TypeOK
<1>8. NoRepetition'
  <2>1. \A i, k \in DOMAIN mailbox' : i # k => mailbox'[i].job # mailbox'[k].job
    <3> SUFFICES ASSUME NEW i \in 1 .. Len(mailbox) - 1, NEW k \in 1 .. Len(mailbox) - 1, i # k
                 PROVE  mailbox'[i].job # mailbox'[k].job
      BY <1>2
    <3>1. i + 1 \in DOMAIN mailbox /\ k + 1 \in DOMAIN mailbox /\ i + 1 # k + 1
      BY <1>2
    <3>2. mailbox'[i] = mailbox[i + 1] /\ mailbox'[k] = mailbox[k + 1]
      BY <1>2
    <3>3. mailbox[i + 1].job # mailbox[k + 1].job
      BY <3>1 DEF NoRepetition
    <3> QED
      BY <3>2, <3>3
  <2> QED
    BY <1>1, <2>1 DEF NoRepetition
<1>9. Places'
  BY <1>1, <1>2, <1>3, <1>4, <1>5, <1>6 DEF Places
<1>10. Credits'
  BY <1>1, <1>5 DEF Credits
<1>11. Joined' /\ Quiet
  BY <1>1 DEF Joined, Quiet
<1> QED
  BY <1>7, <1>8, <1>9, <1>10, <1>11

-----------------------------------------------------------------------------
(* The theorems.                                                           *)

LEMMA InitInvariant == Init => IInv
<1> SUFFICES ASSUME Init PROVE IInv
  OBVIOUS
<1> USE DEF Init
<1>1. /\ jobs \in Seq(Job) /\ Len(jobs) = 0 /\ DOMAIN jobs = {}
      /\ mailbox \in Seq([job : Job, ok : BOOLEAN]) /\ Len(mailbox) = 0 /\ DOMAIN mailbox = {}
  OBVIOUS
<1>2. TypeOK
  <2>1. Len(jobs) + running <= QueueCapacity /\ Len(mailbox) <= MailboxCapacity
    BY <1>1 DEF IoAssumption
  <2>2. pc \in [Worker -> WorkerState] /\ held \in [Worker -> Job \cup {NoJob}]
        /\ result \in [Worker -> BOOLEAN] /\ delivered \in [Job -> Nat]
    BY DEF WorkerState
  <2>3. cancelled \in BOOLEAN /\ overflow \in BOOLEAN /\ running \in Nat
    OBVIOUS
  <2> QED
    BY <1>1, <2>1, <2>2, <2>3 DEF TypeOK
<1>3. NoRepetition /\ Joined
  BY <1>1 DEF NoRepetition, Joined
<1>4. \A j : ~InRing(j) /\ ~InMail(j) /\ (j \in Job => ~InHand(j))
  BY <1>1 DEF InRing, InMail, InHand, IoAssumption
<1>5. Places
  BY <1>4 DEF Places
<1>6. Credits
  <2>1. Busy = {} /\ Hands = {} /\ InFlight = {}
    BY <1>4 DEF Busy, Hands, InFlight
  <2> QED
    BY <1>1, <2>1, FS_EmptySet DEF Credits, Holding
<1> QED
  BY <1>2, <1>3, <1>5, <1>6 DEF IInv

LEMMA StepInvariant == IInv /\ [Next]_vars => IInv' /\ Quiet
<1> SUFFICES ASSUME IInv, [Next]_vars PROVE IInv' /\ Quiet
  OBVIOUS
<1>1. CASE OwnerStep
  BY <1>1, EnqueueKeeps, PopKeeps, OwnerStepKeeps DEF OwnerStep
<1>2. ASSUME NEW w \in Worker, WorkerStep(w) \/ WakeSpuriously(w) PROVE IInv' /\ Quiet
  BY <1>2, WaitingKeeps, TakeKeeps, ReturnCreditKeeps, PostKeeps DEF WorkerStep
<1>3. CASE UNCHANGED vars
  <2> USE <1>3 DEF vars, history, IInv
  <2>1. UNCHANGED <<jobs, running, held, mailbox, overflow, history>>
    OBVIOUS
  <2>2. Joined' /\ Quiet
    BY DEF Joined, Quiet
  <2> QED
    BY <2>1, <2>2, MovesNothing DEF TypeOK
<1> QED
  BY <1>1, <1>2, <1>3 DEF Next

LEMMA Invariant == Spec => []IInv
BY InitInvariant, StepInvariant, PTL DEF Spec

(* The rings keep their capacities and workers hold jobs or nothing.       *)
THEOREM TypeCorrect == Spec => []TypeOK
<1>1. IInv => TypeOK
  BY DEF IInv
<1> QED
  BY <1>1, Invariant, PTL

(* A set whose members are all the same has one or none.                   *)
LEMMA CountOne ==
  ASSUME NEW A, \A x, y \in A : x = y
  PROVE  Cardinality(A) = IF A = {} THEN 0 ELSE 1
<1>1. CASE A # {}
  <2> PICK x \in A : TRUE
    BY <1>1
  <2>1. A = {x}
    OBVIOUS
  <2> QED
    BY <1>1, <2>1, FS_Singleton
<1> QED
  BY <1>1, FS_EmptySet

(* Every accepted job is reported exactly once or its loss is announced: no *)
(* completion is lost or repeated, whatever workers, owner and shutdown do  *)
(* (io_executor.cpp:14-23, :66-91).                                         *)
THEOREM ExactlyOnce == Spec => []ReportedExactlyOnce
<1>1. IInv => ReportedExactlyOnce
  <2> SUFFICES ASSUME IInv, NEW j \in submitted
               PROVE  /\ Cardinality({i \in DOMAIN jobs : jobs[i] = j})
                         + Cardinality({w \in Worker : held[w] = j})
                         + Cardinality({i \in DOMAIN mailbox : mailbox[i].job = j})
                         + delivered[j]
                         + (IF j \in dropped THEN 1 ELSE 0) = 1
                      /\ j \in dropped => overflow
    BY DEF ReportedExactlyOnce
  <2> USE DEF IInv
  <2>1. j \in Job /\ j # NoJob
    BY DEF TypeOK, IoAssumption
  <2> DEFINE R == {i \in DOMAIN jobs : jobs[i] = j}
             H == {w \in Worker : held[w] = j}
             M == {i \in DOMAIN mailbox : mailbox[i].job = j}
  <2>2. /\ \A x, y \in R : x = y
        /\ \A x, y \in H : x = y
        /\ \A x, y \in M : x = y
    BY <2>1 DEF NoRepetition
  <2>3. /\ Cardinality(R) = IF R = {} THEN 0 ELSE 1
        /\ Cardinality(H) = IF H = {} THEN 0 ELSE 1
        /\ Cardinality(M) = IF M = {} THEN 0 ELSE 1
    BY <2>2, CountOne
  <2>4. (R # {} <=> InRing(j)) /\ (H # {} <=> InHand(j)) /\ (M # {} <=> InMail(j))
    BY DEF InRing, InHand, InMail
  <2> HIDE DEF R, H, M
  <2>5. /\ Cardinality(R) = IF InRing(j) THEN 1 ELSE 0
        /\ Cardinality(H) = IF InHand(j) THEN 1 ELSE 0
        /\ Cardinality(M) = IF InMail(j) THEN 1 ELSE 0
    BY <2>3, <2>4
  <2>6. Cardinality(R) + Cardinality(H) + Cardinality(M) + delivered[j]
          + (IF j \in dropped THEN 1 ELSE 0) = 1
    BY <2>1, <2>5 DEF Places
  <2>7. j \in dropped => overflow
    BY DEF Places
  <2> QED
    BY <2>6, <2>7 DEF R, H, M
<1> QED
  BY <1>1, Invariant, PTL

(* Credits come back before completions are visible: an owner that has      *)
(* fewer jobs without a completion than the ring has places always gets one *)
(* (io_executor.cpp:83-88).                                                 *)
THEOREM CreditsInTime == Spec => []CreditBeforeCompletion
<1>1. IInv => CreditBeforeCompletion
  <2> SUFFICES ASSUME IInv PROVE CreditBeforeCompletion
    OBVIOUS
  <2> USE DEF IInv
  <2> DEFINE visible == {j \in submitted : delivered[j] > 0 \/ j \in dropped
                           \/ \E i \in DOMAIN mailbox : mailbox[i].job = j}
  <2>1. \A j \in submitted : j \in visible <=> delivered[j] > 0 \/ j \in dropped \/ InMail(j)
    BY DEF InMail
  <2> HIDE DEF visible
  <2>2. submitted \subseteq Job /\ visible \subseteq submitted
    BY DEF TypeOK, visible
  <2>3. submitted \ visible = InFlight
    <3>1. ASSUME NEW j \in submitted \ visible PROVE j \in InFlight
      BY <2>1, <2>2 DEF Places, InFlight
    <3>2. ASSUME NEW j \in InFlight PROVE j \in submitted \ visible
      <4>1. j \in Job /\ (InRing(j) \/ InHand(j))
        BY DEF InFlight
      <4>2. j \in submitted /\ ~InMail(j) /\ delivered[j] = 0 /\ j \notin dropped
        BY <4>1 DEF Places
      <4> QED
        BY <2>1, <4>2
    <3> QED
      BY <3>1, <3>2
  <2>4. running <= Cardinality(Hands) /\ running \in Nat /\ Cardinality(Hands) \in Nat
    <3>1. Busy \subseteq Hands /\ Hands \subseteq Worker
      BY DEF Busy, Hands, Credits, Holding
    <3>2. IsFiniteSet(Hands)
      BY <3>1, FS_Subset DEF IoAssumption
    <3> QED
      BY <3>1, <3>2, FS_Subset, FS_CardinalityType DEF Credits, TypeOK
  <2>5. Len(jobs) \in Nat
    BY LenProperties DEF TypeOK
  <2>6. Len(jobs) + running <= Cardinality(submitted \ visible)
    <3>1. Len(jobs) + Cardinality(Hands) = Cardinality(InFlight)
      BY DEF Credits
    <3>2. Cardinality(submitted \ visible) = Cardinality(InFlight)
      BY <2>3, Zenon
    <3>3. Len(jobs) + running <= Cardinality(InFlight)
      BY <2>4, <2>5, <3>1
    <3> QED
      BY <3>2, <3>3
  <2> QED
    BY <2>6 DEF CreditBeforeCompletion, visible
<1> QED
  BY <1>1, Invariant, PTL

(* After the join no worker touches rings, slots or its own state, so that  *)
(* the memory the fills write to may be freed (io_executor.cpp:92-98).      *)
THEOREM JoinIsFinal == Spec => QuietAfterJoin
<1>1. IInv /\ [Next]_vars => [Quiet]_vars
  BY StepInvariant
<1>2. Quiet <=>
        (owner = "joined" =>
           UNCHANGED <<jobs, running, cancelled, overflow, pc, held, result>>)
  BY DEF Quiet
<1> QED
  BY <1>1, <1>2, Invariant, PTL DEF Spec, QuietAfterJoin
===============================================================================
