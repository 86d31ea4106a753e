------------------------------ MODULE StageProofs ------------------------------
(***************************************************************************)
(* Proofs about StageExecutor, for any compiled layout, any number of      *)
(* slots, passes, workers and reader queues, and any combination of        *)
(* faults.                                                                 *)
(*                                                                         *)
(* The invariant follows a slot through a fill and its use: Cells says     *)
(* what the tracker's record of a slot means for its memory, Fills who is  *)
(* about to write it, Reading who may still read it, Segment which groups  *)
(* the slots of the active pool hold.  Pools and Between say what a drain  *)
(* leaves behind, which is why memory may be freed or given to another     *)
(* pool afterwards; Stopped that the workers are gone when it is freed.    *)
(*                                                                         *)
(* The second half strengthens it by NSafe, to show that the executor's    *)
(* own checks always succeed: records in flight and fills under way are    *)
(* counted by mapping them one to one into the slots of the active pool    *)
(* (and the reader queues), generations against the fills begun so far.    *)
(*                                                                         *)
(* The last part adds UnderWay: every slot at work in the segment has      *)
(* someone who works on it, so that the loop never waits for nothing.      *)
(***************************************************************************)
EXTENDS StageExecutor, FiniteSetTheorems, SequenceTheorems, NaturalsInduction,
        WellFoundedInduction, TLAPS

(* The layout as functions of the layout.                                  *)
FirstOf(l, p) == CHOOSE g \in DOMAIN l.pools :
                   l.pools[g] = p /\ \A h \in DOMAIN l.pools : l.pools[h] = p => g <= h
LastOf(l, p) == CHOOSE g \in DOMAIN l.pools :
                  l.pools[g] = p /\ \A h \in DOMAIN l.pools : l.pools[h] = p => h <= g
SlotAt(l, pass, g) ==
  <<l.pools[g],
    (g - FirstOf(l, l.pools[g]) + (IF l.carry THEN pass * Len(l.pools) ELSE 0)) % l.slots>>
SlotsIn(l) == PoolsOf(l) \X (0 .. l.slots - 1)

Loop == {"poll", "consume", "dispatch", "carry", "claim", "overlap", "encode", "retire",
         "check", "drain", "settle"}
Resting == {"begin", "idle", "segment", "pass_end", "finish_join", "finalize"}
Final == {"finished", "failed", "dropped"}
Late == {"device", "destroy"} \cup Ended

Filled == {"Loading", "Ready", "InUse"}
Busy == {w \in Worker : worker[w].state \in {"filling", "posting"}}
FillMail == {i \in DOMAIN mailbox : mailbox[i].kind = "fill"}
ReaderMail == {i \in DOMAIN mailbox : mailbox[i].kind = "reader"}

(* What the state of a slot means.                                         *)
Cells ==
  \A s \in SlotsIn(layout) :
    /\ slot[s].ticket.slot = s /\ slot[s].ticket.generation = slot[s].generation
    /\ slot[s].state = "Loading" => slot[s].expected = 1
    /\ slot[s].state \in Filled => slot[s].complete = {}
    /\ slot[s].state \in {"Ready", "InUse", "AwaitingFence"} /\ s[1] \in live =>
         backing[s] = slot[s].ticket.item

(* The slot of a fill that was submitted and not yet accepted.             *)
Pending(t) ==
  /\ t.slot \in SlotsIn(layout) /\ t.slot[1] \in live
  /\ slot[t.slot].state = "Loading" /\ slot[t.slot].ticket = t

Fills ==
  pc \notin Final =>
    /\ \A i \in DOMAIN jobs : Pending(jobs[i])
    /\ \A w \in Busy : Pending(worker[w].ticket)
    /\ \A i \in FillMail : Pending(mailbox[i].ticket)
    /\ \A w \in Busy : worker[w].state = "posting" /\ worker[w].ok /\ worker[w].bytes = 1 =>
         backing[worker[w].ticket.slot] = worker[w].ticket.item
    /\ \A i \in FillMail : mailbox[i].ok /\ mailbox[i].bytes = 1 =>
         backing[mailbox[i].ticket.slot] = mailbox[i].ticket.item

(* At most one fill of a slot is under way.                                *)
OneFill ==
  /\ \A i, k \in DOMAIN jobs : i # k => jobs[i].slot # jobs[k].slot
  /\ \A v, w \in Busy : v # w => worker[v].ticket.slot # worker[w].ticket.slot
  /\ \A i, k \in FillMail : i # k => mailbox[i].ticket.slot # mailbox[k].ticket.slot
  /\ \A i \in DOMAIN jobs, w \in Busy : jobs[i].slot # worker[w].ticket.slot
  /\ \A i \in DOMAIN jobs, k \in FillMail : jobs[i].slot # mailbox[k].ticket.slot
  /\ \A w \in Busy, k \in FillMail : worker[w].ticket.slot # mailbox[k].ticket.slot

(* Outstanding readers ...                                                 *)
Reading ==
  /\ \A r \in gpu :
       /\ r.ticket.slot \in SlotsIn(layout) /\ r.ticket.slot[1] \in live
       /\ slot[r.ticket.slot].ticket = r.ticket /\ r.item = r.ticket.item
       /\ slot[r.ticket.slot].state \in {"InUse", "AwaitingFence"}
  /\ pc \in {"settle", "destroy"} \cup Final => gpu = {}

(* ... and the records of those that have completed, while the loop runs.  *)
Reports ==
  pc \in Loop =>
    /\ \A r \in gpu :
         /\ slot[r.ticket.slot].state = "AwaitingFence"
         /\ FenceOf(r) \in slot[r.ticket.slot].readers \ slot[r.ticket.slot].complete
         /\ pc = "retire" => r.ticket.slot # SlotAt(layout, passes, next - 1)
         /\ \A i \in ReaderMail : mailbox[i].ticket = r.ticket => mailbox[i].fence # FenceOf(r)
    /\ \A i \in ReaderMail :
         /\ mailbox[i].ticket.slot \in SlotsIn(layout)
         /\ mailbox[i].ticket.generation <= slot[mailbox[i].ticket.slot].generation
         /\ mailbox[i].ticket = slot[mailbox[i].ticket.slot].ticket =>
              slot[mailbox[i].ticket.slot].state \notin Filled

(* The groups from next on that were dispatched are in their slots, and    *)
(* nothing else but a carried group.                                       *)
Segment ==
  pc \in Loop =>
    /\ seg \in live /\ active = seg /\ seg \notin drained
    /\ FirstOf(layout, seg) <= next /\ next <= dispatch /\ dispatch <= LastOf(layout, seg) + 1
    /\ \A g \in next .. dispatch - 1 :
         /\ slot[SlotAt(layout, passes, g)].state \in Filled
         /\ slot[SlotAt(layout, passes, g)].ticket.item = <<passes, g>>
    /\ \A s \in SlotsIn(layout) : s[1] = seg /\ slot[s].state \in Filled =>
         \/ outgoing # NoTicket /\ s = outgoing.slot
         \/ \E g \in next .. dispatch - 1 : s = SlotAt(layout, passes, g)
    /\ outgoing # NoTicket => layout.carry /\ dispatch = LastOf(layout, seg) + 1
    /\ pc \in {"overlap", "encode"} =>
         next < dispatch /\ slot[SlotAt(layout, passes, next)].state = "InUse"
    /\ pc = "retire" => FirstOf(layout, seg) < next

Pools ==
  /\ ~layout.retain => live \subseteq {active}
  /\ live \subseteq drained \cup {active}
  /\ \A s \in SlotsIn(layout) : s[1] \in live \cap drained =>
       \/ slot[s].state = "Vacant"
       \/ slot[s].state = "Ready" /\ layout.carry /\ carry # NoTicket /\ s = carry.slot
  /\ pc = "begin" => drained = PoolsOf(layout) /\ live = 1 .. Cardinality(live) /\ carry = NoTicket
  /\ pc \in Resting => live \subseteq drained
  /\ pc \in {"device", "quarantined"} => live # {}
  /\ pc \in Final => live = {}

Between ==
  pc \in Resting => jobs = <<>> /\ mailbox = <<>> /\ gpu = {} /\ Busy = {}

Stopped ==
  /\ io = "none" => jobs = <<>> /\ \A w \in Worker : worker[w].state = "idle"
  /\ pc \in Late => io = "none" \/ AllExited
  /\ pc = "begin" => io = "none"

Safe == Cells /\ Fills /\ OneFill /\ Reading /\ Reports /\ Segment /\ Pools /\ Between /\ Stopped

IInv == TypeOK /\ Safe

-----------------------------------------------------------------------------
(* Layouts.                                                                *)

LEMMA Least ==
  ASSUME NEW S \in SUBSET Nat, S # {}
  PROVE  \E n \in S : \A m \in S : n <= m
<1> DEFINE R == OpToRel(<, Nat)
<1>1. IsWellFoundedOn(R, Nat)
  BY NatLessThanWellFounded
<1>2. ASSUME NEW m \in S, NEW n \in S, m < n
      PROVE  <<m, n>> \in R
  BY <1>2 DEF OpToRel
<1> HIDE DEF R
<1>3. PICK n \in S : \A m \in S : ~(<<m, n>> \in R)
  BY <1>1, WFMin
<1>4. \A m \in S : ~(m < n)
  BY <1>2, <1>3, Zenon
<1>5. \A m \in S : m \in Nat /\ n \in Nat
  OBVIOUS
<1> QED
  BY <1>4, <1>5

LEMMA Greatest ==
  ASSUME NEW S \in SUBSET Nat, S # {}, NEW b \in Nat, \A n \in S : n <= b
  PROVE  \E n \in S : \A m \in S : m <= n
<1> DEFINE T == {b - n : n \in S}
<1>1. T \in SUBSET Nat /\ T # {}
  <2>1. \A n \in S : b - n \in Nat
    OBVIOUS
  <2> QED
    BY <2>1, Zenon
<1>2. PICK t \in T : \A u \in T : t <= u
  BY <1>1, Least
<1>3. PICK n \in S : t = b - n
  OBVIOUS
<1>4. \A m \in S : m \in Nat /\ n \in Nat /\ b - n <= b - m
  BY <1>2, <1>3
<1> QED
  BY <1>4

(* The groups of a pool are consecutive.                                   *)
LEMMA PoolGroups ==
  ASSUME NEW l \in Layouts, NEW p \in PoolsOf(l)
  PROVE  /\ FirstOf(l, p) \in DOMAIN l.pools /\ LastOf(l, p) \in DOMAIN l.pools
         /\ l.pools[FirstOf(l, p)] = p /\ FirstOf(l, p) <= LastOf(l, p)
         /\ DOMAIN l.pools = 1 .. Len(l.pools) /\ Len(l.pools) \in Nat
         /\ \A g \in DOMAIN l.pools : l.pools[g] = p => FirstOf(l, p) <= g
         /\ \A g \in FirstOf(l, p) .. LastOf(l, p) : g \in DOMAIN l.pools /\ l.pools[g] = p
<1> DEFINE S == {g \in DOMAIN l.pools : l.pools[g] = p}
<1>1. /\ DOMAIN l.pools = 1 .. Len(l.pools) /\ Len(l.pools) \in Nat
      /\ \A g, h \in DOMAIN l.pools : g <= h => l.pools[g] <= l.pools[h]
      /\ \A g \in DOMAIN l.pools : l.pools[g] \in Nat
  <2>1. l.pools \in Seq(Nat)
    BY LayoutAssumption DEF LayoutAssumption
  <2> QED
    BY <2>1, LayoutAssumption DEF LayoutAssumption
<1>2. S \in SUBSET Nat /\ S # {} /\ \A g \in S : g <= Len(l.pools)
  BY <1>1 DEF PoolsOf
<1>3. \E g \in S : \A h \in S : g <= h
  BY <1>2, Least
<1>4. \E g \in S : \A h \in S : h <= g
  BY <1>1, <1>2, Greatest
<1>5. /\ FirstOf(l, p) \in S /\ \A h \in S : FirstOf(l, p) <= h
  BY <1>3 DEF FirstOf
<1>6. /\ LastOf(l, p) \in S /\ \A h \in S : h <= LastOf(l, p)
  BY <1>4 DEF LastOf
<1>7. ASSUME NEW g \in FirstOf(l, p) .. LastOf(l, p)
      PROVE  g \in DOMAIN l.pools /\ l.pools[g] = p
  BY <1>1, <1>5, <1>6
<1> QED
  BY <1>1, <1>5, <1>6, <1>7

LEMMA PoolNumbers ==
  ASSUME NEW l \in Layouts
  PROVE  /\ PoolsOf(l) = 1 .. Cardinality(PoolsOf(l)) /\ Cardinality(PoolsOf(l)) \in Nat
         /\ 1 \in PoolsOf(l) /\ 0 \notin PoolsOf(l)
         /\ FirstOf(l, 1) = 1
         /\ l.carry => PoolsOf(l) = {1}
         /\ l.slots \in Nat \ {0}
         /\ {l.carry, l.retain, l.overlap, l.immediate} \subseteq BOOLEAN
<1>1. /\ l.pools \in Seq(Nat) /\ l.pools # <<>> /\ l.slots \in Nat \ {0}
      /\ PoolsOf(l) = 1 .. Cardinality(PoolsOf(l))
      /\ \A g, h \in DOMAIN l.pools : g <= h => l.pools[g] <= l.pools[h]
      /\ l.carry => Cardinality(PoolsOf(l)) = 1
      /\ {l.carry, l.retain, l.overlap, l.immediate} \subseteq BOOLEAN
  BY LayoutAssumption DEF LayoutAssumption
<1>2. DOMAIN l.pools = 1 .. Len(l.pools) /\ Len(l.pools) \in Nat \ {0}
  BY <1>1, EmptySeq, LenProperties
<1>3. Cardinality(PoolsOf(l)) \in Nat
  <2>1. IsFiniteSet(1 .. Len(l.pools))
    BY <1>2, FS_Interval
  <2>2. l.pools \in [1 .. Len(l.pools) -> PoolsOf(l)]
    BY <1>1, <1>2, LenProperties DEF PoolsOf
  <2>3. l.pools \in Surjection(1 .. Len(l.pools), PoolsOf(l))
    BY <1>2, <2>2 DEF Surjection, PoolsOf
  <2>4. IsFiniteSet(PoolsOf(l))
    BY <2>1, <2>3, FS_Surjection
  <2> QED
    BY <2>4, FS_CardinalityType
<1>4. l.pools[1] \in PoolsOf(l) /\ 1 \in DOMAIN l.pools
  BY <1>2 DEF PoolsOf
<1>5. 1 \in PoolsOf(l) /\ 0 \notin PoolsOf(l)
  BY <1>1, <1>3, <1>4
<1>6. PICK g \in DOMAIN l.pools : l.pools[g] = 1
  BY <1>5 DEF PoolsOf
<1>7. l.pools[1] = 1
  <2>1. l.pools[1] <= 1
    BY <1>1, <1>2, <1>4, <1>6
  <2> QED
    BY <1>1, <1>3, <1>4, <2>1
<1>8. FirstOf(l, 1) = 1
  BY <1>2, <1>4, <1>5, <1>7, PoolGroups
<1> QED
  BY <1>1, <1>3, <1>5, <1>8

LEMMA SlotsOfLayout ==
  ASSUME NEW l \in Layouts
  PROVE  /\ SlotsIn(l) \subseteq AnySlot
         /\ \A s \in AnySlot : s[1] \in PoolsOf(l) /\ s[2] \in 0 .. l.slots - 1 => s \in SlotsIn(l)
         /\ \A s \in SlotsIn(l) : s[1] \in PoolsOf(l)
BY DEF SlotsIn, AnySlot

(* The slot of a group lies in the pool of the group.                      *)
LEMMA SlotOfGroup ==
  ASSUME NEW l \in Layouts, NEW p \in PoolsOf(l), NEW pass \in Nat,
         NEW g \in FirstOf(l, p) .. LastOf(l, p)
  PROVE  SlotAt(l, pass, g) \in SlotsIn(l) /\ SlotAt(l, pass, g)[1] = p
<1>1. /\ g \in DOMAIN l.pools /\ l.pools[g] = p /\ g \in Nat /\ FirstOf(l, p) \in Nat
      /\ g - FirstOf(l, p) \in Nat /\ Len(l.pools) \in Nat
  BY PoolGroups
<1>2. l.slots \in Nat \ {0}
  BY PoolNumbers
<1> DEFINE offset == IF l.carry THEN pass * Len(l.pools) ELSE 0
<1>3. offset \in Nat
  <2>1. pass * Len(l.pools) \in Nat
    BY <1>1
  <2> QED
    BY <2>1
<1>4. SlotAt(l, pass, g) = <<p, (g - FirstOf(l, p) + offset) % l.slots>>
  BY <1>1 DEF SlotAt
<1> HIDE DEF offset
<1>5. (g - FirstOf(l, p) + offset) % l.slots \in 0 .. l.slots - 1
  <2>1. g - FirstOf(l, p) + offset \in Nat
    BY <1>1, <1>3
  <2> QED
    BY <1>2, <2>1
<1> QED
  BY <1>4, <1>5 DEF SlotsIn

(* A carried group is the first one, in the only pool.                     *)
LEMMA SlotOfCarried ==
  ASSUME NEW l \in Layouts, NEW pass \in Nat
  PROVE  SlotAt(l, pass, 1) \in SlotsIn(l) /\ SlotAt(l, pass, 1)[1] = 1
<1>1. 1 \in PoolsOf(l) /\ FirstOf(l, 1) = 1
  BY PoolNumbers
<1>2. 1 \in FirstOf(l, 1) .. LastOf(l, 1)
  BY <1>1, PoolGroups
<1> QED
  BY <1>1, <1>2, SlotOfGroup

LEMMA Names ==
  /\ Pool = PoolsOf(layout) /\ SlotId = SlotsIn(layout)
  /\ \A p : First(p) = FirstOf(layout, p) /\ Last(p) = LastOf(layout, p)
  /\ \A pass, g : SlotOf(pass, g) = SlotAt(layout, pass, g)
  /\ NextSlot = SlotAt(layout, passes, next)
  /\ DispatchSlot = SlotAt(layout, passes, dispatch)
  /\ CarrySlot = SlotAt(layout, passes + 1, 1)
  /\ \A p : SlotsOf(p) = {s \in SlotsIn(layout) : s[1] = p}
<1>1. Pool = PoolsOf(layout) /\ SlotId = SlotsIn(layout)
  BY DEF Pool, SlotId, SlotsIn, SlotCount
<1>2. \A p : First(p) = FirstOf(layout, p) /\ Last(p) = LastOf(layout, p)
  BY Zenon DEF First, Last, FirstOf, LastOf, Group, GroupPool
<1>3. \A pass, g : SlotOf(pass, g) = SlotAt(layout, pass, g)
  BY <1>2, Zenon DEF SlotOf, SlotAt, GroupPool, GroupCount, SlotCount
<1> QED
  BY <1>1, <1>2, <1>3, Zenon DEF NextSlot, DispatchSlot, CarrySlot, SlotsOf

-----------------------------------------------------------------------------
(* Rings.                                                                  *)

LEMMA AppendRing ==
  ASSUME NEW S, NEW s \in Seq(S), NEW e \in S
  PROVE  /\ Append(s, e) \in Seq(S)
         /\ DOMAIN Append(s, e) = DOMAIN s \cup {Len(s) + 1} /\ Len(s) + 1 \notin DOMAIN s
         /\ Append(s, e)[Len(s) + 1] = e
         /\ \A i \in DOMAIN s : Append(s, e)[i] = s[i] /\ s[i] \in S
<1>1. Len(s) \in Nat /\ DOMAIN s = 1 .. Len(s) /\ \A i \in 1 .. Len(s) : s[i] \in S
  BY LenProperties, ElementOfSeq
<1>2. /\ Append(s, e) \in Seq(S) /\ Len(Append(s, e)) = Len(s) + 1
      /\ \A i \in 1 .. Len(s) : Append(s, e)[i] = s[i]
      /\ Append(s, e)[Len(s) + 1] = e
  BY AppendProperties
<1>3. DOMAIN Append(s, e) = 1 .. Len(s) + 1
  BY <1>2, LenProperties
<1> QED
  BY <1>1, <1>2, <1>3

LEMMA TailRing ==
  ASSUME NEW S, NEW s \in Seq(S), s # <<>>
  PROVE  /\ Tail(s) \in Seq(S) /\ Head(s) \in S /\ Head(s) = s[1]
         /\ 1 \in DOMAIN s /\ DOMAIN s \subseteq Nat
         /\ \A i \in DOMAIN Tail(s) : i + 1 \in DOMAIN s /\ i + 1 # 1 /\ Tail(s)[i] = s[i + 1]
<1>1. Len(s) \in Nat \ {0} /\ DOMAIN s = 1 .. Len(s)
  BY EmptySeq, LenProperties
<1>2. /\ Tail(s) \in Seq(S) /\ Len(Tail(s)) = Len(s) - 1 /\ Head(s) \in S
      /\ Head(s) = s[1] /\ \A i \in 1 .. Len(Tail(s)) : Tail(s)[i] = s[i + 1]
  BY HeadTailProperties
<1>3. DOMAIN Tail(s) = 1 .. Len(s) - 1
  BY <1>2, LenProperties
<1> QED
  BY <1>1, <1>2, <1>3

LEMMA EmptyRing ==
  ASSUME NEW S, NEW s \in Seq(S), DOMAIN s = {}
  PROVE  s = <<>>
<1>1. Len(s) \in Nat /\ DOMAIN s = 1 .. Len(s)
  BY LenProperties
<1>2. Len(s) = 0
  BY <1>1
<1> QED
  BY <1>2, EmptySeq

-----------------------------------------------------------------------------
(* What the calls of the tracker do.                                       *)

OthersKept(s) == \A u \in AnySlot : u # s => slot'[u] = slot[u]

LEMMA NewTickets ==
  ASSUME TypeOK, NEW s \in AnySlot, NEW item \in Nat \X Nat
  PROVE  LET t == Tracker!NewTicket(s, item) IN
         /\ t \in AnyTicket /\ t.slot = s /\ t.item = item
         /\ t.generation = slot[s].generation + 1 /\ t # NoTicket
         /\ slot[s].generation \in Nat
<1>1. slot[s].generation \in Nat
  BY DEF TypeOK, Cell
<1>2. item \in Content
  BY DEF Content
<1> DEFINE t == [slot |-> s, generation |-> slot[s].generation + 1, item |-> item]
<1>3. t \in AnyTicket /\ t.generation # 0
  BY <1>1, <1>2 DEF AnyTicket
<1>4. t # NoTicket
  BY <1>3 DEF NoTicket
<1> QED
  BY <1>1, <1>3, <1>4 DEF Tracker!NewTicket

LEMMA BeginFillDoes ==
  ASSUME TypeOK, NEW s \in AnySlot, NEW item \in Nat \X Nat, Tracker!BeginFill(s, item, 1)
  PROVE  /\ slot[s].state = "Vacant" /\ poisoned' = poisoned
         /\ slot' \in [AnySlot -> Cell] /\ OthersKept(s)
         /\ slot'[s].state = "Loading" /\ slot'[s].expected = 1 /\ slot'[s].complete = {}
         /\ slot'[s].generation = slot[s].generation + 1
         /\ slot'[s].ticket = Tracker!NewTicket(s, item)
<1> DEFINE c == [state |-> "Loading", expected |-> 1, generation |-> slot[s].generation + 1,
                 ticket |-> Tracker!NewTicket(s, item), readers |-> {}, complete |-> {}]
<1>1. /\ slot[s].state = "Vacant" /\ poisoned' = poisoned
      /\ slot' = [slot EXCEPT ![s] = c]
  BY DEF Tracker!BeginFill, Tracker!CanBeginFill
<1>2. slot \in [AnySlot -> Cell]
  BY DEF TypeOK
<1>3. c \in Cell
  BY NewTickets DEF Cell, Tracker!ContentState
<1>4. /\ c.state = "Loading" /\ c.expected = 1 /\ c.complete = {}
      /\ c.generation = slot[s].generation + 1 /\ c.ticket = Tracker!NewTicket(s, item)
  OBVIOUS
<1> HIDE DEF c
<1> QED
  BY <1>1, <1>2, <1>3, <1>4 DEF OthersKept

(* A call that changes the state of a slot and perhaps its readers.        *)
Kept(s) ==
  /\ slot'[s].expected = slot[s].expected /\ slot'[s].generation = slot[s].generation
  /\ slot'[s].ticket = slot[s].ticket

LEMMA AcceptReadyDoes ==
  ASSUME TypeOK, NEW t \in AnyTicket, NEW bytes, Tracker!AcceptReady(t, bytes)
  PROVE  /\ t = slot[t.slot].ticket /\ slot[t.slot].state = "Loading"
         /\ bytes = slot[t.slot].expected /\ poisoned' = poisoned
         /\ slot' \in [AnySlot -> Cell] /\ OthersKept(t.slot) /\ Kept(t.slot)
         /\ slot'[t.slot].state = "Ready" /\ slot'[t.slot].complete = slot[t.slot].complete
         /\ slot'[t.slot].readers = slot[t.slot].readers
<1>1. /\ t = slot[t.slot].ticket /\ slot[t.slot].state = "Loading"
      /\ bytes = slot[t.slot].expected /\ poisoned' = poisoned
      /\ slot' = [slot EXCEPT ![t.slot].state = "Ready"]
  BY DEF Tracker!AcceptReady, Tracker!CanAcceptReady, Tracker!Matches
<1>2. slot \in [AnySlot -> Cell] /\ t.slot \in AnySlot
  BY DEF TypeOK, AnyTicket
<1> QED
  BY <1>1, <1>2 DEF OthersKept, Kept, Cell, Tracker!ContentState

LEMMA BeginUseDoes ==
  ASSUME TypeOK, NEW s \in AnySlot, slot[s].ticket.slot = s, Tracker!BeginUse(slot[s].ticket)
  PROVE  /\ slot[s].state = "Ready" /\ poisoned' = poisoned
         /\ slot' \in [AnySlot -> Cell] /\ OthersKept(s) /\ Kept(s)
         /\ slot'[s].state = "InUse" /\ slot'[s].complete = slot[s].complete
         /\ slot'[s].readers = slot[s].readers
<1>1. /\ slot[s].state = "Ready" /\ poisoned' = poisoned
      /\ slot' = [slot EXCEPT ![s].state = "InUse"]
  BY DEF Tracker!BeginUse, Tracker!CanBeginUse
<1>2. slot \in [AnySlot -> Cell]
  BY DEF TypeOK
<1> QED
  BY <1>1, <1>2 DEF OthersKept, Kept, Cell, Tracker!ContentState

LEMMA SealReadersDoes ==
  ASSUME TypeOK, NEW s \in AnySlot, slot[s].ticket.slot = s, NEW fences \in SUBSET AnyFence,
         Tracker!SealReaders(slot[s].ticket, fences)
  PROVE  /\ slot[s].state = "InUse" /\ poisoned' = poisoned
         /\ slot' \in [AnySlot -> Cell] /\ OthersKept(s) /\ Kept(s)
         /\ slot'[s].state = "AwaitingFence" /\ slot'[s].complete = slot[s].complete
         /\ slot'[s].readers = fences
<1>1. /\ slot[s].state = "InUse" /\ poisoned' = poisoned
      /\ slot' = [slot EXCEPT ![s].state = "AwaitingFence", ![s].readers = fences]
  BY DEF Tracker!SealReaders, Tracker!CanSealReaders
<1>2. slot \in [AnySlot -> Cell]
  BY DEF TypeOK
<1>3. slot' = [slot EXCEPT ![s] = [slot[s] EXCEPT !.state = "AwaitingFence", !.readers = fences]]
  BY <1>1, <1>2
<1> QED
  BY <1>1, <1>2, <1>3 DEF OthersKept, Kept, Cell, Tracker!ContentState

LEMMA CompleteReaderDoes ==
  ASSUME TypeOK, NEW t \in AnyTicket, NEW f, Tracker!CompleteReader(t, f)
  PROVE  /\ t = slot[t.slot].ticket /\ slot[t.slot].state = "AwaitingFence" /\ poisoned' = poisoned
         /\ f \in slot[t.slot].readers \ slot[t.slot].complete
         /\ slot' \in [AnySlot -> Cell] /\ OthersKept(t.slot) /\ Kept(t.slot)
         /\ slot'[t.slot].readers = slot[t.slot].readers
         /\ slot'[t.slot].complete = slot[t.slot].complete \cup {f}
         /\ slot'[t.slot].state =
              IF slot'[t.slot].complete = slot'[t.slot].readers THEN "Vacant" ELSE "AwaitingFence"
<1> DEFINE done == slot[t.slot].complete \cup {f}
           after == IF done = slot[t.slot].readers THEN "Vacant" ELSE "AwaitingFence"
<1>1. /\ t = slot[t.slot].ticket /\ slot[t.slot].state = "AwaitingFence" /\ poisoned' = poisoned
      /\ f \in slot[t.slot].readers \ slot[t.slot].complete
      /\ slot' = [slot EXCEPT ![t.slot].complete = done, ![t.slot].state = after]
  BY DEF Tracker!CompleteReader, Tracker!CanCompleteReader, Tracker!Matches
<1>2. slot \in [AnySlot -> Cell] /\ t.slot \in AnySlot
  BY DEF TypeOK, AnyTicket
<1>3. done \in SUBSET AnyFence /\ after \in {"Vacant", "AwaitingFence"}
  BY <1>1, <1>2 DEF Cell
<1> HIDE DEF after
<1>4. slot' = [slot EXCEPT ![t.slot] = [slot[t.slot] EXCEPT !.complete = done, !.state = after]]
  BY <1>1, <1>2
<1>5. /\ slot' \in [AnySlot -> Cell] /\ OthersKept(t.slot) /\ Kept(t.slot)
      /\ slot'[t.slot].readers = slot[t.slot].readers
      /\ slot'[t.slot].complete = done /\ slot'[t.slot].state = after
  <2> HIDE DEF done
  <2> QED
    BY <1>2, <1>3, <1>4 DEF OthersKept, Kept, Cell, Tracker!ContentState
<1> QED
  BY <1>1, <1>5 DEF after

-----------------------------------------------------------------------------
(* Where the owner is in a segment.                                        *)

LEMMA InSegment ==
  ASSUME IInv, pc \in Loop
  PROVE  /\ layout \in Layouts /\ seg \in PoolsOf(layout) /\ {next, dispatch, passes} \subseteq Nat
         /\ FirstOf(layout, seg) \in Nat /\ LastOf(layout, seg) \in Nat
         /\ FirstOf(layout, seg) <= next /\ next <= dispatch /\ dispatch <= LastOf(layout, seg) + 1
         /\ \A g \in FirstOf(layout, seg) .. LastOf(layout, seg) :
              LET s == SlotAt(layout, passes, g)
              IN  s \in SlotsIn(layout) /\ s \in AnySlot /\ s[1] = seg
         /\ CarrySlot \in SlotsIn(layout) /\ CarrySlot \in AnySlot
         /\ layout.carry => CarrySlot[1] = seg
<1>1. layout \in Layouts /\ seg \in PoolsOf(layout) /\ {next, dispatch, passes} \subseteq Nat
  BY Names DEF IInv, TypeOK
<1>2. FirstOf(layout, seg) \in Nat /\ LastOf(layout, seg) \in Nat
  BY <1>1, PoolGroups
<1>3. FirstOf(layout, seg) <= next /\ next <= dispatch /\ dispatch <= LastOf(layout, seg) + 1
  BY DEF IInv, Safe, Segment
<1>4. ASSUME NEW g \in FirstOf(layout, seg) .. LastOf(layout, seg)
      PROVE  LET s == SlotAt(layout, passes, g)
             IN  s \in SlotsIn(layout) /\ s \in AnySlot /\ s[1] = seg
  BY <1>1, SlotOfGroup, SlotsOfLayout
<1>5. CarrySlot \in SlotsIn(layout) /\ CarrySlot[1] = 1
  <2>1. passes + 1 \in Nat
    BY <1>1
  <2> QED
    BY <1>1, <2>1, SlotOfCarried, Names
<1>6. layout.carry => CarrySlot[1] = seg
  BY <1>1, <1>5, PoolNumbers
<1> QED
  BY <1>1, <1>2, <1>3, <1>4, <1>5, <1>6, SlotsOfLayout

-----------------------------------------------------------------------------
(* Types.                                                                  *)

LEMMA FillTypes ==
  ASSUME TypeOK, NEW s \in AnySlot, NEW item \in Nat \X Nat, FillSubmitted(s, item)
  PROVE  /\ slot' \in [AnySlot -> Cell] /\ poisoned' = poisoned
         /\ jobs' \in Seq(AnyTicket) /\ UNCHANGED <<worker, io>>
<1>1. slot' \in [AnySlot -> Cell] /\ poisoned' = poisoned
  BY BeginFillDoes DEF FillSubmitted
<1>2. jobs \in Seq(AnyTicket) /\ Tracker!NewTicket(s, item) \in AnyTicket
  BY NewTickets DEF TypeOK
<1>3. jobs' \in Seq(AnyTicket)
  BY <1>2, AppendRing DEF FillSubmitted
<1> QED
  BY <1>1, <1>3 DEF FillSubmitted

(* A refused fill may have begun in the tracker.                           *)
LEMMA RefusedFill ==
  ASSUME TypeOK, NEW s \in AnySlot, NEW item \in Nat \X Nat, FillRefused(s, item)
  PROVE  /\ pc' = "stop" /\ UNCHANGED <<layout, passes, closing, released>>
         /\ slot' \in [AnySlot -> Cell] /\ poisoned' \in BOOLEAN
         /\ slot' = slot \/ Tracker!BeginFill(s, item, 1)
<1>1. CASE Tracker!BeginFill(s, item, 1)
  <2>1. slot' \in [AnySlot -> Cell] /\ poisoned' = poisoned
    BY <1>1, BeginFillDoes
  <2> QED
    BY <1>1, <2>1 DEF FillRefused, Fail, TypeOK
<1>2. CASE ~Tracker!BeginFill(s, item, 1)
  BY <1>2 DEF FillRefused, Fail, Tracker!Refuse, TypeOK
<1> QED
  BY <1>1, <1>2

-----------------------------------------------------------------------------
(* Steps that move the owner only.                                         *)

LEMMA Move ==
  ASSUME IInv, TypeOK',
         UNCHANGED <<layout, slot, backing, live, drained, active, jobs, worker, mailbox, gpu, carry>>,
         pc' \in Loop => pc \in Loop /\ UNCHANGED <<seg, next, dispatch, outgoing, passes>>,
         pc' \in {"overlap", "encode"} =>
           next < dispatch /\ slot[SlotAt(layout, passes, next)].state = "InUse",
         pc' = "retire" => pc = "retire",
         pc' \in {"settle", "destroy"} => gpu = {},
         pc' \in Resting => pc \in Resting,
         pc' = "begin" => pc = "begin" /\ io' = io,
         pc' \in {"device", "quarantined"} => live # {},
         pc' \in Late => io' = "none" \/ AllExited,
         pc' \in Final <=> pc \in Final,
         io' = "none" => io = "none"
  PROVE  IInv'
<1> USE DEF IInv, Safe
<1>1. Cells'
  BY DEF Cells
<1>2. Fills'
  BY DEF Fills, Pending, Busy, FillMail
<1>3. OneFill'
  BY DEF OneFill, Busy, FillMail
<1>4. Reading'
  BY DEF Reading
<1>5. Reports'
  BY DEF Reports, ReaderMail, FenceOf
<1>6. Segment'
  BY DEF Segment
<1>7. Pools'
  BY DEF Pools
<1>8. Between'
  BY DEF Between, Busy
<1>9. Stopped'
  BY DEF Stopped, AllExited
<1> QED
  BY <1>1, <1>2, <1>3, <1>4, <1>5, <1>6, <1>7, <1>8, <1>9

LEMMA InitIInv == Init => IInv
<1> SUFFICES ASSUME Init PROVE IInv
  OBVIOUS
<1>1. layout \in Layouts /\ PoolsOf(layout) # {} /\ 1 \in PoolsOf(layout)
  BY PoolNumbers DEF Init
<1>2. SlotsIn(layout) \subseteq AnySlot
  BY <1>1, SlotsOfLayout
<1>3. slot = [s \in AnySlot |-> Tracker!EmptySlot(s)] /\ poisoned = FALSE
  BY DEF Init, Tracker!SafetyInit
<1>4. \A s \in AnySlot : LET c == Tracker!EmptySlot(s) IN
        c \in Cell /\ c.state = "Vacant" /\ c.ticket.slot = s /\ c.ticket.generation = c.generation
  BY DEF Tracker!EmptySlot, Tracker!ZeroTicket, Cell, Tracker!ContentState, AnyTicket, Content
<1>5. /\ slot \in [AnySlot -> Cell]
      /\ \A s \in AnySlot : /\ slot[s].state = "Vacant" /\ slot[s].ticket.slot = s
                             /\ slot[s].ticket.generation = slot[s].generation
  BY <1>3, <1>4
<1>6. TypeOK
  <2>1. backing \in [AnySlot -> Content]
    BY DEF Init, Content
  <2>2. jobs \in Seq(AnyTicket) /\ mailbox \in Seq(MailRecord)
    BY DEF Init
  <2>3. worker \in [Worker -> WorkerRecord]
    BY DEF Init, Idle, WorkerRecord
  <2>4. gpu \subseteq ReaderRecord /\ live \subseteq Pool /\ drained \subseteq Pool
    BY DEF Init
  <2>5. {poisoned, overflow, progress, released, cancel} \subseteq BOOLEAN
    BY <1>3 DEF Init
  <2>6. {outgoing, carry} \subseteq AnyTicket \cup {NoTicket}
    BY DEF Init
  <2>7. pc \in Places /\ seg \in Pool /\ active \in Pool \cup {0}
    BY <1>1, Names DEF Init, Places
  <2>8. {next, dispatch, passes} \subseteq Nat
    BY DEF Init
  <2>9. io \in {"none", "running", "stopped"} /\ closing \in {"no", "finish", "abandon"}
    BY DEF Init
  <2> QED
    BY <1>1, <1>5, <2>1, <2>2, <2>3, <2>4, <2>5, <2>6, <2>7, <2>8, <2>9, Zenon DEF TypeOK
<1>7. Cells
  BY <1>2, <1>5 DEF Cells, Filled
<1>8. Busy = {} /\ mailbox = <<>> /\ jobs = <<>> /\ pc = "begin" /\ gpu = {} /\ io = "none"
  BY DEF Init, Busy, Idle
<1>9. Fills /\ OneFill
  BY <1>8 DEF Fills, OneFill, FillMail
<1>10. Reading /\ Reports /\ Segment
  BY <1>8 DEF Reading, Reports, Segment, Loop
<1>11. Pools
  <2>1. live = {} /\ drained = PoolsOf(layout) /\ carry = NoTicket
    BY Names DEF Init
  <2>2. live = 1 .. Cardinality(live)
    BY <2>1, FS_EmptySet
  <2> QED
    BY <1>8, <2>1, <2>2 DEF Pools, Resting, Final
<1>12. Between /\ Stopped
  BY <1>8 DEF Between, Stopped, Late, Ended, Init, Idle
<1> QED
  BY <1>6, <1>7, <1>9, <1>10, <1>11, <1>12 DEF IInv, Safe

LEMMA MoveTypes ==
  ASSUME TypeOK, UNCHANGED <<layout, slot, backing, live, drained, active, jobs, worker, mailbox,
                             gpu, outgoing, carry>>,
         pc' \in Places, io' \in {"none", "running", "stopped"},
         closing' \in {"no", "finish", "abandon"}, seg' \in PoolsOf(layout),
         {next', dispatch', passes'} \subseteq Nat,
         {poisoned', overflow', progress', released', cancel'} \subseteq BOOLEAN
  PROVE  TypeOK'
BY Zenon DEF TypeOK, Pool

LEMMA Types ==
  ASSUME TypeOK
  PROVE  /\ layout \in Layouts /\ seg \in PoolsOf(layout)
         /\ next \in Nat /\ dispatch \in Nat /\ passes \in Nat
         /\ poisoned \in BOOLEAN /\ overflow \in BOOLEAN /\ progress \in BOOLEAN
         /\ released \in BOOLEAN /\ cancel \in BOOLEAN
         /\ pc \in Places /\ io \in {"none", "running", "stopped"}
         /\ closing \in {"no", "finish", "abandon"}
         /\ jobs \in Seq(AnyTicket) /\ mailbox \in Seq(MailRecord)
         /\ worker \in [Worker -> WorkerRecord] /\ gpu \subseteq ReaderRecord
         /\ slot \in [AnySlot -> Cell] /\ backing \in [AnySlot -> Content]
BY Names DEF TypeOK

(* A failure that leaves memory and slots alone.                           *)
LEMMA FailMoves ==
  ASSUME IInv, pc \notin Final, NEW why, Fail(why),
         UNCHANGED <<slot, backing, live, drained, active, jobs, worker, mailbox, gpu, carry,
                     outgoing, io, seg, next, dispatch, overflow, cancel>>,
         {poisoned', progress'} \subseteq BOOLEAN
  PROVE  IInv'
<1>1. pc' = "stop" /\ UNCHANGED <<layout, passes, closing, released>>
  BY DEF Fail
<1>2. TypeOK'
  <2> USE Types DEF IInv
  <2> QED
    BY <1>1, MoveTypes DEF Places
<1> QED
  BY <1>1, <1>2, Move DEF Loop, Resting, Late, Ended, Final

(* A drained active pool has no reader left.                               *)
LEMMA NoReaders ==
  ASSUME IInv, live = {} \/ active \in drained
  PROVE  gpu = {}
<1>1. SUFFICES ASSUME NEW r \in gpu PROVE FALSE
  OBVIOUS
<1>2. /\ r.ticket.slot \in SlotsIn(layout) /\ r.ticket.slot[1] \in live
      /\ slot[r.ticket.slot].state \in {"InUse", "AwaitingFence"}
  BY DEF IInv, Safe, Reading
<1>3. r.ticket.slot[1] \in live \cap drained
  BY <1>2 DEF IInv, Safe, Pools
<1> QED
  BY <1>2, <1>3 DEF IInv, Safe, Pools

LEMMA OwnerMoves ==
  ASSUME IInv, \/ RunPass \/ Poll \/ ConsumeEnd \/ Check \/ Drain \/ PassEnd \/ Finish
               \/ FinishJoin \/ Finalize \/ Abandon \/ Stop \/ JoinWorkers \/ DrainDevice
               \/ RetryDrain \/ RequestCancel
  PROVE  IInv'
<1>0. TypeOK
  BY DEF IInv
<1> USE <1>0, Types DEF Loop, Resting, Late, Ended, Final, Goto, tracker, pools, outside, ioVars,
        mail, loop, life, ownerVars
<1>1. CASE RunPass
  <2>1. TypeOK'
    BY <1>1, MoveTypes, PoolNumbers DEF RunPass, Places
  <2> QED
    BY <1>1, <2>1, Move DEF RunPass
<1>2. CASE Poll
  <2>1. CASE pc' = "consume"
    <3>1. TypeOK'
      BY <1>2, <2>1, MoveTypes DEF Poll, Fail, Places
    <3> QED
      BY <1>2, <2>1, <3>1, Move DEF Poll, Fail
  <2>2. CASE \E why : Fail(why)
    BY <1>2, <2>2, FailMoves DEF Poll
  <2> QED
    BY <1>2, <2>1, <2>2 DEF Poll
<1>3. CASE ConsumeEnd
  <2>1. TypeOK'
    BY <1>3, MoveTypes DEF ConsumeEnd, Places
  <2> QED
    BY <1>3, <2>1, Move DEF ConsumeEnd
<1>4. CASE Check
  <2>1. TypeOK'
    BY <1>4, MoveTypes DEF Check, Fail, Places
  <2> QED
    BY <1>4, <2>1, Move DEF Check, Fail
<1>5. CASE Drain
  <2>1. TypeOK'
    BY <1>5, MoveTypes DEF Drain, Fail, Places
  <2> QED
    BY <1>5, <2>1, Move DEF Drain, Fail, DrainReturns
<1>6. CASE PassEnd
  <2>1. passes' \in Nat
    BY <1>6 DEF PassEnd, Fail
  <2>2. TypeOK'
    BY <1>6, <2>1, MoveTypes DEF PassEnd, Fail, Places
  <2> QED
    BY <1>6, <2>2, Move DEF PassEnd, Fail
<1>7. CASE Finish
  <2>1. TypeOK'
    BY <1>7, MoveTypes DEF Finish, Fail, Places
  <2> QED
    BY <1>7, <2>1, Move DEF Finish, Fail
<1>8. CASE FinishJoin
  <2>1. TypeOK'
    BY <1>8, MoveTypes DEF FinishJoin, Places
  <2> QED
    BY <1>8, <2>1, Move DEF FinishJoin
<1>9. CASE Finalize
  <2>1. TypeOK'
    BY <1>9, MoveTypes DEF Finalize, Fail, Places
  <2> QED
    BY <1>9, <2>1, Move DEF Finalize, Fail
<1>10. CASE Abandon
  <2>1. TypeOK'
    BY <1>10, MoveTypes DEF Abandon, Places
  <2> QED
    BY <1>10, <2>1, Move DEF Abandon
<1>11. CASE Stop
  <2>1. TypeOK'
    BY <1>11, MoveTypes DEF Stop, Places
  <2> QED
    BY <1>11, <2>1, Move DEF Stop
<1>12. CASE JoinWorkers
  <2>1. TypeOK'
    BY <1>12, MoveTypes DEF JoinWorkers, Places
  <2>2. ~NeedsDrain => gpu = {}
    BY NoReaders, PoolNumbers DEF NeedsDrain, IInv
  <2> QED
    BY <1>12, <2>1, <2>2, Move DEF JoinWorkers, NeedsDrain
<1>13. CASE DrainDevice
  <2>1. TypeOK'
    BY <1>13, MoveTypes DEF DrainDevice, Places
  <2>2. live # {} /\ (io = "none" \/ AllExited)
    BY <1>13 DEF DrainDevice, IInv, Safe, Pools, Stopped
  <2> QED
    BY <1>13, <2>1, <2>2, Move DEF DrainDevice, DrainReturns
<1>14. CASE RetryDrain
  <2>1. TypeOK'
    BY <1>14, MoveTypes DEF RetryDrain, Places
  <2> QED
    BY <1>14, <2>1, Move DEF RetryDrain
<1>15. CASE RequestCancel
  <2>1. TypeOK'
    BY <1>15, MoveTypes DEF RequestCancel, Places
  <2>2. /\ pc \in {"overlap", "encode"} =>
             next < dispatch /\ slot[SlotAt(layout, passes, next)].state = "InUse"
        /\ pc \in {"settle", "destroy"} => gpu = {}
        /\ pc \in {"device", "quarantined"} => live # {}
        /\ pc \in Late => io = "none" \/ AllExited
    BY DEF IInv, Safe, Segment, Reading, Pools, Stopped
  <2> QED
    BY <1>15, <2>1, <2>2, Move DEF RequestCancel
<1> QED
  BY <1>1, <1>2, <1>3, <1>4, <1>5, <1>6, <1>7, <1>8, <1>9, <1>10, <1>11, <1>12, <1>13, <1>14, <1>15

-----------------------------------------------------------------------------
(* A fill begins: dispatch, carry and overlap.                             *)

(* The slot was vacant, so nobody is about to write or read it.            *)
LEMMA FillBegins ==
  ASSUME IInv, pc \in Loop, NEW s \in SlotsIn(layout), s[1] = seg, NEW item \in Nat \X Nat,
         Tracker!BeginFill(s, item, 1),
         UNCHANGED <<layout, backing, live, drained, active, carry, gpu>>,
         pc' \notin Resting \cup Late \cup Final
  PROVE  /\ Cells' /\ Pools'
         /\ \A t : Pending(t) => Pending(t)' /\ t.slot # s
         /\ \A t : t = Tracker!NewTicket(s, item) => Pending(t)'
         /\ \A r \in gpu : r.ticket.slot # s /\ r.ticket.slot \in AnySlot
         /\ (pc' # "settle" => Reading')
<1> USE DEF IInv, Safe
<1> DEFINE t0 == Tracker!NewTicket(s, item)
<1>1. s \in AnySlot /\ SlotsIn(layout) \subseteq AnySlot
  BY SlotsOfLayout DEF TypeOK
<1>2. /\ slot[s].state = "Vacant"
      /\ OthersKept(s)
      /\ slot'[s].state = "Loading" /\ slot'[s].expected = 1 /\ slot'[s].complete = {}
      /\ slot'[s].generation = slot[s].generation + 1 /\ slot'[s].ticket = t0
  BY <1>1, BeginFillDoes
<1>3. t0.slot = s /\ t0.generation = slot[s].generation + 1
  BY <1>1, NewTickets
<1> HIDE DEF t0
<1>4. \A u \in SlotsIn(layout) : u # s => slot'[u] = slot[u]
  BY <1>1, <1>2 DEF OthersKept
<1>5. seg \in live /\ seg \notin drained
  BY DEF Segment
<1>6. Cells'
  BY <1>2, <1>3, <1>4 DEF Cells
<1>7. Pools'
  BY <1>2, <1>4, <1>5 DEF Pools, Resting, Late, Ended
<1>8. ASSUME NEW t, Pending(t)
      PROVE  Pending(t)' /\ t.slot # s
  BY <1>2, <1>4, <1>8 DEF Pending
<1>9. \A t : t = t0 => Pending(t)'
  BY <1>2, <1>3, <1>5 DEF Pending
<1>10. \A r \in gpu : r.ticket.slot # s /\ r.ticket.slot \in SlotsIn(layout)
  BY <1>2 DEF Reading
<1>11. pc' # "settle" => Reading'
  BY <1>4, <1>10 DEF Reading, Late
<1> QED
  BY <1>1, <1>6, <1>7, <1>8, <1>9, <1>10, <1>11 DEF t0

(* A fill that throws after it has begun leaves its slot loading.          *)
LEMMA FillThrows ==
  ASSUME IInv, pc \in Loop, NEW s \in SlotsIn(layout), s[1] = seg, NEW item \in Nat \X Nat,
         FillRefused(s, item),
         UNCHANGED <<backing, live, drained, active, carry, gpu, jobs, worker, io, mailbox,
                     overflow, cancel, seg, next, dispatch, outgoing, progress>>
  PROVE  IInv'
<1> USE DEF IInv, Safe
<1>1. s \in AnySlot
  BY SlotsOfLayout DEF TypeOK
<1>2. /\ pc' = "stop" /\ UNCHANGED <<layout, passes, closing, released>>
      /\ slot' \in [AnySlot -> Cell] /\ poisoned' \in BOOLEAN
      /\ slot' = slot \/ Tracker!BeginFill(s, item, 1)
  BY <1>1, RefusedFill
<1>3. TypeOK'
  BY <1>2, Zenon DEF TypeOK, Pool, Places
<1>4. CASE slot' = slot
  BY <1>2, <1>3, <1>4, Move DEF Loop, Resting, Late, Ended, Final
<1>5. CASE Tracker!BeginFill(s, item, 1)
  <2>1. /\ Cells' /\ Pools' /\ Reading'
        /\ \A t : Pending(t) => Pending(t)'
    BY <1>2, <1>5, FillBegins DEF Resting, Late, Ended, Final
  <2>2. Fills'
    <3>1. /\ \A i \in DOMAIN jobs : Pending(jobs[i])
          /\ \A w \in Busy : Pending(worker[w].ticket)
          /\ \A i \in FillMail : Pending(mailbox[i].ticket)
      BY DEF Fills, Loop, Final
    <3>2. /\ \A i \in DOMAIN jobs : Pending(jobs[i])'
          /\ \A w \in Busy : Pending(worker[w].ticket)'
          /\ \A i \in FillMail : Pending(mailbox[i].ticket)'
      BY <2>1, <3>1 DEF Pending
    <3> QED
      BY <3>2 DEF Fills, Busy, FillMail, Loop, Final, Pending
  <2>3. OneFill'
    BY DEF OneFill, Busy, FillMail
  <2>4. Reports' /\ Segment' /\ Between' /\ Stopped'
    BY <1>2 DEF Reports, Segment, Between, Stopped, Loop, Resting, Late, Ended
  <2> QED
    BY <1>3, <2>1, <2>2, <2>3, <2>4
<1> QED
  BY <1>2, <1>4, <1>5

LEMMA FillIsPending ==
  ASSUME IInv, pc \in Loop, pc' \in Loop \ {"settle", "retire"},
         NEW s \in SlotsIn(layout), s[1] = seg, NEW item \in Nat \X Nat, FillSubmitted(s, item),
         UNCHANGED <<layout, backing, live, drained, active, carry, gpu, mailbox>>
  PROVE  Cells' /\ Fills' /\ OneFill' /\ Reading' /\ Reports' /\ Pools' /\ Between' /\ Stopped'
<1> USE DEF IInv, Safe
<1> DEFINE t0 == Tracker!NewTicket(s, item)
<1>1. s \in AnySlot /\ SlotsIn(layout) \subseteq AnySlot
  BY SlotsOfLayout DEF TypeOK
<1>2. /\ Tracker!BeginFill(s, item, 1) /\ jobs' = Append(jobs, t0)
      /\ UNCHANGED <<worker, io>> /\ io = "running"
  BY DEF FillSubmitted
<1>3. /\ t0.slot = s /\ t0.generation = slot[s].generation + 1 /\ t0 \in AnyTicket
      /\ slot[s].generation \in Nat
  BY <1>1, NewTickets
<1>4. /\ OthersKept(s) /\ slot'[s].ticket = t0 /\ slot'[s].generation = slot[s].generation + 1
  BY <1>1, <1>2, BeginFillDoes
<1>5. /\ Cells' /\ Pools' /\ Reading'
      /\ \A t : Pending(t) => Pending(t)' /\ t.slot # s
      /\ \A t : t = t0 => Pending(t)'
      /\ \A r \in gpu : r.ticket.slot # s /\ r.ticket.slot \in AnySlot
  BY <1>2, FillBegins DEF Loop, Resting, Late, Ended, Final
<1> HIDE DEF t0
<1>6. PICK n : /\ DOMAIN jobs' = DOMAIN jobs \cup {n} /\ n \notin DOMAIN jobs /\ jobs'[n] = t0
               /\ \A i \in DOMAIN jobs : jobs'[i] = jobs[i]
  <2>1. jobs \in Seq(AnyTicket)
    BY DEF TypeOK
  <2> QED
    BY <1>2, <1>3, <2>1, AppendRing
<1>7. pc \notin Final /\ pc' \notin Final
  BY DEF Loop, Final
<1>8. /\ \A i \in DOMAIN jobs : Pending(jobs[i]) /\ jobs[i].slot # s
      /\ \A w \in Busy : Pending(worker[w].ticket) /\ worker[w].ticket.slot # s
      /\ \A i \in FillMail : Pending(mailbox[i].ticket) /\ mailbox[i].ticket.slot # s
  BY <1>5, <1>7 DEF Fills
<1>9. Fills'
  <2>1. ASSUME NEW i \in DOMAIN jobs' PROVE Pending(jobs[i])'
    <3>1. CASE i = n
      BY <1>5, <1>6, <3>1 DEF Pending
    <3>2. CASE i \in DOMAIN jobs
      <4>1. \A t : t = jobs[i] => Pending(t)'
        BY <1>5, <1>8, <3>2
      <4> QED
        BY <1>6, <3>2, <4>1 DEF Pending
    <3> QED
      BY <1>6, <3>1, <3>2
  <2>2. /\ \A w \in Busy : Pending(worker[w].ticket)'
        /\ \A i \in FillMail : Pending(mailbox[i].ticket)'
    BY <1>2, <1>5, <1>8 DEF Pending
  <2> QED
    BY <1>2, <1>7, <2>1, <2>2 DEF Fills, Busy, FillMail, Pending
<1>10. OneFill'
  BY <1>2, <1>3, <1>6, <1>8 DEF OneFill, Busy, FillMail
<1>11. Reports'
  <2>1. \A r \in gpu : slot'[r.ticket.slot] = slot[r.ticket.slot]
    BY <1>4, <1>5 DEF OthersKept
  <2>2. ASSUME NEW i \in ReaderMail
        PROVE  LET u == mailbox[i].ticket.slot IN
               /\ u \in SlotsIn(layout) /\ mailbox[i].ticket.generation <= slot'[u].generation
               /\ mailbox[i].ticket = slot'[u].ticket => slot'[u].state \notin Filled
    <3> DEFINE u == mailbox[i].ticket.slot
    <3>1. /\ u \in SlotsIn(layout) /\ mailbox[i].ticket.generation <= slot[u].generation
          /\ mailbox[i].ticket = slot[u].ticket => slot[u].state \notin Filled
      BY DEF Reports
    <3>2. mailbox[i].ticket.generation \in Nat
      <4>1. mailbox \in Seq(MailRecord) /\ i \in DOMAIN mailbox
        BY DEF TypeOK, ReaderMail
      <4>2. mailbox[i] \in MailRecord
        BY <4>1, ElementOfSeq, LenProperties
      <4> QED
        BY <4>2 DEF MailRecord, AnyTicket
    <3>3. CASE u = s
      BY <1>3, <1>4, <3>1, <3>2, <3>3
    <3>4. CASE u # s
      BY <1>1, <1>4, <3>1, <3>4 DEF OthersKept
    <3> QED
      BY <3>3, <3>4
  <2> QED
    BY <2>1, <2>2 DEF Reports, ReaderMail, FenceOf
<1>12. Between' /\ Stopped'
  BY <1>2 DEF Between, Stopped, Loop, Resting, Late, Ended
<1> QED
  BY <1>5, <1>9, <1>10, <1>11, <1>12

(* The dispatched group joins the ones that are in their slots.            *)
LEMMA GroupDispatched ==
  ASSUME IInv, pc \in Loop, pc' \in Loop \ {"settle", "retire"},
         pc' \in {"overlap", "encode"} => next < dispatch' /\ slot[NextSlot].state = "InUse",
         dispatch <= Last(seg), FillSubmitted(DispatchSlot, <<passes, dispatch>>),
         dispatch' = dispatch + 1, progress' \in BOOLEAN,
         UNCHANGED <<layout, passes, closing, released, backing, live, drained, active, mail, gpu,
                     seg, next, outgoing, carry, cancel>>
  PROVE  IInv'
<1> DEFINE s == DispatchSlot
           item == <<passes, dispatch>>
<1>1. /\ {next, dispatch, passes} \subseteq Nat /\ LastOf(layout, seg) \in Nat
      /\ next <= dispatch /\ dispatch <= LastOf(layout, seg) /\ FirstOf(layout, seg) <= dispatch
      /\ s = SlotAt(layout, passes, dispatch)
      /\ s \in SlotsIn(layout) /\ s \in AnySlot /\ s[1] = seg /\ item \in Nat \X Nat
  BY InSegment, Names
<1>2. /\ slot[s].state = "Vacant" /\ OthersKept(s) /\ slot'[s].state = "Loading"
      /\ slot'[s].ticket.item = item
  BY <1>1, BeginFillDoes, NewTickets DEF FillSubmitted, IInv
<1>3. Cells' /\ Fills' /\ OneFill' /\ Reading' /\ Reports' /\ Pools' /\ Between' /\ Stopped'
  BY <1>1, FillIsPending DEF mail
<1>4. TypeOK'
  <2>1. /\ slot' \in [AnySlot -> Cell] /\ poisoned' = poisoned
        /\ jobs' \in Seq(AnyTicket) /\ UNCHANGED <<worker, io>>
    BY <1>1, FillTypes DEF IInv
  <2>2. pc' \in Places /\ dispatch' \in Nat
    BY <1>1 DEF Loop, Places
  <2>3. TypeOK
    BY DEF IInv
  <2> QED
    BY <2>1, <2>2, <2>3, Zenon DEF TypeOK, Pool, mail
<1>5. Segment'
  <2> HIDE DEF s, item
  <2>1. /\ seg \in live /\ active = seg /\ seg \notin drained /\ FirstOf(layout, seg) <= next
        /\ outgoing = NoTicket
    BY <1>1 DEF IInv, Safe, Segment
  <2>2. ASSUME NEW g \in next .. dispatch
        PROVE  /\ slot'[SlotAt(layout, passes, g)].state \in Filled
               /\ slot'[SlotAt(layout, passes, g)].ticket.item = <<passes, g>>
    <3>1. CASE g = dispatch
      BY <1>1, <1>2, <3>1 DEF Filled, item
    <3>2. CASE g # dispatch
      <4>1. g \in next .. dispatch - 1 /\ g \in FirstOf(layout, seg) .. LastOf(layout, seg)
        BY <1>1, <3>2, <2>1, InSegment
      <4>2. /\ slot[SlotAt(layout, passes, g)].state \in Filled
            /\ slot[SlotAt(layout, passes, g)].ticket.item = <<passes, g>>
        BY <4>1 DEF IInv, Safe, Segment
      <4>3. SlotAt(layout, passes, g) \in AnySlot
        BY <4>1, InSegment
      <4> QED
        BY <1>2, <4>2, <4>3 DEF OthersKept, Filled
    <3> QED
      BY <3>1, <3>2
  <2>3. ASSUME NEW u \in SlotsIn(layout), u[1] = seg, slot'[u].state \in Filled
        PROVE  \/ outgoing # NoTicket /\ u = outgoing.slot
               \/ \E g \in next .. dispatch : u = SlotAt(layout, passes, g)
    <3>1. CASE u = s
      BY <1>1, <3>1
    <3>2. CASE u # s
      <4>1. slot[u].state \in Filled
        BY <2>3, <3>2, <1>2, <1>1, SlotsOfLayout, InSegment DEF OthersKept
      <4>2. \/ outgoing # NoTicket /\ u = outgoing.slot
            \/ \E g \in next .. dispatch - 1 : u = SlotAt(layout, passes, g)
        BY <2>3, <4>1 DEF IInv, Safe, Segment
      <4> QED
        BY <1>1, <4>2
    <3> QED
      BY <3>1, <3>2
  <2>4. dispatch' - 1 = dispatch /\ next <= dispatch' /\ dispatch' <= LastOf(layout, seg) + 1
    BY <1>1
  <2>5. pc' \in {"overlap", "encode"} =>
          next < dispatch' /\ slot'[SlotAt(layout, passes, next)].state = "InUse"
    <3>1. SUFFICES ASSUME pc' \in {"overlap", "encode"}
                   PROVE  slot'[SlotAt(layout, passes, next)].state = "InUse"
      OBVIOUS
    <3>2. slot[SlotAt(layout, passes, next)].state = "InUse"
      BY <3>1, Names
    <3>3. next \in FirstOf(layout, seg) .. LastOf(layout, seg)
      BY <1>1, <2>1, InSegment
    <3>4. SlotAt(layout, passes, next) \in AnySlot
      BY <3>3, InSegment
    <3> QED
      BY <1>2, <3>2, <3>4 DEF OthersKept
  <2> QED
    BY <2>1, <2>2, <2>3, <2>4, <2>5 DEF Segment
<1> QED
  BY <1>3, <1>4, <1>5 DEF IInv, Safe

LEMMA DispatchStep == IInv /\ Dispatch => IInv'
<1> SUFFICES ASSUME IInv, Dispatch PROVE IInv'
  OBVIOUS
<1>1. /\ pc = "dispatch" /\ pc \in Loop
      /\ UNCHANGED <<pools, mail, gpu, seg, next, outgoing, carry, cancel>>
  BY DEF Dispatch, Loop
<1>2. TypeOK
  BY DEF IInv
<1>3. CASE MayDispatch /\ FillSubmitted(DispatchSlot, <<passes, dispatch>>)
           /\ dispatch' = dispatch + 1 /\ progress' = TRUE /\ UNCHANGED <<pc, life>>
  BY <1>1, <1>3, GroupDispatched DEF MayDispatch, life, pools, Loop
<1>4. CASE MayDispatch /\ FillRefused(DispatchSlot, <<passes, dispatch>>)
           /\ UNCHANGED <<ioVars, dispatch, progress>>
  <2>1. /\ DispatchSlot \in SlotsIn(layout) /\ DispatchSlot[1] = seg
        /\ <<passes, dispatch>> \in Nat \X Nat
    BY <1>1, <1>4, InSegment, Names DEF MayDispatch
  <2> QED
    BY <1>1, <1>4, <2>1, FillThrows DEF pools, mail, ioVars
<1>5. CASE pc' = "carry" /\ UNCHANGED <<tracker, ioVars, dispatch, progress, life>>
  <2>1. TypeOK'
    BY <1>1, <1>2, <1>5, Types, MoveTypes DEF pools, mail, tracker, ioVars, life, Places
  <2> QED
    BY <1>1, <1>5, <2>1, Move
       DEF pools, mail, tracker, ioVars, life, Loop, Resting, Late, Ended, Final
<1> QED
  BY <1>3, <1>4, <1>5 DEF Dispatch

LEMMA OverlapStep == IInv /\ OverlapFill => IInv'
<1> SUFFICES ASSUME IInv, OverlapFill PROVE IInv'
  OBVIOUS
<1>1. /\ pc = "overlap" /\ pc \in Loop
      /\ UNCHANGED <<pools, mail, gpu, seg, next, outgoing, carry, progress, cancel>>
  BY DEF OverlapFill, Loop
<1>2. TypeOK
  BY DEF IInv
<1>3. next < dispatch /\ slot[NextSlot].state = "InUse"
  BY <1>1, Names DEF IInv, Safe, Segment
<1>4. CASE MayOverlap /\ FillSubmitted(DispatchSlot, <<passes, dispatch>>)
           /\ dispatch' = dispatch + 1 /\ pc' = "encode" /\ UNCHANGED life
  <2>1. next < dispatch'
    BY <1>1, <1>3, <1>4, InSegment
  <2> QED
    BY <1>1, <1>2, <1>3, <1>4, <2>1, Types, GroupDispatched DEF MayOverlap, life, pools, Loop
<1>5. CASE MayOverlap /\ FillRefused(DispatchSlot, <<passes, dispatch>>)
           /\ UNCHANGED <<ioVars, dispatch>>
  <2>1. /\ DispatchSlot \in SlotsIn(layout) /\ DispatchSlot[1] = seg
        /\ <<passes, dispatch>> \in Nat \X Nat
    BY <1>1, <1>5, InSegment, Names DEF MayOverlap
  <2> QED
    BY <1>1, <1>5, <2>1, FillThrows DEF pools, mail, ioVars
<1>6. CASE pc' = "encode" /\ UNCHANGED <<tracker, ioVars, dispatch, life>>
  <2>1. TypeOK'
    BY <1>1, <1>2, <1>6, Types, MoveTypes DEF pools, mail, tracker, ioVars, life, Places
  <2> QED
    BY <1>1, <1>3, <1>6, <2>1, Move, Names
       DEF pools, mail, tracker, ioVars, life, Loop, Resting, Late, Ended, Final
<1> QED
  BY <1>4, <1>5, <1>6 DEF OverlapFill

LEMMA CarryStep == IInv /\ CarryFill => IInv'
<1> SUFFICES ASSUME IInv, CarryFill PROVE IInv'
  OBVIOUS
<1>1. /\ pc = "carry" /\ pc \in Loop
      /\ UNCHANGED <<pools, mail, gpu, seg, next, dispatch, carry, cancel>>
  BY DEF CarryFill, Loop
<1>2. TypeOK
  BY DEF IInv
<1>3. /\ CarrySlot \in SlotsIn(layout) /\ CarrySlot \in AnySlot /\ CarryItem \in Nat \X Nat
      /\ layout.carry => CarrySlot[1] = seg
  BY <1>1, InSegment DEF CarryItem
<1>4. CASE MayCarry /\ FillSubmitted(CarrySlot, CarryItem) /\ progress' = TRUE
           /\ outgoing' = Tracker!NewTicket(CarrySlot, CarryItem) /\ pc' = "claim"
           /\ UNCHANGED life
  <2>1. layout.carry /\ CarrySlot[1] = seg
    BY <1>3, <1>4 DEF MayCarry, CarryNext
  <2>2. /\ slot[CarrySlot].state = "Vacant" /\ OthersKept(CarrySlot)
        /\ outgoing' \in AnyTicket /\ outgoing' # NoTicket /\ outgoing'.slot = CarrySlot
    BY <1>2, <1>3, <1>4, BeginFillDoes, NewTickets DEF FillSubmitted
  <2>3. Cells' /\ Fills' /\ OneFill' /\ Reading' /\ Reports' /\ Pools' /\ Between' /\ Stopped'
    BY <1>1, <1>3, <1>4, <2>1, FillIsPending DEF mail, pools, life, Loop
  <2>4. TypeOK'
    <3>1. /\ slot' \in [AnySlot -> Cell] /\ poisoned' = poisoned
          /\ jobs' \in Seq(AnyTicket) /\ UNCHANGED <<worker, io>>
      BY <1>2, <1>3, <1>4, FillTypes
    <3>2. pc' \in Places /\ progress' \in BOOLEAN
      BY <1>4 DEF Places
    <3>3. {outgoing', carry'} \subseteq AnyTicket \cup {NoTicket}
      BY <1>1, <1>2, <2>2 DEF TypeOK
    <3>4. {poisoned', overflow', progress', released', cancel'} \subseteq BOOLEAN
      BY <1>1, <1>2, <1>4, <3>1, <3>2, Types DEF mail, life
    <3> QED
      BY <1>1, <1>2, <1>4, <3>1, <3>2, <3>3, <3>4, Zenon DEF TypeOK, Pool, mail, pools, life
  <2>5. Segment'
    <3>1. /\ seg \in live /\ active = seg /\ seg \notin drained
          /\ FirstOf(layout, seg) <= next /\ next <= dispatch
          /\ dispatch <= LastOf(layout, seg) + 1
          /\ \A g \in next .. dispatch - 1 :
               /\ slot[SlotAt(layout, passes, g)].state \in Filled
               /\ slot[SlotAt(layout, passes, g)].ticket.item = <<passes, g>>
      BY <1>1 DEF IInv, Safe, Segment
    <3>2. outgoing = NoTicket /\ dispatch = LastOf(layout, seg) + 1
      BY <1>1, <1>4, InSegment, Names DEF MayCarry
    <3>3. \A g \in next .. dispatch - 1 :
            /\ slot'[SlotAt(layout, passes, g)].state \in Filled
            /\ slot'[SlotAt(layout, passes, g)].ticket.item = <<passes, g>>
      <4> TAKE g \in next .. dispatch - 1
      <4>1. SlotAt(layout, passes, g) \in AnySlot
        BY <1>1, InSegment
      <4> QED
        BY <2>2, <3>1, <4>1 DEF OthersKept, Filled
    <3>4. ASSUME NEW u \in SlotsIn(layout), u[1] = seg, slot'[u].state \in Filled
          PROVE  \/ u = outgoing'.slot
                 \/ \E g \in next .. dispatch - 1 : u = SlotAt(layout, passes, g)
      <4>1. CASE u # CarrySlot
        <5>1. slot[u].state \in Filled
          BY <1>2, <2>2, <3>4, <4>1, SlotsOfLayout, Types DEF OthersKept
        <5> QED
          BY <1>1, <3>2, <3>4, <5>1 DEF IInv, Safe, Segment
      <4> QED
        BY <2>2, <4>1
    <3>5. /\ UNCHANGED <<layout, passes, live, active, drained, seg, next, dispatch>>
          /\ pc' = "claim"
      BY <1>1, <1>4 DEF pools, life
    <3> QED
      BY <2>1, <2>2, <3>1, <3>2, <3>3, <3>4, <3>5 DEF Segment
  <2> QED
    BY <2>3, <2>4, <2>5 DEF IInv, Safe
<1>5. CASE MayCarry /\ FillRefused(CarrySlot, CarryItem) /\ UNCHANGED <<ioVars, outgoing, progress>>
  BY <1>1, <1>3, <1>5, FillThrows DEF pools, mail, ioVars, MayCarry, CarryNext
<1>6. CASE pc' = "claim" /\ UNCHANGED <<tracker, ioVars, outgoing, progress, life>>
  <2>1. TypeOK'
    BY <1>1, <1>2, <1>6, Types, MoveTypes DEF pools, mail, tracker, ioVars, life, Places
  <2> QED
    BY <1>1, <1>6, <2>1, Move
       DEF pools, mail, tracker, ioVars, life, Loop, Resting, Late, Ended, Final
<1> QED
  BY <1>4, <1>5, <1>6 DEF CarryFill

-----------------------------------------------------------------------------
(* A slot moves on: claim, encode, retire, consume.                        *)

(* The slot of a whole group changes its state, nobody fills it.           *)
LEMMA SlotMoves ==
  ASSUME IInv, pc \in Loop, NEW s \in SlotsIn(layout), s[1] = seg, OthersKept(s), Kept(s),
         slot[s].state \in {"Ready", "InUse", "AwaitingFence"},
         slot'[s].state \in {"Vacant", "Ready", "InUse", "AwaitingFence"},
         slot'[s].state \in Filled => slot'[s].complete = {},
         UNCHANGED <<layout, backing, live, drained, active, carry>>,
         pc' \notin Resting \cup Late \cup Final
  PROVE  /\ Cells' /\ Pools'
         /\ \A t : Pending(t) => Pending(t)' /\ t.slot # s
         /\ \A u \in SlotsIn(layout) : u # s => slot'[u] = slot[u]
<1> USE DEF IInv, Safe
<1>1. \A u \in SlotsIn(layout) : u # s => slot'[u] = slot[u]
  BY SlotsOfLayout DEF OthersKept, TypeOK
<1>2. Cells'
  BY <1>1 DEF Cells, Kept
<1>3. seg \in live /\ seg \notin drained
  BY DEF Segment
<1>4. Pools'
  BY <1>1, <1>3 DEF Pools, Resting, Late, Ended
<1>5. \A t : Pending(t) => Pending(t)' /\ t.slot # s
  BY <1>1 DEF Pending
<1> QED
  BY <1>1, <1>2, <1>4, <1>5

(* Records keep their order when the head is taken.                        *)
LEMMA MailShift ==
  ASSUME TypeOK, mailbox' = mailbox \/ (mailbox # <<>> /\ mailbox' = Tail(mailbox))
  PROVE  /\ \E k \in {0, 1} :
              /\ \A i \in DOMAIN mailbox' : /\ i + k \in DOMAIN mailbox
                                            /\ mailbox'[i] = mailbox[i + k] /\ i \in Nat
                                            /\ k = 1 => i + k # 1
              /\ k = 0 => mailbox' = mailbox
              /\ DOMAIN mailbox \subseteq Nat
         /\ mailbox' \in Seq(MailRecord)
<1>1. mailbox \in Seq(MailRecord)
  BY DEF TypeOK
<1>2. DOMAIN mailbox \subseteq Nat
  BY <1>1, LenProperties
<1>3. CASE mailbox' = mailbox
  BY <1>1, <1>2, <1>3
<1>4. CASE mailbox # <<>> /\ mailbox' = Tail(mailbox)
  <2>1. /\ 1 \in DOMAIN mailbox /\ DOMAIN mailbox \subseteq Nat /\ mailbox' \in Seq(MailRecord)
        /\ \A i \in DOMAIN mailbox' : i + 1 \in DOMAIN mailbox /\ i + 1 # 1
                                      /\ mailbox'[i] = mailbox[i + 1]
    BY <1>1, <1>4, TailRing
  <2>2. DOMAIN mailbox' \subseteq Nat
    BY <2>1, LenProperties
  <2> QED
    BY <2>1, <2>2
<1> QED
  BY <1>3, <1>4

(* Fills under way are not disturbed; the mailbox may lose its head.       *)
LEMMA FillsStay ==
  ASSUME IInv, pc \notin Final, UNCHANGED <<jobs, worker, backing>>,
         mailbox' = mailbox \/ (mailbox # <<>> /\ mailbox' = Tail(mailbox)),
         NEW s,
         \A i \in DOMAIN jobs : jobs[i].slot # s,
         \A w \in Busy : worker[w].ticket.slot # s,
         \A i \in FillMail : \/ mailbox[i].ticket.slot # s
                             \/ mailbox # <<>> /\ mailbox' = Tail(mailbox) /\ i = 1,
         \A t : Pending(t) /\ t.slot # s => Pending(t)'
  PROVE  Fills' /\ OneFill'
<1> USE DEF IInv, Safe
<1>1. PICK k \in {0, 1} :
        /\ \A i \in DOMAIN mailbox' : /\ i + k \in DOMAIN mailbox /\ mailbox'[i] = mailbox[i + k]
                                      /\ i \in Nat
                                      /\ k = 1 => i + k # 1
        /\ k = 0 => mailbox' = mailbox
        /\ DOMAIN mailbox \subseteq Nat
  BY MailShift
<1>2. \A i \in FillMail' : /\ i + k \in FillMail /\ mailbox'[i] = mailbox[i + k] /\ i \in Nat
                           /\ mailbox'[i].ticket.slot # s
  <2>1. ASSUME NEW i \in FillMail'
        PROVE  /\ i + k \in FillMail /\ mailbox'[i] = mailbox[i + k] /\ i \in Nat
               /\ mailbox'[i].ticket.slot # s
    <3>1. /\ i \in DOMAIN mailbox' /\ mailbox'[i].kind = "fill" /\ i \in Nat
          /\ i + k \in DOMAIN mailbox /\ mailbox'[i] = mailbox[i + k]
      BY <1>1, <2>1 DEF FillMail
    <3>2. i + k \in FillMail
      BY <3>1 DEF FillMail
    <3>3. CASE k = 0
      <4>1. mailbox' = mailbox /\ i \in FillMail
        BY <1>1, <3>2, <3>3, <3>1
      <4>2. mailbox'[i].ticket.slot # s \/ (mailbox' = Tail(mailbox) /\ mailbox # <<>>)
        BY <4>1
      <4>3. ASSUME mailbox = Tail(mailbox), mailbox # <<>> PROVE FALSE
        BY <4>3, HeadTailProperties, EmptySeq, LenProperties DEF TypeOK
      <4> QED
        BY <3>1, <3>2, <4>1, <4>2, <4>3
    <3>4. CASE k = 1
      BY <1>1, <3>1, <3>2, <3>4
    <3> QED
      BY <3>3, <3>4
  <2> QED
    BY <2>1
<1>3. Fills'
  <2>1. /\ \A i \in DOMAIN jobs : Pending(jobs[i])
        /\ \A w \in Busy : Pending(worker[w].ticket)
        /\ \A i \in FillMail : Pending(mailbox[i].ticket)
    BY DEF Fills
  <2>2. /\ \A i \in DOMAIN jobs : Pending(jobs[i])'
        /\ \A w \in Busy : Pending(worker[w].ticket)'
    BY <2>1 DEF Pending
  <2>3. ASSUME NEW i \in FillMail' PROVE Pending(mailbox[i].ticket)'
    <3>1. \A t : t = mailbox[i + k].ticket => Pending(t)'
      BY <1>2, <2>1
    <3> QED
      BY <1>2, <3>1 DEF Pending
  <2> QED
    BY <1>2, <2>2, <2>3 DEF Fills, Busy, Pending
<1>4. OneFill'
  <2>1. ASSUME NEW i \in FillMail', NEW j \in FillMail', i # j
        PROVE  mailbox'[i].ticket.slot # mailbox'[j].ticket.slot
    <3>1. i + k # j + k
      BY <1>1, <1>2, <2>1
    <3> QED
      BY <1>2, <3>1 DEF OneFill
  <2> QED
    BY <1>2, <2>1 DEF OneFill, Busy
<1> QED
  BY <1>3, <1>4

LEMMA ClaimStep == IInv /\ Claim => IInv'
<1> SUFFICES ASSUME IInv, Claim PROVE IInv'
  OBVIOUS
<1>1. /\ pc = "claim" /\ pc \in Loop
      /\ UNCHANGED <<pools, ioVars, mail, gpu, loop, cancel>>
  BY DEF Claim, Loop
<1>2. TypeOK
  BY DEF IInv
<1>3. CASE \E why : Fail(why) /\ UNCHANGED tracker
  <2>1. {poisoned', progress'} \subseteq BOOLEAN
    BY <1>1, <1>2, <1>3, Types DEF tracker, loop
  <2> QED
    BY <1>1, <1>3, <2>1, FailMoves DEF pools, ioVars, mail, loop, tracker, Final
<1>4. CASE pc' = "check" /\ UNCHANGED <<tracker, life>>
  <2>1. TypeOK'
    BY <1>1, <1>2, <1>4, Types, MoveTypes DEF pools, mail, tracker, ioVars, loop, life, Places
  <2> QED
    BY <1>1, <1>4, <2>1, Move
       DEF pools, mail, tracker, ioVars, loop, life, Loop, Resting, Late, Ended, Final
<1>5. CASE MayClaim /\ Tracker!BeginUse(slot[NextSlot].ticket) /\ pc' = "overlap"
           /\ UNCHANGED life
  <2> DEFINE s == NextSlot
  <2>1. /\ s = SlotAt(layout, passes, next) /\ next <= LastOf(layout, seg)
        /\ slot[s].state = "Ready"
    BY <1>5, Names DEF MayClaim
  <2>2. /\ next \in FirstOf(layout, seg) .. LastOf(layout, seg) /\ dispatch \in Nat
        /\ s \in SlotsIn(layout) /\ s \in AnySlot /\ s[1] = seg
    BY <1>1, <2>1, InSegment
  <2>3. next < dispatch
    <3>1. CASE outgoing # NoTicket
      BY <1>1, <2>1, <2>2, <3>1, InSegment DEF IInv, Safe, Segment
    <3>2. CASE outgoing = NoTicket
      <4>1. \E g \in next .. dispatch - 1 : s = SlotAt(layout, passes, g)
        BY <1>1, <2>1, <2>2, <3>2 DEF IInv, Safe, Segment, Filled
      <4> QED
        BY <2>2, <4>1
    <3> QED
      BY <3>1, <3>2
  <2>4. slot[s].ticket.slot = s
    BY <2>1, <2>2 DEF IInv, Safe, Cells
  <2>5. /\ slot' \in [AnySlot -> Cell] /\ OthersKept(s) /\ Kept(s) /\ poisoned' = poisoned
        /\ slot'[s].state = "InUse" /\ slot'[s].complete = slot[s].complete
    BY <1>2, <1>5, <2>2, <2>4, BeginUseDoes
  <2>6. UNCHANGED <<layout, backing, live, drained, active, carry, jobs, worker, io, mailbox,
                    overflow, gpu, seg, next, dispatch, outgoing, passes, progress, closing,
                    released, cancel>>
    BY <1>1, <1>5 DEF pools, mail, ioVars, loop, life
  <2> HIDE DEF s
  <2>7. slot[s].complete = {}
    BY <2>1, <2>2 DEF IInv, Safe, Cells, Filled
  <2>8. /\ Cells' /\ Pools'
        /\ \A t : Pending(t) => Pending(t)' /\ t.slot # s
        /\ \A u \in SlotsIn(layout) : u # s => slot'[u] = slot[u]
    BY <1>1, <1>5, <2>1, <2>2, <2>5, <2>6, <2>7, SlotMoves DEF Resting, Late, Ended, Final
  <2>9. Fills' /\ OneFill'
    <3>1. /\ \A i \in DOMAIN jobs : jobs[i].slot # s
          /\ \A w \in Busy : worker[w].ticket.slot # s
          /\ \A i \in FillMail : mailbox[i].ticket.slot # s
      BY <1>1, <2>8 DEF IInv, Safe, Fills, Final
    <3> QED
      BY <1>1, <2>6, <2>8, <3>1, FillsStay DEF Final
  <2>10. Reading'
    BY <1>5, <2>1, <2>5, <2>6, <2>8 DEF IInv, Safe, Reading, Kept, Final
  <2>11. Reports'
    <3>1. \A r \in gpu : r.ticket.slot # s /\ r.ticket.slot \in SlotsIn(layout)
      BY <1>1, <2>1 DEF IInv, Safe, Reading, Reports
    <3>2. \A i \in ReaderMail :
            LET u == mailbox[i].ticket.slot IN
            /\ u \in SlotsIn(layout) /\ mailbox[i].ticket.generation <= slot'[u].generation
            /\ mailbox[i].ticket = slot'[u].ticket => slot'[u].state \notin Filled
      BY <1>1, <2>1, <2>5, <2>8 DEF IInv, Safe, Reports, Kept, Filled
    <3> QED
      BY <1>1, <1>5, <2>6, <2>8, <3>1, <3>2 DEF IInv, Safe, Reports, ReaderMail, FenceOf
  <2>12. Segment'
    <3>1. \A u \in SlotsIn(layout) :
            /\ slot'[u].state \in Filled <=> slot[u].state \in Filled
            /\ slot'[u].ticket = slot[u].ticket
      BY <2>1, <2>5, <2>8 DEF Kept, Filled
    <3>2. \A g \in next .. dispatch - 1 : SlotAt(layout, passes, g) \in SlotsIn(layout)
      BY <1>1, <2>2, InSegment
    <3> QED
      BY <1>1, <1>5, <2>1, <2>3, <2>5, <2>6, <3>1, <3>2 DEF IInv, Safe, Segment
  <2>13. Between' /\ Stopped'
    BY <1>1, <1>5, <2>6 DEF IInv, Safe, Between, Stopped, Loop, Resting, Late, Ended
  <2>14. TypeOK'
    <3>1. pc' \in Places
      BY <1>5 DEF Places
    <3> QED
      BY <1>2, <2>5, <2>6, <3>1, Zenon DEF TypeOK, Pool
  <2> QED
    BY <2>8, <2>9, <2>10, <2>11, <2>12, <2>13, <2>14 DEF IInv, Safe
<1> QED
  BY <1>3, <1>4, <1>5 DEF Claim

(* The readers of the group that is encoded.                               *)
LEMMA ReadersOfGroup ==
  ASSUME IInv, pc = "encode"
  PROVE  LET s == SlotAt(layout, passes, next)
             t == slot[s].ticket
         IN  /\ NextSlot = s /\ s \in SlotsIn(layout) /\ s \in AnySlot /\ s[1] = seg
             /\ slot[s].state = "InUse" /\ slot[s].complete = {} /\ t.slot = s
             /\ next \in Nat /\ dispatch \in Nat /\ next < dispatch
             /\ next \in FirstOf(layout, seg) .. LastOf(layout, seg)
             /\ seg \in live /\ seg \notin drained
             /\ \A r \in Readers(t) : /\ r \in ReaderRecord /\ r.ticket = t /\ r.item = t.item
                                      /\ FenceOf(r) \in AnyFence
<1> DEFINE s == SlotAt(layout, passes, next)
           t == slot[s].ticket
<1>1. NextSlot = s
  BY Names
<1>2. /\ next < dispatch /\ slot[s].state = "InUse" /\ seg \in live /\ seg \notin drained
  BY DEF IInv, Safe, Segment, Loop
<1>3. next \in FirstOf(layout, seg) .. LastOf(layout, seg) /\ dispatch \in Nat /\ next \in Nat
  BY <1>2, InSegment DEF Loop
<1>4. s \in SlotsIn(layout) /\ s \in AnySlot /\ s[1] = seg
  BY <1>3, InSegment DEF Loop
<1>5. t.item = <<passes, next>>
  BY <1>2, <1>3 DEF IInv, Safe, Segment, Loop
<1>6. slot[s].complete = {} /\ t.slot = s
  BY <1>2, <1>4 DEF IInv, Safe, Cells, Filled
<1>7. t \in AnyTicket
  BY <1>4 DEF IInv, TypeOK, Cell
<1> HIDE DEF s, t
<1>8. ASSUME NEW r \in Readers(t)
      PROVE  /\ r \in ReaderRecord /\ r.ticket = t /\ r.item = t.item
             /\ FenceOf(r) \in AnyFence
  <2>1. r.ticket = t /\ r.item = <<passes, next>> /\ r.queue \in Nat
    BY LayoutAssumption DEF LayoutAssumption, Readers
  <2>2. r = [ticket |-> r.ticket, queue |-> r.queue, item |-> r.item]
    BY DEF Readers
  <2>3. r.item \in Content
    BY <1>5, <1>7, <2>1 DEF AnyTicket
  <2>4. t.generation \in Nat
    BY <1>7 DEF AnyTicket
  <2> QED
    BY <1>5, <1>7, <2>1, <2>2, <2>3, <2>4 DEF ReaderRecord, FenceOf, AnyFence
<1> QED
  BY <1>1, <1>2, <1>3, <1>4, <1>6, <1>8 DEF s, t

(* An encoding that fails leaves the slot in use.                          *)
LEMMA EncodeThrows ==
  ASSUME IInv, pc = "encode", NEW why, Fail(why),
         NEW some \in SUBSET Readers(slot[SlotAt(layout, passes, next)].ticket),
         gpu' = gpu \cup some, poisoned' \in BOOLEAN,
         UNCHANGED <<slot, backing, live, drained, active, jobs, worker, io, mailbox, overflow,
                     carry, outgoing, seg, next, dispatch, progress, cancel>>
  PROVE  IInv'
<1> USE DEF IInv, Safe
<1>1. pc' = "stop" /\ UNCHANGED <<layout, passes, closing, released>>
  BY DEF Fail
<1>2. TypeOK'
  <2>1. gpu' \subseteq ReaderRecord
    BY ReadersOfGroup DEF TypeOK
  <2> QED
    BY <1>1, <2>1, Zenon DEF TypeOK, Pool, Places
<1>3. Cells' /\ OneFill'
  BY <1>1 DEF Cells, OneFill, Busy, FillMail
<1>4. Fills'
  BY <1>1 DEF Fills, Pending, Busy, FillMail, Final
<1>5. Reading'
  <2>1. ASSUME NEW r \in gpu'
        PROVE  /\ r.ticket.slot \in SlotsIn(layout) /\ r.ticket.slot[1] \in live
               /\ slot[r.ticket.slot].ticket = r.ticket /\ r.item = r.ticket.item
               /\ slot[r.ticket.slot].state \in {"InUse", "AwaitingFence"}
    <3>1. CASE r \in gpu
      BY <3>1 DEF Reading
    <3>2. CASE r \in some
      BY <3>2, ReadersOfGroup
    <3> QED
      BY <3>1, <3>2
  <2> QED
    BY <1>1, <2>1 DEF Reading, Final
<1>6. Reports' /\ Segment' /\ Between' /\ Stopped'
  BY <1>1 DEF Reports, Segment, Between, Stopped, Loop, Resting, Late, Ended
<1>7. Pools'
  BY <1>1 DEF Pools, Resting, Final
<1> QED
  BY <1>2, <1>3, <1>4, <1>5, <1>6, <1>7

LEMMA EncodeStep == IInv /\ Encode => IInv'
<1> SUFFICES ASSUME IInv, Encode PROVE IInv'
  OBVIOUS
<1> DEFINE s == SlotAt(layout, passes, next)
           t == slot[s].ticket
           fences == {FenceOf(r) : r \in Readers(t)}
<1>1. /\ pc = "encode" /\ pc \in Loop
      /\ UNCHANGED <<pools, ioVars, mail, seg, dispatch, outgoing, carry, cancel>>
  BY DEF Encode, Loop
<1>2. TypeOK
  BY DEF IInv
<1>3. /\ NextSlot = s /\ s \in SlotsIn(layout) /\ s \in AnySlot /\ s[1] = seg
      /\ slot[s].state = "InUse" /\ slot[s].complete = {} /\ t.slot = s
      /\ next \in Nat /\ dispatch \in Nat /\ next < dispatch
      /\ next \in FirstOf(layout, seg) .. LastOf(layout, seg)
      /\ seg \in live /\ seg \notin drained
      /\ \A r \in Readers(t) : /\ r \in ReaderRecord /\ r.ticket = t /\ r.item = t.item
                               /\ FenceOf(r) \in AnyFence
  BY <1>1, ReadersOfGroup
<1>4. CASE Tracker!Refuse /\ Fail("violation") /\ gpu' = gpu \cup Readers(t)
           /\ UNCHANGED <<next, progress>>
  BY <1>1, <1>4, EncodeThrows DEF Tracker!Refuse, pools, ioVars, mail
<1>5. CASE Fail("adapter") /\ UNCHANGED <<tracker, next, progress>>
           /\ \E some \in SUBSET Readers(t) : gpu' = gpu \cup some
  <2>1. PICK some \in SUBSET Readers(t) : gpu' = gpu \cup some
    BY <1>5
  <2>2. poisoned' \in BOOLEAN
    BY <1>2, <1>5, Types DEF tracker
  <2> QED
    BY <1>1, <1>5, <2>1, <2>2, EncodeThrows DEF tracker, pools, ioVars, mail
<1>6. CASE /\ Tracker!SealReaders(t, fences)
           /\ \/ gpu' = gpu \cup Readers(t) /\ pc' = "check"
              \/ UNCHANGED gpu /\ pc' = "retire"
           /\ next' = next + 1 /\ progress' = TRUE /\ UNCHANGED life
  <2>1. fences \in SUBSET AnyFence
    BY <1>3
  <2>2. /\ slot' \in [AnySlot -> Cell] /\ OthersKept(s) /\ Kept(s) /\ poisoned' = poisoned
        /\ slot'[s].state = "AwaitingFence" /\ slot'[s].complete = slot[s].complete
        /\ slot'[s].readers = fences
    BY <1>2, <1>3, <1>6, <2>1, SealReadersDoes
  <2>3. UNCHANGED <<layout, backing, live, drained, active, carry, jobs, worker, io, mailbox,
                    overflow, seg, dispatch, outgoing, passes, closing, released, cancel>>
    BY <1>1, <1>6 DEF pools, mail, ioVars, life
  <2>4. /\ gpu' \subseteq gpu \cup Readers(t) /\ pc' \in {"check", "retire"}
        /\ pc' = "retire" => gpu' = gpu
    BY <1>6
  <2>5. \A r \in gpu : r.ticket.slot # s /\ r.ticket.slot \in SlotsIn(layout)
    BY <1>1, <1>3 DEF IInv, Safe, Reading, Reports
  <2>6. t.item = <<passes, next>>
    BY <1>1, <1>3 DEF IInv, Safe, Segment
  <2> HIDE DEF s, fences
  <2>7. /\ Cells' /\ Pools'
        /\ \A q : Pending(q) => Pending(q)' /\ q.slot # s
        /\ \A u \in SlotsIn(layout) : u # s => slot'[u] = slot[u]
    BY <1>1, <1>3, <2>2, <2>3, <2>4, SlotMoves DEF Filled, Resting, Late, Ended, Final
  <2>8. Fills' /\ OneFill'
    <3>1. /\ \A i \in DOMAIN jobs : jobs[i].slot # s
          /\ \A w \in Busy : worker[w].ticket.slot # s
          /\ \A i \in FillMail : mailbox[i].ticket.slot # s
      BY <1>1, <2>7 DEF IInv, Safe, Fills, Final
    <3> QED
      BY <1>1, <2>3, <2>7, <3>1, FillsStay DEF Final
  <2>9. ASSUME NEW r \in gpu'
        PROVE  /\ r.ticket.slot \in SlotsIn(layout) /\ r.ticket.slot[1] \in live
               /\ slot'[r.ticket.slot].ticket = r.ticket /\ r.item = r.ticket.item
               /\ slot'[r.ticket.slot].state = "AwaitingFence"
               /\ FenceOf(r) \in slot'[r.ticket.slot].readers \ slot'[r.ticket.slot].complete
               /\ pc' = "retire" => r.ticket.slot # s
               /\ \A i \in ReaderMail : mailbox[i].ticket = r.ticket => mailbox[i].fence # FenceOf(r)
    <3>1. CASE r \in gpu
      BY <1>1, <2>5, <2>7, <3>1 DEF IInv, Safe, Reading, Reports
    <3>2. CASE r \in Readers(t) /\ pc' # "retire"
      <4>1. FenceOf(r) \in fences
        BY <3>2 DEF fences
      <4>2. \A i \in ReaderMail : mailbox[i].ticket # t
        BY <1>1, <1>3 DEF IInv, Safe, Reports, Filled
      <4> QED
        BY <1>3, <2>2, <3>2, <4>1, <4>2 DEF Kept
    <3> QED
      BY <2>4, <3>1, <3>2
  <2>10. Reading'
    BY <2>3, <2>4, <2>9 DEF Reading, Final
  <2>11. Reports'
    <3>1. \A i \in ReaderMail :
            LET u == mailbox[i].ticket.slot IN
            /\ u \in SlotsIn(layout) /\ mailbox[i].ticket.generation <= slot'[u].generation
            /\ mailbox[i].ticket = slot'[u].ticket => slot'[u].state \notin Filled
      BY <1>1, <2>2, <2>7 DEF IInv, Safe, Reports, Kept, Filled
    <3>2. SlotAt(layout', passes', next' - 1) = s
      BY <1>3, <1>6, <2>3 DEF s
    <3> QED
      BY <2>3, <2>9, <3>1, <3>2 DEF Reports, ReaderMail, FenceOf
  <2>12. Segment'
    <3>1. \A g \in next .. dispatch - 1 :
            LET u == SlotAt(layout, passes, g) IN
            /\ u \in SlotsIn(layout) /\ slot[u].state \in Filled /\ slot[u].ticket.item = <<passes, g>>
      BY <1>1, <1>3, InSegment DEF IInv, Safe, Segment
    <3>2. \A g \in next + 1 .. dispatch - 1 :
            LET u == SlotAt(layout, passes, g) IN
            /\ slot'[u].state \in Filled /\ slot'[u].ticket.item = <<passes, g>>
      <4> TAKE g \in next + 1 .. dispatch - 1
      <4> DEFINE u == SlotAt(layout, passes, g)
      <4>1. g \in next .. dispatch - 1 /\ g # next
        BY <1>3
      <4>2. u \in SlotsIn(layout) /\ slot[u].state \in Filled /\ slot[u].ticket.item = <<passes, g>>
        BY <3>1, <4>1
      <4>3. u # s
        BY <2>6, <4>1, <4>2
      <4> QED
        BY <2>7, <4>2, <4>3
    <3>3. ASSUME NEW u \in SlotsIn(layout), u[1] = seg, slot'[u].state \in Filled
          PROVE  \/ outgoing # NoTicket /\ u = outgoing.slot
                 \/ \E g \in next + 1 .. dispatch - 1 : u = SlotAt(layout, passes, g)
      <4>1. u # s /\ slot[u].state \in Filled
        BY <2>2, <2>7, <3>3 DEF Filled
      <4>2. \/ outgoing # NoTicket /\ u = outgoing.slot
            \/ \E g \in next .. dispatch - 1 : u = SlotAt(layout, passes, g)
        BY <1>1, <3>3, <4>1 DEF IInv, Safe, Segment
      <4>3. \A g \in next .. dispatch - 1 : g # next => g \in next + 1 .. dispatch - 1
        BY <1>3
      <4> QED
        BY <4>1, <4>2, <4>3 DEF s
    <3>4. /\ FirstOf(layout, seg) <= next + 1 /\ FirstOf(layout, seg) < next + 1
          /\ next + 1 <= dispatch /\ dispatch <= LastOf(layout, seg) + 1
          /\ active = seg
          /\ outgoing # NoTicket => layout.carry /\ dispatch = LastOf(layout, seg) + 1
      BY <1>1, <1>3, InSegment DEF IInv, Safe, Segment
    <3>5. /\ UNCHANGED <<layout, live, seg, active, drained, passes, dispatch, outgoing>>
          /\ next' = next + 1 /\ pc' \in {"check", "retire"}
      BY <1>6, <2>3, <2>4
    <3> QED
      BY <1>3, <3>2, <3>3, <3>4, <3>5 DEF Segment
  <2>13. Between' /\ Stopped'
    BY <1>1, <2>3, <2>4 DEF IInv, Safe, Between, Stopped, Loop, Resting, Late, Ended
  <2>14. TypeOK'
    <3>1. /\ pc' \in Places /\ progress' \in BOOLEAN /\ next' \in Nat
          /\ gpu' \subseteq ReaderRecord
      BY <1>2, <1>3, <1>6, <2>4 DEF Places, TypeOK
    <3> QED
      BY <1>2, <2>2, <2>3, <3>1, Zenon DEF TypeOK, Pool
  <2> QED
    BY <2>7, <2>8, <2>10, <2>11, <2>12, <2>13, <2>14 DEF IInv, Safe
<1> QED
  BY <1>3, <1>4, <1>5, <1>6 DEF Encode

(* A completed reader.  The slot is vacant only after the last one.        *)
LEMMA ReaderRetired ==
  ASSUME IInv, TypeOK', pc \in Loop, NEW t \in AnyTicket, NEW f, Tracker!CompleteReader(t, f),
         t.slot \in SlotsIn(layout), t.slot[1] = seg,
         \A r \in gpu : r.ticket = t => FenceOf(r) # f,
         mailbox' = mailbox \/ (mailbox # <<>> /\ mailbox' = Tail(mailbox)),
         UNCHANGED <<layout, backing, live, drained, active, carry, jobs, worker, io, gpu, seg,
                     next, dispatch, outgoing, passes>>,
         pc' = pc \/ pc' = "check"
  PROVE  IInv'
<1> DEFINE s == t.slot
<1>1. TypeOK /\ s \in AnySlot
  BY DEF IInv, AnyTicket
<1>2. /\ t = slot[s].ticket /\ slot[s].state = "AwaitingFence"
      /\ f \in slot[s].readers \ slot[s].complete
      /\ OthersKept(s) /\ Kept(s)
      /\ slot'[s].readers = slot[s].readers
      /\ slot'[s].complete = slot[s].complete \cup {f}
      /\ slot'[s].state = IF slot'[s].complete = slot'[s].readers THEN "Vacant" ELSE "AwaitingFence"
  BY <1>1, CompleteReaderDoes
<1>3. pc \notin Final /\ pc' \in Loop /\ pc' \notin Final \cup Resting \cup Late
  BY DEF Loop, Final, Resting, Late, Ended
<1> HIDE DEF s
<1>4. /\ Cells' /\ Pools'
      /\ \A q : Pending(q) => Pending(q)' /\ q.slot # s
      /\ \A u \in SlotsIn(layout) : u # s => slot'[u] = slot[u]
  <2>1. s \in SlotsIn(layout) /\ s[1] = seg
    BY DEF s
  <2> QED
    BY <1>2, <1>3, <2>1, SlotMoves DEF Filled
<1>5. Fills' /\ OneFill'
  <2>1. /\ \A i \in DOMAIN jobs : jobs[i].slot # s
        /\ \A w \in Busy : worker[w].ticket.slot # s
        /\ \A i \in FillMail : mailbox[i].ticket.slot # s
    BY <1>3, <1>4 DEF IInv, Safe, Fills
  <2> QED
    BY <1>3, <1>4, <2>1, FillsStay
<1>6. ASSUME NEW r \in gpu
      PROVE  /\ r.ticket.slot \in SlotsIn(layout) /\ r.ticket.slot[1] \in live
             /\ slot'[r.ticket.slot].ticket = r.ticket /\ r.item = r.ticket.item
             /\ slot'[r.ticket.slot].state = "AwaitingFence"
             /\ FenceOf(r) \in slot'[r.ticket.slot].readers \ slot'[r.ticket.slot].complete
  <2>1. /\ r.ticket.slot \in SlotsIn(layout) /\ r.ticket.slot[1] \in live
        /\ slot[r.ticket.slot].ticket = r.ticket /\ r.item = r.ticket.item
        /\ slot[r.ticket.slot].state = "AwaitingFence"
        /\ FenceOf(r) \in slot[r.ticket.slot].readers \ slot[r.ticket.slot].complete
    BY DEF IInv, Safe, Reading, Reports
  <2>2. CASE r.ticket.slot # s
    BY <1>4, <2>1, <2>2
  <2>3. CASE r.ticket.slot = s
    <3>1. r.ticket = t /\ FenceOf(r) # f
      BY <1>2, <2>1, <2>3
    <3> QED
      BY <1>2, <2>1, <2>3, <3>1 DEF Kept
  <2> QED
    BY <2>2, <2>3
<1>7. Reading'
  BY <1>3, <1>6 DEF IInv, Safe, Reading
<1>8. Reports'
  <2>1. PICK k \in {0, 1} :
          \A i \in DOMAIN mailbox' : i + k \in DOMAIN mailbox /\ mailbox'[i] = mailbox[i + k]
    BY <1>1, MailShift
  <2>2. \A i \in ReaderMail' : i + k \in ReaderMail /\ mailbox'[i] = mailbox[i + k]
    BY <2>1 DEF ReaderMail
  <2>3. \A i \in ReaderMail' :
          LET u == mailbox'[i].ticket.slot IN
          /\ u \in SlotsIn(layout) /\ mailbox'[i].ticket.generation <= slot'[u].generation
          /\ mailbox'[i].ticket = slot'[u].ticket => slot'[u].state \notin Filled
    BY <1>2, <1>4, <2>2 DEF IInv, Safe, Reports, Kept, Filled
  <2>4. \A r \in gpu : /\ pc = "retire" => r.ticket.slot # SlotAt(layout, passes, next - 1)
                       /\ \A i \in ReaderMail' : mailbox'[i].ticket = r.ticket =>
                                                   mailbox'[i].fence # FenceOf(r)
    BY <2>2 DEF IInv, Safe, Reports
  <2> QED
    BY <1>6, <2>3, <2>4 DEF Reports, FenceOf
<1>9. Segment'
  <2>1. \A u \in SlotsIn(layout) : u[1] = seg =>
          /\ slot'[u].state \in Filled <=> slot[u].state \in Filled
          /\ slot'[u].ticket = slot[u].ticket
          /\ slot'[u].state = "InUse" <=> slot[u].state = "InUse"
    BY <1>2, <1>4 DEF Kept, Filled
  <2>2. \A g \in FirstOf(layout, seg) .. LastOf(layout, seg) :
          SlotAt(layout, passes, g) \in SlotsIn(layout) /\ SlotAt(layout, passes, g)[1] = seg
    BY InSegment
  <2>3. \A g \in next .. dispatch - 1 : g \in FirstOf(layout, seg) .. LastOf(layout, seg)
    BY InSegment
  <2>4. next < dispatch => next \in FirstOf(layout, seg) .. LastOf(layout, seg)
    BY InSegment
  <2> QED
    BY <1>3, <2>1, <2>2, <2>3, <2>4 DEF IInv, Safe, Segment
<1>10. Between' /\ Stopped'
  BY <1>3 DEF IInv, Safe, Between, Stopped, Loop
<1> QED
  BY <1>4, <1>5, <1>7, <1>8, <1>9, <1>10 DEF IInv, Safe

LEMMA RetireStep == IInv /\ Retire => IInv'
<1> SUFFICES ASSUME IInv, Retire PROVE IInv'
  OBVIOUS
<1> DEFINE s == SlotAt(layout, passes, next - 1)
<1>1. /\ pc = "retire" /\ pc \in Loop
      /\ UNCHANGED <<pools, ioVars, mail, gpu, loop, life, cancel>>
  BY DEF Retire, Loop
<1>2. TypeOK
  BY DEF IInv
<1>3. PICK f \in slot[s].readers \ slot[s].complete :
        /\ Tracker!CompleteReader(slot[s].ticket, f)
        /\ pc' = IF slot[s].readers \ slot[s].complete = {f} THEN "check" ELSE "retire"
  BY Names, Zenon DEF Retire
<1>4. s \in SlotsIn(layout) /\ s \in AnySlot /\ s[1] = seg
  <2>1. next - 1 \in FirstOf(layout, seg) .. LastOf(layout, seg)
    BY <1>1, InSegment DEF IInv, Safe, Segment
  <2> QED
    BY <1>1, <2>1, InSegment
<1>5. slot[s].ticket \in AnyTicket
  BY <1>2, <1>4 DEF TypeOK, Cell
<1>6. slot[s].ticket.slot = s
  BY <1>4 DEF IInv, Safe, Cells
<1>7. /\ slot' \in [AnySlot -> Cell] /\ poisoned' = poisoned
  BY <1>2, <1>3, <1>5, CompleteReaderDoes
<1>8. UNCHANGED <<layout, backing, live, drained, active, carry, jobs, worker, io, mailbox,
                  overflow, gpu, seg, next, dispatch, outgoing, passes, progress, closing,
                  released, cancel>>
  BY <1>1 DEF pools, mail, ioVars, loop, life
<1>9. TypeOK'
  <2>1. pc' \in Places
    BY <1>3 DEF Places
  <2> QED
    BY <1>2, <1>7, <1>8, <2>1, Zenon DEF TypeOK, Pool
<1>10. \A r \in gpu : r.ticket # slot[s].ticket
  BY <1>1, <1>6 DEF IInv, Safe, Reports
<1>11. pc' = pc \/ pc' = "check"
  BY <1>1, <1>3
<1> HIDE DEF s
<1> QED
  BY <1>1, <1>3, <1>4, <1>5, <1>6, <1>8, <1>9, <1>10, <1>11, ReaderRetired

(* A record that cannot be used is taken and the executor fails.           *)
LEMMA ConsumeFails ==
  ASSUME IInv, pc \in Loop, mailbox # <<>>, mailbox' = Tail(mailbox), NEW why, Fail(why),
         UNCHANGED <<slot, backing, live, drained, active, jobs, worker, io, gpu, overflow, carry,
                     outgoing, seg, next, dispatch, progress, cancel>>, poisoned' \in BOOLEAN
  PROVE  IInv'
<1> USE DEF IInv, Safe
<1>1. pc' = "stop" /\ UNCHANGED <<layout, passes, closing, released>>
  BY DEF Fail
<1>2. pc \notin Final /\ pc' \notin Loop \cup Final \cup Resting \cup Late
  BY <1>1 DEF Loop, Final, Resting, Late, Ended
<1>3. TypeOK'
  <2>1. mailbox' \in Seq(MailRecord)
    BY MailShift
  <2> QED
    BY <1>1, <2>1, Zenon DEF TypeOK, Pool, Places
<1>4. Cells'
  BY <1>1 DEF Cells
<1>5. Fills' /\ OneFill'
  <2>1. PICK s : s \notin SlotsIn(layout)
    BY NoSetContainsEverything
  <2>2. \A t : Pending(t) => Pending(t)' /\ t.slot # s
    BY <1>1, <2>1 DEF Pending
  <2>3. /\ \A i \in DOMAIN jobs : jobs[i].slot # s
        /\ \A w \in Busy : worker[w].ticket.slot # s
        /\ \A i \in FillMail : mailbox[i].ticket.slot # s
    BY <1>2, <2>2 DEF Fills
  <2> QED
    BY <1>2, <2>2, <2>3, FillsStay
<1>6. Reading'
  BY <1>1, <1>2 DEF Reading
<1>7. Reports' /\ Segment' /\ Between' /\ Stopped'
  BY <1>1, <1>2 DEF Reports, Segment, Between, Stopped
<1>8. Pools'
  BY <1>1, <1>2 DEF Pools, Late, Ended
<1> QED
  BY <1>3, <1>4, <1>5, <1>6, <1>7, <1>8

(* The fill of the head record is accepted: its slot is ready.             *)
LEMMA FillAccepted ==
  ASSUME IInv, TypeOK', pc \in Loop, mailbox # <<>>, mailbox' = Tail(mailbox),
         mailbox[1].kind = "fill", mailbox[1].ok, 1 \in FillMail, mailbox[1].ticket \in AnyTicket,
         Tracker!AcceptReady(mailbox[1].ticket, mailbox[1].bytes),
         UNCHANGED <<layout, backing, live, drained, active, carry, jobs, worker, io, gpu, seg,
                     next, dispatch, outgoing, passes, pc>>
  PROVE  IInv'
<1> DEFINE t == mailbox[1].ticket
           s == t.slot
<1>1. TypeOK /\ s \in AnySlot
  BY DEF IInv, AnyTicket
<1>2. /\ t = slot[s].ticket /\ slot[s].state = "Loading"
      /\ mailbox[1].bytes = slot[s].expected
      /\ OthersKept(s) /\ Kept(s)
      /\ slot'[s].state = "Ready" /\ slot'[s].complete = slot[s].complete
  BY <1>1, AcceptReadyDoes
<1>3. pc \notin Final /\ pc' \in Loop /\ pc' \notin Final \cup Resting \cup Late
  BY DEF Loop, Final, Resting, Late, Ended
<1>4. Pending(t)
  BY <1>3 DEF IInv, Safe, Fills
<1>5. s \in SlotsIn(layout) /\ s[1] \in live
  BY <1>4 DEF Pending
<1>6. mailbox[1].bytes = 1 /\ backing[s] = t.item
  BY <1>2, <1>3, <1>5 DEF IInv, Safe, Cells, Fills
<1> HIDE DEF s, t
<1>7. \A u \in SlotsIn(layout) : u # s => slot'[u] = slot[u]
  BY <1>1, <1>2, <1>5, SlotsOfLayout DEF OthersKept, TypeOK
<1>8. Cells'
  BY <1>2, <1>5, <1>6, <1>7 DEF IInv, Safe, Cells, Kept, Filled
<1>9. Fills' /\ OneFill'
  <2>1. \A q : Pending(q) /\ q.slot # s => Pending(q)'
    BY <1>7 DEF Pending
  <2>2. /\ \A i \in DOMAIN jobs : jobs[i].slot # s
        /\ \A w \in Busy : worker[w].ticket.slot # s
        /\ \A i \in FillMail : mailbox[i].ticket.slot # s \/ i = 1
    BY DEF IInv, Safe, OneFill, s, t
  <2> QED
    BY <1>3, <2>1, <2>2, FillsStay
<1>10. \A r \in gpu : r.ticket.slot # s /\ r.ticket.slot \in SlotsIn(layout)
  BY <1>2 DEF IInv, Safe, Reading
<1>11. Reading'
  BY <1>7, <1>10 DEF IInv, Safe, Reading
<1>12. Reports'
  <2>1. PICK k \in {0, 1} :
          \A i \in DOMAIN mailbox' : i + k \in DOMAIN mailbox /\ mailbox'[i] = mailbox[i + k]
    BY <1>1, MailShift
  <2>2. \A i \in ReaderMail' : i + k \in ReaderMail /\ mailbox'[i] = mailbox[i + k]
    BY <2>1 DEF ReaderMail
  <2>3. \A i \in ReaderMail' :
          LET u == mailbox'[i].ticket.slot IN
          /\ u \in SlotsIn(layout) /\ mailbox'[i].ticket.generation <= slot'[u].generation
          /\ mailbox'[i].ticket = slot'[u].ticket => slot'[u].state \notin Filled
    <3> TAKE i \in ReaderMail'
    <3> DEFINE u == mailbox'[i].ticket.slot
    <3>1. /\ u \in SlotsIn(layout) /\ mailbox'[i].ticket.generation <= slot[u].generation
          /\ mailbox'[i].ticket = slot[u].ticket => slot[u].state \notin Filled
      <4>1. PICK j \in ReaderMail : mailbox'[i] = mailbox[j]
        BY <2>2
      <4>2. LET v == mailbox[j].ticket.slot IN
            /\ v \in SlotsIn(layout) /\ mailbox[j].ticket.generation <= slot[v].generation
            /\ mailbox[j].ticket = slot[v].ticket => slot[v].state \notin Filled
        BY DEF IInv, Safe, Reports
      <4> QED
        BY <4>1, <4>2
    <3>2. /\ slot'[u].generation = slot[u].generation /\ slot'[u].ticket = slot[u].ticket
          /\ slot'[u].state \in Filled <=> slot[u].state \in Filled
      BY <1>2, <1>7, <3>1 DEF Kept, Filled
    <3> QED
      BY <3>1, <3>2
  <2>4. \A r \in gpu : \A i \in ReaderMail' : mailbox'[i].ticket = r.ticket =>
                                                mailbox'[i].fence # FenceOf(r)
    BY <2>2 DEF IInv, Safe, Reports
  <2> QED
    BY <1>7, <1>10, <2>3, <2>4 DEF IInv, Safe, Reports, FenceOf
<1>13. Segment'
  <2>1. \A u \in SlotsIn(layout) :
          /\ slot'[u].state \in Filled <=> slot[u].state \in Filled
          /\ slot'[u].ticket = slot[u].ticket
          /\ slot[u].state = "InUse" => slot'[u].state = "InUse"
    BY <1>2, <1>7 DEF Kept, Filled
  <2>2. \A g \in next .. dispatch - 1 : SlotAt(layout, passes, g) \in SlotsIn(layout)
    BY InSegment
  <2>3. next < dispatch => SlotAt(layout, passes, next) \in SlotsIn(layout)
    BY InSegment
  <2> QED
    BY <1>3, <2>1, <2>2, <2>3 DEF IInv, Safe, Segment
<1>14. Pools'
  <2>1. s[1] \notin drained
    BY <1>2, <1>5 DEF IInv, Safe, Pools
  <2> QED
    BY <1>3, <1>7, <2>1 DEF IInv, Safe, Pools, Late, Ended
<1>15. Between' /\ Stopped'
  BY <1>3 DEF IInv, Safe, Between, Stopped
<1> QED
  BY <1>8, <1>9, <1>11, <1>12, <1>13, <1>14, <1>15 DEF IInv, Safe

LEMMA ConsumeStep == IInv /\ Consume => IInv'
<1> SUFFICES ASSUME IInv, Consume PROVE IInv'
  OBVIOUS
<1>1. /\ pc \in {"consume", "settle", "finalize"} /\ mailbox # <<>> /\ mailbox' = Tail(mailbox)
      /\ UNCHANGED <<pools, ioVars, overflow, gpu, seg, next, dispatch, outgoing, carry, cancel>>
  BY DEF Consume
<1>2. pc \in {"consume", "settle"} /\ pc \in Loop
  BY <1>1 DEF IInv, Safe, Between, Resting, Loop
<1>3. TypeOK
  BY DEF IInv
<1>4. /\ Head(mailbox) = mailbox[1] /\ 1 \in DOMAIN mailbox /\ mailbox[1] \in MailRecord
      /\ mailbox' \in Seq(MailRecord)
  <2>1. mailbox \in Seq(MailRecord)
    BY <1>3, Types
  <2> QED
    BY <1>1, <2>1, TailRing
<1> DEFINE r == mailbox[1]
<1>5. r.ticket \in AnyTicket /\ r.kind \in {"fill", "reader"}
  BY <1>4 DEF MailRecord
<1>6. CASE \E why : Fail(why) /\ UNCHANGED progress /\ (UNCHANGED tracker \/ Tracker!Refuse)
  <2>1. slot' = slot /\ poisoned' \in BOOLEAN
    BY <1>3, <1>6, Types DEF tracker, Tracker!Refuse
  <2> QED
    BY <1>1, <1>2, <1>6, <2>1, ConsumeFails DEF pools, ioVars
<1>7. CASE /\ r.ok /\ r.ticket.slot[1] = active /\ UNCHANGED <<pc, life>> /\ progress' = TRUE
           /\ \/ r.kind = "fill" /\ Tracker!AcceptReady(r.ticket, r.bytes)
              \/ r.kind = "reader" /\ Tracker!CompleteReader(r.ticket, r.fence)
  <2>1. UNCHANGED <<layout, backing, live, drained, active, carry, jobs, worker, io, overflow, gpu,
                    seg, next, dispatch, outgoing, passes, closing, released, cancel, pc>>
    BY <1>1, <1>7 DEF pools, ioVars, life
  <2>2. slot' \in [AnySlot -> Cell] /\ poisoned' = poisoned
    BY <1>3, <1>5, <1>7, AcceptReadyDoes, CompleteReaderDoes
  <2>3. TypeOK'
    <3>1. progress' \in BOOLEAN
      BY <1>7
    <3> QED
      BY <1>3, <1>4, <2>1, <2>2, <3>1, Zenon DEF TypeOK, Pool
  <2>4. CASE r.kind = "fill" /\ Tracker!AcceptReady(r.ticket, r.bytes)
    <3>1. 1 \in FillMail
      BY <1>4, <2>4 DEF FillMail
    <3> QED
      BY <1>1, <1>2, <1>5, <1>7, <2>1, <2>3, <2>4, <3>1, FillAccepted
  <2>5. CASE r.kind = "reader" /\ Tracker!CompleteReader(r.ticket, r.fence)
    <3>1. 1 \in ReaderMail
      BY <1>4, <2>5 DEF ReaderMail
    <3>2. /\ r.ticket.slot \in SlotsIn(layout) /\ active = seg
          /\ \A q \in gpu : q.ticket = r.ticket => FenceOf(q) # r.fence
      BY <1>2, <3>1 DEF IInv, Safe, Reports, Segment
    <3> QED
      BY <1>1, <1>2, <1>5, <1>7, <2>1, <2>3, <2>5, <3>2, ReaderRetired
  <2> QED
    BY <1>7, <2>4, <2>5
<1> QED
  BY <1>4, <1>6, <1>7 DEF Consume

-----------------------------------------------------------------------------
(* Between segments: settle, destroy, create.                              *)

(* A drained segment leaves no fill under way.                             *)
LEMMA SettleStep == IInv /\ Settle => IInv'
<1> SUFFICES ASSUME IInv, Settle PROVE IInv'
  OBVIOUS
<1>1. /\ pc = "settle" /\ pc \in Loop /\ pc \notin Final /\ mailbox = <<>>
      /\ UNCHANGED <<tracker, live, active, backing, outside, next, dispatch, outgoing, progress>>
  BY DEF Settle, Loop, Final
<1>2. TypeOK
  BY DEF IInv
<1>3. CASE Fail("leftover") /\ UNCHANGED <<carry, drained, seg>>
  <2>1. {poisoned', progress'} \subseteq BOOLEAN
    BY <1>1, <1>2, Types DEF tracker
  <2> QED
    BY <1>1, <1>3, <2>1, FailMoves DEF tracker, outside, ioVars, mail
<1>4. CASE /\ Settled /\ carry' = outgoing /\ drained' = drained \cup {active}
           /\ seg' \in Pool /\ pc' \in {"segment", "pass_end"} /\ UNCHANGED life
  <2>1. /\ gpu = {} /\ active = seg /\ seg \in live /\ seg \notin drained
        /\ outgoing # NoTicket => layout.carry
        /\ live \subseteq drained \cup {active}
    BY <1>1 DEF IInv, Safe, Reading, Segment, Pools
  <2>2. \A s \in SlotsIn(layout) : s[1] = active =>
          \/ slot[s].state = "Vacant"
          \/ slot[s].state = "Ready" /\ outgoing # NoTicket /\ s = outgoing.slot
    BY <1>4, Names DEF Settled, Slots, Tracker!Quiescent, Tracker!QuiescentExceptReady,
                       Tracker!IsReady
  <2>3. \A s \in SlotsIn(layout) : s[1] \in live => slot[s].state # "Loading"
    BY <2>1, <2>2 DEF IInv, Safe, Pools
  <2>4. \A t : ~Pending(t)
    BY <2>3 DEF Pending
  <2>5. DOMAIN jobs = {} /\ Busy = {} /\ FillMail = {}
    BY <1>1, <2>4 DEF IInv, Safe, Fills
  <2>6. jobs = <<>>
    <3>1. jobs \in Seq(AnyTicket)
      BY <1>2, Types
    <3> QED
      BY <2>5, <3>1, EmptyRing
  <2>7. UNCHANGED <<layout, slot, poisoned, live, active, backing, jobs, worker, io, mailbox,
                    overflow, gpu, next, dispatch, outgoing, progress, passes, closing, released,
                    cancel>>
    BY <1>1, <1>4 DEF tracker, outside, ioVars, mail, life
  <2>8. pc' \in Resting \ {"begin"} /\ pc' \notin Loop \cup Final \cup Late \cup {"destroy", "settle"}
    BY <1>4 DEF Resting, Loop, Final, Late, Ended
  <2>9. TypeOK'
    <3>1. drained' \subseteq Pool /\ pc' \in Places
      BY <1>2, <1>4, <2>1 DEF TypeOK, Places
    <3>2. {outgoing', carry'} \subseteq AnyTicket \cup {NoTicket} /\ seg' \in Pool'
      BY <1>2, <1>4, <2>7 DEF TypeOK, Pool
    <3> QED
      BY <1>2, <2>7, <3>1, <3>2, Zenon DEF TypeOK, Pool
  <2>10. Cells' /\ OneFill'
    BY <2>7 DEF IInv, Safe, Cells, OneFill, Busy, FillMail
  <2>11. Fills' /\ Between'
    BY <1>1, <2>1, <2>5, <2>6, <2>7 DEF Fills, Between, Busy, FillMail
  <2>12. Reading' /\ Reports' /\ Segment'
    BY <2>1, <2>7, <2>8 DEF Reading, Reports, Segment
  <2>13. Pools'
    <3>1. layout.carry => \A s \in SlotsIn(layout) : s[1] = seg
      BY <1>2, Types, PoolNumbers, SlotsOfLayout
    <3>2. \A s \in SlotsIn(layout) : s[1] \in live \cap drained' =>
            \/ slot[s].state = "Vacant"
            \/ slot[s].state = "Ready" /\ layout.carry /\ carry' # NoTicket /\ s = carry'.slot
      BY <1>4, <2>1, <2>2, <3>1 DEF IInv, Safe, Pools
    <3> QED
      BY <1>4, <2>1, <2>7, <2>8, <3>2 DEF IInv, Safe, Pools, Late, Ended
  <2>14. Stopped'
    BY <2>7, <2>8 DEF IInv, Safe, Stopped
  <2> QED
    BY <2>9, <2>10, <2>11, <2>12, <2>13, <2>14 DEF IInv, Safe
<1>5. seg \in Pool
  BY <1>2 DEF TypeOK
<1> QED
  BY <1>3, <1>4, <1>5 DEF Settle

(* Destroying pools frees all memory.                                      *)
LEMMA PoolsDestroyed ==
  ASSUME IInv, DestroyPools
  PROVE  /\ live' = {} /\ active' = 0 /\ carry' = NoTicket
         /\ live' \subseteq Pool /\ drained' \subseteq Pool
         /\ backing' \in [AnySlot -> Content]
<1>1. TypeOK
  BY DEF IInv
<1>2. layout.retain \in BOOLEAN
  BY <1>1, Types, PoolNumbers
<1>3. live' = {}
  BY <1>2 DEF DestroyPools, Destroyed, IInv, Safe, Pools
<1>4. drained' \subseteq Pool
  BY <1>1 DEF DestroyPools, Destroyed, TypeOK
<1>5. backing' \in [AnySlot -> Content]
  BY <1>1 DEF DestroyPools, Emptied, TypeOK, Content
<1> QED
  BY <1>3, <1>4, <1>5 DEF DestroyPools

LEMMA DestroyStep == IInv /\ Destroy => IInv'
<1> SUFFICES ASSUME IInv, Destroy PROVE IInv'
  OBVIOUS
<1>1. /\ pc = "destroy" /\ pc' \in Final
      /\ UNCHANGED <<slot, poisoned, jobs, worker, io, mailbox, overflow, gpu, cancel, seg, next,
                     dispatch, outgoing, progress, layout, passes, failure, closing, released>>
  BY DEF Destroy, Final, tracker, outside, ioVars, mail, life
<1>2. TypeOK /\ gpu = {}
  BY <1>1 DEF IInv, Safe, Reading
<1>3. /\ live' = {} /\ live' \subseteq Pool /\ drained' \subseteq Pool /\ active' \in Pool \cup {0}
      /\ carry' \in AnyTicket \cup {NoTicket} /\ backing' \in [AnySlot -> Content]
  <2>1. CASE live # {} /\ DestroyPools
    BY <2>1, PoolsDestroyed
  <2>2. CASE live = {} /\ UNCHANGED <<pools, carry>>
    BY <1>2, <2>2 DEF TypeOK, pools
  <2> QED
    BY <2>1, <2>2 DEF Destroy
<1>4. TypeOK'
  <2>1. pc' \in Places
    BY <1>1 DEF Final, Places, Ended
  <2>2. {outgoing', carry'} \subseteq AnyTicket \cup {NoTicket}
    BY <1>1, <1>2, <1>3 DEF TypeOK
  <2> QED
    BY <1>1, <1>2, <1>3, <2>1, <2>2, Zenon DEF TypeOK, Pool
<1>5. pc' \notin Loop \cup Resting \cup {"begin", "device", "quarantined"}
  BY <1>1 DEF Final, Loop, Resting
<1>6. Cells'
  BY <1>1, <1>3 DEF IInv, Safe, Cells
<1>7. Fills' /\ OneFill' /\ Reading' /\ Reports' /\ Segment' /\ Between'
  BY <1>1, <1>2, <1>5 DEF IInv, Safe, Fills, OneFill, Busy, FillMail, Reading, Reports, Segment, Between
<1>8. Pools'
  BY <1>3, <1>5 DEF Pools
<1>9. Stopped'
  BY <1>1, <1>5 DEF IInv, Safe, Stopped, Late, AllExited
<1> QED
  BY <1>4, <1>6, <1>7, <1>8, <1>9 DEF IInv, Safe

LEMMA ReleaseStep == IInv /\ ReleaseBacking => IInv'
<1> SUFFICES ASSUME IInv, ReleaseBacking PROVE IInv'
  OBVIOUS
<1>1. /\ pc = "idle" /\ pc' = "idle" /\ DestroyPools /\ released' = TRUE
      /\ UNCHANGED <<slot, poisoned, jobs, worker, io, mailbox, overflow, gpu, cancel, seg, next,
                     dispatch, outgoing, progress, layout, passes, failure, closing>>
  BY DEF ReleaseBacking, tracker, outside, ioVars, mail
<1>2. TypeOK /\ gpu = {} /\ jobs = <<>> /\ mailbox = <<>> /\ Busy = {}
  BY <1>1 DEF IInv, Safe, Between, Resting
<1>3. /\ live' = {} /\ live' \subseteq Pool /\ drained' \subseteq Pool /\ active' \in Pool \cup {0}
      /\ carry' \in AnyTicket \cup {NoTicket} /\ backing' \in [AnySlot -> Content]
  BY <1>1, PoolsDestroyed
<1>4. TypeOK'
  <2>1. pc' \in Places /\ released' \in BOOLEAN
    BY <1>1 DEF Places
  <2>2. {outgoing', carry'} \subseteq AnyTicket \cup {NoTicket}
    BY <1>1, <1>2, <1>3 DEF TypeOK
  <2>3. {poisoned', overflow', progress', released', cancel'} \subseteq BOOLEAN
    BY <1>1, <1>2, <2>1, Types
  <2> QED
    BY <1>1, <1>2, <1>3, <2>1, <2>2, <2>3, Zenon DEF TypeOK, Pool
<1>5. pc' \notin Loop \cup Late \cup Final \cup {"begin", "settle", "device", "destroy", "quarantined"}
  BY <1>1 DEF Final, Loop, Late, Ended
<1>6. Cells'
  BY <1>1, <1>3 DEF IInv, Safe, Cells
<1>7. Fills' /\ OneFill' /\ Reading' /\ Reports' /\ Segment' /\ Between'
  BY <1>1, <1>2, <1>5 DEF Fills, OneFill, Busy, FillMail, Reading, Reports, Segment, Between
<1>8. Pools'
  BY <1>3, <1>5 DEF Pools
<1>9. Stopped'
  BY <1>1, <1>5 DEF IInv, Safe, Stopped
<1> QED
  BY <1>4, <1>6, <1>7, <1>8, <1>9 DEF IInv, Safe

(* A new pool: its slots are vacant, memory elsewhere is kept unless freed. *)
LEMMA PoolCreated ==
  ASSUME IInv, NEW p \in PoolsOf(layout), NEW gone \in SUBSET live, p \notin live,
         CreatePool(p, gone), layout' = layout
  PROVE  /\ slot' \in [AnySlot -> Cell] /\ backing' \in [AnySlot -> Content] /\ poisoned' = poisoned
         /\ live' = (live \ gone) \cup {p} /\ live' \subseteq Pool /\ active' = p
         /\ Cells'
         /\ \A s \in SlotsIn(layout) : IF s[1] = p THEN slot'[s].state = "Vacant"
                                                   ELSE slot'[s] = slot[s]
<1>1. TypeOK
  BY DEF IInv
<1>2. /\ slot' = [s \in AnySlot |-> IF s[1] = p THEN Tracker!EmptySlot(s) ELSE slot[s]]
      /\ backing' = [s \in AnySlot |-> IF s[1] \in gone THEN Empty ELSE backing[s]]
      /\ poisoned' = poisoned /\ live' = (live \ gone) \cup {p} /\ active' = p
  BY DEF CreatePool, Emptied
<1>3. \A s \in AnySlot : LET c == Tracker!EmptySlot(s) IN
        c \in Cell /\ c.state = "Vacant" /\ c.ticket.slot = s /\ c.ticket.generation = c.generation
  BY DEF Tracker!EmptySlot, Tracker!ZeroTicket, Cell, Tracker!ContentState, AnyTicket, Content
<1>4. slot' \in [AnySlot -> Cell]
  BY <1>1, <1>2, <1>3 DEF TypeOK
<1>5. backing' \in [AnySlot -> Content]
  BY <1>1, <1>2 DEF TypeOK, Content
<1>6. SlotsIn(layout) \subseteq AnySlot
  BY <1>1, Types, SlotsOfLayout
<1>7. \A s \in SlotsIn(layout) :
        IF s[1] = p
        THEN /\ slot'[s].state = "Vacant" /\ slot'[s].ticket.slot = s
             /\ slot'[s].ticket.generation = slot'[s].generation
        ELSE slot'[s] = slot[s] /\ (s[1] \notin gone => backing'[s] = backing[s])
  BY <1>2, <1>3, <1>6
<1>8. Cells'
  <2>1. ASSUME NEW s \in SlotsIn(layout)
        PROVE  /\ slot'[s].ticket.slot = s /\ slot'[s].ticket.generation = slot'[s].generation
               /\ slot'[s].state = "Loading" => slot'[s].expected = 1
               /\ slot'[s].state \in Filled => slot'[s].complete = {}
               /\ slot'[s].state \in {"Ready", "InUse", "AwaitingFence"} /\ s[1] \in live' =>
                    backing'[s] = slot'[s].ticket.item
    <3>1. CASE s[1] = p
      BY <1>7, <3>1 DEF Filled
    <3>2. CASE s[1] # p
      <4>1. slot'[s] = slot[s] /\ (s[1] \notin gone => backing'[s] = backing[s])
        BY <1>7, <3>2
      <4>2. s[1] \in live' => s[1] \in live /\ s[1] \notin gone
        BY <1>2, <3>2
      <4> QED
        BY <4>1, <4>2 DEF IInv, Safe, Cells
    <3> QED
      BY <3>1, <3>2
  <2> QED
    BY <2>1 DEF Cells
<1>9. live' \subseteq Pool
  BY <1>1, <1>2, Names DEF TypeOK
<1> QED
  BY <1>2, <1>4, <1>5, <1>7, <1>8, <1>9

LEMMA BeginSegmentStep == IInv /\ BeginSegment => IInv'
<1> SUFFICES ASSUME IInv, BeginSegment PROVE IInv'
  OBVIOUS
<1> DEFINE carried == seg \in live /\ carry # NoTicket
<1>1. /\ pc = "segment" /\ UNCHANGED outside
      /\ gpu = {} /\ jobs = <<>> /\ mailbox = <<>> /\ Busy = {}
      /\ live \subseteq drained /\ (~layout.retain => live \subseteq {active})
  BY DEF BeginSegment, IInv, Safe, Between, Pools, Resting
<1>2. TypeOK
  BY DEF IInv
<1>3. /\ Activate /\ drained' = SegmentDrained /\ outgoing' = NoTicket /\ carry' = NoTicket
      /\ next' = First(seg) /\ dispatch' = FirstDispatch(carried)
      /\ progress' = TRUE /\ seg' = seg
      /\ \/ (carried => CarryAccepted) /\ pc' = "check" /\ UNCHANGED life
         \/ \E why : Fail(why)
  BY <1>1 DEF BeginSegment
<1>4. /\ UNCHANGED <<layout, passes, closing, released, jobs, worker, io, mailbox, overflow, gpu,
                     cancel>>
      /\ pc' \in {"check", "stop"}
      /\ pc' = "check" => (carried => CarryAccepted)
  BY <1>1, <1>3 DEF outside, ioVars, mail, life, Fail
<1>5. /\ layout \in Layouts /\ seg \in PoolsOf(layout) /\ seg \in Pool
      /\ FirstOf(layout, seg) \in Nat /\ LastOf(layout, seg) \in Nat
      /\ FirstOf(layout, seg) <= LastOf(layout, seg)
      /\ layout.retain \in BOOLEAN /\ layout.carry \in BOOLEAN
  BY <1>2, Types, PoolGroups, PoolNumbers, Names
<1>6. next' = FirstOf(layout, seg)
      /\ dispatch' = IF carried THEN FirstOf(layout, seg) + 1 ELSE FirstOf(layout, seg)
  BY <1>3, Names DEF FirstDispatch
<1>7. /\ slot' \in [AnySlot -> Cell] /\ backing' \in [AnySlot -> Content] /\ poisoned' = poisoned
      /\ seg \in live' /\ live' \subseteq Pool /\ active' = seg /\ live' \subseteq live \cup {seg}
      /\ ~layout.retain => live' \subseteq {seg}
      /\ Cells'
      /\ \A s \in SlotsIn(layout) :
           IF s[1] = seg /\ seg \notin live THEN slot'[s].state = "Vacant" ELSE slot'[s] = slot[s]
  <2>1. CASE seg \in live
    <3>1. active' = seg /\ UNCHANGED <<slot, poisoned, live, backing>>
      BY <1>3, <2>1 DEF Activate, tracker
    <3>2. Cells'
      BY <1>4, <3>1 DEF IInv, Safe, Cells
    <3> QED
      BY <1>1, <1>2, <2>1, <3>1, <3>2, Names DEF TypeOK
  <2>2. CASE seg \notin live
    <3> DEFINE gone == IF layout.retain THEN {} ELSE live \cap {active}
    <3>1. CreatePool(seg, gone) /\ gone \in SUBSET live
      BY <1>3, <2>2 DEF Activate
    <3>2. ~layout.retain => live \ gone = {}
      BY <1>1
    <3> HIDE DEF gone
    <3>3. /\ slot' \in [AnySlot -> Cell] /\ backing' \in [AnySlot -> Content] /\ poisoned' = poisoned
          /\ live' = (live \ gone) \cup {seg} /\ live' \subseteq Pool /\ active' = seg
          /\ Cells'
          /\ \A s \in SlotsIn(layout) : IF s[1] = seg THEN slot'[s].state = "Vacant"
                                                      ELSE slot'[s] = slot[s]
      BY <1>4, <1>5, <2>2, <3>1, PoolCreated
    <3> QED
      BY <2>2, <3>2, <3>3
  <2> QED
    BY <2>1, <2>2
<1>8. /\ drained' \subseteq Pool /\ seg \notin drained' /\ live' \subseteq drained' \cup {seg}
      /\ live' \cap drained' \subseteq (live \cap drained) \ {seg}
  BY <1>1, <1>2, <1>3, <1>7 DEF SegmentDrained, TypeOK
<1>9. TypeOK'
  <2>1. /\ pc' \in Places /\ {next', dispatch', passes'} \subseteq Nat
    BY <1>2, <1>4, <1>5, <1>6, Types DEF Places
  <2>2. {outgoing', carry'} \subseteq AnyTicket \cup {NoTicket}
    BY <1>3
  <2>3. {poisoned', overflow', progress', released', cancel'} \subseteq BOOLEAN
    BY <1>2, <1>3, <1>4, <1>7, Types
  <2>4. active' \in Pool \cup {0} /\ seg' \in Pool
    BY <1>3, <1>5, <1>7
  <2> QED
    BY <1>2, <1>4, <1>7, <1>8, <2>1, <2>2, <2>3, <2>4, Zenon DEF TypeOK, Pool
<1>10. pc' \notin Final \cup Resting \cup Late \cup {"settle", "destroy", "retire", "overlap", "encode"}
  BY <1>4 DEF Final, Resting, Late, Ended
<1>11. Fills' /\ OneFill' /\ Reading' /\ Reports' /\ Between'
  BY <1>1, <1>4, <1>10 DEF Fills, OneFill, Reading, Reports, Between, Busy, FillMail, ReaderMail
<1>12. \A s \in SlotsIn(layout) : s[1] \in live =>
         \/ slot[s].state = "Vacant"
         \/ slot[s].state = "Ready" /\ layout.carry /\ carry # NoTicket /\ s = carry.slot
  BY <1>1 DEF IInv, Safe, Pools
<1>13. Segment'
  <2> SUFFICES ASSUME pc' = "check" PROVE Segment'
    BY <1>4 DEF Segment, Loop
  <2>1. carried => /\ seg = 1 /\ carry.item = <<passes, 1>> /\ carry.slot = SlotAt(layout, passes, 1)
                   /\ slot[carry.slot].ticket = carry /\ slot[carry.slot].state = "Ready"
                   /\ FirstOf(layout, seg) = 1
    <3>1. SUFFICES ASSUME carried
                   PROVE  /\ seg = 1 /\ carry.item = <<passes, 1>>
                          /\ carry.slot = SlotAt(layout, passes, 1)
                          /\ slot[carry.slot].ticket = carry /\ slot[carry.slot].state = "Ready"
                          /\ FirstOf(layout, seg) = 1
      OBVIOUS
    <3>2. CarryAccepted
      BY <1>4, <3>1
    <3>3. /\ seg = 1 /\ carry.item = <<passes, 1>> /\ carry.slot = SlotAt(layout, passes, 1)
          /\ slot[carry.slot].ticket = carry /\ slot[carry.slot].state = "Ready"
      BY <3>2, Names DEF CarryAccepted, Tracker!IsReady, Tracker!Matches
    <3> QED
      BY <1>5, <3>3, PoolNumbers
  <2>2. SlotAt(layout, passes, FirstOf(layout, seg)) \in SlotsIn(layout)
    BY <1>2, <1>5, Types, SlotOfGroup
  <2>3. \A g \in next' .. dispatch' - 1 : carried /\ g = FirstOf(layout, seg)
    BY <1>5, <1>6
  <2>4. \A g \in next' .. dispatch' - 1 :
          /\ slot'[SlotAt(layout, passes, g)].state \in Filled
          /\ slot'[SlotAt(layout, passes, g)].ticket.item = <<passes, g>>
    BY <1>7, <2>1, <2>2, <2>3 DEF Filled
  <2>5. ASSUME NEW s \in SlotsIn(layout), s[1] = seg, slot'[s].state \in Filled
        PROVE  \E g \in next' .. dispatch' - 1 : s = SlotAt(layout, passes, g)
    <3>1. seg \in live /\ slot[s].state \in Filled
      BY <1>7, <2>5 DEF Filled
    <3>2. carried /\ s = carry.slot
      BY <1>12, <2>5, <3>1 DEF Filled
    <3>3. FirstOf(layout, seg) \in next' .. dispatch' - 1
      BY <1>5, <1>6, <3>2
    <3> QED
      BY <2>1, <3>2, <3>3
  <2>6. /\ FirstOf(layout, seg) <= next' /\ next' <= dispatch'
        /\ dispatch' <= LastOf(layout, seg) + 1
    BY <1>5, <1>6
  <2> QED
    BY <1>3, <1>4, <1>7, <1>8, <1>10, <2>4, <2>5, <2>6 DEF Segment
<1>14. Pools'
  <2>1. layout.carry => \A s \in SlotsIn(layout) : s[1] = seg
    BY <1>5, PoolNumbers, SlotsOfLayout
  <2>2. \A s \in SlotsIn(layout) : s[1] \in live' \cap drained' => slot'[s].state = "Vacant"
    BY <1>7, <1>8, <1>12, <2>1
  <2>3. pc' \notin {"begin", "device", "quarantined"} \cup Resting \cup Final
    BY <1>4 DEF Resting, Final
  <2> QED
    BY <1>4, <1>7, <1>8, <2>2, <2>3 DEF Pools
<1>15. Stopped'
  BY <1>4, <1>10 DEF IInv, Safe, Stopped, Resting
<1> QED
  BY <1>7, <1>9, <1>11, <1>13, <1>14, <1>15 DEF IInv, Safe

LEMMA BeginStep == IInv /\ Begin => IInv'
<1> SUFFICES ASSUME IInv, Begin PROVE IInv'
  OBVIOUS
<1> DEFINE p == Cardinality(live) + 1
<1>1. /\ pc = "begin" /\ UNCHANGED <<jobs, worker, mail, gpu, loop, cancel>>
      /\ gpu = {} /\ jobs = <<>> /\ mailbox = <<>> /\ Busy = {} /\ io = "none" /\ carry = NoTicket
      /\ drained = PoolsOf(layout) /\ live = 1 .. Cardinality(live) /\ live \subseteq drained
      /\ (~layout.retain => live \subseteq {active})
  BY DEF Begin, IInv, Safe, Between, Pools, Stopped, Resting
<1>2. TypeOK
  BY DEF IInv
<1>3. /\ layout \in Layouts /\ Pool = PoolsOf(layout)
      /\ PoolsOf(layout) = 1 .. Cardinality(PoolsOf(layout))
      /\ Cardinality(PoolsOf(layout)) \in Nat /\ 1 \in PoolsOf(layout) /\ layout.retain \in BOOLEAN
  BY <1>2, Types, PoolNumbers, Names
<1>4. Cardinality(live) \in Nat
  <2>1. IsFiniteSet(PoolsOf(layout))
    BY <1>3, FS_Interval
  <2>2. IsFiniteSet(live)
    BY <1>1, <2>1, FS_Subset
  <2> QED
    BY <2>2, FS_CardinalityType
<1>5. UNCHANGED <<jobs, worker, mailbox, overflow, gpu, seg, next, dispatch, outgoing, carry,
                  progress, cancel>>
  BY <1>1 DEF mail, loop
<1>6. CASE /\ p <= IF layout.retain THEN Cardinality(Pool) ELSE 1
           /\ CreatePool(p, {}) /\ io' = io
           /\ \/ UNCHANGED <<pc, drained, life>>
              \/ drained' = drained \ {p} /\ Fail("create")
  <2>1. UNCHANGED <<layout, passes, closing, released>> /\ pc' \in {"begin", "stop"}
        /\ drained' \subseteq drained /\ drained \ {p} \subseteq drained'
        /\ (pc' = "begin" => drained' = drained)
    BY <1>1, <1>6 DEF life, Fail
  <2>2. p \in PoolsOf(layout) /\ p \notin live /\ (~layout.retain => live = {})
    <3>1. p \in Nat /\ p # 0
      BY <1>4
    <3>2. p \in PoolsOf(layout)
      BY <1>3, <1>6, <3>1
    <3>3. p \notin live
      BY <1>1, <1>4
    <3>4. ~layout.retain => Cardinality(live) = 0
      BY <1>4, <1>6
    <3>5. ~layout.retain => live = {}
      BY <1>1, <3>4
    <3> QED
      BY <3>2, <3>3, <3>5
  <2>3. /\ slot' \in [AnySlot -> Cell] /\ backing' \in [AnySlot -> Content] /\ poisoned' = poisoned
        /\ live' = (live \ {}) \cup {p} /\ live' \subseteq Pool /\ active' = p
        /\ Cells'
        /\ \A s \in SlotsIn(layout) : IF s[1] = p THEN slot'[s].state = "Vacant"
                                                  ELSE slot'[s] = slot[s]
    <3> HIDE DEF p
    <3>1. CreatePool(p, {}) /\ {} \in SUBSET live /\ layout' = layout
      BY <1>6, <2>1
    <3> QED
      BY <2>2, <3>1, PoolCreated
  <2>4. live' = 1 .. Cardinality(live')
    <3>1. live' = 1 .. p
      BY <1>1, <1>4, <2>3
    <3>2. Cardinality(1 .. p) = p
      BY <1>4, FS_Interval
    <3> QED
      BY <3>1, <3>2
  <2> HIDE DEF p
  <2>5. TypeOK'
    <3>1. pc' \in Places /\ active' \in Pool \cup {0} /\ drained' \subseteq Pool
      BY <1>1, <1>3, <2>1, <2>2, <2>3 DEF Places
    <3>2. {poisoned', overflow', progress', released', cancel'} \subseteq BOOLEAN
      BY <1>2, <1>5, <2>1, <2>3, Types
    <3> QED
      BY <1>2, <1>5, <1>6, <2>1, <2>3, <3>1, <3>2, Zenon DEF TypeOK, Pool
  <2>6. pc' \notin Final \cup Loop \cup Late \cup {"destroy", "settle", "device", "quarantined"}
    BY <2>1 DEF Final, Loop, Late, Ended
  <2>7. Fills' /\ OneFill' /\ Reading' /\ Reports' /\ Segment' /\ Between'
    BY <1>1, <1>5, <2>6 DEF Fills, OneFill, Reading, Reports, Segment, Between, Busy, FillMail
  <2>8. Pools'
    <3>1. \A s \in SlotsIn(layout) : s[1] \in live' \cap drained' => slot'[s].state = "Vacant"
      BY <1>1, <2>1, <2>3 DEF IInv, Safe, Pools
    <3>2. pc' \in Resting => pc' = "begin"
      BY <2>1 DEF Resting
    <3>3. live' \subseteq drained' \cup {active'} /\ (~layout.retain => live' \subseteq {active'})
      BY <1>1, <2>1, <2>2, <2>3
    <3>4. pc' = "begin" => drained' = PoolsOf(layout) /\ carry' = NoTicket /\ live' \subseteq drained'
      BY <1>1, <1>3, <1>5, <2>1, <2>3
    <3> QED
      BY <2>1, <2>4, <2>6, <3>1, <3>2, <3>3, <3>4 DEF Pools
  <2>9. Stopped'
    BY <1>5, <1>6, <1>1, <2>6 DEF IInv, Safe, Stopped
  <2> QED
    BY <2>3, <2>5, <2>7, <2>8, <2>9 DEF IInv, Safe
<1>7. CASE /\ ~(p <= IF layout.retain THEN Cardinality(Pool) ELSE 1)
           /\ active' = 1 /\ io' = "running" /\ pc' = "idle"
           /\ UNCHANGED <<tracker, live, drained, backing, life>>
  <2>1. ~layout.retain => live \subseteq {1}
    <3>1. Cardinality(live) >= 1
      BY <1>3, <1>4, <1>7
    <3>2. 1 \in live
      BY <1>1, <1>4, <3>1
    <3> QED
      BY <1>1, <3>2
  <2> HIDE DEF p
  <2>2. UNCHANGED <<layout, passes, closing, released, slot, poisoned, live, drained, backing>>
    BY <1>7 DEF tracker, life
  <2>3. TypeOK'
    <3>1. /\ pc' \in Places /\ active' \in Pool \cup {0}
          /\ io' \in {"none", "running", "stopped"}
      BY <1>3, <1>7 DEF Places
    <3> QED
      BY <1>2, <1>5, <2>2, <3>1, Zenon DEF TypeOK, Pool
  <2>4. pc' \notin Final \cup Loop \cup Late \cup {"begin", "destroy", "settle", "device", "quarantined"}
    BY <1>7 DEF Final, Loop, Late, Ended
  <2>5. Cells' /\ Fills' /\ OneFill' /\ Reading' /\ Reports' /\ Segment' /\ Between'
    BY <1>1, <1>5, <2>2, <2>4 DEF IInv, Safe, Cells, Fills, OneFill, Reading, Reports, Segment,
                                  Between, Busy, FillMail
  <2>6. Pools'
    BY <1>1, <1>5, <1>7, <2>1, <2>2, <2>4 DEF IInv, Safe, Pools
  <2>7. Stopped'
    BY <1>7, <2>4 DEF Stopped
  <2> QED
    BY <2>3, <2>5, <2>6, <2>7 DEF IInv, Safe
<1> QED
  BY <1>6, <1>7 DEF Begin

-----------------------------------------------------------------------------
(* The workers and the GPU.                                                *)

(* A worker that works has a pending ticket, and the owner waits for it.   *)
LEMMA WorkersRun ==
  ASSUME IInv, NEW w \in Worker, worker[w].state # "exited",
         worker[w].state = "idle" => io # "none"
  PROVE  /\ pc \notin Late /\ pc \notin Final /\ io # "none"
         /\ w \in Busy => /\ pc \notin Resting /\ Pending(worker[w].ticket)
                          /\ worker[w].ticket.slot \in AnySlot
<1>1. io # "none"
  BY DEF IInv, Safe, Stopped
<1>2. pc \notin Late
  BY <1>1 DEF IInv, Safe, Stopped, AllExited
<1>3. pc \notin Final
  BY <1>2 DEF Late, Ended, Final
<1>4. w \in Busy => pc \notin Resting /\ Pending(worker[w].ticket)
  BY <1>3 DEF IInv, Safe, Between, Fills
<1>5. SlotsIn(layout) \subseteq AnySlot
  BY Types, SlotsOfLayout DEF IInv
<1> QED
  BY <1>1, <1>2, <1>3, <1>4, <1>5 DEF Pending

(* What a worker or a callback leaves alone keeps its invariant.           *)
LEMMA OwnerRests ==
  ASSUME IInv, UNCHANGED <<ownerVars, live, drained, active>>
  PROVE  /\ Segment' /\ Pools'
         /\ UNCHANGED <<slot, poisoned, pc, seg, next, dispatch, outgoing, carry, progress, layout,
                        passes, failure, closing, released>>
<1>1. UNCHANGED <<slot, poisoned, pc, seg, next, dispatch, outgoing, carry, progress, layout,
                  passes, failure, closing, released>>
  BY DEF ownerVars, tracker, loop, life
<1> QED
  BY <1>1 DEF IInv, Safe, Segment, Pools

LEMMA TakeJobStep ==
  ASSUME IInv, NEW w \in Worker, TakeJob(w)
  PROVE  IInv'
<1> DEFINE t == jobs[1]
<1>1. /\ worker[w].state = "idle" /\ io = "running" /\ jobs # <<>>
      /\ jobs' = Tail(jobs)
      /\ UNCHANGED <<ownerVars, live, drained, active, io, mail, gpu, cancel>>
  BY DEF TakeJob
<1>2. TypeOK
  BY DEF IInv
<1>3. /\ Segment' /\ Pools'
      /\ UNCHANGED <<slot, poisoned, pc, seg, next, dispatch, outgoing, carry, progress, layout,
                     passes, failure, closing, released, mailbox, overflow>>
  BY <1>1, OwnerRests DEF mail
<1>4. /\ pc \notin Late /\ pc \notin Final
  BY <1>1, WorkersRun
<1>5. pc \notin Resting
  BY <1>1 DEF IInv, Safe, Between
<1>6. /\ jobs' \in Seq(AnyTicket) /\ t \in AnyTicket /\ Head(jobs) = t
      /\ 1 \in DOMAIN jobs /\ DOMAIN jobs \subseteq Nat
      /\ \A i \in DOMAIN jobs' : i + 1 \in DOMAIN jobs /\ i + 1 # 1 /\ jobs'[i] = jobs[i + 1]
      /\ DOMAIN jobs' \subseteq Nat
  <2>1. jobs \in Seq(AnyTicket)
    BY <1>2, Types
  <2>2. Tail(jobs) \in Seq(AnyTicket)
    BY <1>1, <2>1, TailRing
  <2> QED
    BY <1>1, <2>1, <2>2, TailRing, LenProperties
<1>7. worker \in [Worker -> WorkerRecord] /\ backing \in [AnySlot -> Content]
  BY <1>2, Types
<1>8. /\ worker' \in [Worker -> WorkerRecord]
      /\ worker'[w].state = "filling" /\ worker'[w].ticket = t
      /\ \A v \in Worker : v # w => worker'[v] = worker[v]
  <2>1. worker' = [worker EXCEPT ![w] = [worker[w] EXCEPT !.state = "filling", !.ticket = t]]
    BY <1>6, <1>7 DEF TakeJob
  <2> HIDE DEF t
  <2> QED
    BY <1>6, <1>7, <2>1 DEF WorkerRecord
<1>9. /\ Pending(t) /\ t.slot \in AnySlot /\ t.slot \in SlotsIn(layout)
  <2>1. Pending(t)
    BY <1>4, <1>6 DEF IInv, Safe, Fills
  <2>2. SlotsIn(layout) \subseteq AnySlot
    BY <1>2, Types, SlotsOfLayout
  <2> QED
    BY <2>1, <2>2 DEF Pending
<1>10. /\ backing' \in [AnySlot -> Content]
       /\ \A s \in AnySlot : s # t.slot => backing'[s] = backing[s]
  <2>1. backing' = [backing EXCEPT ![t.slot] = Torn] /\ Torn \in Content
    BY <1>6 DEF TakeJob, Content
  <2> HIDE DEF t
  <2> QED
    BY <1>7, <2>1
<1>11. /\ \A i \in DOMAIN jobs' : /\ Pending(jobs'[i]) /\ jobs'[i].slot # t.slot
                                  /\ \E k \in DOMAIN jobs : k # 1 /\ jobs'[i] = jobs[k]
       /\ \A v \in Busy : Pending(worker[v].ticket) /\ worker[v].ticket.slot # t.slot
       /\ \A i \in FillMail : Pending(mailbox[i].ticket) /\ mailbox[i].ticket.slot # t.slot
       /\ Busy' = Busy \cup {w} /\ w \notin Busy
  <2>1. ASSUME NEW i \in DOMAIN jobs'
        PROVE  /\ Pending(jobs'[i]) /\ jobs'[i].slot # t.slot
               /\ \E k \in DOMAIN jobs : k # 1 /\ jobs'[i] = jobs[k]
    <3>1. PICK k \in DOMAIN jobs : k # 1 /\ jobs'[i] = jobs[k]
      BY <1>6
    <3>2. Pending(jobs[k]) /\ jobs[k].slot # t.slot
      BY <1>4, <1>6, <3>1 DEF IInv, Safe, Fills, OneFill
    <3> QED
      BY <3>1, <3>2
  <2>2. \A v \in Busy : Pending(worker[v].ticket) /\ worker[v].ticket.slot # t.slot
    BY <1>4, <1>6 DEF IInv, Safe, Fills, OneFill
  <2>3. \A i \in FillMail : Pending(mailbox[i].ticket) /\ mailbox[i].ticket.slot # t.slot
    BY <1>4, <1>6 DEF IInv, Safe, Fills, OneFill
  <2>4. Busy' = Busy \cup {w} /\ w \notin Busy
    BY <1>1, <1>8 DEF Busy
  <2> QED
    BY <2>1, <2>2, <2>3, <2>4
<1> HIDE DEF t
<1>12. \A q : Pending(q) => Pending(q)' /\ q.slot \in AnySlot
  BY <1>1, <1>2, <1>3, Types, SlotsOfLayout DEF Pending
<1>13. TypeOK'
  BY <1>1, <1>2, <1>3, <1>6, <1>8, <1>10, Zenon DEF TypeOK, Pool
<1>14. Cells'
  <2>1. \A s \in SlotsIn(layout) : slot[s].state # "Loading" => backing'[s] = backing[s]
    BY <1>2, <1>9, <1>10, Types, SlotsOfLayout DEF Pending
  <2> QED
    BY <1>1, <1>3, <2>1 DEF IInv, Safe, Cells
<1>15. Fills'
  <2>1. \A i \in DOMAIN jobs' : Pending(jobs[i])'
    <3> TAKE i \in DOMAIN jobs'
    <3>1. \A q : q = jobs'[i] => Pending(q)'
      BY <1>11, <1>12
    <3> QED
      BY <3>1 DEF Pending
  <2>2. \A v \in Busy' : Pending(worker[v].ticket)'
    <3> TAKE v \in Busy'
    <3>1. \A q : q = worker'[v].ticket => Pending(q)'
      BY <1>8, <1>9, <1>11, <1>12 DEF Busy
    <3> QED
      BY <3>1 DEF Pending
  <2>3. \A i \in FillMail' : Pending(mailbox[i].ticket)'
    BY <1>3, <1>11, <1>12 DEF Pending, FillMail
  <2>4. \A v \in Busy' : worker'[v].state = "posting" /\ worker'[v].ok /\ worker'[v].bytes = 1 =>
          backing'[worker'[v].ticket.slot] = worker'[v].ticket.item
    BY <1>4, <1>8, <1>10, <1>11, <1>12 DEF IInv, Safe, Fills, Busy
  <2>5. \A i \in FillMail' : mailbox'[i].ok /\ mailbox'[i].bytes = 1 =>
          backing'[mailbox'[i].ticket.slot] = mailbox'[i].ticket.item
    BY <1>3, <1>4, <1>10, <1>11, <1>12 DEF IInv, Safe, Fills, FillMail
  <2> QED
    BY <2>1, <2>2, <2>3, <2>4, <2>5 DEF Fills
<1>16. OneFill'
  <2>1. \A i, k \in DOMAIN jobs' : i # k => jobs'[i].slot # jobs'[k].slot
    <3> TAKE i, k \in DOMAIN jobs'
    <3> HAVE i # k
    <3>1. i + 1 # k + 1
      BY <1>6
    <3>2. jobs[i + 1].slot # jobs[k + 1].slot
      BY <1>6, <3>1 DEF IInv, Safe, OneFill
    <3> QED
      BY <1>6, <3>2
  <2>2. \A i \in DOMAIN jobs', v \in Busy' : jobs'[i].slot # worker'[v].ticket.slot
    BY <1>8, <1>11 DEF IInv, Safe, OneFill, Busy
  <2>3. \A u, v \in Busy' : u # v => worker'[u].ticket.slot # worker'[v].ticket.slot
    BY <1>8, <1>11 DEF IInv, Safe, OneFill, Busy
  <2>4. /\ \A i, k \in FillMail' : i # k => mailbox'[i].ticket.slot # mailbox'[k].ticket.slot
        /\ \A i \in DOMAIN jobs', k \in FillMail' : jobs'[i].slot # mailbox'[k].ticket.slot
        /\ \A v \in Busy', k \in FillMail' : worker'[v].ticket.slot # mailbox'[k].ticket.slot
    BY <1>3, <1>8, <1>11 DEF IInv, Safe, OneFill, Busy, FillMail
  <2> QED
    BY <2>1, <2>2, <2>3, <2>4 DEF OneFill
<1>17. Reading' /\ Reports'
  BY <1>1, <1>3 DEF IInv, Safe, Reading, Reports, ReaderMail, FenceOf
<1>18. Between' /\ Stopped'
  BY <1>1, <1>3, <1>4, <1>5 DEF IInv, Safe, Between, Stopped, Resting
<1> QED
  BY <1>3, <1>13, <1>14, <1>15, <1>16, <1>17, <1>18 DEF IInv, Safe

(* The fill of a worker ends: its slot holds the content, or it gave up.   *)
LEMMA FillEndsStep ==
  ASSUME IInv, NEW w \in Worker, FillEnds(w)
  PROVE  IInv'
<1> DEFINE t == worker[w].ticket
<1>1. /\ worker[w].state = "filling"
      /\ UNCHANGED <<ownerVars, live, drained, active, jobs, io, mail, gpu, cancel>>
  BY DEF FillEnds
<1>2. TypeOK /\ worker \in [Worker -> WorkerRecord] /\ backing \in [AnySlot -> Content]
  BY Types DEF IInv
<1>3. /\ Segment' /\ Pools'
      /\ UNCHANGED <<slot, poisoned, pc, seg, next, dispatch, outgoing, carry, progress, layout,
                     passes, failure, closing, released, mailbox, overflow>>
  BY <1>1, OwnerRests DEF mail
<1>4. /\ pc \notin Late /\ pc \notin Final /\ pc \notin Resting /\ io # "none" /\ w \in Busy
      /\ Pending(t) /\ t.slot \in AnySlot /\ t \in AnyTicket \cup {NoTicket}
  BY <1>1, <1>2, WorkersRun DEF Busy, WorkerRecord
<1>5. PICK ok \in BOOLEAN, n \in {0, 1} :
        /\ worker' = [worker EXCEPT ![w] = [state |-> "posting", ticket |-> t, ok |-> ok,
                                            bytes |-> n]]
        /\ \/ backing' = [backing EXCEPT ![t.slot] = t.item]
           \/ backing' = backing /\ ~(ok /\ n = 1)
  <2> DEFINE After(ok, n) == worker' = [worker EXCEPT ![w] = [state |-> "posting", ticket |-> t,
                                                             ok |-> ok, bytes |-> n]]
  <2>1. \/ After(TRUE, 1) /\ backing' = [backing EXCEPT ![t.slot] = t.item]
        \/ After(FALSE, 0) /\ backing' = backing
        \/ After(TRUE, 0) /\ backing' = backing
    BY Zenon DEF FillEnds
  <2>2. TRUE \in BOOLEAN /\ FALSE \in BOOLEAN /\ 0 \in {0, 1} /\ 1 \in {0, 1} /\ 0 # 1
    OBVIOUS
  <2> QED
    BY <2>1, <2>2, Zenon
<1>6. /\ worker' \in [Worker -> WorkerRecord] /\ Busy' = Busy
      /\ worker'[w].ticket = t /\ worker'[w].ok = ok /\ worker'[w].bytes = n
      /\ \A v \in Worker : v # w => worker'[v] = worker[v]
      /\ \A v \in Worker : worker'[v].ticket = worker[v].ticket
  <2>1. [state |-> "posting", ticket |-> t, ok |-> ok, bytes |-> n] \in WorkerRecord
    BY <1>4 DEF WorkerRecord
  <2> QED
    BY <1>2, <1>4, <1>5, <2>1 DEF Busy
<1>7. /\ backing' \in [AnySlot -> Content]
      /\ \A s \in AnySlot : s # t.slot => backing'[s] = backing[s]
      /\ ok /\ n = 1 => backing'[t.slot] = t.item
  <2>1. t.item \in Content
    BY <1>4 DEF AnyTicket, NoTicket, Content
  <2> HIDE DEF t
  <2> QED
    BY <1>2, <1>4, <1>5, <2>1
<1> HIDE DEF t
<1>8. \A q : Pending(q) => Pending(q)' /\ q.slot \in AnySlot
  BY <1>1, <1>2, <1>3, Types, SlotsOfLayout DEF Pending
<1>9. TypeOK'
  BY <1>1, <1>2, <1>3, <1>6, <1>7, Zenon DEF TypeOK, Pool
<1>10. Cells'
  <2>1. \A s \in SlotsIn(layout) : slot[s].state # "Loading" => backing'[s] = backing[s]
    BY <1>2, <1>4, <1>7, Types, SlotsOfLayout DEF Pending
  <2> QED
    BY <1>1, <1>3, <2>1 DEF IInv, Safe, Cells
<1>11. /\ \A v \in Busy : Pending(worker[v].ticket) /\ (v # w => worker[v].ticket.slot # t.slot)
       /\ \A i \in FillMail : Pending(mailbox[i].ticket) /\ mailbox[i].ticket.slot # t.slot
       /\ \A i \in DOMAIN jobs : Pending(jobs[i])
  BY <1>4 DEF IInv, Safe, Fills, OneFill, t
<1>12. Fills'
  <2>1. \A i \in DOMAIN jobs' : Pending(jobs[i])'
    BY <1>1, <1>8, <1>11 DEF Pending
  <2>2. \A v \in Busy' : Pending(worker[v].ticket)'
    <3> TAKE v \in Busy'
    <3>1. \A q : q = worker'[v].ticket => Pending(q)'
      BY <1>6, <1>8, <1>11 DEF Busy
    <3> QED
      BY <3>1 DEF Pending
  <2>3. \A i \in FillMail' : Pending(mailbox[i].ticket)'
    BY <1>3, <1>11, <1>8 DEF Pending, FillMail
  <2>4. \A v \in Busy' : worker'[v].state = "posting" /\ worker'[v].ok /\ worker'[v].bytes = 1 =>
          backing'[worker'[v].ticket.slot] = worker'[v].ticket.item
    <3> TAKE v \in Busy'
    <3>1. CASE v = w
      BY <1>6, <1>7, <3>1
    <3>2. CASE v # w
      BY <1>4, <1>6, <1>7, <1>8, <1>11, <3>2 DEF IInv, Safe, Fills, Busy
    <3> QED
      BY <3>1, <3>2
  <2>5. \A i \in FillMail' : mailbox'[i].ok /\ mailbox'[i].bytes = 1 =>
          backing'[mailbox'[i].ticket.slot] = mailbox'[i].ticket.item
    BY <1>3, <1>4, <1>7, <1>8, <1>11 DEF IInv, Safe, Fills, FillMail
  <2> QED
    BY <2>1, <2>2, <2>3, <2>4, <2>5 DEF Fills
<1>13. OneFill'
  BY <1>1, <1>3, <1>6 DEF IInv, Safe, OneFill, Busy, FillMail
<1>14. Reading' /\ Reports'
  BY <1>1, <1>3 DEF IInv, Safe, Reading, Reports, ReaderMail, FenceOf
<1>15. Between' /\ Stopped'
  BY <1>1, <1>3, <1>4 DEF IInv, Safe, Between, Stopped, Resting
<1> QED
  BY <1>3, <1>9, <1>10, <1>12, <1>13, <1>14, <1>15 DEF IInv, Safe

LEMMA WorkerExitsStep ==
  ASSUME IInv, NEW w \in Worker, WorkerExits(w)
  PROVE  IInv'
<1>1. /\ worker[w].state = "idle" /\ io = "stopped"
      /\ UNCHANGED <<ownerVars, pools, jobs, io, mail, gpu, cancel>>
  BY DEF WorkerExits
<1>2. TypeOK /\ worker \in [Worker -> WorkerRecord]
  BY Types DEF IInv
<1>3. UNCHANGED <<live, drained, active, backing, mailbox, overflow>>
  BY <1>1 DEF pools, mail
<1>4. /\ Segment' /\ Pools'
      /\ UNCHANGED <<slot, poisoned, pc, seg, next, dispatch, outgoing, carry, progress, layout,
                     passes, failure, closing, released>>
  BY <1>1, <1>3, OwnerRests
<1>5. pc \notin Late /\ pc \notin Final /\ io # "none"
  BY <1>1, WorkersRun
<1>6. /\ worker' \in [Worker -> WorkerRecord] /\ Busy' = Busy
      /\ \A v \in Busy : worker'[v] = worker[v]
  <2>1. worker' = [worker EXCEPT ![w] = [worker[w] EXCEPT !.state = "exited"]]
    BY <1>2 DEF WorkerExits
  <2> QED
    BY <1>1, <1>2, <2>1 DEF WorkerRecord, Busy
<1>7. TypeOK'
  BY <1>1, <1>2, <1>3, <1>4, <1>6, Zenon DEF TypeOK, Pool
<1>8. Cells'
  BY <1>3, <1>4 DEF IInv, Safe, Cells
<1>9. Fills' /\ OneFill'
  BY <1>1, <1>3, <1>4, <1>5, <1>6 DEF IInv, Safe, Fills, OneFill, Pending, FillMail
<1>10. Reading' /\ Reports'
  BY <1>1, <1>3, <1>4 DEF IInv, Safe, Reading, Reports, ReaderMail, FenceOf
<1>11. Between' /\ Stopped'
  BY <1>1, <1>3, <1>4, <1>5, <1>6 DEF IInv, Safe, Between, Stopped, Resting
<1> QED
  BY <1>4, <1>7, <1>8, <1>9, <1>10, <1>11 DEF IInv, Safe

(* A record is appended, or dropped for want of room.                      *)
LEMMA Posted ==
  ASSUME TypeOK, NEW record \in MailRecord, MailboxPost(record)
  PROVE  /\ mailbox' \in Seq(MailRecord) /\ overflow' \in BOOLEAN
         /\ \E n : /\ n \notin DOMAIN mailbox /\ DOMAIN mailbox' \subseteq DOMAIN mailbox \cup {n}
                   /\ \A i \in DOMAIN mailbox : i \in DOMAIN mailbox' /\ mailbox'[i] = mailbox[i]
                   /\ n \in DOMAIN mailbox' => mailbox'[n] = record
<1>1. mailbox \in Seq(MailRecord) /\ overflow \in BOOLEAN
  BY Types
<1>2. CASE mailbox' = Append(mailbox, record) /\ UNCHANGED overflow
  BY <1>1, <1>2, AppendRing
<1>3. CASE overflow' = TRUE /\ UNCHANGED mailbox
  <2>1. Len(mailbox) + 1 \notin DOMAIN mailbox
    BY <1>1, AppendRing
  <2> QED
    BY <1>1, <1>3, <2>1
<1> QED
  BY <1>2, <1>3 DEF MailboxPost

LEMMA PostFillStep ==
  ASSUME IInv, NEW w \in Worker, PostFill(w)
  PROVE  IInv'
<1> DEFINE t == worker[w].ticket
           record == [kind |-> "fill", ticket |-> t, ok |-> worker[w].ok,
                      bytes |-> worker[w].bytes, fence |-> <<>>]
<1>1. /\ worker[w].state = "posting" /\ MailboxPost(record)
      /\ worker' = [worker EXCEPT ![w] = Idle]
      /\ io' = IF overflow' THEN "stopped" ELSE io
      /\ UNCHANGED <<ownerVars, pools, jobs, gpu, cancel>>
  BY DEF PostFill
<1>2. TypeOK /\ worker \in [Worker -> WorkerRecord]
  BY Types DEF IInv
<1>3. UNCHANGED <<live, drained, active, backing>>
  BY <1>1 DEF pools
<1>4. /\ Segment' /\ Pools'
      /\ UNCHANGED <<slot, poisoned, pc, seg, next, dispatch, outgoing, carry, progress, layout,
                     passes, failure, closing, released>>
  BY <1>1, <1>3, OwnerRests
<1>5. /\ pc \notin Late /\ pc \notin Final /\ pc \notin Resting /\ io # "none" /\ w \in Busy
      /\ Pending(t)
  BY <1>1, WorkersRun DEF Busy
<1>6. record \in MailRecord /\ record.kind = "fill" /\ record.ticket = t
      /\ record.ok = worker[w].ok /\ record.bytes = worker[w].bytes
  <2>1. t \in AnyTicket
    <3>1. t.slot \in AnySlot /\ slot[t.slot].ticket = t
      BY <1>2, <1>5, Types, SlotsOfLayout DEF Pending
    <3> QED
      BY <1>2, <3>1 DEF TypeOK, Cell
  <2> QED
    BY <1>2, <2>1 DEF MailRecord, WorkerRecord
<1>7. /\ worker' \in [Worker -> WorkerRecord] /\ Busy' = Busy \ {w}
      /\ \A v \in Worker : v # w => worker'[v] = worker[v]
  BY <1>1, <1>2 DEF WorkerRecord, Idle, Busy
<1> HIDE DEF record
<1>8. /\ mailbox' \in Seq(MailRecord) /\ overflow' \in BOOLEAN
  BY <1>1, <1>2, <1>6, Posted
<1>9. PICK n : /\ n \notin DOMAIN mailbox /\ DOMAIN mailbox' \subseteq DOMAIN mailbox \cup {n}
               /\ \A i \in DOMAIN mailbox : i \in DOMAIN mailbox' /\ mailbox'[i] = mailbox[i]
               /\ n \in DOMAIN mailbox' => mailbox'[n] = record
  BY <1>1, <1>2, <1>6, Posted
<1>10. \A i \in FillMail' : \/ i \in FillMail /\ mailbox'[i] = mailbox[i]
                            \/ i = n /\ mailbox'[i].ticket = t /\ mailbox'[i].ok = worker[w].ok
                               /\ mailbox'[i].bytes = worker[w].bytes
  BY <1>6, <1>9 DEF FillMail
<1> HIDE DEF t
<1>11. TypeOK'
  <2>1. io' \in {"none", "running", "stopped"}
    BY <1>1, <1>2, Types
  <2>2. {poisoned', overflow', progress', released', cancel'} \subseteq BOOLEAN
    BY <1>1, <1>2, <1>4, <1>8, Types
  <2> QED
    BY <1>1, <1>2, <1>3, <1>4, <1>7, <1>8, <2>1, <2>2, Zenon DEF TypeOK, Pool
<1>12. Cells'
  BY <1>3, <1>4 DEF IInv, Safe, Cells
<1>13. /\ \A q : Pending(q) => Pending(q)'
       /\ \A i \in DOMAIN jobs : Pending(jobs[i]) /\ jobs[i].slot # t.slot
       /\ \A v \in Busy : Pending(worker[v].ticket) /\ (v # w => worker[v].ticket.slot # t.slot)
       /\ \A i \in FillMail : Pending(mailbox[i].ticket) /\ mailbox[i].ticket.slot # t.slot
       /\ worker[w].ok /\ worker[w].bytes = 1 => backing[t.slot] = t.item
  <2>1. \A q : Pending(q) => Pending(q)'
    BY <1>3, <1>4 DEF Pending
  <2> QED
    BY <1>1, <1>5, <2>1 DEF IInv, Safe, Fills, OneFill, t
<1>14. Fills'
  <2>1. \A i \in DOMAIN jobs' : Pending(jobs[i])'
    BY <1>1, <1>13 DEF Pending
  <2>2. \A v \in Busy' : Pending(worker[v].ticket)'
    <3> TAKE v \in Busy'
    <3>1. \A q : q = worker'[v].ticket => Pending(q)'
      BY <1>7, <1>13 DEF Busy
    <3> QED
      BY <3>1 DEF Pending
  <2>3. \A i \in FillMail' : Pending(mailbox[i].ticket)'
    <3> TAKE i \in FillMail'
    <3>1. \A q : q = mailbox'[i].ticket => Pending(q)'
      BY <1>5, <1>10, <1>13
    <3> QED
      BY <3>1 DEF Pending
  <2>4. \A v \in Busy' : worker'[v].state = "posting" /\ worker'[v].ok /\ worker'[v].bytes = 1 =>
          backing'[worker'[v].ticket.slot] = worker'[v].ticket.item
    BY <1>3, <1>5, <1>7 DEF IInv, Safe, Fills, Busy
  <2>5. \A i \in FillMail' : mailbox'[i].ok /\ mailbox'[i].bytes = 1 =>
          backing'[mailbox'[i].ticket.slot] = mailbox'[i].ticket.item
    BY <1>3, <1>5, <1>10, <1>13 DEF IInv, Safe, Fills
  <2> QED
    BY <2>1, <2>2, <2>3, <2>4, <2>5 DEF Fills
<1>15. OneFill'
  <2>1. \A i, k \in FillMail' : i # k => mailbox'[i].ticket.slot # mailbox'[k].ticket.slot
    BY <1>10, <1>13 DEF IInv, Safe, OneFill
  <2>2. \A i \in DOMAIN jobs', k \in FillMail' : jobs'[i].slot # mailbox'[k].ticket.slot
    BY <1>1, <1>10, <1>13 DEF IInv, Safe, OneFill
  <2>3. \A v \in Busy', k \in FillMail' : worker'[v].ticket.slot # mailbox'[k].ticket.slot
    BY <1>7, <1>10, <1>13 DEF IInv, Safe, OneFill, Busy
  <2>4. /\ \A i, k \in DOMAIN jobs' : i # k => jobs'[i].slot # jobs'[k].slot
        /\ \A u, v \in Busy' : u # v => worker'[u].ticket.slot # worker'[v].ticket.slot
        /\ \A i \in DOMAIN jobs', v \in Busy' : jobs'[i].slot # worker'[v].ticket.slot
    BY <1>1, <1>7 DEF IInv, Safe, OneFill, Busy
  <2> QED
    BY <2>1, <2>2, <2>3, <2>4 DEF OneFill
<1>16. Reading'
  BY <1>1, <1>3, <1>4 DEF IInv, Safe, Reading
<1>17. Reports'
  <2>1. \A i \in ReaderMail' : i \in ReaderMail /\ mailbox'[i] = mailbox[i]
    BY <1>6, <1>9 DEF ReaderMail
  <2> QED
    BY <1>1, <1>4, <2>1 DEF IInv, Safe, Reports, FenceOf
<1>18. Between' /\ Stopped'
  BY <1>1, <1>4, <1>5 DEF IInv, Safe, Between, Stopped, Resting
<1> QED
  BY <1>4, <1>11, <1>12, <1>14, <1>15, <1>16, <1>17, <1>18 DEF IInv, Safe

LEMMA ReaderDoneStep ==
  ASSUME IInv, NEW r \in gpu, ReaderDone(r)
  PROVE  IInv'
<1>1. /\ gpu' = gpu \ {r} /\ UNCHANGED <<ownerVars, pools, ioVars, cancel>>
  BY DEF ReaderDone
<1>2. TypeOK
  BY DEF IInv
<1>3. UNCHANGED <<live, drained, active, backing, jobs, worker, io>>
  BY <1>1 DEF pools, ioVars
<1>4. /\ Segment' /\ Pools'
      /\ UNCHANGED <<slot, poisoned, pc, seg, next, dispatch, outgoing, carry, progress, layout,
                     passes, failure, closing, released>>
  BY <1>1, <1>3, OwnerRests
<1>5. PICK ok \in BOOLEAN : MailboxPost([kind |-> "reader", ticket |-> r.ticket, ok |-> ok,
                                         bytes |-> 0, fence |-> FenceOf(r)])
  BY DEF ReaderDone
<1> DEFINE record == [kind |-> "reader", ticket |-> r.ticket, ok |-> ok, bytes |-> 0,
                      fence |-> FenceOf(r)]
<1>6. \A q \in gpu : q \in ReaderRecord /\ FenceOf(q) \in AnyFence
  <2>1. \A q \in gpu : q \in ReaderRecord
    BY <1>2, Types
  <2> QED
    BY <2>1 DEF ReaderRecord, AnyTicket, FenceOf, AnyFence
<1>7. /\ record \in MailRecord /\ record.kind = "reader" /\ record.ticket = r.ticket
      /\ record.fence = FenceOf(r)
  BY <1>6 DEF MailRecord, ReaderRecord
<1> HIDE DEF record
<1>8. mailbox' \in Seq(MailRecord) /\ overflow' \in BOOLEAN
  BY <1>2, <1>5, <1>7, Posted DEF record
<1>9. PICK n : /\ n \notin DOMAIN mailbox /\ DOMAIN mailbox' \subseteq DOMAIN mailbox \cup {n}
               /\ \A i \in DOMAIN mailbox : i \in DOMAIN mailbox' /\ mailbox'[i] = mailbox[i]
               /\ n \in DOMAIN mailbox' => mailbox'[n] = record
  BY <1>2, <1>5, <1>7, Posted DEF record
<1>10. /\ \A i \in FillMail' : i \in FillMail /\ mailbox'[i] = mailbox[i]
       /\ \A i \in ReaderMail' : \/ i \in ReaderMail /\ mailbox'[i] = mailbox[i]
                                 \/ mailbox'[i].ticket = r.ticket /\ mailbox'[i].fence = FenceOf(r)
  BY <1>7, <1>9 DEF FillMail, ReaderMail
<1>11. TypeOK'
  <2>1. gpu' \subseteq ReaderRecord
    BY <1>1, <1>6
  <2>2. {poisoned', overflow', progress', released', cancel'} \subseteq BOOLEAN
    BY <1>1, <1>2, <1>4, <1>8, Types
  <2> QED
    BY <1>1, <1>2, <1>3, <1>4, <1>8, <2>1, <2>2, Zenon DEF TypeOK, Pool
<1>12. Cells'
  BY <1>3, <1>4 DEF IInv, Safe, Cells
<1>13. Fills'
  BY <1>3, <1>4, <1>10 DEF IInv, Safe, Fills, Pending, Busy
<1>14. OneFill'
  BY <1>3, <1>10 DEF IInv, Safe, OneFill, Busy
<1>15. Reading'
  BY <1>1, <1>3, <1>4 DEF IInv, Safe, Reading
<1>16. Reports'
  <2> SUFFICES ASSUME pc \in Loop PROVE Reports'
    BY <1>4 DEF Reports
  <2>1. ASSUME NEW q \in gpu', NEW i \in ReaderMail', mailbox'[i].ticket = q.ticket
        PROVE  mailbox'[i].fence # FenceOf(q)
    <3>1. CASE i \in ReaderMail /\ mailbox'[i] = mailbox[i]
      BY <1>1, <2>1, <3>1 DEF IInv, Safe, Reports
    <3>2. CASE mailbox'[i].ticket = r.ticket /\ mailbox'[i].fence = FenceOf(r)
      <4>1. q \in gpu /\ q # r /\ q.ticket = r.ticket
        BY <1>1, <2>1, <3>2
      <4>2. q.item = r.item
        BY <4>1 DEF IInv, Safe, Reading
      <4>3. q.queue # r.queue
        BY <1>6, <4>1, <4>2 DEF ReaderRecord
      <4> QED
        BY <3>2, <4>3 DEF FenceOf
    <3> QED
      BY <1>10, <3>1, <3>2
  <2>2. ASSUME NEW i \in ReaderMail'
        PROVE  LET u == mailbox'[i].ticket.slot IN
               /\ u \in SlotsIn(layout) /\ mailbox'[i].ticket.generation <= slot[u].generation
               /\ mailbox'[i].ticket = slot[u].ticket => slot[u].state \notin Filled
    <3>1. CASE i \in ReaderMail /\ mailbox'[i] = mailbox[i]
      BY <3>1 DEF IInv, Safe, Reports
    <3>2. CASE mailbox'[i].ticket = r.ticket
      <4>1. /\ r.ticket.slot \in SlotsIn(layout) /\ slot[r.ticket.slot].ticket = r.ticket
            /\ slot[r.ticket.slot].state = "AwaitingFence"
        BY DEF IInv, Safe, Reading, Reports
      <4>2. r.ticket.generation = slot[r.ticket.slot].generation
        BY <4>1 DEF IInv, Safe, Cells
      <4>3. r.ticket.generation \in Nat
        BY <1>6 DEF ReaderRecord, AnyTicket
      <4> QED
        BY <3>2, <4>1, <4>2, <4>3 DEF Filled
    <3> QED
      BY <1>10, <3>1, <3>2
  <2>3. \A q \in gpu' :
          /\ slot[q.ticket.slot].state = "AwaitingFence"
          /\ FenceOf(q) \in slot[q.ticket.slot].readers \ slot[q.ticket.slot].complete
          /\ pc = "retire" => q.ticket.slot # SlotAt(layout, passes, next - 1)
    BY <1>1 DEF IInv, Safe, Reports
  <2> QED
    BY <1>4, <2>1, <2>2, <2>3 DEF Reports, FenceOf
<1>17. Between' /\ Stopped'
  BY <1>1, <1>3, <1>4 DEF IInv, Safe, Between, Stopped, Busy, AllExited
<1> QED
  BY <1>4, <1>11, <1>12, <1>13, <1>14, <1>15, <1>16, <1>17 DEF IInv, Safe

-----------------------------------------------------------------------------
(* The invariant and what it says.                                         *)

LEMMA StutterStep == IInv /\ UNCHANGED vars => IInv'
<1> SUFFICES ASSUME IInv, UNCHANGED vars PROVE IInv'
  OBVIOUS
<1>1. UNCHANGED <<layout, slot, poisoned, live, drained, active, backing, jobs, worker, io, mailbox,
                  overflow, gpu, pc, seg, next, dispatch, outgoing, carry, progress, passes, failure,
                  closing, released, cancel>>
  BY DEF vars, tracker, pools, ioVars, mail, loop, life
<1>2. TypeOK'
  <2>1. TypeOK
    BY DEF IInv
  <2> QED
    BY <1>1, <2>1, Zenon DEF TypeOK, Pool
<1>3. /\ pc \in {"overlap", "encode"} =>
           next < dispatch /\ slot[SlotAt(layout, passes, next)].state = "InUse"
      /\ pc \in {"settle", "destroy"} => gpu = {}
      /\ pc \in {"device", "quarantined"} => live # {}
      /\ pc \in Late => io = "none" \/ AllExited
  BY DEF IInv, Safe, Segment, Reading, Pools, Stopped, Loop
<1> QED
  BY <1>1, <1>2, <1>3, Move

LEMMA NextIInv == IInv /\ [Next]_vars => IInv'
<1> SUFFICES ASSUME IInv, [Next]_vars PROVE IInv'
  OBVIOUS
<1>1. CASE Begin \/ Settle \/ Destroy \/ BeginSegment
  BY <1>1, BeginStep, SettleStep, DestroyStep, BeginSegmentStep
<1>2. CASE Consume \/ Dispatch \/ CarryFill \/ Claim \/ OverlapFill \/ Encode \/ Retire
  BY <1>2, ConsumeStep, DispatchStep, CarryStep, ClaimStep, OverlapStep, EncodeStep, RetireStep
<1>3. CASE \/ RunPass \/ Poll \/ ConsumeEnd \/ Check \/ Drain \/ PassEnd \/ Finish \/ FinishJoin
           \/ Finalize \/ Abandon \/ Stop \/ JoinWorkers \/ DrainDevice \/ RetryDrain
           \/ RequestCancel
  BY <1>3, OwnerMoves
<1>4. CASE ReleaseBacking
  BY <1>4, ReleaseStep
<1>5. CASE \E w \in Worker : WorkerStep(w)
  <2>1. PICK w \in Worker : WorkerStep(w)
    BY <1>5
  <2> QED
    BY <2>1, TakeJobStep, FillEndsStep, PostFillStep, WorkerExitsStep DEF WorkerStep
<1>6. CASE \E r \in gpu : ReaderDone(r)
  BY <1>6, ReaderDoneStep
<1>7. CASE UNCHANGED vars
  BY <1>7, StutterStep
<1> QED
  BY <1>1, <1>2, <1>3, <1>4, <1>5, <1>6, <1>7 DEF Next, Driver

(* IInv holds of every layout, of any number of slots, passes, workers and *)
(* queues, whatever fails: in every state the slots of the active segment  *)
(* hold the groups the loop of run_pass() counts on                        *)
(* (context.cpp:326-441).                                                  *)
THEOREM Invariant == Spec => []IInv
BY InitIInv, NextIInv, PTL DEF Spec

(* All records stay of their types (context.cpp:20-209, slot_pool.cpp).    *)
THEOREM TypeCorrect == Spec => []TypeOK
<1>1. IInv => TypeOK
  BY DEF IInv
<1> QED
  BY <1>1, Invariant, PTL

(* The weights that the GPU reads are those of the group it was asked to   *)
(* run, whole, until its last reader completes: no refill, carried fill,   *)
(* overlapped fill or pool switch gets in between (context.cpp:329-427).   *)
THEOREM GroupsAreRead == Spec => []ReadersSeeTheirGroup
<1>1. IInv => ReadersSeeTheirGroup
  BY DEF IInv, Safe, Reading, Cells, ReadersSeeTheirGroup
<1> QED
  BY <1>1, Invariant, PTL

(* No pool is destroyed - at a pool switch, a release, a finish, a failure *)
(* or in the destructor - while a fill writes one of its slots or the GPU  *)
(* may still read one (context.cpp:35-79, :183-209, :477-492).             *)
THEOREM MemoryIsKept == Spec => []MemoryOutlivesUsers
<1>1. ASSUME IInv, NEW w \in Worker, worker[w].state = "filling"
      PROVE  worker[w].ticket.slot[1] \in live
  <2>1. w \in Busy
    BY <1>1 DEF Busy
  <2>2. Pending(worker[w].ticket)
    BY <1>1, <2>1, WorkersRun
  <2> QED
    BY <2>2 DEF Pending
<1>2. IInv => \A r \in gpu : r.ticket.slot[1] \in live
  BY DEF IInv, Safe, Reading
<1>3. IInv => MemoryOutlivesUsers
  BY <1>1, <1>2 DEF MemoryOutlivesUsers, Users
<1> QED
  BY <1>3, Invariant, PTL

(* Control returns from finish(), a failure or the destructor only when no *)
(* worker is left and either all memory is freed and no reader is          *)
(* outstanding, or the memory is quarantined (context.cpp:63-79, :452-467). *)
THEOREM ReturnIsSafe == Spec => []SafeReturn
<1>1. IInv => SafeReturn
  BY DEF IInv, Safe, Pools, Reading, Stopped, SafeReturn, Final, Late
<1> QED
  BY <1>1, Invariant, PTL

-----------------------------------------------------------------------------
(* No check of the executor's own bookkeeping fails.                       *)

Working == Loop \cup {"idle", "segment", "pass_end"}

(* Nothing has failed while the executor works, and its workers are there. *)
Healthy ==
  /\ NoInternalError
  /\ pc \in Loop \cup Resting => failure = "none"
  /\ pc \in Working => io = "running"
  /\ pc \in Working \ {"idle"} => passes < layout.passes
  /\ pc = "begin" => passes = 0

(* The record of a reader is of the content its slot has ...               *)
ReadBy(t, f) ==
  /\ t.slot \in SlotsIn(layout) /\ t.slot[1] \in live
  /\ slot[t.slot].ticket = t /\ slot[t.slot].state \in {"InUse", "AwaitingFence"}
  /\ f \in [queue : ReaderQueues, sequence : {t.generation}]

(* ... and closes one of its open fences.                                  *)
Closes(t, f) ==
  /\ slot[t.slot].state = "AwaitingFence"
  /\ f \in slot[t.slot].readers \ slot[t.slot].complete
  /\ pc = "retire" => t.slot # SlotAt(layout, passes, next - 1)

Records ==
  /\ pc \notin Final => \A i \in ReaderMail : ReadBy(mailbox[i].ticket, mailbox[i].fence)
  /\ pc \in Loop => \A i \in ReaderMail : Closes(mailbox[i].ticket, mailbox[i].fence)

(* A reader reports once.                                                  *)
OneReport ==
  /\ \A r \in gpu : r.queue \in ReaderQueues
  /\ \A i, k \in ReaderMail : i # k /\ mailbox[i].ticket.slot = mailbox[k].ticket.slot =>
       mailbox[i].fence.queue # mailbox[k].fence.queue
  /\ \A i \in ReaderMail, r \in gpu : mailbox[i].ticket.slot = r.ticket.slot =>
       mailbox[i].fence.queue # r.queue

(* A fill reports all its bytes or none.                                   *)
Sizes ==
  /\ \A w \in Worker : worker[w].bytes \in {0, 1}
  /\ \A i \in FillMail : mailbox[i].bytes \in {0, 1}

(* No slot was filled more often than fills were begun.                    *)
CountOf(ticket) == IF ticket = NoTicket THEN 0 ELSE 1
Within(n) ==
  \A s \in SlotsIn(layout) : slot[s].generation <= passes * Len(layout.pools) + n

Numbers ==
  /\ \A s \in SlotsIn(layout) : slot[s].state # "Vacant" => slot[s].generation # 0
  /\ pc = "begin" => Within(0)
  /\ pc \in Loop => Within(dispatch - 1 + CountOf(outgoing))
  /\ pc = "idle" => Within(CountOf(carry))
  /\ pc = "segment" => Within(FirstOf(layout, seg) - 1 + CountOf(carry))
  /\ pc = "pass_end" => Within(Len(layout.pools) + CountOf(carry))

(* The carried fill is that of the first group of the next pass.           *)
CarriedFor(t, pass) ==
  /\ layout.carry
  /\ t.slot = SlotAt(layout, pass, 1) /\ t.item = <<pass, 1>> /\ slot[t.slot].ticket = t

Carries ==
  /\ pc \in Loop /\ outgoing # NoTicket =>
       /\ CarriedFor(outgoing, passes + 1)
       /\ slot[outgoing.slot].state \in {"Loading", "Ready"}
  /\ pc \in Loop => carry = NoTicket
  /\ pc \in {"idle", "segment", "pass_end"} /\ carry # NoTicket =>
       /\ CarriedFor(carry, IF pc = "pass_end" THEN passes + 1 ELSE passes)
       /\ slot[carry.slot].state = "Ready" /\ live = {1}

(* The owner drains only after the end of the segment.                     *)
Boundary ==
  pc \in {"drain", "settle"} =>
    /\ next > LastOf(layout, seg)
    /\ \A s \in SlotsIn(layout) : s[1] = seg =>
         \/ slot[s].state = "Vacant"
         \/ slot[s].state = "Ready" /\ outgoing # NoTicket /\ s = outgoing.slot
    /\ outgoing # NoTicket => slot[outgoing.slot].state = "Ready"

NSafe == Healthy /\ Records /\ OneReport /\ Sizes /\ Numbers /\ Carries /\ Boundary

-----------------------------------------------------------------------------
(* Counting.                                                               *)

LEMMA FiniteLargest ==
  ASSUME NEW S \in SUBSET Nat, IsFiniteSet(S), S # {}
  PROVE  \E n \in S : \A m \in S : m <= n
<1> DEFINE Bounded(T) == \E n \in T : \A m \in T : m <= n
           D == {k \in Nat : \E T \in SUBSET S : T # {} /\ Cardinality(T) = k /\ ~Bounded(T)}
<1>1. SUFFICES ASSUME ~Bounded(S) PROVE FALSE
  OBVIOUS
<1>2. D \in SUBSET Nat /\ Cardinality(S) \in D
  BY <1>1, FS_CardinalityType
<1>3. PICK k \in D : \A j \in D : k <= j
  BY <1>2, Least
<1>4. PICK T \in SUBSET S : T # {} /\ Cardinality(T) = k /\ ~Bounded(T)
  BY <1>3
<1>5. PICK x : x \in T
  BY <1>4
<1>6. IsFiniteSet(T) /\ x \in Nat /\ k \in Nat
  BY <1>3, <1>4, <1>5, FS_Subset
<1>7. Cardinality(T \ {x}) = k - 1 /\ Cardinality(T \ {x}) \in Nat
  <2>1. IsFiniteSet(T \ {x}) /\ Cardinality(T \ {x}) = Cardinality(T) - 1
    BY <1>5, <1>6, FS_RemoveElement
  <2> QED
    BY <1>4, <2>1, FS_CardinalityType
<1>8. CASE T \ {x} = {}
  BY <1>4, <1>5, <1>6, <1>8
<1>9. CASE T \ {x} # {}
  <2>1. Bounded(T \ {x})
    <3>1. SUFFICES ASSUME ~Bounded(T \ {x}) PROVE FALSE
      OBVIOUS
    <3>2. k - 1 \in D
      BY <1>7, <1>9, <3>1
    <3> QED
      BY <1>3, <1>6, <3>2
  <2>2. PICK n \in T \ {x} : \A m \in T \ {x} : m <= n
    BY <2>1
  <2>3. n \in Nat /\ \A m \in T : m \in Nat
    BY <2>2
  <2>4. Bounded(T)
    <3>1. CASE n <= x
      BY <1>5, <1>6, <2>2, <2>3, <3>1
    <3>2. CASE x <= n
      BY <1>5, <1>6, <2>2, <2>3, <3>2
    <3> QED
      BY <1>6, <2>3, <3>1, <3>2
  <2> QED
    BY <1>4, <2>4
<1> QED
  BY <1>8, <1>9

LEMMA LargestIs ==
  ASSUME NEW S \in SUBSET Nat, IsFiniteSet(S), S # {}
  PROVE  Largest(S) \in Nat /\ \A n \in S : n <= Largest(S)
<1>1. \E n \in S : \A m \in S : m <= n
  BY FiniteLargest
<1> QED
  BY <1>1 DEF Largest

(* Fewer fills are begun than generations can be counted.                  *)
LEMMA EnoughGenerations ==
  ASSUME NEW l \in Layouts, NEW pass \in Nat, pass < l.passes
  PROVE  /\ pass * Len(l.pools) \in Nat /\ Len(l.pools) \in Nat /\ MaxFills \in Nat
         /\ (pass + 1) * Len(l.pools) = pass * Len(l.pools) + Len(l.pools)
         /\ pass * Len(l.pools) + Len(l.pools) <= MaxFills
         /\ pass + 1 < l.passes => pass * Len(l.pools) + Len(l.pools) + Len(l.pools) <= MaxFills
<1> DEFINE n == Len(l.pools)
           S == {Len(k.pools) : k \in Layouts}
           T == {k.passes : k \in Layouts}
<1>1. \A k \in Layouts : Len(k.pools) \in Nat /\ k.passes \in Nat
  <2>1. \A k \in Layouts : k.pools \in Seq(Nat) /\ k.passes \in Nat
    BY LayoutAssumption DEF LayoutAssumption
  <2> QED
    BY <2>1, LenProperties
<1>2. S \in SUBSET Nat /\ T \in SUBSET Nat /\ n \in S /\ l.passes \in T
  BY <1>1
<1>3. IsFiniteSet(Layouts)
  BY LayoutAssumption DEF LayoutAssumption
<1>4. IsFiniteSet(S)
  <2> DEFINE f == [k \in Layouts |-> Len(k.pools)]
  <2>1. f \in Surjection(Layouts, S)
    BY DEF Surjection
  <2> QED
    BY <1>3, <2>1, FS_Surjection
<1>5. IsFiniteSet(T)
  <2> DEFINE f == [k \in Layouts |-> k.passes]
  <2>1. f \in Surjection(Layouts, T)
    BY DEF Surjection
  <2> QED
    BY <1>3, <2>1, FS_Surjection
<1>6. MaxGroups \in Nat /\ n <= MaxGroups
  BY <1>2, <1>4, LargestIs DEF MaxGroups
<1>7. MaxPasses \in Nat /\ l.passes <= MaxPasses
  BY <1>2, <1>5, LargestIs DEF MaxPasses
<1>8. n \in Nat /\ l.passes \in Nat
  BY <1>1
<1> HIDE DEF S, T, n
<1>9. \A a, b, c, d \in Nat : a <= b /\ c <= d => a * c <= b * d
  OBVIOUS
<1>10. l.passes * n <= MaxFills /\ MaxFills \in Nat
  BY <1>6, <1>7, <1>8, <1>9 DEF MaxFills
<1>11. pass * n \in Nat /\ (pass + 1) * n = pass * n + n /\ (pass + 2) * n = pass * n + n + n
  BY <1>8
<1>12. (pass + 1) * n <= l.passes * n
  BY <1>8, <1>9
<1>13. pass + 1 < l.passes => (pass + 2) * n <= l.passes * n
  <2>1. pass + 1 < l.passes => pass + 2 <= l.passes
    BY <1>8
  <2> QED
    BY <1>8, <1>9, <2>1
<1>14. l.passes * n \in Nat /\ (pass + 1) * n \in Nat /\ (pass + 2) * n \in Nat
  BY <1>8
<1>15. \A a, b, c \in Nat : a <= b /\ b <= c => a <= c
  OBVIOUS
<1>16. (pass + 1) * n <= MaxFills
  BY <1>10, <1>12, <1>14, <1>15
<1>17. pass + 1 < l.passes => (pass + 2) * n <= MaxFills
  BY <1>10, <1>13, <1>14, <1>15
<1>18. /\ pass * n + n <= MaxFills
       /\ pass + 1 < l.passes => pass * n + n + n <= MaxFills
  BY <1>11, <1>16, <1>17
<1> QED
  BY <1>8, <1>10, <1>11, <1>18 DEF n

(* Pools follow one another.                                               *)
LEMMA PoolOrder ==
  ASSUME NEW l \in Layouts, NEW p \in PoolsOf(l)
  PROVE  /\ LastOf(l, p) \in Nat /\ FirstOf(l, p) \in Nat /\ FirstOf(l, p) >= 1
         /\ LastOf(l, p) <= Len(l.pools)
         /\ p + 1 \in PoolsOf(l) => LastOf(l, p) + 1 <= FirstOf(l, p + 1)
<1>1. /\ FirstOf(l, p) \in DOMAIN l.pools /\ LastOf(l, p) \in DOMAIN l.pools
      /\ l.pools[FirstOf(l, p)] = p /\ FirstOf(l, p) <= LastOf(l, p)
      /\ DOMAIN l.pools = 1 .. Len(l.pools) /\ Len(l.pools) \in Nat
      /\ l.pools[LastOf(l, p)] = p
  BY PoolGroups
<1>2. p + 1 \in PoolsOf(l) => FirstOf(l, p + 1) \in DOMAIN l.pools /\ l.pools[FirstOf(l, p + 1)] = p + 1
  BY PoolGroups
<1>3. \A g, h \in DOMAIN l.pools : g <= h => l.pools[g] <= l.pools[h]
  BY LayoutAssumption DEF LayoutAssumption
<1>4. p \in Nat
  BY PoolNumbers
<1>5. p + 1 \in PoolsOf(l) => ~(FirstOf(l, p + 1) <= LastOf(l, p))
  BY <1>1, <1>2, <1>3, <1>4
<1> QED
  BY <1>1, <1>2, <1>5

LEMMA RingSize ==
  ASSUME NEW S, NEW ring \in Seq(S)
  PROVE  Cardinality(DOMAIN ring) = Len(ring) /\ Len(ring) \in Nat
<1>1. Len(ring) \in Nat /\ DOMAIN ring = 1 .. Len(ring)
  BY LenProperties
<1>2. 1 \in Int /\ Len(ring) \in Int
  BY <1>1
<1>3. Cardinality(1 .. Len(ring)) = IF 1 > Len(ring) THEN 0 ELSE Len(ring) - 1 + 1
  BY <1>2, FS_Interval
<1> QED
  BY <1>1, <1>3

LEMMA TwoInjections ==
  ASSUME NEW A, NEW B, NEW T, IsFiniteSet(T), NEW f \in Injection(A, T), NEW g \in Injection(B, T),
         \A a \in A, b \in B : f[a] # g[b]
  PROVE  /\ IsFiniteSet(A) /\ IsFiniteSet(B) /\ Cardinality(A) \in Nat /\ Cardinality(B) \in Nat
         /\ Cardinality(A) + Cardinality(B) <= Cardinality(T)
<1> DEFINE X == {f[a] : a \in A}
           Y == {g[b] : b \in B}
<1>1. IsFiniteSet(A) /\ IsFiniteSet(B)
  BY FS_Injection
<1>2. /\ f \in [A -> T] /\ g \in [B -> T]
      /\ \A a, b \in A : f[a] = f[b] => a = b
      /\ \A a, b \in B : g[a] = g[b] => a = b
  BY DEF Injection, IsInjective
<1>3. f \in Bijection(A, X) /\ g \in Bijection(B, Y)
  <2>1. f \in [A -> X] /\ g \in [B -> Y]
    BY <1>2
  <2> QED
    BY <1>2, <2>1 DEF Bijection, Injection, IsInjective, Surjection
<1>4. X \in SUBSET T /\ Y \in SUBSET T /\ X \cap Y = {}
  BY <1>2
<1>5. /\ IsFiniteSet(X) /\ Cardinality(X) = Cardinality(A)
      /\ IsFiniteSet(Y) /\ Cardinality(Y) = Cardinality(B)
  BY <1>1, <1>3, FS_Bijection DEF ExistsBijection
<1> HIDE DEF X, Y
<1>6. Cardinality(X \cup Y) = Cardinality(X) + Cardinality(Y) - Cardinality(X \cap Y)
  BY <1>5, FS_Union
<1>7. Cardinality(X \cap Y) = 0
  BY <1>4, FS_EmptySet
<1>8. Cardinality(X \cup Y) <= Cardinality(T)
  <2>1. X \cup Y \in SUBSET T
    BY <1>4
  <2> QED
    BY <2>1, FS_Subset
<1>9. Cardinality(A) \in Nat /\ Cardinality(B) \in Nat /\ Cardinality(T) \in Nat
  BY <1>1, FS_CardinalityType
<1> QED
  BY <1>1, <1>5, <1>6, <1>7, <1>8, <1>9

LEMMA PoolSlots ==
  ASSUME NEW l \in Layouts, NEW p \in PoolsOf(l)
  PROVE  LET S == {s \in SlotsIn(l) : s[1] = p} IN
         IsFiniteSet(S) /\ Cardinality(S) = l.slots
<1> DEFINE S == {s \in SlotsIn(l) : s[1] = p}
           n == l.slots - 1
<1>1. l.slots \in Nat \ {0}
  BY PoolNumbers
<1>2. S = {p} \X (0 .. n)
  BY DEF SlotsIn
<1>3. IsFiniteSet({p}) /\ Cardinality({p}) = 1
  BY FS_Singleton
<1>4. IsFiniteSet(0 .. n) /\ Cardinality(0 .. n) = l.slots
  <2>1. 0 \in Int /\ n \in Int
    BY <1>1
  <2>2. IsFiniteSet(0 .. n) /\ Cardinality(0 .. n) = IF 0 > n THEN 0 ELSE n - 0 + 1
    BY <2>1, FS_Interval
  <2> QED
    BY <1>1, <2>2
<1> HIDE DEF n, S
<1>5. IsFiniteSet(S) /\ Cardinality(S) = Cardinality({p}) * Cardinality(0 .. n)
  BY <1>2, <1>3, <1>4, FS_Product
<1>6. Cardinality(S) = l.slots
  BY <1>1, <1>3, <1>4, <1>5
<1> QED
  BY <1>5, <1>6 DEF S

(* Only the active pool has slots at work.                                 *)
LEMMA AtWork ==
  ASSUME IInv, NEW s \in SlotsIn(layout), s[1] \in live,
         slot[s].state \in {"Loading", "InUse", "AwaitingFence"}
  PROVE  s[1] = active /\ active \in PoolsOf(layout)
<1>1. s[1] \in live \cap drained \/ s[1] = active
  BY DEF IInv, Safe, Pools
<1>2. s[1] \in PoolsOf(layout)
  BY Types, SlotsOfLayout DEF IInv
<1> QED
  BY <1>1, <1>2 DEF IInv, Safe, Pools

(* A slot that is vacant leaves a credit for its fill.                     *)
LEMMA CreditLeft ==
  ASSUME IInv, pc \in Loop, NEW s \in SlotsIn(layout), s[1] = seg, slot[s].state = "Vacant"
  PROVE  HasCredit
<1> DEFINE S == {u \in SlotsIn(layout) : u[1] = seg}
           F == {w \in Worker : worker[w].state = "filling"}
           f == [i \in DOMAIN jobs |-> jobs[i].slot]
           g == [w \in F |-> worker[w].ticket.slot]
<1>1. TypeOK /\ layout \in Layouts /\ seg \in PoolsOf(layout)
  BY Types DEF IInv
<1>2. IsFiniteSet(S) /\ Cardinality(S) = layout.slots
  BY <1>1, PoolSlots
<1>3. layout.slots \in Nat \ {0}
  BY <1>1, PoolNumbers
<1>4. IsFiniteSet(S \ {s}) /\ Cardinality(S \ {s}) = layout.slots - 1
  BY <1>2, FS_RemoveElement
<1>5. ASSUME NEW t, Pending(t)
      PROVE  t.slot \in S \ {s}
  <2>1. t.slot \in SlotsIn(layout) /\ t.slot[1] \in live /\ slot[t.slot].state = "Loading"
    BY <1>5 DEF Pending
  <2>2. t.slot[1] = active
    BY <2>1, AtWork
  <2> QED
    BY <2>1, <2>2 DEF IInv, Safe, Segment
<1>6. F \subseteq Busy
  BY DEF Busy
<1>7. pc \notin Final
  BY DEF Loop, Final
<1>8. /\ \A i \in DOMAIN jobs : Pending(jobs[i])
      /\ \A w \in F : Pending(worker[w].ticket)
  BY <1>6, <1>7 DEF IInv, Safe, Fills
<1> HIDE DEF S, F
<1>9. f \in Injection(DOMAIN jobs, S \ {s})
  <2>1. \A i \in DOMAIN jobs : jobs[i].slot \in S \ {s}
    BY <1>5, <1>8
  <2> QED
    BY <2>1 DEF Injection, IsInjective, IInv, Safe, OneFill
<1>10. g \in Injection(F, S \ {s})
  <2>1. \A w \in F : worker[w].ticket.slot \in S \ {s}
    BY <1>5, <1>8
  <2> QED
    BY <1>6, <2>1 DEF Injection, IsInjective, IInv, Safe, OneFill
<1>11. \A i \in DOMAIN jobs, w \in F : f[i] # g[w]
  BY <1>6 DEF IInv, Safe, OneFill
<1> HIDE DEF f, g
<1>12. /\ Cardinality(DOMAIN jobs) \in Nat /\ Cardinality(F) \in Nat
       /\ Cardinality(DOMAIN jobs) + Cardinality(F) <= layout.slots - 1
  <2>1. /\ Cardinality(DOMAIN jobs) \in Nat /\ Cardinality(F) \in Nat
        /\ Cardinality(DOMAIN jobs) + Cardinality(F) <= Cardinality(S \ {s})
    <3> DEFINE A == DOMAIN jobs
               T == S \ {s}
    <3>1. /\ IsFiniteSet(T) /\ f \in Injection(A, T) /\ g \in Injection(F, T)
          /\ \A i \in A, w \in F : f[i] # g[w]
      BY <1>4, <1>9, <1>10, <1>11
    <3> HIDE DEF A, T
    <3>2. /\ Cardinality(A) \in Nat /\ Cardinality(F) \in Nat
          /\ Cardinality(A) + Cardinality(F) <= Cardinality(T)
      BY <3>1, TwoInjections
    <3> QED
      BY <3>2 DEF A, T
  <2> QED
    BY <1>4, <2>1
<1>13. Cardinality(DOMAIN jobs) = Len(jobs)
  BY <1>1, RingSize DEF TypeOK
<1> QED
  BY <1>3, <1>12, <1>13 DEF HasCredit, SlotCount, F

(* The mailbox has room for whoever has not posted yet.                    *)
LEMMA RoomInMailbox ==
  ASSUME IInv, Records, OneReport, pc \notin Final, NEW s \in SlotsIn(layout), s[1] = active,
         NEW q \in {0} \cup ReaderQueues,
         \A i \in FillMail : q = 0 => mailbox[i].ticket.slot # s,
         \A i \in ReaderMail : mailbox[i].ticket.slot = s => mailbox[i].fence.queue # q
  PROVE  Len(mailbox) < MailboxCapacity
<1> DEFINE S == {u \in SlotsIn(layout) : u[1] = active}
           Q == {0} \cup ReaderQueues
           M == DOMAIN mailbox
           key == [i \in M |-> <<mailbox[i].ticket.slot,
                                 IF i \in FillMail THEN 0 ELSE mailbox[i].fence.queue>>]
<1>1. TypeOK /\ layout \in Layouts /\ active \in PoolsOf(layout)
  BY Types, SlotsOfLayout DEF IInv
<1>2. IsFiniteSet(S) /\ Cardinality(S) = layout.slots /\ layout.slots \in Nat \ {0}
  BY <1>1, PoolSlots, PoolNumbers
<1>3. /\ IsFiniteSet(ReaderQueues) /\ 0 \notin ReaderQueues
      /\ Cardinality(ReaderQueues) \in 1 .. MaxReaders
  BY LayoutAssumption DEF LayoutAssumption
<1>4. IsFiniteSet(Q) /\ Cardinality(Q) = Cardinality(ReaderQueues) + 1
  <2>1. Q = ReaderQueues \cup {0}
    OBVIOUS
  <2> QED
    BY <1>3, <2>1, FS_AddElement
<1>5. M = FillMail \cup ReaderMail /\ FillMail \cap ReaderMail = {}
  <2>1. mailbox \in Seq(MailRecord)
    BY <1>1 DEF TypeOK
  <2>2. \A i \in M : mailbox[i] \in MailRecord
    BY <2>1, ElementOfSeq, LenProperties
  <2>3. \A i \in M : mailbox[i].kind \in {"fill", "reader"}
    BY <2>2 DEF MailRecord
  <2> QED
    BY <2>3 DEF FillMail, ReaderMail
<1>6. ASSUME NEW i \in FillMail
      PROVE  mailbox[i].ticket.slot \in S
  <2>1. Pending(mailbox[i].ticket)
    BY DEF IInv, Safe, Fills
  <2> QED
    BY <2>1, AtWork DEF Pending
<1>7. ASSUME NEW i \in ReaderMail
      PROVE  mailbox[i].ticket.slot \in S /\ mailbox[i].fence.queue \in ReaderQueues
  <2>1. ReadBy(mailbox[i].ticket, mailbox[i].fence)
    BY DEF Records
  <2> QED
    BY <2>1, AtWork DEF ReadBy
<1> HIDE DEF S, Q
<1>8. key \in [M -> (S \X Q) \ {<<s, q>>}]
  <2>1. ASSUME NEW i \in M
        PROVE  key[i] \in (S \X Q) \ {<<s, q>>}
    <3>1. CASE i \in FillMail
      BY <1>6, <3>1 DEF Q
    <3>2. CASE i \in ReaderMail
      <4>1. i \notin FillMail
        BY <1>5, <3>2
      <4> QED
        BY <1>7, <3>2, <4>1 DEF Q
    <3> QED
      BY <1>5, <3>1, <3>2
  <2> QED
    BY <2>1
<1>9. \A i, k \in M : key[i] = key[k] => i = k
  <2>1. ASSUME NEW i \in M, NEW k \in M, i # k
        PROVE  key[i] # key[k]
    <3>1. CASE i \in FillMail /\ k \in FillMail
      BY <2>1, <3>1 DEF IInv, Safe, OneFill
    <3>2. CASE i \in ReaderMail /\ k \in ReaderMail
      BY <1>5, <2>1, <3>2 DEF OneReport
    <3>3. CASE i \in FillMail /\ k \in ReaderMail
      BY <1>3, <1>5, <1>7, <3>3
    <3>4. CASE i \in ReaderMail /\ k \in FillMail
      BY <1>3, <1>5, <1>7, <3>4
    <3> QED
      BY <1>5, <3>1, <3>2, <3>3, <3>4
  <2> QED
    BY <2>1
<1>10. key \in Injection(M, (S \X Q) \ {<<s, q>>})
  BY <1>8, <1>9 DEF Injection, IsInjective
<1> HIDE DEF key, M
<1>11. IsFiniteSet(S \X Q) /\ Cardinality(S \X Q) = layout.slots * (Cardinality(ReaderQueues) + 1)
  BY <1>2, <1>4, FS_Product
<1>12. s \in S /\ q \in Q /\ <<s, q>> \in S \X Q
  BY DEF S, Q
<1>13. /\ IsFiniteSet((S \X Q) \ {<<s, q>>})
       /\ Cardinality((S \X Q) \ {<<s, q>>}) = layout.slots * (Cardinality(ReaderQueues) + 1) - 1
  BY <1>11, <1>12, FS_RemoveElement
<1>14. Cardinality(M) <= layout.slots * (Cardinality(ReaderQueues) + 1) - 1
  BY <1>10, <1>13, FS_Injection
<1>15. Cardinality(M) = Len(mailbox) /\ Len(mailbox) \in Nat
  BY <1>1, RingSize DEF TypeOK, M
<1>16. \A a, b, c \in Nat : b <= c => a * (b + 1) <= a * (1 + c)
  OBVIOUS
<1>17. MaxReaders \in Nat
  BY LayoutAssumption, <1>3 DEF LayoutAssumption
<1>18. layout.slots * (Cardinality(ReaderQueues) + 1) <= layout.slots * (1 + MaxReaders)
  BY <1>2, <1>3, <1>16, <1>17
<1>19. /\ layout.slots * (Cardinality(ReaderQueues) + 1) \in Nat
       /\ layout.slots * (1 + MaxReaders) \in Nat
  BY <1>2, <1>3, <1>17
<1>20. \A a, b, c \in Nat : a <= b - 1 /\ b <= c => a < c
  OBVIOUS
<1> QED
  BY <1>14, <1>15, <1>18, <1>19, <1>20 DEF MailboxCapacity, SlotCount

-----------------------------------------------------------------------------
(* Steps that move the owner only.                                         *)

LEMMA Carefree ==
  ASSUME Healthy, UNCHANGED <<poisoned, overflow, layout, failure>>,
         pc' \in Loop \cup Resting => pc \in Loop \cup Resting,
         pc' \in Working => io' = "running",
         pc' \in Working \ {"idle"} => passes' < layout.passes,
         pc' = "begin" => passes' = 0
  PROVE  Healthy'
BY DEF Healthy, NoInternalError

(* A failure the executor's own bookkeeping is not to blame for.           *)
LEMMA HonestFailure ==
  ASSUME Healthy, pc \in Loop \cup Resting, NEW why, Fail(why), why \notin InternalError,
         overflow' = overflow, poisoned' = poisoned \/ why = "short"
  PROVE  Healthy'
<1>1. failure = "none" /\ failure' = why /\ pc' = "stop"
  BY DEF Healthy, Fail
<1> QED
  BY <1>1 DEF Healthy, NoInternalError, Working, Loop, Resting

LEMMA AtPlace ==
  ASSUME NSafe, pc \in Loop
  PROVE  /\ failure = "none" /\ ~poisoned /\ ~overflow /\ io = "running"
         /\ passes < layout.passes /\ carry = NoTicket
         /\ pc \in Loop \cup Resting /\ pc \in Working
BY DEF NSafe, Healthy, NoInternalError, Working, Loop, Carries

(* What remains in the mailbox was there before.                           *)
LEMMA MailKept ==
  ASSUME TypeOK, mailbox' = mailbox \/ (mailbox # <<>> /\ mailbox' = Tail(mailbox))
  PROVE  /\ \A i \in ReaderMail' : \E k \in ReaderMail :
              mailbox'[i] = mailbox[k] /\ (mailbox' # mailbox => k # 1)
         /\ Sizes /\ worker' = worker => Sizes'
         /\ OneReport /\ gpu' \subseteq gpu => OneReport'
<1>1. PICK c \in {0, 1} :
        /\ \A i \in DOMAIN mailbox' : /\ i + c \in DOMAIN mailbox /\ mailbox'[i] = mailbox[i + c]
                                      /\ i \in Nat
                                      /\ c = 1 => i + c # 1
        /\ c = 0 => mailbox' = mailbox
        /\ DOMAIN mailbox \subseteq Nat
  BY MailShift
<1>2. ASSUME NEW i \in ReaderMail'
      PROVE  i + c \in ReaderMail /\ mailbox'[i] = mailbox[i + c] /\ i \in Nat
  BY <1>1, <1>2 DEF ReaderMail
<1>3. ASSUME NEW i \in FillMail'
      PROVE  i + c \in FillMail /\ mailbox'[i] = mailbox[i + c]
  BY <1>1, <1>3 DEF FillMail
<1>4. ASSUME NEW i \in ReaderMail'
      PROVE  \E k \in ReaderMail : mailbox'[i] = mailbox[k] /\ (mailbox' # mailbox => k # 1)
  <2>1. mailbox' # mailbox => i + c # 1
    BY <1>1, <1>4 DEF ReaderMail
  <2> QED
    BY <1>2, <2>1
<1>5. ASSUME Sizes, worker' = worker
      PROVE  Sizes'
  BY <1>3, <1>5 DEF Sizes
<1>6. ASSUME OneReport, gpu' \subseteq gpu
      PROVE  OneReport'
  <2>1. ASSUME NEW i \in ReaderMail', NEW k \in ReaderMail', i # k,
               mailbox'[i].ticket.slot = mailbox'[k].ticket.slot
        PROVE  mailbox'[i].fence.queue # mailbox'[k].fence.queue
    <3>1. i + c # k + c
      BY <1>1, <1>2, <2>1
    <3> QED
      BY <1>2, <1>6, <2>1, <3>1 DEF OneReport
  <2>2. ASSUME NEW i \in ReaderMail', NEW r \in gpu', mailbox'[i].ticket.slot = r.ticket.slot
        PROVE  mailbox'[i].fence.queue # r.queue
    BY <1>2, <1>6, <2>2 DEF OneReport
  <2> QED
    BY <1>6, <2>1, <2>2 DEF OneReport
<1> QED
  BY <1>4, <1>5, <1>6

LEMMA Onwards ==
  ASSUME NSafe, UNCHANGED <<layout, slot, live, worker, mailbox, gpu>>,
         pc' \notin Final => pc \notin Final,
         pc' \in Loop => /\ pc \in Loop
                         /\ UNCHANGED <<seg, next, dispatch, outgoing, passes, carry>>,
         pc' = "retire" => pc = "retire",
         pc' \in {"drain", "settle"} => pc \in {"drain", "settle"},
         pc' \notin {"begin", "idle", "segment", "pass_end"}
  PROVE  Records' /\ OneReport' /\ Sizes' /\ Numbers' /\ Carries' /\ Boundary'
<1> USE DEF NSafe
<1>1. Records'
  BY DEF Records, ReaderMail, ReadBy, Closes
<1>2. OneReport' /\ Sizes'
  BY DEF OneReport, Sizes, ReaderMail, FillMail
<1>3. Numbers'
  BY DEF Numbers, Within
<1>4. Carries'
  BY DEF Carries, CarriedFor
<1>5. Boundary'
  BY DEF Boundary, Loop
<1> QED
  BY <1>1, <1>2, <1>3, <1>4, <1>5

(* A failure that leaves memory and slots alone.                           *)
LEMMA FailsOnly ==
  ASSUME NSafe, pc \in Loop \cup Resting, NEW why, Fail(why), why \notin InternalError,
         UNCHANGED <<slot, live, worker, gpu, overflow, mailbox>>,
         poisoned' = poisoned \/ why = "short"
  PROVE  NSafe'
<1>1. pc' = "stop" /\ layout' = layout
  BY DEF Fail
<1>2. Healthy'
  BY HonestFailure DEF NSafe
<1> QED
  BY <1>1, <1>2, Onwards DEF NSafe, Loop, Resting, Final

LEMMA MovesHealthy ==
  ASSUME IInv, NSafe,
                \/ Poll \/ ConsumeEnd \/ Check \/ Drain \/ Finish
                \/ FinishJoin \/ Finalize \/ Abandon \/ Stop \/ JoinWorkers \/ DrainDevice
                \/ RetryDrain
  PROVE  NSafe'
<1> USE DEF Goto, tracker, pools, outside, ioVars, mail, loop, life, ownerVars
<1>1. CASE Poll
  <2>1. pc \in Loop
    BY <1>1 DEF Poll, Loop
  <2>2. ~overflow
    BY <2>1, AtPlace
  <2>3. CASE Fail("cancelled")
    BY <1>1, <2>1, <2>3, FailsOnly DEF Poll, InternalError
  <2>4. CASE ~cancel /\ pc' = "consume" /\ UNCHANGED life
    <3>1. Healthy'
      BY <1>1, <2>1, <2>4, AtPlace, Carefree DEF Poll, NSafe, Loop, Working, Resting
    <3> QED
      BY <1>1, <2>1, <2>4, <3>1, Onwards DEF Poll, NSafe, Loop, Final
  <2> QED
    BY <1>1, <2>2, <2>3, <2>4 DEF Poll
<1>2. CASE ConsumeEnd
  <2>1. pc \in Loop
    BY <1>2 DEF ConsumeEnd, Loop
  <2>2. Healthy'
    BY <1>2, <2>1, AtPlace, Carefree DEF ConsumeEnd, NSafe, Loop, Working, Resting
  <2> QED
    BY <1>2, <2>1, <2>2, Onwards DEF ConsumeEnd, NSafe, Loop, Final
<1>4. CASE Drain
  <2>1. pc \in Loop
    BY <1>4 DEF Drain, Loop
  <2>2. CASE pc' = "settle" /\ UNCHANGED life
    <3>1. Healthy'
      BY <1>4, <2>1, <2>2, AtPlace, Carefree DEF Drain, NSafe, Loop, Working, Resting
    <3> QED
      BY <1>4, <2>1, <2>2, <3>1, Onwards DEF Drain, NSafe, Loop, Final
  <2>3. CASE Fail("drain")
    BY <1>4, <2>1, <2>3, FailsOnly DEF Drain, InternalError
  <2> QED
    BY <1>4, <2>2, <2>3 DEF Drain
<1>5. CASE Finish
  <2>1. pc \in Resting
    BY <1>5 DEF Finish, Resting
  <2>2. CASE Fail("incomplete")
    BY <1>5, <2>1, <2>2, FailsOnly DEF Finish, InternalError
  <2>3. CASE pc' = "finish_join" /\ UNCHANGED failure /\ UNCHANGED layout
    <3>1. Healthy'
      BY <1>5, <2>1, <2>3, Carefree DEF Finish, NSafe, Loop, Working, Resting
    <3> QED
      BY <1>5, <2>1, <2>3, <3>1, Onwards DEF Finish, NSafe, Loop, Final, Resting
  <2> QED
    BY <1>5, <2>2, <2>3 DEF Finish
<1>6. CASE FinishJoin
  <2>1. Healthy'
    BY <1>6, Carefree DEF FinishJoin, NSafe, Loop, Working, Resting
  <2> QED
    BY <1>6, <2>1, Onwards DEF FinishJoin, NSafe, Loop, Final
<1>7. CASE Finalize
  <2>1. ~overflow
    BY DEF NSafe, Healthy, NoInternalError
  <2>2. Healthy'
    BY <1>7, <2>1, Carefree DEF Finalize, NSafe, Loop, Working, Resting
  <2> QED
    BY <1>7, <2>1, <2>2, Onwards DEF Finalize, NSafe, Loop, Final
<1>8. CASE Abandon \/ Stop \/ JoinWorkers \/ DrainDevice \/ RetryDrain
  <2>1. /\ pc' \in {"stop", "join", "device", "destroy", "quarantined", "terminated"}
        /\ pc \in {"idle", "quarantined", "stop", "join", "device"}
        /\ UNCHANGED <<poisoned, overflow, layout, failure, slot, live, worker, mailbox, gpu>>
    BY <1>8 DEF Abandon, Stop, JoinWorkers, DrainDevice, RetryDrain
  <2>2. Healthy'
    BY <2>1, Carefree DEF NSafe, Loop, Working, Resting
  <2> QED
    BY <2>1, <2>2, Onwards DEF NSafe, Loop, Final
<1>9. CASE Check
  <2>1. pc \in Loop
    BY <1>9 DEF Check, Loop
  <2>2. CASE Fail("stall")
    BY <1>9, <2>1, <2>2, FailsOnly DEF Check, InternalError
  <2>3. CASE pc' = "poll" /\ UNCHANGED life
    <3>1. Healthy'
      BY <1>9, <2>1, <2>3, AtPlace, Carefree DEF Check, NSafe, Loop, Working, Resting
    <3> QED
      BY <1>9, <2>1, <2>3, <3>1, Onwards DEF Check, NSafe, Loop, Final
  <2>4. CASE BoundaryComplete /\ pc' = "drain" /\ UNCHANGED life
    <3> DEFINE S == {s \in SlotsIn(layout) : s[1] = active}
    <3>1. UNCHANGED <<slot, live, worker, mailbox, gpu, layout, passes, seg, next, outgoing, dispatch,
                      carry, failure, poisoned, overflow, io>> /\ pc = "check"
      BY <1>9, <2>4 DEF Check
    <3>2. Healthy'
      BY <2>1, <2>4, <3>1, AtPlace, Carefree DEF NSafe, Loop, Working, Resting
    <3>3. next > LastOf(layout, seg) /\ Slots = S /\ active = seg
      BY <2>1, <2>4, Names DEF BoundaryComplete, Slots, IInv, Safe, Segment
    <3>4. outgoing # NoTicket => slot[outgoing.slot].state = "Ready"
      BY <2>4 DEF BoundaryComplete, Tracker!QuiescentExceptReady, Tracker!IsReady
    <3>5. \A s \in S : \/ slot[s].state = "Vacant"
                       \/ slot[s].state = "Ready" /\ outgoing # NoTicket /\ s = outgoing.slot
      BY <2>4, <3>3, <3>4 DEF BoundaryComplete, Tracker!QuiescentExceptReady, Tracker!Quiescent
    <3>6. Boundary'
      BY <3>1, <3>3, <3>4, <3>5 DEF Boundary
    <3>7. Records' /\ OneReport' /\ Sizes' /\ Numbers' /\ Carries'
      <4> USE <2>1, <2>4, <3>1 DEF NSafe
      <4>1. Records' /\ OneReport' /\ Sizes'
        BY DEF Records, ReaderMail, FillMail, ReadBy, Closes, OneReport, Sizes, Loop, Final
      <4>2. Numbers' /\ Carries'
        BY DEF Numbers, Within, Carries, CarriedFor, Loop
      <4> QED
        BY <4>1, <4>2
    <3> QED
      BY <3>2, <3>6, <3>7 DEF NSafe
  <2> QED
    BY <1>9, <2>2, <2>3, <2>4 DEF Check
<1> QED
  BY <1>1, <1>2, <1>4, <1>5, <1>6, <1>7, <1>8, <1>9

-----------------------------------------------------------------------------
(* Between segments and passes.                                            *)

LEMMA Quiet ==
  ASSUME NSafe, mailbox = <<>>, gpu = {}, UNCHANGED <<worker, mailbox, gpu>>
  PROVE  Records' /\ OneReport' /\ Sizes'
<1>1. ReaderMail' = {} /\ FillMail' = {}
  BY DEF ReaderMail, FillMail
<1> QED
  BY <1>1 DEF NSafe, Records, OneReport, Sizes

LEMMA AtRest ==
  ASSUME IInv, pc \in Resting
  PROVE  mailbox = <<>> /\ gpu = {} /\ live \subseteq drained
BY DEF IInv, Safe, Between, Pools

(* A failure that may have touched slots.                                  *)
LEMMA Halts ==
  ASSUME NSafe, pc \in Loop \cup Resting, NEW why, Fail(why), why \notin InternalError,
         UNCHANGED <<worker, overflow>>, poisoned' = poisoned \/ why = "short",
         Records', OneReport', Sizes',
         \A s \in SlotsIn(layout) : slot'[s].state # "Vacant" =>
           slot'[s] = slot[s] \/ slot'[s].generation # 0
  PROVE  NSafe'
<1>1. pc' = "stop" /\ layout' = layout
  BY DEF Fail
<1>2. Healthy'
  BY HonestFailure DEF NSafe
<1>3. Numbers'
  BY <1>1 DEF NSafe, Numbers, Loop
<1>4. Carries' /\ Boundary'
  BY <1>1 DEF Carries, Boundary, Loop
<1> QED
  BY <1>2, <1>3, <1>4 DEF NSafe

LEMMA RunPassHealthy == IInv /\ NSafe /\ RunPass => NSafe'
<1> SUFFICES ASSUME IInv, NSafe, RunPass PROVE NSafe'
  OBVIOUS
<1>1. /\ pc = "idle" /\ pc' = "segment" /\ passes < layout.passes /\ seg' = 1
      /\ UNCHANGED <<slot, poisoned, live, worker, io, mailbox, overflow, gpu, carry, layout, passes,
                     failure>>
  BY DEF RunPass, Goto, Passes, tracker, pools, outside, ioVars, mail
<1>2. Healthy'
  BY <1>1, Carefree DEF NSafe, Healthy, Working, Loop, Resting
<1>3. Records' /\ OneReport' /\ Sizes'
  BY <1>1, AtRest, Quiet DEF Resting
<1>4. FirstOf(layout, 1) = 1
  BY Types, PoolNumbers DEF IInv
<1>5. Numbers'
  <2>1. 1 - 1 + CountOf(carry) = CountOf(carry)
    BY DEF CountOf
  <2> QED
    BY <1>1, <1>4, <2>1 DEF NSafe, Numbers, Within, CountOf, Loop
<1>6. Carries' /\ Boundary'
  BY <1>1 DEF NSafe, Carries, CarriedFor, Boundary, Loop
<1> QED
  BY <1>2, <1>3, <1>5, <1>6 DEF NSafe

LEMMA PassEndHealthy == IInv /\ NSafe /\ PassEnd => NSafe'
<1> SUFFICES ASSUME IInv, NSafe, PassEnd PROVE NSafe'
  OBVIOUS
<1>1. /\ pc = "pass_end" /\ pc \in Resting
      /\ UNCHANGED <<slot, poisoned, live, worker, io, mailbox, overflow, gpu, carry>>
      /\ failure = "none" /\ ~overflow /\ io = "running" /\ passes < layout.passes
  BY DEF PassEnd, tracker, pools, outside, ioVars, mail, loop, Resting, NSafe, Healthy,
         NoInternalError, Working
<1>2. CASE Fail("cancelled")
  BY <1>1, <1>2, FailsOnly DEF InternalError
<1>3. CASE passes' = passes + 1 /\ pc' = "idle" /\ UNCHANGED <<layout, failure>>
  <2>1. Healthy'
    BY <1>1, <1>3, Carefree DEF NSafe, Working, Loop, Resting
  <2>2. Records' /\ OneReport' /\ Sizes'
    BY <1>1, AtRest, Quiet DEF Resting
  <2>3. Numbers'
    <3>1. /\ passes * Len(layout.pools) \in Nat /\ Len(layout.pools) \in Nat
          /\ (passes + 1) * Len(layout.pools) = passes * Len(layout.pools) + Len(layout.pools)
      BY <1>1, Types, EnoughGenerations DEF IInv
    <3>2. CountOf(carry) \in Nat
      BY DEF CountOf
    <3>3. ASSUME NEW s \in SlotsIn(layout)
          PROVE  slot[s].generation <= passes' * Len(layout.pools) + CountOf(carry)
      <4>1. slot[s].generation <= passes * Len(layout.pools) + (Len(layout.pools) + CountOf(carry))
        BY <1>1 DEF NSafe, Numbers, Within
      <4> DEFINE a == passes * Len(layout.pools)
                 b == passes' * Len(layout.pools)
      <4>2. a \in Nat /\ b = a + Len(layout.pools)
        BY <1>3, <3>1
      <4> HIDE DEF a, b
      <4> QED
        BY <3>1, <3>2, <4>1, <4>2 DEF a, b
    <3> QED
      BY <1>1, <1>3, <3>3 DEF NSafe, Numbers, Within, CountOf, Loop
  <2>4. Carries' /\ Boundary'
    BY <1>1, <1>3 DEF NSafe, Carries, CarriedFor, Boundary, Loop
  <2> QED
    BY <2>1, <2>2, <2>3, <2>4 DEF NSafe
<1> QED
  BY <1>1, <1>2, <1>3 DEF PassEnd

LEMMA SettleHealthy == IInv /\ NSafe /\ Settle => NSafe'
<1> SUFFICES ASSUME IInv, NSafe, Settle PROVE NSafe'
  OBVIOUS
<1>1. /\ pc = "settle" /\ pc \in Loop /\ mailbox = <<>> /\ gpu = {}
      /\ UNCHANGED <<slot, poisoned, live, worker, io, mailbox, overflow, gpu, outgoing>>
  BY DEF Settle, tracker, outside, ioVars, mail, Loop, IInv, Safe, Reading
<1>2. /\ next > LastOf(layout, seg)
      /\ \A s \in SlotsIn(layout) : s[1] = seg =>
           \/ slot[s].state = "Vacant"
           \/ slot[s].state = "Ready" /\ outgoing # NoTicket /\ s = outgoing.slot
      /\ outgoing # NoTicket => slot[outgoing.slot].state = "Ready"
      /\ outgoing # NoTicket => CarriedFor(outgoing, passes + 1)
  BY <1>1 DEF NSafe, Boundary, Carries
<1>3. active = seg /\ seg \in live
  BY <1>1 DEF IInv, Safe, Segment
<1>4. /\ layout \in Layouts /\ seg \in PoolsOf(layout) /\ {next, dispatch, passes} \subseteq Nat
      /\ LastOf(layout, seg) \in Nat /\ next <= dispatch /\ dispatch <= LastOf(layout, seg) + 1
  BY <1>1, InSegment
<1>5. Settled
  BY <1>2, <1>3, Names DEF Settled, Slots, Tracker!QuiescentExceptReady, Tracker!Quiescent,
     Tracker!IsReady, Tracker!Matches, CarriedFor
<1>6. /\ carry' = outgoing /\ UNCHANGED <<layout, passes, failure>>
      /\ \/ seg + 1 \in PoolsOf(layout) /\ seg' = seg + 1 /\ pc' = "segment"
         \/ pc' = "pass_end"
  BY <1>5, Names DEF Settle, life
<1>7. Healthy'
  <2>1. passes < layout.passes /\ io = "running"
    BY <1>1, AtPlace
  <2> QED
    BY <1>1, <1>6, <2>1, Carefree DEF NSafe, Working, Loop, Resting
<1>8. Records' /\ OneReport' /\ Sizes'
  BY <1>1, Quiet
<1>9. Numbers'
  <2> DEFINE a == passes * Len(layout.pools)
  <2>1. a \in Nat /\ Len(layout.pools) \in Nat
    BY <1>1, <1>4, AtPlace, EnoughGenerations
  <2>2. CountOf(outgoing) \in Nat
    BY DEF CountOf
  <2>3. dispatch - 1 = LastOf(layout, seg)
    BY <1>2, <1>4
  <2>4. \A s \in SlotsIn(layout) : slot[s].generation \in Nat
    BY <1>4, SlotsOfLayout DEF IInv, TypeOK, Cell
  <2>5. \A s \in SlotsIn(layout) : slot[s].generation <= a + (LastOf(layout, seg) + CountOf(outgoing))
    BY <1>1, <2>3 DEF NSafe, Numbers, Within
  <2> HIDE DEF a
  <2>6. pc' = "segment" =>
          \A s \in SlotsIn(layout) :
            slot[s].generation <= a + (FirstOf(layout, seg') - 1 + CountOf(outgoing))
    <3>1. SUFFICES ASSUME seg + 1 \in PoolsOf(layout), seg' = seg + 1
                   PROVE  \A s \in SlotsIn(layout) :
                            slot[s].generation <= a + (FirstOf(layout, seg') - 1 + CountOf(outgoing))
      BY <1>6
    <3>2. LastOf(layout, seg) + 1 <= FirstOf(layout, seg') /\ FirstOf(layout, seg') \in Nat
      BY <1>4, <3>1, PoolOrder
    <3> QED
      BY <1>4, <2>1, <2>2, <2>4, <2>5, <3>2
  <2>7. \A s \in SlotsIn(layout) : slot[s].generation <= a + (Len(layout.pools) + CountOf(outgoing))
    <3>1. LastOf(layout, seg) <= Len(layout.pools)
      BY <1>4, PoolOrder
    <3> QED
      BY <1>4, <2>1, <2>2, <2>4, <2>5, <3>1
  <2> QED
    BY <1>1, <1>6, <2>6, <2>7 DEF NSafe, Numbers, Within, CountOf, Loop, a
<1>10. Carries'
  <2>1. SUFFICES ASSUME outgoing # NoTicket
                 PROVE  /\ pc' = "pass_end" /\ CarriedFor(outgoing, passes + 1)
                        /\ slot[outgoing.slot].state = "Ready" /\ live = {1}
    BY <1>1, <1>6 DEF Carries, CarriedFor, Loop
  <2>2. layout.carry
    BY <1>2, <2>1 DEF CarriedFor
  <2>3. PoolsOf(layout) = {1}
    BY <1>4, <2>2, PoolNumbers
  <2>4. live \subseteq {1}
    BY <2>3, Names DEF IInv, TypeOK
  <2>5. seg = 1 /\ live = {1}
    BY <1>3, <1>4, <2>3, <2>4
  <2>6. pc' = "pass_end"
    BY <1>6, <2>3, <2>5
  <2>7. CarriedFor(outgoing, passes + 1) /\ slot[outgoing.slot].state = "Ready"
    BY <1>2, <2>1
  <2> QED
    BY <2>5, <2>6, <2>7
<1>11. Boundary'
  BY <1>6 DEF Boundary
<1> QED
  BY <1>7, <1>8, <1>9, <1>10, <1>11 DEF NSafe

(* A new pool starts with empty slots.                                     *)
LEMMA PoolIsEmpty ==
  ASSUME TypeOK, NEW p, NEW gone, CreatePool(p, gone)
  PROVE  /\ poisoned' = poisoned
         /\ \A s \in SlotsIn(layout) : /\ slot'[s].state # "Vacant" => slot'[s] = slot[s]
                                       /\ slot'[s] = slot[s] \/ slot'[s].generation = 0
<1>1. /\ slot' = [s \in AnySlot |-> IF s[1] = p THEN Tracker!EmptySlot(s) ELSE slot[s]]
      /\ poisoned' = poisoned
  BY DEF CreatePool
<1>2. \A s : Tracker!EmptySlot(s).state = "Vacant" /\ Tracker!EmptySlot(s).generation = 0
  BY DEF Tracker!EmptySlot
<1>3. SlotsIn(layout) \subseteq AnySlot
  BY Types, SlotsOfLayout
<1> QED
  BY <1>1, <1>2, <1>3

LEMMA BeginHealthy == IInv /\ NSafe /\ Begin => NSafe'
<1> SUFFICES ASSUME IInv, NSafe, Begin PROVE NSafe'
  OBVIOUS
<1>1. /\ pc = "begin" /\ pc \in Resting /\ failure = "none" /\ passes = 0 /\ TypeOK
      /\ UNCHANGED <<worker, mailbox, overflow, gpu, carry>>
      /\ \A s \in SlotsIn(layout) : slot[s].generation <= passes * Len(layout.pools) + 0
  BY DEF Begin, mail, loop, Resting, NSafe, Healthy, IInv, Numbers, Within
<1>2. Records' /\ OneReport' /\ Sizes'
  BY <1>1, AtRest, Quiet
<1>3. passes * Len(layout.pools) \in Nat
  <2>1. layout \in Layouts /\ layout.passes \in Nat \ {0}
    BY Types, LayoutAssumption DEF IInv, LayoutAssumption
  <2> QED
    BY <1>1, <2>1, EnoughGenerations
<1>4. CASE \E p : CreatePool(p, {}) /\ UNCHANGED <<pc, io, drained, life>>
  <2>1. PICK p : CreatePool(p, {}) /\ UNCHANGED <<pc, io, drained, life>>
    BY <1>4
  <2>2. Healthy'
    BY <1>1, <2>1, PoolIsEmpty, Carefree DEF life, NSafe, Working, Loop, Resting
  <2>3. Numbers'
    <3>1. layout' = layout /\ passes' = passes /\ pc' = "begin"
      BY <1>1, <2>1 DEF life
    <3>2. \A s \in SlotsIn(layout) : /\ slot'[s].state # "Vacant" => slot'[s] = slot[s]
                                     /\ slot'[s] = slot[s] \/ slot'[s].generation = 0
      BY <1>1, <2>1, PoolIsEmpty
    <3> QED
      BY <1>1, <1>3, <3>1, <3>2 DEF NSafe, Numbers, Within, Loop
  <2>4. Carries' /\ Boundary'
    BY <1>1, <2>1 DEF Carries, Boundary, Loop
  <2> QED
    BY <1>2, <2>2, <2>3, <2>4 DEF NSafe
<1>5. CASE \E p : CreatePool(p, {}) /\ Fail("create")
  <2>1. PICK p : CreatePool(p, {}) /\ Fail("create")
    BY <1>5
  <2> QED
    BY <1>1, <1>2, <2>1, PoolIsEmpty, Halts DEF InternalError
<1>6. CASE /\ io' = "running" /\ pc' = "idle" /\ UNCHANGED <<tracker, live, drained, backing, life>>
  <2>1. Healthy'
    BY <1>1, <1>6, Carefree DEF tracker, life, NSafe, Working, Loop, Resting
  <2>2. carry = NoTicket
    BY <1>1 DEF IInv, Safe, Pools
  <2>3. Numbers'
    BY <1>1, <1>6, <2>2 DEF tracker, life, NSafe, Numbers, Within, CountOf, Loop
  <2>4. Carries' /\ Boundary'
    BY <1>1, <1>6, <2>2 DEF Carries, Boundary, Loop
  <2> QED
    BY <1>2, <2>1, <2>3, <2>4 DEF NSafe
<1> QED
  BY <1>4, <1>5, <1>6 DEF Begin

LEMMA BeginSegmentHealthy == IInv /\ NSafe /\ BeginSegment => NSafe'
<1> SUFFICES ASSUME IInv, NSafe, BeginSegment PROVE NSafe'
  OBVIOUS
<1> DEFINE carried == seg \in live /\ carry # NoTicket
<1>1. /\ pc = "segment" /\ pc \in Resting /\ failure = "none" /\ TypeOK
      /\ io = "running" /\ passes < layout.passes /\ mailbox = <<>> /\ gpu = {}
      /\ UNCHANGED <<worker, io, mailbox, overflow, gpu>>
      /\ live \subseteq drained
  BY AtRest DEF BeginSegment, outside, ioVars, mail, Resting, NSafe, Healthy, IInv, Working
<1>2. Records' /\ OneReport' /\ Sizes'
  BY <1>1, Quiet
<1>3. /\ layout \in Layouts /\ seg \in PoolsOf(layout) /\ passes \in Nat
      /\ FirstOf(layout, seg) \in Nat /\ FirstOf(layout, seg) >= 1
  BY Types, PoolOrder DEF IInv
<1>4. /\ Activate /\ outgoing' = NoTicket /\ carry' = NoTicket
      /\ dispatch' = FirstDispatch(carried)
      /\ \/ (carried => CarryAccepted) /\ pc' = "check" /\ UNCHANGED life
         \/ carried /\ ~CarryAccepted /\ Fail("bad_carry")
         \/ carried /\ MayFail("step") /\ Fail("step")
         \/ seg \notin live /\ MayFail("create") /\ Fail("create")
  BY <1>1 DEF BeginSegment
<1>5. /\ poisoned' = poisoned
      /\ \A s \in SlotsIn(layout) : /\ slot'[s].state # "Vacant" => slot'[s] = slot[s]
                                    /\ slot'[s] = slot[s] \/ slot'[s].generation = 0
  <2>1. CASE seg \in live
    BY <1>4, <2>1 DEF Activate, tracker
  <2>2. CASE seg \notin live
    BY <1>1, <1>4, <2>2, PoolIsEmpty DEF Activate
  <2> QED
    BY <2>1, <2>2
<1>6. carry # NoTicket => /\ CarriedFor(carry, passes) /\ slot[carry.slot].state = "Ready"
                          /\ seg = 1 /\ seg \in live
  <2>1. SUFFICES ASSUME carry # NoTicket
                 PROVE  /\ CarriedFor(carry, passes) /\ slot[carry.slot].state = "Ready"
                        /\ seg = 1 /\ seg \in live
    OBVIOUS
  <2>2. CarriedFor(carry, passes) /\ slot[carry.slot].state = "Ready" /\ live = {1}
    BY <1>1, <2>1 DEF NSafe, Carries
  <2>3. layout.carry
    BY <2>2 DEF CarriedFor
  <2>4. PoolsOf(layout) = {1}
    BY <1>3, <2>3, PoolNumbers
  <2> QED
    BY <1>3, <2>2, <2>4
<1>7. carried => CarryAccepted
  BY <1>6, Names DEF CarryAccepted, CarriedFor, Tracker!IsReady, Tracker!Matches
<1>8. CASE Fail("step") \/ Fail("create")
  BY <1>1, <1>2, <1>5, <1>8, Halts DEF InternalError
<1>9. CASE pc' = "check" /\ UNCHANGED life
  <2>1. Healthy'
    BY <1>1, <1>5, <1>9, Carefree DEF life, NSafe, Working, Loop, Resting
  <2>2. Numbers'
    <3> DEFINE a == passes * Len(layout.pools)
    <3>1. a \in Nat
      BY <1>1, <1>3, EnoughGenerations
    <3>2. \A s \in SlotsIn(layout) :
            slot[s].generation <= a + (FirstOf(layout, seg) - 1 + CountOf(carry))
      BY <1>1 DEF NSafe, Numbers, Within
    <3>3. dispatch' = FirstOf(layout, seg) + CountOf(carry)
      BY <1>3, <1>4, <1>6, Names DEF FirstDispatch, CountOf
    <3>4. CountOf(carry) \in {0, 1} /\ CountOf(NoTicket) = 0
      BY DEF CountOf
    <3> HIDE DEF a
    <3>5. \A s \in SlotsIn(layout) : slot'[s].generation <= a + (dispatch' - 1 + CountOf(NoTicket))
      BY <1>3, <1>5, <3>1, <3>2, <3>3, <3>4
    <3>6. \A s \in SlotsIn(layout) : slot'[s].state # "Vacant" => slot'[s].generation # 0
      BY <1>5 DEF NSafe, Numbers
    <3> QED
      BY <1>4, <1>9, <3>5, <3>6 DEF Numbers, Within, CountOf, Loop, life, a
  <2>3. Carries' /\ Boundary'
    BY <1>4, <1>9 DEF Carries, Boundary, Loop
  <2> QED
    BY <1>2, <2>1, <2>2, <2>3 DEF NSafe
<1> QED
  BY <1>4, <1>7, <1>8, <1>9

LEMMA ReleaseHealthy == IInv /\ NSafe /\ ReleaseBacking => NSafe'
<1> SUFFICES ASSUME IInv, NSafe, ReleaseBacking PROVE NSafe'
  OBVIOUS
<1>1. /\ pc = "idle" /\ pc \in Resting /\ pc' = pc /\ ~layout.carry /\ carry' = NoTicket
      /\ UNCHANGED <<slot, poisoned, worker, io, mailbox, overflow, gpu, layout, passes, failure>>
  BY DEF ReleaseBacking, DestroyPools, tracker, outside, ioVars, mail, Resting
<1>2. carry = NoTicket
  BY <1>1 DEF NSafe, Carries, CarriedFor
<1>3. Healthy'
  BY <1>1, Carefree DEF NSafe, Healthy, Working
<1>4. Records' /\ OneReport' /\ Sizes'
  BY <1>1, AtRest, Quiet
<1>5. Numbers' /\ Carries' /\ Boundary'
  BY <1>1, <1>2 DEF NSafe, Numbers, Within, CountOf, Carries, Boundary, Loop
<1> QED
  BY <1>3, <1>4, <1>5 DEF NSafe

LEMMA DestroyHealthy == NSafe /\ Destroy => NSafe'
<1> SUFFICES ASSUME NSafe, Destroy PROVE NSafe'
  OBVIOUS
<1>1. /\ pc = "destroy" /\ pc' \in Final
      /\ UNCHANGED <<slot, poisoned, worker, mailbox, overflow, gpu, layout, failure>>
  BY DEF Destroy, Final, tracker, outside, ioVars, mail, life
<1>2. Healthy'
  BY <1>1, Carefree DEF NSafe, Working, Loop, Resting, Final
<1>3. Records' /\ OneReport' /\ Sizes'
  BY <1>1 DEF NSafe, Records, OneReport, Sizes, ReaderMail, FillMail, Loop, Final
<1>4. Numbers' /\ Carries' /\ Boundary'
  BY <1>1 DEF NSafe, Numbers, Carries, Boundary, Loop, Final
<1> QED
  BY <1>2, <1>3, <1>4 DEF NSafe

LEMMA NothingHealthy ==
  NSafe /\ (RequestCancel \/ UNCHANGED vars) => NSafe'
<1> SUFFICES ASSUME NSafe, RequestCancel \/ UNCHANGED vars PROVE NSafe'
  OBVIOUS
<1>1. UNCHANGED <<slot, poisoned, live, worker, io, mailbox, overflow, gpu, pc, seg, next, dispatch,
                  outgoing, carry, layout, passes, failure>>
  BY DEF RequestCancel, vars, ownerVars, tracker, pools, ioVars, mail, loop, life
<1>2. Healthy' /\ Boundary'
  BY <1>1 DEF NSafe, Healthy, NoInternalError, Boundary
<1>3. Records' /\ OneReport' /\ Sizes'
  BY <1>1 DEF NSafe, Records, ReadBy, Closes, OneReport, Sizes, ReaderMail, FillMail
<1>4. Numbers' /\ Carries'
  BY <1>1 DEF NSafe, Numbers, Within, Carries, CarriedFor
<1> QED
  BY <1>2, <1>3, <1>4 DEF NSafe

-----------------------------------------------------------------------------
(* Fills.                                                                  *)

(* Reader records of slots that are not touched.                           *)
LEMMA RecordsStay ==
  ASSUME NSafe, UNCHANGED <<layout, live, mailbox>>,
         \A i \in ReaderMail : slot'[mailbox[i].ticket.slot] = slot[mailbox[i].ticket.slot],
         pc' \notin Final => pc \notin Final,
         pc' \in Loop => pc \in Loop,
         pc' = "retire" => pc = "retire" /\ UNCHANGED <<passes, next>>
  PROVE  Records'
BY DEF NSafe, Records, ReadBy, Closes, ReaderMail, Loop

LEMMA FillFits ==
  ASSUME IInv, NSafe, pc \in Loop, NEW s \in SlotsIn(layout), s[1] = seg,
         slot[s].state = "Vacant", slot[s].generation # MaxFills, NEW item
  PROVE  /\ Tracker!CanBeginFill(s, 1)
         /\ FillRefused(s, item) => Tracker!BeginFill(s, item, 1) /\ Fail("adapter")
<1>1. s \in AnySlot
  BY Types, SlotsOfLayout DEF IInv
<1>2. ~poisoned /\ io = "running"
  BY AtPlace
<1>3. HasCredit
  BY CreditLeft
<1>4. Tracker!CanBeginFill(s, 1)
  BY <1>1, <1>2 DEF Tracker!CanBeginFill
<1> QED
  BY <1>2, <1>3, <1>4 DEF FillRefused

LEMMA FillCounts ==
  ASSUME IInv, NSafe, pc \in Loop, NEW s \in SlotsIn(layout), NEW item \in Nat \X Nat,
         Tracker!BeginFill(s, item, 1), UNCHANGED <<layout, live, worker, mailbox, gpu>>,
         pc' \in (Loop \ {"retire"}) \cup {"stop"}
  PROVE  /\ Records' /\ OneReport' /\ Sizes' /\ poisoned' = poisoned
         /\ \A u \in SlotsIn(layout) : u # s => slot'[u] = slot[u]
         /\ slot'[s].state = "Loading" /\ slot'[s].ticket = Tracker!NewTicket(s, item)
         /\ slot[s].generation \in Nat /\ slot'[s].generation = slot[s].generation + 1
         /\ slot'[s].generation # 0
<1>1. s \in AnySlot /\ SlotsIn(layout) \subseteq AnySlot /\ TypeOK
  BY Types, SlotsOfLayout DEF IInv
<1>2. /\ slot[s].state = "Vacant" /\ poisoned' = poisoned /\ OthersKept(s)
      /\ slot'[s].state = "Loading" /\ slot'[s].ticket = Tracker!NewTicket(s, item)
      /\ slot'[s].generation = slot[s].generation + 1
  BY <1>1, BeginFillDoes
<1>3. slot[s].generation \in Nat
  BY <1>1 DEF TypeOK, Cell
<1>4. \A u \in SlotsIn(layout) : u # s => slot'[u] = slot[u]
  BY <1>1, <1>2 DEF OthersKept
<1>5. pc \notin Final
  BY DEF Loop, Final
<1>6. \A i \in ReaderMail : /\ mailbox[i].ticket.slot \in SlotsIn(layout)
                            /\ mailbox[i].ticket.slot # s
  BY <1>2, <1>5 DEF NSafe, Records, ReadBy
<1>7. Records'
  BY <1>4, <1>5, <1>6, RecordsStay DEF Loop
<1>8. OneReport' /\ Sizes'
  BY DEF NSafe, OneReport, Sizes, ReaderMail, FillMail
<1>9. slot'[s].generation # 0
  BY <1>2, <1>3
<1> QED
  BY <1>2, <1>3, <1>4, <1>7, <1>8, <1>9

LEMMA FillThrowsHealthy ==
  ASSUME IInv, NSafe, pc \in Loop, NEW s \in SlotsIn(layout), s[1] = seg,
         slot[s].state = "Vacant", slot[s].generation # MaxFills, NEW item \in Nat \X Nat,
         FillRefused(s, item),
         UNCHANGED <<live, worker, mailbox, overflow, gpu>>
  PROVE  NSafe'
<1>1. Tracker!BeginFill(s, item, 1) /\ Fail("adapter")
  BY FillFits
<1>2. pc' = "stop" /\ layout' = layout
  BY <1>1 DEF Fail
<1>3. /\ Records' /\ OneReport' /\ Sizes' /\ poisoned' = poisoned
      /\ \A u \in SlotsIn(layout) : u # s => slot'[u] = slot[u]
      /\ slot'[s].generation # 0
  BY <1>1, <1>2, FillCounts
<1> QED
  BY <1>1, <1>3, Halts DEF InternalError

(* How far the generations may have come.                                  *)
LEMMA FillsSoFar ==
  ASSUME IInv, NSafe, pc \in Loop
  PROVE  /\ \A s \in SlotsIn(layout) : slot[s].generation \in Nat
         /\ \A s \in SlotsIn(layout) :
              slot[s].generation <= passes * Len(layout.pools) + (dispatch - 1 + CountOf(outgoing))
         /\ passes * Len(layout.pools) \in Nat /\ MaxFills \in Nat
         /\ Len(layout.pools) \in Nat /\ LastOf(layout, seg) <= Len(layout.pools)
         /\ 1 <= Len(layout.pools)
         /\ passes * Len(layout.pools) + Len(layout.pools) <= MaxFills
         /\ passes + 1 < layout.passes =>
              passes * Len(layout.pools) + Len(layout.pools) + Len(layout.pools) <= MaxFills
         /\ dispatch \in Nat /\ LastOf(layout, seg) \in Nat /\ dispatch >= 1
<1>1. /\ layout \in Layouts /\ seg \in PoolsOf(layout) /\ passes \in Nat /\ dispatch \in Nat
      /\ FirstOf(layout, seg) <= dispatch /\ next \in Nat
  BY InSegment
<1>2. \A s \in SlotsIn(layout) : slot[s].generation \in Nat
  BY <1>1, SlotsOfLayout DEF IInv, TypeOK, Cell
<1>3. \A s \in SlotsIn(layout) :
         slot[s].generation <= passes * Len(layout.pools) + (dispatch - 1 + CountOf(outgoing))
  BY DEF NSafe, Numbers, Within
<1>4. passes < layout.passes
  BY AtPlace
<1>5. /\ LastOf(layout, seg) \in Nat /\ FirstOf(layout, seg) \in Nat /\ FirstOf(layout, seg) >= 1
      /\ LastOf(layout, seg) <= Len(layout.pools) /\ FirstOf(layout, seg) <= LastOf(layout, seg)
  BY <1>1, PoolOrder, PoolGroups
<1>6. /\ passes * Len(layout.pools) \in Nat /\ MaxFills \in Nat
      /\ Len(layout.pools) \in Nat
      /\ passes * Len(layout.pools) + Len(layout.pools) <= MaxFills
      /\ passes + 1 < layout.passes =>
           passes * Len(layout.pools) + Len(layout.pools) + Len(layout.pools) <= MaxFills
  BY <1>1, <1>4, EnoughGenerations
<1>7. dispatch >= 1 /\ 1 <= Len(layout.pools)
  BY <1>1, <1>5, <1>6
<1> QED
  BY <1>1, <1>2, <1>3, <1>5, <1>6, <1>7

LEMMA DispatchCounts ==
  ASSUME IInv, NSafe, pc \in Loop, dispatch <= Last(seg), slot[DispatchSlot].state = "Vacant"
  PROVE  /\ slot[DispatchSlot].generation # MaxFills
         /\ DispatchSlot \in SlotsIn(layout) /\ DispatchSlot[1] = seg
         /\ <<passes, dispatch>> \in Nat \X Nat /\ outgoing = NoTicket
<1>1. /\ DispatchSlot \in SlotsIn(layout) /\ DispatchSlot[1] = seg
      /\ <<passes, dispatch>> \in Nat \X Nat /\ dispatch <= LastOf(layout, seg)
  BY InSegment, Names
<1>2. outgoing = NoTicket
  BY <1>1, FillsSoFar DEF IInv, Safe, Segment
<1>3. CountOf(outgoing) = 0
  BY <1>2 DEF CountOf
<1> DEFINE a == passes * Len(layout.pools)
<1>4. /\ slot[DispatchSlot].generation <= a + (dispatch - 1 + 0)
      /\ slot[DispatchSlot].generation \in Nat /\ a \in Nat /\ a + Len(layout.pools) <= MaxFills
      /\ LastOf(layout, seg) <= Len(layout.pools) /\ Len(layout.pools) \in Nat
      /\ dispatch \in Nat /\ LastOf(layout, seg) \in Nat /\ MaxFills \in Nat
  BY <1>1, <1>3, FillsSoFar
<1> HIDE DEF a
<1>5. slot[DispatchSlot].generation # MaxFills
  BY <1>1, <1>4
<1> QED
  BY <1>1, <1>2, <1>5

LEMMA GroupFills ==
  ASSUME IInv, NSafe, pc \in Loop, pc' \in Loop \ {"retire", "drain", "settle"},
         dispatch <= Last(seg), slot[DispatchSlot].state = "Vacant",
         FillSubmitted(DispatchSlot, <<passes, dispatch>>), dispatch' = dispatch + 1,
         UNCHANGED <<layout, passes, failure, live, mailbox, overflow, gpu, outgoing, carry>>
  PROVE  NSafe'
<1> DEFINE s == DispatchSlot
<1>1. /\ s \in SlotsIn(layout) /\ s[1] = seg /\ <<passes, dispatch>> \in Nat \X Nat
      /\ outgoing = NoTicket
  BY DispatchCounts
<1>2. Tracker!BeginFill(s, <<passes, dispatch>>, 1) /\ UNCHANGED <<worker, io>>
  BY DEF FillSubmitted
<1> HIDE DEF s
<1>3. /\ Records' /\ OneReport' /\ Sizes' /\ poisoned' = poisoned
      /\ \A u \in SlotsIn(layout) : u # s => slot'[u] = slot[u]
      /\ slot[s].generation \in Nat /\ slot'[s].generation = slot[s].generation + 1
      /\ slot'[s].generation # 0
  BY <1>1, <1>2, FillCounts
<1>4. Healthy'
  BY <1>2, <1>3, AtPlace, Carefree DEF NSafe, Working, Loop
<1>5. Numbers'
  <2> DEFINE a == passes * Len(layout.pools)
  <2>1. a \in Nat /\ dispatch \in Nat /\ \A u \in SlotsIn(layout) : slot[u].generation \in Nat
    BY FillsSoFar
  <2>2. CountOf(outgoing) = 0
    BY <1>1 DEF CountOf
  <2>3. \A u \in SlotsIn(layout) : slot[u].generation <= a + (dispatch - 1 + 0)
    BY <2>2, FillsSoFar
  <2> HIDE DEF a
  <2>4. \A u \in SlotsIn(layout) : slot'[u].generation <= a + (dispatch' - 1 + 0)
    BY <1>3, <2>1, <2>3
  <2>5. \A u \in SlotsIn(layout) : slot'[u].state # "Vacant" => slot'[u].generation # 0
    BY <1>3 DEF NSafe, Numbers
  <2> QED
    BY <2>2, <2>4, <2>5 DEF Numbers, Within, CountOf, Loop, a
<1>6. Carries' /\ Boundary'
  BY <1>1 DEF NSafe, Carries, Boundary, Loop
<1> QED
  BY <1>3, <1>4, <1>5, <1>6 DEF NSafe

LEMMA DispatchHealthy == IInv /\ NSafe /\ Dispatch => NSafe'
<1> SUFFICES ASSUME IInv, NSafe, Dispatch PROVE NSafe'
  OBVIOUS
<1>1. /\ pc = "dispatch" /\ pc \in Loop
      /\ UNCHANGED <<live, mailbox, overflow, gpu, seg, next, outgoing, carry>>
  BY DEF Dispatch, Loop, pools, mail
<1>2. CASE /\ MayDispatch /\ FillSubmitted(DispatchSlot, <<passes, dispatch>>)
           /\ dispatch' = dispatch + 1 /\ UNCHANGED <<pc, life>>
  BY <1>1, <1>2, GroupFills DEF MayDispatch, life, Loop
<1>3. CASE /\ MayDispatch /\ FillRefused(DispatchSlot, <<passes, dispatch>>) /\ UNCHANGED ioVars
  <2>1. dispatch <= Last(seg) /\ slot[DispatchSlot].state = "Vacant"
    BY <1>3 DEF MayDispatch
  <2> QED
    BY <1>1, <1>3, <2>1, DispatchCounts, FillThrowsHealthy DEF ioVars
<1>4. CASE pc' = "carry" /\ UNCHANGED <<tracker, ioVars, dispatch, life>>
  <2>1. Healthy'
    BY <1>1, <1>4, AtPlace, Carefree DEF NSafe, Working, Loop, Resting, tracker, ioVars, life
  <2> QED
    BY <1>1, <1>4, <2>1, Onwards DEF NSafe, Loop, Final, tracker, ioVars, life
<1> QED
  BY <1>2, <1>3, <1>4 DEF Dispatch

LEMMA OverlapHealthy == IInv /\ NSafe /\ OverlapFill => NSafe'
<1> SUFFICES ASSUME IInv, NSafe, OverlapFill PROVE NSafe'
  OBVIOUS
<1>1. /\ pc = "overlap" /\ pc \in Loop
      /\ UNCHANGED <<live, mailbox, overflow, gpu, seg, next, outgoing, carry>>
  BY DEF OverlapFill, Loop, pools, mail
<1>2. CASE /\ MayOverlap /\ FillSubmitted(DispatchSlot, <<passes, dispatch>>)
           /\ dispatch' = dispatch + 1 /\ pc' = "encode" /\ UNCHANGED life
  BY <1>1, <1>2, GroupFills DEF MayOverlap, life, Loop
<1>3. CASE /\ MayOverlap /\ FillRefused(DispatchSlot, <<passes, dispatch>>) /\ UNCHANGED ioVars
  <2>1. dispatch <= Last(seg) /\ slot[DispatchSlot].state = "Vacant"
    BY <1>3 DEF MayOverlap
  <2> QED
    BY <1>1, <1>3, <2>1, DispatchCounts, FillThrowsHealthy DEF ioVars
<1>4. CASE pc' = "encode" /\ UNCHANGED <<tracker, ioVars, dispatch, life>>
  <2>1. Healthy'
    BY <1>1, <1>4, AtPlace, Carefree DEF NSafe, Working, Loop, Resting, tracker, ioVars, life
  <2> QED
    BY <1>1, <1>4, <2>1, Onwards DEF NSafe, Loop, Final, tracker, ioVars, life
<1> QED
  BY <1>2, <1>3, <1>4 DEF OverlapFill

LEMMA CarryHealthy == IInv /\ NSafe /\ CarryFill => NSafe'
<1> SUFFICES ASSUME IInv, NSafe, CarryFill PROVE NSafe'
  OBVIOUS
<1> DEFINE s == CarrySlot
           item == CarryItem
           a == passes * Len(layout.pools)
<1>1. /\ pc = "carry" /\ pc \in Loop
      /\ UNCHANGED <<live, mailbox, overflow, gpu, seg, next, dispatch, carry>>
  BY DEF CarryFill, Loop, pools, mail
<1>2. CASE pc' = "claim" /\ UNCHANGED <<tracker, ioVars, outgoing, life>>
  <2>1. Healthy'
    BY <1>1, <1>2, AtPlace, Carefree DEF NSafe, Working, Loop, Resting, tracker, ioVars, life
  <2> QED
    BY <1>1, <1>2, <2>1, Onwards DEF NSafe, Loop, Final, tracker, ioVars, life
<1>3. ASSUME MayCarry
      PROVE  /\ s \in SlotsIn(layout) /\ s[1] = seg /\ item \in Nat \X Nat
             /\ item = <<passes + 1, 1>> /\ s = SlotAt(layout, passes + 1, 1)
             /\ slot[s].state = "Vacant" /\ slot[s].generation # MaxFills
             /\ layout.carry /\ outgoing = NoTicket /\ CountOf(outgoing) = 0
  <2>1. /\ layout.carry /\ passes + 1 < layout.passes /\ outgoing = NoTicket
        /\ slot[s].state = "Vacant"
    BY <1>3 DEF MayCarry, CarryNext, Passes
  <2>2. /\ s \in SlotsIn(layout) /\ s[1] = seg /\ item \in Nat \X Nat
        /\ item = <<passes + 1, 1>> /\ s = SlotAt(layout, passes + 1, 1)
    BY <1>1, <2>1, InSegment, Names DEF CarryItem
  <2>3. CountOf(outgoing) = 0
    BY <2>1 DEF CountOf
  <2> HIDE DEF s, item
  <2>4. /\ slot[s].generation <= a + (dispatch - 1 + 0) /\ slot[s].generation \in Nat
        /\ a \in Nat /\ a + Len(layout.pools) + Len(layout.pools) <= MaxFills
        /\ LastOf(layout, seg) <= Len(layout.pools) /\ Len(layout.pools) \in Nat
        /\ 1 <= Len(layout.pools) /\ dispatch \in Nat /\ LastOf(layout, seg) \in Nat
        /\ MaxFills \in Nat
    BY <1>1, <2>1, <2>2, <2>3, FillsSoFar
  <2>5. dispatch <= LastOf(layout, seg) + 1
    BY <1>1, InSegment
  <2> HIDE DEF a
  <2>6. slot[s].generation # MaxFills
    BY <2>4, <2>5
  <2> QED
    BY <2>1, <2>2, <2>3, <2>6
<1>4. CASE MayCarry /\ FillRefused(s, item) /\ UNCHANGED ioVars
  BY <1>1, <1>3, <1>4, FillThrowsHealthy DEF ioVars
<1>5. CASE /\ MayCarry /\ FillSubmitted(s, item) /\ outgoing' = Tracker!NewTicket(s, item)
           /\ pc' = "claim" /\ UNCHANGED life
  <2>1. Tracker!BeginFill(s, item, 1) /\ UNCHANGED <<worker, io>>
    BY <1>5 DEF FillSubmitted
  <2>2. UNCHANGED <<layout, passes, failure>>
    BY <1>5 DEF life
  <2>3. /\ s \in SlotsIn(layout) /\ item \in Nat \X Nat /\ item = <<passes + 1, 1>>
        /\ s = SlotAt(layout, passes + 1, 1) /\ layout.carry /\ CountOf(outgoing) = 0
    BY <1>3, <1>5
  <2> HIDE DEF s, item
  <2>4. /\ Records' /\ OneReport' /\ Sizes' /\ poisoned' = poisoned
        /\ \A u \in SlotsIn(layout) : u # s => slot'[u] = slot[u]
        /\ slot'[s].state = "Loading" /\ slot'[s].ticket = outgoing'
        /\ slot[s].generation \in Nat /\ slot'[s].generation = slot[s].generation + 1
        /\ slot'[s].generation # 0
    BY <1>1, <1>5, <2>1, <2>2, <2>3, FillCounts DEF Loop
  <2>5. s \in AnySlot
    BY <2>3, Types, SlotsOfLayout DEF IInv
  <2>6. outgoing'.slot = s /\ outgoing'.item = item /\ outgoing' # NoTicket
    BY <1>5, <2>3, <2>5, NewTickets DEF IInv
  <2>7. Healthy'
    BY <1>1, <1>5, <2>1, <2>2, <2>4, AtPlace, Carefree DEF NSafe, Working, Loop
  <2>8. Numbers'
    <3>1. a \in Nat /\ dispatch \in Nat /\ \A u \in SlotsIn(layout) : slot[u].generation \in Nat
      BY <1>1, FillsSoFar
    <3>2. \A u \in SlotsIn(layout) : slot[u].generation <= a + (dispatch - 1 + 0)
      BY <1>1, <2>3, FillsSoFar
    <3> HIDE DEF a
    <3>3. \A u \in SlotsIn(layout) : slot'[u].generation <= a + (dispatch - 1 + 1)
      BY <2>4, <3>1, <3>2
    <3>4. \A u \in SlotsIn(layout) : slot'[u].state # "Vacant" => slot'[u].generation # 0
      BY <2>4 DEF NSafe, Numbers
    <3> QED
      BY <1>1, <1>5, <2>2, <2>6, <3>3, <3>4 DEF Numbers, Within, CountOf, Loop, a
  <2>9. Carries'
    <3>1. carry = NoTicket
      BY <1>1, AtPlace
    <3> QED
      BY <1>1, <1>5, <2>2, <2>3, <2>4, <2>6, <3>1 DEF Carries, CarriedFor, Loop
  <2>10. Boundary'
    BY <1>5 DEF Boundary
  <2> QED
    BY <2>4, <2>7, <2>8, <2>9, <2>10 DEF NSafe
<1> QED
  BY <1>2, <1>4, <1>5 DEF CarryFill

-----------------------------------------------------------------------------
(* Uses of a slot.                                                         *)

(* A step of a slot that is no fill, outside of the drain.                 *)
LEMMA CountsStay ==
  ASSUME NSafe, pc \in Loop, pc' \in Loop \ {"drain", "settle"}, NEW s,
         \A u \in SlotsIn(layout) : u # s => slot'[u] = slot[u], Kept(s),
         slot'[s].state # "Vacant" => slot[s].state # "Vacant",
         outgoing # NoTicket /\ s = outgoing.slot => slot'[s].state \in {"Loading", "Ready"},
         outgoing # NoTicket => outgoing.slot \in SlotsIn(layout),
         UNCHANGED <<layout, passes, dispatch, outgoing, carry>>
  PROVE  Numbers' /\ Carries' /\ Boundary'
<1>1. \A u \in SlotsIn(layout) :
        /\ slot'[u].generation = slot[u].generation /\ slot'[u].ticket = slot[u].ticket
        /\ slot'[u].state # "Vacant" => slot[u].state # "Vacant"
  BY DEF Kept
<1>2. Numbers'
  BY <1>1 DEF NSafe, Numbers, Within, Loop
<1>3. Carries'
  <2>1. carry = NoTicket
    BY AtPlace
  <2>2. ASSUME outgoing # NoTicket
        PROVE  CarriedFor(outgoing, passes + 1)' /\ slot'[outgoing.slot].state \in {"Loading", "Ready"}
    <3>1. CarriedFor(outgoing, passes + 1) /\ slot[outgoing.slot].state \in {"Loading", "Ready"}
      BY <2>2 DEF NSafe, Carries
    <3>2. slot'[outgoing.slot].ticket = slot[outgoing.slot].ticket
      BY <1>1, <2>2
    <3>3. slot'[outgoing.slot].state \in {"Loading", "Ready"}
      BY <2>2, <3>1
    <3> QED
      BY <3>1, <3>2, <3>3 DEF CarriedFor
  <2> QED
    BY <2>1, <2>2 DEF Carries, CarriedFor, Loop
<1>4. Boundary'
  BY DEF Boundary
<1> QED
  BY <1>2, <1>3, <1>4

(* The carried fill has a slot of its own.                                 *)
LEMMA CarriedApart ==
  ASSUME IInv, NSafe, pc \in Loop, outgoing # NoTicket
  PROVE  /\ outgoing.slot \in SlotsIn(layout) /\ slot[outgoing.slot].ticket = outgoing
         /\ slot[outgoing.slot].state \in {"Loading", "Ready"}
         /\ \A g \in next .. dispatch - 1 : outgoing.slot # SlotAt(layout, passes, g)
<1>1. CarriedFor(outgoing, passes + 1) /\ slot[outgoing.slot].state \in {"Loading", "Ready"}
  BY DEF NSafe, Carries
<1>2. passes \in Nat /\ layout \in Layouts
  BY InSegment
<1>3. outgoing.slot \in SlotsIn(layout)
  <2>1. passes + 1 \in Nat
    BY <1>2
  <2> QED
    BY <1>1, <1>2, <2>1, SlotOfCarried DEF CarriedFor
<1>4. ASSUME NEW g \in next .. dispatch - 1
      PROVE  outgoing.slot # SlotAt(layout, passes, g)
  <2>1. slot[SlotAt(layout, passes, g)].ticket.item = <<passes, g>>
    BY DEF IInv, Safe, Segment
  <2>2. slot[outgoing.slot].ticket.item = <<passes + 1, 1>>
    BY <1>1 DEF CarriedFor
  <2>3. <<passes, g>> # <<passes + 1, 1>>
    BY <1>2
  <2> QED
    BY <2>1, <2>2, <2>3
<1> QED
  BY <1>1, <1>3, <1>4 DEF CarriedFor

LEMMA ClaimHealthy == IInv /\ NSafe /\ Claim => NSafe'
<1> SUFFICES ASSUME IInv, NSafe, Claim PROVE NSafe'
  OBVIOUS
<1> DEFINE s == NextSlot
<1>1. /\ pc = "claim" /\ pc \in Loop /\ ~overflow
      /\ UNCHANGED <<live, worker, io, mailbox, overflow, gpu, seg, next, dispatch, outgoing, carry>>
  BY AtPlace DEF Claim, Loop, pools, ioVars, mail, loop
<1>2. CASE \E why \in {"cancelled", "adapter"} : Fail(why) /\ UNCHANGED tracker
  <2>1. PICK why \in {"cancelled", "adapter"} : Fail(why) /\ UNCHANGED tracker
    BY <1>2
  <2>2. why \notin InternalError /\ UNCHANGED <<slot, poisoned>>
    BY <2>1 DEF InternalError, tracker
  <2> QED
    BY <1>1, <2>1, <2>2, FailsOnly
<1>3. CASE pc' = "check" /\ UNCHANGED <<tracker, life>>
  <2>1. Healthy'
    BY <1>1, <1>3, AtPlace, Carefree DEF NSafe, Working, Loop, Resting, tracker, life
  <2> QED
    BY <1>1, <1>3, <2>1, Onwards DEF NSafe, Loop, Final, tracker, life
<1>4. CASE MayClaim /\ Tracker!BeginUse(slot[s].ticket) /\ pc' = "overlap" /\ UNCHANGED life
  <2>1. /\ s = SlotAt(layout, passes, next) /\ next <= LastOf(layout, seg)
        /\ slot[s].state = "Ready"
    BY <1>4, Names DEF MayClaim
  <2>2. s \in SlotsIn(layout) /\ s \in AnySlot /\ s[1] = seg /\ dispatch \in Nat /\ next \in Nat
    BY <1>1, <2>1, InSegment
  <2>3. next < dispatch
    <3>1. CASE outgoing # NoTicket
      BY <1>1, <2>1, <2>2, <3>1, InSegment DEF IInv, Safe, Segment
    <3>2. CASE outgoing = NoTicket
      <4>1. \E g \in next .. dispatch - 1 : s = SlotAt(layout, passes, g)
        BY <1>1, <2>1, <2>2, <3>2 DEF IInv, Safe, Segment, Filled
      <4> QED
        BY <2>2, <4>1
    <3> QED
      BY <3>1, <3>2
  <2>4. outgoing # NoTicket => s # outgoing.slot /\ outgoing.slot \in SlotsIn(layout)
    BY <1>1, <2>1, <2>2, <2>3, CarriedApart
  <2>5. slot[s].ticket.slot = s
    BY <2>1, <2>2 DEF IInv, Safe, Cells
  <2>6. OthersKept(s) /\ Kept(s) /\ poisoned' = poisoned /\ slot'[s].state = "InUse"
    BY <1>4, <2>2, <2>5, BeginUseDoes DEF IInv
  <2>7. UNCHANGED <<layout, passes, failure>>
    BY <1>4 DEF life
  <2> HIDE DEF s
  <2>8. \A u \in SlotsIn(layout) : u # s => slot'[u] = slot[u]
    BY <2>6, Types, SlotsOfLayout DEF IInv, OthersKept
  <2>9. Healthy'
    BY <1>1, <1>4, <2>6, <2>7, AtPlace, Carefree DEF NSafe, Working, Loop
  <2>10. Records'
    <3>1. \A i \in ReaderMail : mailbox[i].ticket.slot \in SlotsIn(layout) /\ mailbox[i].ticket.slot # s
      BY <1>1, <2>1 DEF NSafe, Records, ReadBy, Final
    <3> QED
      BY <1>1, <1>4, <2>7, <2>8, <3>1, RecordsStay DEF Loop, Final
  <2>11. OneReport' /\ Sizes'
    BY <1>1 DEF NSafe, OneReport, Sizes, ReaderMail, FillMail
  <2>12. Numbers' /\ Carries' /\ Boundary'
    BY <1>1, <1>4, <2>1, <2>4, <2>6, <2>7, <2>8, CountsStay DEF Loop
  <2> QED
    BY <2>9, <2>10, <2>11, <2>12 DEF NSafe
<1> QED
  BY <1>1, <1>2, <1>3, <1>4 DEF Claim

(* The fences of a group make a set of readers the tracker accepts.        *)
LEMMA ReadersAreSet ==
  ASSUME NEW t, t.generation \in Nat \ {0}
  PROVE  Tracker!ReaderSet({FenceOf(r) : r \in Readers(t)})
<1> DEFINE F == {FenceOf(r) : r \in Readers(t)}
           key == [f \in F |-> f.queue]
<1>1. /\ IsFiniteSet(ReaderQueues) /\ ReaderQueues \subseteq Nat \ {0} /\ MaxReaders \in Nat
      /\ Cardinality(ReaderQueues) \in 1 .. MaxReaders
  BY LayoutAssumption DEF LayoutAssumption
<1>2. \A f \in F : f.queue \in ReaderQueues /\ f = [queue |-> f.queue, sequence |-> t.generation]
  BY DEF Readers, FenceOf
<1>3. F # {}
  <2>1. ReaderQueues # {}
    BY <1>1, FS_EmptySet
  <2>2. PICK q \in ReaderQueues : TRUE
    BY <2>1
  <2>3. [ticket |-> t, queue |-> q, item |-> <<passes, next>>] \in Readers(t)
    BY DEF Readers
  <2> QED
    BY <2>3
<1> HIDE DEF F
<1>4. key \in Injection(F, ReaderQueues)
  BY <1>2 DEF Injection, IsInjective
<1>5. Cardinality(F) <= Cardinality(ReaderQueues) /\ IsFiniteSet(F)
  BY <1>1, <1>4, FS_Injection
<1>6. Cardinality(F) <= MaxReaders
  BY <1>1, <1>5, FS_CardinalityType
<1>7. \A f \in F : f.queue # 0 /\ f.sequence # 0
  BY <1>1, <1>2
<1>8. \A f, g \in F : f.queue = g.queue => f = g
  BY <1>2
<1>9. Tracker!ReaderSet(F)
  <2>1. Tracker!Cardinality(F) = Cardinality(F)
    BY Zenon DEF Tracker!Cardinality, Cardinality
  <2> QED
    BY <1>3, <1>6, <1>7, <1>8, <2>1 DEF Tracker!ReaderSet
<1> QED
  BY <1>9 DEF F

LEMMA EncodeHealthy == IInv /\ NSafe /\ Encode => NSafe'
<1> SUFFICES ASSUME IInv, NSafe, Encode PROVE NSafe'
  OBVIOUS
<1> DEFINE s == SlotAt(layout, passes, next)
           t == slot[s].ticket
           fences == {FenceOf(r) : r \in Readers(t)}
<1>1. /\ pc = "encode" /\ pc \in Loop /\ ~poisoned /\ pc \notin Final
      /\ UNCHANGED <<live, worker, io, mailbox, overflow, seg, dispatch, outgoing, carry>>
  BY AtPlace DEF Encode, Loop, Final, pools, ioVars, mail
<1>2. /\ NextSlot = s /\ s \in SlotsIn(layout) /\ s \in AnySlot
      /\ slot[s].state = "InUse" /\ t.slot = s /\ next \in Nat /\ next < dispatch /\ dispatch \in Nat
      /\ \A r \in Readers(t) : r.ticket = t /\ FenceOf(r) \in AnyFence
  BY <1>1, ReadersOfGroup
<1>3. /\ t.generation \in Nat \ {0}
  <2>1. slot[s].generation # 0
    BY <1>2 DEF NSafe, Numbers
  <2>2. t.generation = slot[s].generation
    BY <1>2 DEF IInv, Safe, Cells
  <2>3. slot[s].generation \in Nat
    BY <1>2, Types DEF IInv, Cell
  <2> QED
    BY <2>1, <2>2, <2>3
<1>4. Tracker!CanSealReaders(t, fences)
  <2>1. Tracker!ReaderSet(fences)
    BY <1>3, ReadersAreSet
  <2> HIDE DEF fences
  <2>2. Tracker!Matches(t) /\ slot[t.slot].state = "InUse"
    BY <1>2 DEF Tracker!Matches
  <2> QED
    BY <1>1, <2>1, <2>2 DEF Tracker!CanSealReaders
<1>5. \A i \in ReaderMail : /\ mailbox[i].ticket.slot \in SlotsIn(layout)
                            /\ mailbox[i].ticket.slot # s
  BY <1>1, <1>2 DEF NSafe, Records, ReadBy, Closes
<1>6. ASSUME gpu' \subseteq gpu \cup Readers(t)
      PROVE  OneReport' /\ Sizes'
  <2>1. \A r \in Readers(t) : r.ticket.slot = s /\ r.queue \in ReaderQueues
    BY <1>2 DEF Readers
  <2>2. OneReport'
    BY <1>1, <1>5, <1>6, <2>1 DEF NSafe, OneReport, ReaderMail
  <2> QED
    BY <1>1, <2>2 DEF NSafe, Sizes, FillMail
<1>7. CASE Fail("adapter") /\ UNCHANGED tracker /\ \E some \in SUBSET Readers(t) : gpu' = gpu \cup some
  <2>1. gpu' \subseteq gpu \cup Readers(t)
    BY <1>7
  <2>2. UNCHANGED <<slot, poisoned>> /\ layout' = layout /\ pc' = "stop"
    BY <1>7 DEF tracker, Fail
  <2>3. Records'
    BY <1>1, <2>2, RecordsStay DEF Loop
  <2> QED
    BY <1>1, <1>6, <1>7, <2>1, <2>2, <2>3, Halts DEF InternalError
<1>8. CASE /\ Tracker!SealReaders(t, fences)
           /\ \/ gpu' = gpu \cup Readers(t) /\ pc' = "check"
              \/ UNCHANGED gpu /\ pc' = "retire"
           /\ next' = next + 1 /\ UNCHANGED life
  <2>1. fences \in SUBSET AnyFence
    BY <1>2
  <2>2. OthersKept(s) /\ Kept(s) /\ poisoned' = poisoned /\ slot'[s].state = "AwaitingFence"
    BY <1>2, <1>8, <2>1, SealReadersDoes DEF IInv
  <2>3. UNCHANGED <<layout, passes, failure>> /\ pc' \in {"check", "retire"}
    BY <1>8 DEF life
  <2>4. gpu' \subseteq gpu \cup Readers(t)
    BY <1>8
  <2>5. SlotAt(layout', passes', next' - 1) = s
    BY <1>2, <1>8, <2>3
  <2>6. outgoing # NoTicket => s # outgoing.slot /\ outgoing.slot \in SlotsIn(layout)
    BY <1>1, <1>2, CarriedApart
  <2>7. OneReport' /\ Sizes'
    BY <1>6, <2>4
  <2> HIDE DEF s, fences
  <2>8. \A u \in SlotsIn(layout) : u # s => slot'[u] = slot[u]
    BY <2>2, Types, SlotsOfLayout DEF IInv, OthersKept
  <2>9. Healthy'
    BY <1>1, <2>2, <2>3, AtPlace, Carefree DEF NSafe, Working, Loop
  <2>10. Records'
    <3>1. ASSUME NEW i \in ReaderMail
          PROVE  ReadBy(mailbox[i].ticket, mailbox[i].fence)' /\ Closes(mailbox[i].ticket, mailbox[i].fence)'
      <4>1. ReadBy(mailbox[i].ticket, mailbox[i].fence) /\ Closes(mailbox[i].ticket, mailbox[i].fence)
        BY <1>1 DEF NSafe, Records
      <4>2. slot'[mailbox[i].ticket.slot] = slot[mailbox[i].ticket.slot] /\ mailbox[i].ticket.slot # s
        BY <1>5, <2>8
      <4> QED
        BY <1>1, <2>3, <2>5, <4>1, <4>2 DEF ReadBy, Closes
    <3> QED
      BY <1>1, <3>1 DEF Records, ReaderMail
  <2>11. Numbers' /\ Carries' /\ Boundary'
    <3>1. pc' \in Loop \ {"drain", "settle"}
      BY <2>3 DEF Loop
    <3>2. slot[s].state # "Vacant"
      BY <1>2
    <3> QED
      BY <1>1, <2>2, <2>3, <2>6, <2>8, <3>1, <3>2, CountsStay
  <2> QED
    BY <2>7, <2>9, <2>10, <2>11 DEF NSafe
<1> QED
  BY <1>1, <1>2, <1>4, <1>7, <1>8 DEF Encode

(* A reader of a slot completes: the records of others stay.               *)
LEMMA RetiredCounts ==
  ASSUME IInv, NSafe, pc \in Loop, pc' \in Loop \ {"drain", "settle"},
         NEW t \in AnyTicket, NEW f, Tracker!CompleteReader(t, f), t.slot \in SlotsIn(layout),
         mailbox' = mailbox \/ (mailbox # <<>> /\ mailbox' = Tail(mailbox)),
         \A i \in ReaderMail : mailbox[i].ticket.slot = t.slot =>
           (mailbox' # mailbox /\ i = 1) \/ mailbox[i].fence # f,
         pc' = "retire" => pc = "retire",
         UNCHANGED <<layout, live, worker, io, overflow, gpu, passes, failure, next, dispatch,
                     outgoing, carry>>
  PROVE  NSafe'
<1> DEFINE s == t.slot
<1>1. TypeOK /\ pc \notin Final /\ pc' \notin Final
  BY DEF IInv, Loop, Final
<1>2. /\ t = slot[s].ticket /\ slot[s].state = "AwaitingFence" /\ poisoned' = poisoned
      /\ f \in slot[s].readers \ slot[s].complete
      /\ OthersKept(s) /\ Kept(s)
      /\ slot'[s].readers = slot[s].readers
      /\ slot'[s].complete = slot[s].complete \cup {f}
      /\ slot'[s].state = IF slot'[s].complete = slot'[s].readers THEN "Vacant" ELSE "AwaitingFence"
  BY <1>1, CompleteReaderDoes
<1>3. s \in SlotsIn(layout)
  OBVIOUS
<1>4. /\ \A i \in ReaderMail' : \E k \in ReaderMail :
           mailbox'[i] = mailbox[k] /\ (mailbox' # mailbox => k # 1)
      /\ OneReport' /\ Sizes'
  BY <1>1, MailKept DEF NSafe
<1> HIDE DEF s
<1>5. \A u \in SlotsIn(layout) : u # s => slot'[u] = slot[u]
  BY <1>2, Types, SlotsOfLayout DEF IInv, OthersKept
<1>6. Healthy'
  BY <1>2, AtPlace, Carefree DEF NSafe, Working, Loop
<1>7. Records'
  <2>1. ASSUME NEW k \in ReaderMail, mailbox' # mailbox => k # 1
        PROVE  ReadBy(mailbox[k].ticket, mailbox[k].fence) /\ Closes(mailbox[k].ticket, mailbox[k].fence)
               /\ (mailbox[k].ticket.slot = s => mailbox[k].fence # f)
    BY <1>1, <2>1 DEF NSafe, Records, s
  <2>2. ASSUME NEW q, NEW h, ReadBy(q, h), Closes(q, h), q.slot = s => h # f
        PROVE  ReadBy(q, h)' /\ Closes(q, h)'
    <3>1. CASE q.slot # s
      BY <1>5, <2>2, <3>1 DEF ReadBy, Closes
    <3>2. CASE q.slot = s
      <4>1. h \in slot'[s].readers \ slot'[s].complete
        BY <1>2, <2>2, <3>2 DEF Closes
      <4>2. slot'[s].state = "AwaitingFence" /\ slot'[s].ticket = slot[s].ticket
        BY <1>2, <4>1 DEF Kept
      <4> QED
        BY <2>2, <3>2, <4>1, <4>2 DEF ReadBy, Closes
    <3> QED
      BY <3>1, <3>2
  <2>3. ASSUME NEW i \in ReaderMail'
        PROVE  ReadBy(mailbox[i].ticket, mailbox[i].fence)' /\ Closes(mailbox[i].ticket, mailbox[i].fence)'
    <3>1. PICK k \in ReaderMail : mailbox'[i] = mailbox[k] /\ (mailbox' # mailbox => k # 1)
      BY <1>4, <2>3
    <3>2. \A q, h : q = mailbox[k].ticket /\ h = mailbox[k].fence => ReadBy(q, h)' /\ Closes(q, h)'
      BY <2>1, <2>2, <3>1
    <3>3. \A q, h : q = mailbox'[i].ticket /\ h = mailbox'[i].fence => ReadBy(q, h)' /\ Closes(q, h)'
      BY <3>1, <3>2
    <3> QED
      BY <3>3 DEF ReadBy, Closes
  <2> QED
    BY <2>3 DEF Records
<1>8. Numbers' /\ Carries' /\ Boundary'
  <2>1. outgoing # NoTicket => outgoing.slot \in SlotsIn(layout) /\ s # outgoing.slot
    BY <1>2, CarriedApart
  <2>2. slot[s].state # "Vacant"
    BY <1>2
  <2> QED
    BY <1>2, <1>5, <2>1, <2>2, CountsStay
<1> QED
  BY <1>4, <1>6, <1>7, <1>8 DEF NSafe

LEMMA RetireHealthy == IInv /\ NSafe /\ Retire => NSafe'
<1> SUFFICES ASSUME IInv, NSafe, Retire PROVE NSafe'
  OBVIOUS
<1> DEFINE s == SlotAt(layout, passes, next - 1)
<1>1. /\ pc = "retire" /\ pc \in Loop /\ pc' \in {"retire", "check"}
      /\ UNCHANGED <<live, worker, io, mailbox, overflow, gpu, next, dispatch, outgoing, carry,
                     layout, passes, failure>>
  BY DEF Retire, Loop, pools, ioVars, mail, loop, life
<1>2. PICK f : Tracker!CompleteReader(slot[s].ticket, f)
  BY Names, Zenon DEF Retire
<1>3. s \in SlotsIn(layout) /\ s \in AnySlot
  <2>1. next - 1 \in FirstOf(layout, seg) .. LastOf(layout, seg)
    BY <1>1, InSegment DEF IInv, Safe, Segment
  <2> QED
    BY <1>1, <2>1, InSegment
<1>4. slot[s].ticket \in AnyTicket /\ slot[s].ticket.slot = s
  BY <1>3 DEF IInv, TypeOK, Cell, Safe, Cells
<1>5. \A i \in ReaderMail : mailbox[i].ticket.slot # s
  BY <1>1 DEF NSafe, Records, Closes
<1>6. pc' \in Loop \ {"drain", "settle"}
  BY <1>1 DEF Loop
<1> HIDE DEF s
<1> QED
  BY <1>1, <1>2, <1>3, <1>4, <1>5, <1>6, RetiredCounts

-----------------------------------------------------------------------------
(* Records.                                                                *)

(* Every record is of a slot at work in the active pool.                   *)
LEMMA RecordAtWork ==
  ASSUME IInv, NSafe, pc \notin Final, mailbox # <<>>
  PROVE  LET r == mailbox[1] IN
         /\ Head(mailbox) = r /\ r.ticket \in AnyTicket /\ Tail(mailbox) # mailbox
         /\ r.ticket.slot \in SlotsIn(layout) /\ r.ticket.slot[1] \in live
         /\ r.ticket.slot[1] = active
         /\ slot[r.ticket.slot].ticket = r.ticket
         /\ \/ /\ r.kind = "fill" /\ 1 \in FillMail /\ r.bytes \in {0, 1}
               /\ slot[r.ticket.slot].state = "Loading" /\ slot[r.ticket.slot].expected = 1
            \/ /\ r.kind = "reader" /\ 1 \in ReaderMail
               /\ slot[r.ticket.slot].state \in {"InUse", "AwaitingFence"}
<1> DEFINE r == mailbox[1]
<1>1. mailbox \in Seq(MailRecord)
  BY Types DEF IInv
<1>2. Head(mailbox) = r /\ 1 \in DOMAIN mailbox /\ r \in MailRecord
  BY <1>1, TailRing
<1>3. Tail(mailbox) # mailbox
  BY <1>1, HeadTailProperties, EmptySeq, LenProperties
<1>4. r.ticket \in AnyTicket /\ r.kind \in {"fill", "reader"}
  BY <1>2 DEF MailRecord
<1>5. CASE r.kind = "fill"
  <2>1. 1 \in FillMail
    BY <1>2, <1>5 DEF FillMail
  <2>2. Pending(r.ticket) /\ r.bytes \in {0, 1}
    BY <2>1 DEF IInv, Safe, Fills, NSafe, Sizes
  <2> HIDE DEF r
  <2>3. /\ r.ticket.slot \in SlotsIn(layout) /\ r.ticket.slot[1] \in live
        /\ slot[r.ticket.slot].state = "Loading" /\ slot[r.ticket.slot].ticket = r.ticket
    BY <2>2 DEF Pending
  <2>4. slot[r.ticket.slot].expected = 1 /\ r.ticket.slot[1] = active
    BY <2>3, AtWork DEF IInv, Safe, Cells
  <2> QED
    BY <1>2, <1>3, <1>4, <1>5, <2>1, <2>2, <2>3, <2>4 DEF r
<1>6. CASE r.kind = "reader"
  <2>1. 1 \in ReaderMail
    BY <1>2, <1>6 DEF ReaderMail
  <2>2. ReadBy(r.ticket, r.fence)
    BY <2>1 DEF NSafe, Records
  <2> HIDE DEF r
  <2>3. /\ r.ticket.slot \in SlotsIn(layout) /\ r.ticket.slot[1] \in live
        /\ slot[r.ticket.slot].state \in {"InUse", "AwaitingFence"}
        /\ slot[r.ticket.slot].ticket = r.ticket
    BY <2>2 DEF ReadBy
  <2>4. r.ticket.slot[1] = active
    BY <2>3, AtWork
  <2> QED
    BY <1>2, <1>3, <1>4, <1>6, <2>1, <2>3, <2>4 DEF r
<1> QED
  BY <1>4, <1>5, <1>6

(* A record is only met in the loop, before the drain.                     *)
LEMMA RecordInLoop ==
  ASSUME IInv, NSafe, pc \in {"consume", "settle", "finalize"}, mailbox # <<>>
  PROVE  pc = "consume" /\ pc \in Loop /\ pc \notin Final
<1>1. pc # "finalize"
  BY AtRest DEF Resting
<1>2. ASSUME pc = "settle"
      PROVE  FALSE
  <2> DEFINE s == mailbox[1].ticket.slot
  <2>1. pc \in Loop /\ pc \notin Final
    BY <1>2 DEF Loop, Final
  <2>2. /\ s \in SlotsIn(layout) /\ s[1] = active
        /\ slot[s].state \in {"Loading", "InUse", "AwaitingFence"}
    BY <2>1, RecordAtWork
  <2> HIDE DEF s
  <2>3. s[1] = seg
    BY <2>1, <2>2 DEF IInv, Safe, Segment
  <2> QED
    BY <1>2, <2>2, <2>3 DEF NSafe, Boundary
<1> QED
  BY <1>1, <1>2 DEF Loop, Final

(* The head record is taken and the executor fails.                        *)
LEMMA TakenFails ==
  ASSUME IInv, NSafe, pc \in Loop, mailbox # <<>>, mailbox' = Tail(mailbox),
         NEW why, Fail(why), why \notin InternalError, poisoned' = poisoned \/ why = "short",
         UNCHANGED <<slot, live, worker, gpu, overflow>>
  PROVE  NSafe'
<1>1. pc' = "stop" /\ layout' = layout /\ pc \notin Final
  BY DEF Fail, Loop, Final
<1>2. /\ \A i \in ReaderMail' : \E k \in ReaderMail : mailbox'[i] = mailbox[k]
      /\ OneReport' /\ Sizes'
  BY MailKept DEF NSafe, IInv
<1>3. Records'
  <2>1. ASSUME NEW i \in ReaderMail'
        PROVE  ReadBy(mailbox[i].ticket, mailbox[i].fence)'
    <3>1. PICK k \in ReaderMail : mailbox'[i] = mailbox[k]
      BY <1>2
    <3>2. ReadBy(mailbox[k].ticket, mailbox[k].fence)
      BY <1>1 DEF NSafe, Records
    <3> QED
      BY <1>1, <3>1, <3>2 DEF ReadBy
  <2> QED
    BY <1>1, <2>1 DEF Records, Loop
<1> QED
  BY <1>1, <1>2, <1>3, Halts

LEMMA AcceptHealthy ==
  ASSUME IInv, NSafe, pc \in Loop \ {"drain", "settle"}, mailbox # <<>>, mailbox' = Tail(mailbox),
         Tracker!AcceptReady(mailbox[1].ticket, mailbox[1].bytes),
         UNCHANGED <<layout, live, worker, io, overflow, gpu, passes, failure, next, dispatch,
                     outgoing, carry, pc>>
  PROVE  NSafe'
<1> DEFINE t == mailbox[1].ticket
           s == t.slot
<1>1. t \in AnyTicket /\ s \in SlotsIn(layout) /\ pc \notin Final
  BY RecordAtWork DEF Loop, Final
<1>2. /\ slot[s].state = "Loading" /\ poisoned' = poisoned
      /\ OthersKept(s) /\ Kept(s) /\ slot'[s].state = "Ready"
  BY <1>1, AcceptReadyDoes DEF IInv
<1>3. /\ \A i \in ReaderMail' : \E k \in ReaderMail : mailbox'[i] = mailbox[k]
      /\ OneReport' /\ Sizes'
  BY MailKept DEF NSafe, IInv
<1> HIDE DEF s, t
<1>4. \A u \in SlotsIn(layout) : u # s => slot'[u] = slot[u]
  BY <1>2, Types, SlotsOfLayout DEF IInv, OthersKept
<1>5. Healthy'
  BY <1>2, AtPlace, Carefree DEF NSafe, Working, Loop
<1>6. Records'
  <2>1. ASSUME NEW i \in ReaderMail'
        PROVE  ReadBy(mailbox[i].ticket, mailbox[i].fence)' /\ Closes(mailbox[i].ticket, mailbox[i].fence)'
    <3>1. PICK k \in ReaderMail : mailbox'[i] = mailbox[k]
      BY <1>3
    <3>2. ReadBy(mailbox[k].ticket, mailbox[k].fence) /\ Closes(mailbox[k].ticket, mailbox[k].fence)
      BY <1>1 DEF NSafe, Records
    <3>3. mailbox[k].ticket.slot # s /\ mailbox[k].ticket.slot \in SlotsIn(layout)
      BY <1>2, <3>2 DEF ReadBy
    <3>4. slot'[mailbox[k].ticket.slot] = slot[mailbox[k].ticket.slot]
      BY <1>4, <3>3
    <3> QED
      BY <3>1, <3>2, <3>4 DEF ReadBy, Closes
  <2> QED
    BY <2>1 DEF Records
<1>7. Numbers' /\ Carries' /\ Boundary'
  <2>1. outgoing # NoTicket => outgoing.slot \in SlotsIn(layout)
    BY CarriedApart
  <2> QED
    BY <1>2, <1>4, <2>1, CountsStay
<1> QED
  BY <1>3, <1>5, <1>6, <1>7 DEF NSafe

LEMMA ConsumeHealthy == IInv /\ NSafe /\ Consume => NSafe'
<1> SUFFICES ASSUME IInv, NSafe, Consume PROVE NSafe'
  OBVIOUS
<1> DEFINE r == mailbox[1]
<1>1. /\ pc \in {"consume", "settle", "finalize"} /\ mailbox # <<>> /\ mailbox' = Tail(mailbox)
      /\ UNCHANGED <<live, worker, io, overflow, gpu, seg, next, dispatch, outgoing, carry>>
  BY DEF Consume, pools, ioVars
<1>2. pc = "consume" /\ pc \in Loop /\ pc \notin Final
  BY <1>1, RecordInLoop
<1>3. /\ Head(mailbox) = r /\ r.ticket \in AnyTicket /\ mailbox' # mailbox
      /\ r.ticket.slot \in SlotsIn(layout) /\ live # {} /\ r.ticket.slot[1] = active
      /\ slot[r.ticket.slot].ticket = r.ticket
      /\ \/ /\ r.kind = "fill" /\ 1 \in FillMail /\ r.bytes \in {0, 1}
            /\ slot[r.ticket.slot].state = "Loading" /\ slot[r.ticket.slot].expected = 1
         \/ r.kind = "reader" /\ 1 \in ReaderMail
  BY <1>1, <1>2, RecordAtWork
<1>4. ~poisoned
  BY <1>2, AtPlace
<1>5. CASE Fail("completion") /\ UNCHANGED tracker
  BY <1>1, <1>2, <1>5, TakenFails DEF InternalError, tracker
<1>6. CASE Tracker!AcceptReady(r.ticket, r.bytes) /\ UNCHANGED <<pc, life>>
  BY <1>1, <1>2, <1>6, AcceptHealthy DEF life
<1>7. CASE r.kind = "reader" /\ Tracker!CompleteReader(r.ticket, r.fence) /\ UNCHANGED <<pc, life>>
  <2>1. \A i \in ReaderMail : mailbox[i].ticket.slot = r.ticket.slot =>
          (mailbox' # mailbox /\ i = 1) \/ mailbox[i].fence # r.fence
    BY <1>3, <1>7 DEF NSafe, OneReport
  <2>2. pc' \in Loop \ {"drain", "settle"} /\ pc' = pc /\ UNCHANGED <<layout, passes, failure>>
    BY <1>2, <1>7 DEF life
  <2> HIDE DEF r
  <2> QED
    BY <1>1, <1>2, <1>3, <1>7, <2>1, <2>2, RetiredCounts
<1>8. CASE /\ IF r.kind = "fill" THEN ~Tracker!CanAcceptReady(r.ticket, r.bytes)
                                 ELSE ~Tracker!CanCompleteReader(r.ticket, r.fence)
           /\ Tracker!Refuse
           /\ Fail(IF r.kind = "fill" /\ r.bytes = 0 THEN "short" ELSE "violation")
  <2>1. r.kind = "fill" /\ r.bytes = 0
    <3>1. CASE r.kind = "fill"
      BY <1>3, <1>4, <1>8, <3>1 DEF Tracker!CanAcceptReady, Tracker!Matches
    <3>2. CASE r.kind = "reader" /\ 1 \in ReaderMail
      <4>1. Closes(r.ticket, r.fence)
        BY <1>2, <3>2 DEF NSafe, Records
      <4>2. Tracker!CanCompleteReader(r.ticket, r.fence)
        BY <1>3, <1>4, <4>1 DEF Closes, Tracker!CanCompleteReader, Tracker!Matches
      <4> QED
        BY <1>8, <3>2, <4>2
    <3> QED
      BY <1>3, <3>1, <3>2
  <2>2. Fail("short") /\ slot' = slot
    BY <1>8, <2>1 DEF Tracker!Refuse
  <2> QED
    BY <1>1, <1>2, <2>2, TakenFails DEF InternalError
<1> QED
  BY <1>3, <1>5, <1>6, <1>7, <1>8 DEF Consume

-----------------------------------------------------------------------------
(* Workers and GPU callbacks.                                              *)

LEMMA OwnerAway ==
  ASSUME NSafe, UNCHANGED <<ownerVars, live, io, overflow>>
  PROVE  /\ Healthy' /\ Numbers' /\ Carries' /\ Boundary'
         /\ UNCHANGED <<slot, pc, next, layout, passes>>
<1>1. UNCHANGED <<slot, poisoned, pc, seg, next, dispatch, outgoing, carry, layout, passes, failure>>
  BY DEF ownerVars, tracker, loop, life
<1>2. Healthy'
  BY <1>1, Carefree DEF NSafe, Healthy
<1>3. Numbers'
  BY <1>1 DEF NSafe, Numbers, Within
<1>4. Carries'
  BY <1>1 DEF NSafe, Carries, CarriedFor
<1>5. Boundary'
  BY <1>1 DEF NSafe, Boundary
<1> QED
  BY <1>1, <1>2, <1>3, <1>4, <1>5

LEMMA WorkersHealthy ==
  ASSUME IInv, NSafe, NEW w \in Worker, TakeJob(w) \/ FillEnds(w) \/ WorkerExits(w)
  PROVE  NSafe'
<1>1. UNCHANGED <<ownerVars, live, io, mailbox, overflow, gpu>>
  BY DEF TakeJob, FillEnds, WorkerExits, mail, pools
<1>2. /\ Healthy' /\ Numbers' /\ Carries' /\ Boundary'
      /\ UNCHANGED <<slot, pc, next, layout, passes>>
  BY <1>1, OwnerAway
<1>3. Records' /\ OneReport'
  BY <1>1, <1>2 DEF NSafe, Records, OneReport, ReaderMail, ReadBy, Closes
<1>4. Sizes'
  <2>1. worker \in [Worker -> WorkerRecord] /\ worker[w].bytes \in {0, 1}
    BY Types DEF IInv, NSafe, Sizes
  <2>2. \A v \in Worker : worker'[v].bytes \in {0, 1}
    <3>1. \A v \in Worker : v # w => worker'[v] = worker[v]
      BY <2>1 DEF TakeJob, FillEnds, WorkerExits
    <3>2. worker'[w].bytes \in {0, 1}
      <4>1. CASE TakeJob(w)
        BY <2>1, <4>1 DEF TakeJob, WorkerRecord
      <4>2. CASE WorkerExits(w)
        BY <2>1, <4>2 DEF WorkerExits, WorkerRecord
      <4>3. CASE FillEnds(w)
        BY <2>1, <4>3 DEF FillEnds
      <4> QED
        BY <4>1, <4>2, <4>3
    <3> QED
      BY <3>1, <3>2 DEF NSafe, Sizes
  <2> QED
    BY <1>1, <2>2 DEF NSafe, Sizes, FillMail
<1> QED
  BY <1>2, <1>3, <1>4 DEF NSafe

LEMMA PostFillHealthy ==
  ASSUME IInv, NSafe, NEW w \in Worker, PostFill(w)
  PROVE  NSafe'
<1> DEFINE t == worker[w].ticket
           record == [kind |-> "fill", ticket |-> t, ok |-> worker[w].ok,
                      bytes |-> worker[w].bytes, fence |-> <<>>]
<1>1. /\ worker[w].state = "posting" /\ MailboxPost(record)
      /\ worker' = [worker EXCEPT ![w] = Idle]
      /\ io' = IF overflow' THEN "stopped" ELSE io
      /\ UNCHANGED <<ownerVars, live, gpu>>
  BY DEF PostFill, pools
<1>2. TypeOK /\ worker \in [Worker -> WorkerRecord] /\ mailbox \in Seq(MailRecord)
  BY Types DEF IInv
<1>3. pc \notin Final /\ w \in Busy /\ Pending(t)
  BY <1>1, WorkersRun DEF Busy
<1>4. t.slot \in SlotsIn(layout) /\ t.slot[1] = active
  BY <1>3, AtWork DEF Pending
<1>5. record \in MailRecord /\ record.kind = "fill" /\ record.bytes = worker[w].bytes
  <2>1. t \in AnyTicket
    <3>1. t.slot \in AnySlot /\ slot[t.slot].ticket = t
      BY <1>2, <1>3, Types, SlotsOfLayout DEF Pending
    <3> QED
      BY <1>2, <3>1 DEF TypeOK, Cell
  <2> QED
    BY <1>2, <2>1 DEF MailRecord, WorkerRecord
<1> HIDE DEF record
<1>6. Len(mailbox) < MailboxCapacity
  <2>1. \A i \in FillMail : mailbox[i].ticket.slot # t.slot
    BY <1>3 DEF IInv, Safe, OneFill
  <2>2. \A i \in ReaderMail : mailbox[i].fence.queue # 0
    <3>1. 0 \notin ReaderQueues
      BY LayoutAssumption DEF LayoutAssumption
    <3> QED
      BY <1>3, <3>1 DEF NSafe, Records, ReadBy
  <2> DEFINE s == t.slot
  <2>3. /\ s \in SlotsIn(layout) /\ s[1] = active
        /\ \A i \in FillMail : 0 = 0 => mailbox[i].ticket.slot # s
        /\ \A i \in ReaderMail : mailbox[i].ticket.slot = s => mailbox[i].fence.queue # 0
    BY <1>4, <2>1, <2>2
  <2> HIDE DEF s
  <2>4. 0 \in {0} \cup ReaderQueues
    OBVIOUS
  <2> QED
    BY <1>3, <2>3, <2>4, RoomInMailbox DEF NSafe
<1>7. mailbox' = Append(mailbox, record) /\ overflow' = overflow
  BY <1>1, <1>6 DEF MailboxPost
<1>8. ~overflow
  BY DEF NSafe, Healthy, NoInternalError
<1>9. io' = io
  BY <1>1, <1>7, <1>8
<1>10. /\ Healthy' /\ Numbers' /\ Carries' /\ Boundary'
       /\ UNCHANGED <<slot, pc, next, layout, passes>>
  BY <1>1, <1>7, <1>9, OwnerAway
<1>11. /\ \A i \in FillMail' : (i \in FillMail /\ mailbox'[i] = mailbox[i]) \/ mailbox'[i] = record
       /\ \A i \in ReaderMail' : i \in ReaderMail /\ mailbox'[i] = mailbox[i]
  <2>1. /\ DOMAIN mailbox' = DOMAIN mailbox \cup {Len(mailbox) + 1}
        /\ mailbox'[Len(mailbox) + 1] = record
        /\ \A i \in DOMAIN mailbox : mailbox'[i] = mailbox[i]
    BY <1>2, <1>5, <1>7, AppendRing
  <2> QED
    BY <1>5, <2>1 DEF FillMail, ReaderMail
<1>12. Records' /\ OneReport'
  BY <1>1, <1>10, <1>11 DEF NSafe, Records, OneReport, ReadBy, Closes
<1>13. Sizes'
  <2>1. \A v \in Worker : worker'[v].bytes \in {0, 1}
    BY <1>1, <1>2 DEF NSafe, Sizes, Idle
  <2> QED
    BY <1>5, <1>11, <2>1 DEF NSafe, Sizes
<1> QED
  BY <1>10, <1>12, <1>13 DEF NSafe

LEMMA ReaderDoneHealthy ==
  ASSUME IInv, NSafe, NEW r \in gpu, ReaderDone(r)
  PROVE  NSafe'
<1>1. /\ gpu' = gpu \ {r} /\ UNCHANGED <<ownerVars, live, worker, io>>
  BY DEF ReaderDone, pools, ioVars
<1>2. TypeOK /\ mailbox \in Seq(MailRecord)
  BY Types DEF IInv
<1>3. PICK ok \in BOOLEAN : MailboxPost([kind |-> "reader", ticket |-> r.ticket, ok |-> ok,
                                         bytes |-> 0, fence |-> FenceOf(r)])
  BY DEF ReaderDone
<1> DEFINE record == [kind |-> "reader", ticket |-> r.ticket, ok |-> ok, bytes |-> 0,
                      fence |-> FenceOf(r)]
           s == r.ticket.slot
<1>4. \A q \in gpu : q \in ReaderRecord
  BY <1>2, Types
<1>5. /\ record \in MailRecord /\ record.kind = "reader" /\ record.ticket = r.ticket
      /\ record.fence = FenceOf(r)
  <2>1. FenceOf(r) \in AnyFence
    BY <1>4 DEF ReaderRecord, AnyTicket, FenceOf, AnyFence
  <2> QED
    BY <1>4, <2>1 DEF MailRecord, ReaderRecord
<1> HIDE DEF record
<1>6. /\ s \in SlotsIn(layout) /\ s[1] \in live /\ slot[s].ticket = r.ticket
      /\ slot[s].state \in {"InUse", "AwaitingFence"} /\ pc \notin Final
  BY DEF IInv, Safe, Reading
<1>7. s[1] = active
  BY <1>6, AtWork
<1>8. r.queue \in ReaderQueues /\ r.queue # 0
  <2>1. 0 \notin ReaderQueues
    BY LayoutAssumption DEF LayoutAssumption
  <2> QED
    BY <2>1 DEF NSafe, OneReport
<1>9. Len(mailbox) < MailboxCapacity
  <2> DEFINE q == r.queue
  <2>1. /\ q \in {0} \cup ReaderQueues
        /\ \A i \in FillMail : q = 0 => mailbox[i].ticket.slot # s
        /\ \A i \in ReaderMail : mailbox[i].ticket.slot = s => mailbox[i].fence.queue # q
    BY <1>8 DEF NSafe, OneReport
  <2> HIDE DEF q, s
  <2> QED
    BY <1>6, <1>7, <2>1, RoomInMailbox DEF NSafe
<1>10. mailbox' = Append(mailbox, record) /\ overflow' = overflow
  BY <1>3, <1>9 DEF MailboxPost, record
<1>11. /\ Healthy' /\ Numbers' /\ Carries' /\ Boundary'
       /\ UNCHANGED <<slot, pc, next, layout, passes>>
  BY <1>1, <1>10, OwnerAway
<1>12. /\ \A i \in ReaderMail' : \/ i \in ReaderMail /\ mailbox'[i] = mailbox[i]
                                 \/ i = Len(mailbox) + 1 /\ mailbox'[i] = record
       /\ \A i \in FillMail' : i \in FillMail /\ mailbox'[i] = mailbox[i]
  <2>1. /\ DOMAIN mailbox' = DOMAIN mailbox \cup {Len(mailbox) + 1}
        /\ mailbox'[Len(mailbox) + 1] = record
        /\ \A i \in DOMAIN mailbox : mailbox'[i] = mailbox[i]
    BY <1>2, <1>5, <1>10, AppendRing
  <2> QED
    BY <1>5, <2>1 DEF FillMail, ReaderMail
<1>13. FenceOf(r).queue = r.queue /\ FenceOf(r) \in [queue : ReaderQueues, sequence : {r.ticket.generation}]
  BY <1>8 DEF FenceOf
<1>14. Records'
  <2>1. ReadBy(r.ticket, FenceOf(r))
    BY <1>6, <1>13 DEF ReadBy
  <2>2. pc \in Loop => Closes(r.ticket, FenceOf(r))
    BY DEF IInv, Safe, Reports, Closes
  <2>3. ASSUME NEW i \in ReaderMail'
        PROVE  /\ ReadBy(mailbox[i].ticket, mailbox[i].fence)'
               /\ pc \in Loop => Closes(mailbox[i].ticket, mailbox[i].fence)'
    <3>1. CASE i \in ReaderMail /\ mailbox'[i] = mailbox[i]
      BY <1>1, <1>6, <1>11, <3>1 DEF NSafe, Records, ReadBy, Closes
    <3>2. CASE mailbox'[i] = record
      BY <1>1, <1>5, <1>11, <2>1, <2>2, <3>2 DEF ReadBy, Closes
    <3> QED
      BY <1>12, <3>1, <3>2
  <2> QED
    BY <1>11, <2>3 DEF Records
<1>15. OneReport'
  <2>1. \A q \in gpu' : q.ticket.slot = s => q.queue # r.queue
    <3> SUFFICES ASSUME NEW q \in gpu', q.ticket.slot = s PROVE q.queue # r.queue
      OBVIOUS
    <3>1. q \in gpu /\ q # r
      BY <1>1
    <3>2. q.ticket = r.ticket /\ q.item = r.item
      BY <3>1 DEF IInv, Safe, Reading
    <3> QED
      BY <1>4, <3>1, <3>2 DEF ReaderRecord
  <2>2. \A i, k \in ReaderMail' : i # k /\ mailbox'[i].ticket.slot = mailbox'[k].ticket.slot =>
          mailbox'[i].fence.queue # mailbox'[k].fence.queue
    BY <1>5, <1>12, <1>13 DEF NSafe, OneReport
  <2>3. \A i \in ReaderMail', q \in gpu' : mailbox'[i].ticket.slot = q.ticket.slot =>
          mailbox'[i].fence.queue # q.queue
    BY <1>1, <1>5, <1>12, <1>13, <2>1 DEF NSafe, OneReport
  <2> QED
    BY <1>1, <2>2, <2>3 DEF NSafe, OneReport
<1>16. Sizes'
  BY <1>1, <1>12 DEF NSafe, Sizes
<1> QED
  BY <1>11, <1>14, <1>15, <1>16 DEF NSafe

-----------------------------------------------------------------------------
(* The bookkeeping in every state.                                         *)

LEMMA InitHealthy == Init => NSafe
<1> SUFFICES ASSUME Init PROVE NSafe
  OBVIOUS
<1> USE DEF Init
<1>1. FillMail = {} /\ ReaderMail = {}
  BY DEF FillMail, ReaderMail
<1>2. layout \in Layouts /\ SlotsIn(layout) \subseteq AnySlot
  BY SlotsOfLayout
<1>3. \A s \in SlotsIn(layout) : slot[s].state = "Vacant" /\ slot[s].generation = 0
  BY <1>2 DEF Tracker!SafetyInit, Tracker!EmptySlot
<1>4. Healthy
  BY DEF Healthy, NoInternalError, InternalError, Working, Loop, Tracker!SafetyInit
<1>5. Records /\ OneReport
  BY <1>1 DEF Records, OneReport
<1>6. Sizes
  BY <1>1 DEF Sizes, Idle
<1>7. Numbers
  <2>1. passes * Len(layout.pools) = 0
    BY <1>2, PoolOrder
  <2> QED
    BY <1>3, <2>1 DEF Numbers, Within, Loop
<1>8. Carries /\ Boundary
  BY DEF Carries, Boundary, Loop
<1> QED
  BY <1>4, <1>5, <1>6, <1>7, <1>8 DEF NSafe

LEMMA NextHealthy == IInv /\ NSafe /\ [Next]_vars => NSafe'
<1> SUFFICES ASSUME IInv, NSafe, [Next]_vars PROVE NSafe'
  OBVIOUS
<1>1. CASE \/ Poll \/ ConsumeEnd \/ Check \/ Drain \/ Finish \/ FinishJoin \/ Finalize \/ Abandon
           \/ Stop \/ JoinWorkers \/ DrainDevice \/ RetryDrain
  BY <1>1, MovesHealthy
<1>2. CASE RunPass \/ PassEnd \/ Settle
  BY <1>2, RunPassHealthy, PassEndHealthy, SettleHealthy
<1>3. CASE Begin \/ BeginSegment \/ ReleaseBacking \/ Destroy
  BY <1>3, BeginHealthy, BeginSegmentHealthy, ReleaseHealthy, DestroyHealthy
<1>4. CASE Dispatch \/ OverlapFill \/ CarryFill
  BY <1>4, DispatchHealthy, OverlapHealthy, CarryHealthy
<1>5. CASE Claim \/ Encode \/ Retire \/ Consume
  BY <1>5, ClaimHealthy, EncodeHealthy, RetireHealthy, ConsumeHealthy
<1>6. CASE \E w \in Worker : WorkerStep(w)
  <2>1. PICK w \in Worker : WorkerStep(w)
    BY <1>6
  <2> QED
    BY <2>1, WorkersHealthy, PostFillHealthy DEF WorkerStep
<1>7. CASE \E r \in gpu : ReaderDone(r)
  BY <1>7, ReaderDoneHealthy
<1>8. CASE RequestCancel \/ UNCHANGED vars
  BY <1>8, NothingHealthy
<1> QED
  BY <1>1, <1>2, <1>3, <1>4, <1>5, <1>6, <1>7, <1>8 DEF Next, Driver

(* The executor trips none of its own checks, whatever the layout, the     *)
(* number of slots, workers and reader queues, the interleaving and the    *)
(* faults: no slot is used out of turn, the I/O credits and the mailbox    *)
(* records suffice, no record is of another pool, nothing is left over     *)
(* after a drain and the executor accepts its own carried ticket           *)
(* (context.cpp:216-265, :301-313, :332, :335-359; slot_pool.cpp:31-37).   *)
THEOREM BookkeepingHolds == Spec => []NoInternalError
<1>1. NSafe => NoInternalError
  BY DEF NSafe, Healthy
<1>2. Init => IInv /\ NSafe
  BY InitIInv, InitHealthy
<1>3. IInv /\ NSafe /\ [Next]_vars => IInv' /\ NSafe'
  BY NextIInv, NextHealthy
<1> QED
  BY <1>1, <1>2, <1>3, PTL DEF Spec
-----------------------------------------------------------------------------
(* The loop never starves: nothing a segment waits for has got lost.       *)

(* The fill of a slot is queued, at a worker or reported ...               *)
FillUnderWay(s) ==
  \/ \E i \in DOMAIN jobs : jobs[i].slot = s
  \/ \E w \in Busy : worker[w].ticket.slot = s
  \/ \E i \in FillMail : mailbox[i].ticket.slot = s

(* ... and so is the reader that closes a fence.                           *)
ReportComing(s, f) ==
  \/ \E r \in gpu : r.ticket.slot = s /\ FenceOf(r) = f
  \/ \E i \in ReaderMail : mailbox[i].ticket.slot = s /\ mailbox[i].fence = f

(* A slot at work has someone who works on it.                             *)
Attended(s) ==
  /\ slot[s].state = "Loading" => FillUnderWay(s)
  /\ slot[s].state = "InUse" => pc \in {"overlap", "encode"} /\ s = SlotAt(layout, passes, next)
  /\ slot[s].state = "AwaitingFence" =>
       /\ slot[s].complete \subseteq slot[s].readers /\ slot[s].complete # slot[s].readers
       /\ \A f \in slot[s].readers \ slot[s].complete :
            \/ pc = "retire" /\ s = SlotAt(layout, passes, next - 1)
            \/ ReportComing(s, f)

WorkersThere == io = "running" => \A w \in Worker : worker[w].state # "exited"

UnderWay ==
  /\ WorkersThere
  /\ pc \in Loop => \A s \in SlotsIn(layout) : s[1] = seg => Attended(s)

(* A slot that a step leaves alone stays attended.                         *)
LEMMA StaysAttended ==
  ASSUME NEW s, Attended(s), slot'[s] = slot[s], layout' = layout, passes' = passes,
         FillUnderWay(s) => FillUnderWay(s)',
         \A f : ReportComing(s, f) => ReportComing(s, f)',
         slot[s].state = "InUse" => pc' \in {"overlap", "encode"} /\ next' = next,
         slot[s].state = "AwaitingFence" /\ pc = "retire" /\ s = SlotAt(layout, passes, next - 1) =>
           pc' = "retire" /\ next' = next
  PROVE  Attended(s)'
BY DEF Attended

LEMMA SameWork ==
  ASSUME UNCHANGED <<worker, mailbox>>, jobs' = jobs, NEW s
  PROVE  FillUnderWay(s)' <=> FillUnderWay(s)
BY DEF FillUnderWay, Busy, FillMail

LEMMA SameReports ==
  ASSUME UNCHANGED <<gpu, mailbox>>, NEW s, NEW f
  PROVE  ReportComing(s, f)' <=> ReportComing(s, f)
BY DEF ReportComing, ReaderMail, FenceOf

(* The owner leaves the loop.                                              *)
LEMMA LeavesLoop ==
  ASSUME UnderWay, pc' \notin Loop, worker' = worker, io' = "running" => io = "running"
  PROVE  UnderWay'
BY DEF UnderWay, WorkersThere

(* The owner goes on in the loop and touches no slot.                      *)
LEMMA MovesOn ==
  ASSUME UnderWay, pc \in Loop, UNCHANGED <<layout, passes, seg, next, slot, jobs, worker, io, mailbox, gpu>>,
         pc \in {"overlap", "encode"} => pc' \in {"overlap", "encode"},
         pc = "retire" => pc' = "retire"
  PROVE  UnderWay'
<1>1. ASSUME NEW s \in SlotsIn(layout), s[1] = seg
      PROVE  Attended(s)'
  <2>1. Attended(s)
    BY <1>1 DEF UnderWay
  <2> QED
    BY <2>1, StaysAttended, SameWork, SameReports DEF Attended
<1> QED
  BY <1>1 DEF UnderWay, WorkersThere

(* The owner touches one slot.                                             *)
LEMMA OneSlotMoves ==
  ASSUME IInv, UnderWay, pc \in Loop, NEW s \in SlotsIn(layout), Attended(s)', OthersKept(s),
         UNCHANGED <<layout, passes, seg, worker, io>>,
         \A u : u # s /\ FillUnderWay(u) => FillUnderWay(u)',
         \A u, f : u # s /\ ReportComing(u, f) => ReportComing(u, f)',
         \A u : u # s /\ u = SlotAt(layout, passes, next) =>
           (pc \in {"overlap", "encode"} => pc' \in {"overlap", "encode"} /\ next' = next),
         pc = "retire" => s = SlotAt(layout, passes, next - 1)
  PROVE  UnderWay'
<1>1. SlotsIn(layout) \subseteq AnySlot
  BY Types, SlotsOfLayout DEF IInv
<1>2. ASSUME NEW u \in SlotsIn(layout), u[1] = seg, u # s
      PROVE  Attended(u)'
  <2>1. Attended(u) /\ slot'[u] = slot[u]
    BY <1>1, <1>2 DEF UnderWay, OthersKept
  <2>2. slot[u].state = "InUse" => pc' \in {"overlap", "encode"} /\ next' = next
    BY <1>2, <2>1 DEF Attended
  <2> QED
    BY <1>2, <2>1, <2>2, StaysAttended
<1> QED
  BY <1>2 DEF UnderWay, WorkersThere

-----------------------------------------------------------------------------
(* Fills.                                                                  *)

LEMMA FillAttended ==
  ASSUME IInv, UnderWay, pc \in Loop \ {"encode", "retire"}, NEW s \in SlotsIn(layout),
         NEW item \in Nat \X Nat, FillSubmitted(s, item),
         UNCHANGED <<layout, passes, seg, next, mailbox, gpu>>,
         pc = "overlap" => pc' = "encode"
  PROVE  UnderWay'
<1>1. s \in AnySlot /\ TypeOK /\ jobs \in Seq(AnyTicket)
  BY Types, SlotsOfLayout DEF IInv
<1>2. /\ slot'[s].state = "Loading" /\ OthersKept(s)
      /\ jobs' = Append(jobs, Tracker!NewTicket(s, item)) /\ UNCHANGED <<worker, io>>
  BY <1>1, BeginFillDoes DEF FillSubmitted
<1>3. Tracker!NewTicket(s, item) \in AnyTicket /\ Tracker!NewTicket(s, item).slot = s
  BY <1>1, NewTickets
<1>4. /\ Len(jobs) + 1 \in DOMAIN jobs' /\ jobs'[Len(jobs) + 1].slot = s
      /\ \A i \in DOMAIN jobs : i \in DOMAIN jobs' /\ jobs'[i] = jobs[i]
  BY <1>1, <1>2, <1>3, AppendRing
<1>5. Attended(s)'
  BY <1>2, <1>4 DEF Attended, FillUnderWay
<1>6. \A u : FillUnderWay(u) => FillUnderWay(u)'
  BY <1>2, <1>4 DEF FillUnderWay, Busy, FillMail
<1>7. \A u, f : ReportComing(u, f) => ReportComing(u, f)'
  BY SameReports
<1> QED
  BY <1>2, <1>5, <1>6, <1>7, OneSlotMoves DEF Loop

LEMMA FillsAttended ==
  IInv /\ UnderWay /\ (Dispatch \/ OverlapFill \/ CarryFill) => UnderWay'
<1> SUFFICES ASSUME IInv, UnderWay, Dispatch \/ OverlapFill \/ CarryFill PROVE UnderWay'
  OBVIOUS
<1>1. /\ pc \in {"dispatch", "overlap", "carry"} /\ pc \in Loop
      /\ UNCHANGED <<mailbox, gpu, seg, next>>
  BY DEF Dispatch, OverlapFill, CarryFill, Loop, mail
<1>2. passes \in Nat /\ dispatch \in Nat
  BY <1>1, InSegment
<1>3. CASE \E why : Fail(why) /\ UNCHANGED ioVars
  BY <1>3, LeavesLoop DEF Fail, ioVars, Loop
<1>4. CASE /\ dispatch <= Last(seg) /\ FillSubmitted(DispatchSlot, <<passes, dispatch>>)
           /\ UNCHANGED life /\ (pc = "overlap" => pc' = "encode")
  <2>1. dispatch \in FirstOf(layout, seg) .. LastOf(layout, seg)
    BY <1>1, <1>4, InSegment, Names
  <2>2. DispatchSlot \in SlotsIn(layout)
    BY <1>1, <2>1, InSegment, Names
  <2>3. <<passes, dispatch>> \in Nat \X Nat
    BY <1>2
  <2> QED
    BY <1>1, <1>4, <2>2, <2>3, FillAttended DEF life
<1>5. CASE pc = "carry" /\ FillSubmitted(CarrySlot, CarryItem) /\ UNCHANGED life
  <2>1. CarrySlot \in SlotsIn(layout) /\ CarryItem \in Nat \X Nat
    BY <1>1, <1>2, InSegment DEF CarryItem
  <2> QED
    BY <1>1, <1>5, <2>1, FillAttended DEF life
<1>6. CASE /\ UNCHANGED <<tracker, ioVars, life>> /\ (pc = "overlap" => pc' = "encode")
  BY <1>1, <1>6, MovesOn DEF tracker, ioVars, life
<1>7. CASE Dispatch
  <2>1. MayDispatch => dispatch <= Last(seg)
    BY DEF MayDispatch
  <2>2. FillRefused(DispatchSlot, <<passes, dispatch>>) => \E why : Fail(why)
    BY DEF FillRefused
  <2> QED
    BY <1>3, <1>4, <1>6, <1>7, <2>1, <2>2 DEF Dispatch
<1>8. CASE OverlapFill
  <2>1. MayOverlap => dispatch <= Last(seg)
    BY DEF MayOverlap
  <2>2. FillRefused(DispatchSlot, <<passes, dispatch>>) => \E why : Fail(why)
    BY DEF FillRefused
  <2> QED
    BY <1>3, <1>4, <1>6, <1>8, <2>1, <2>2 DEF OverlapFill
<1>9. CASE CarryFill
  <2>1. FillRefused(CarrySlot, CarryItem) => \E why : Fail(why)
    BY DEF FillRefused
  <2> QED
    BY <1>3, <1>5, <1>6, <1>9, <2>1 DEF CarryFill
<1> QED
  BY <1>7, <1>8, <1>9
-----------------------------------------------------------------------------
(* Groups.                                                                 *)

LEMMA ClaimAttended == IInv /\ UnderWay /\ Claim => UnderWay'
<1> SUFFICES ASSUME IInv, UnderWay, Claim PROVE UnderWay'
  OBVIOUS
<1>0. PICK s : s = NextSlot
  OBVIOUS
<1>1. pc = "claim" /\ pc \in Loop /\ UNCHANGED <<jobs, worker, io, mailbox, gpu, seg, next>>
  BY DEF Claim, Loop, ioVars, mail, loop
<1>2. CASE \E why : Fail(why)
  BY <1>1, <1>2, LeavesLoop DEF Fail, Loop
<1>3. CASE pc' = "check" /\ UNCHANGED <<tracker, life>>
  BY <1>1, <1>3, MovesOn DEF tracker, life
<1>4. CASE MayClaim /\ Tracker!BeginUse(slot[s].ticket) /\ pc' = "overlap" /\ UNCHANGED life
  <2>1. s = SlotAt(layout, passes, next) /\ next <= LastOf(layout, seg)
    BY <1>0, <1>4, Names DEF MayClaim
  <2>2. s \in SlotsIn(layout) /\ s \in AnySlot
    BY <1>1, <2>1, InSegment
  <2>3. slot[s].ticket.slot = s
    BY <2>2 DEF IInv, Safe, Cells
  <2>4. OthersKept(s) /\ slot'[s].state = "InUse"
    BY <1>4, <2>2, <2>3, BeginUseDoes DEF IInv
  <2>5. Attended(s)'
    BY <1>1, <1>4, <2>1, <2>4 DEF Attended, life
  <2>6. \A u : FillUnderWay(u) => FillUnderWay(u)'
    BY <1>1, SameWork
  <2>7. \A u, f : ReportComing(u, f) => ReportComing(u, f)'
    BY <1>1, SameReports
  <2> QED
    BY <1>1, <1>4, <2>1, <2>2, <2>4, <2>5, <2>6, <2>7, OneSlotMoves DEF life
<1> QED
  BY <1>0, <1>2, <1>3, <1>4 DEF Claim

LEMMA EncodeAttended == IInv /\ UnderWay /\ Encode => UnderWay'
<1> SUFFICES ASSUME IInv, UnderWay, Encode PROVE UnderWay'
  OBVIOUS
<1>0. PICK s, t : s = SlotAt(layout, passes, next) /\ t = slot[s].ticket
  OBVIOUS
<1> DEFINE fences == {FenceOf(r) : r \in Readers(t)}
<1>1. pc = "encode" /\ pc \in Loop /\ UNCHANGED <<jobs, worker, io, mailbox, seg>>
  BY DEF Encode, Loop, ioVars, mail
<1>2. /\ NextSlot = s /\ s \in SlotsIn(layout) /\ s \in AnySlot /\ slot[s].complete = {}
      /\ t.slot = s /\ next \in Nat
      /\ \A r \in Readers(t) : r.ticket = t /\ FenceOf(r) \in AnyFence
  BY <1>0, <1>1, ReadersOfGroup
<1>3. CASE \E why : Fail(why)
  BY <1>1, <1>3, LeavesLoop DEF Fail, Loop
<1>4. CASE /\ Tracker!SealReaders(t, fences)
           /\ \/ gpu' = gpu \cup Readers(t) /\ pc' = "check"
              \/ UNCHANGED gpu /\ pc' = "retire"
           /\ next' = next + 1 /\ UNCHANGED life
  <2>1. fences \in SUBSET AnyFence
    BY <1>2
  <2>2. /\ OthersKept(s) /\ slot'[s].state = "AwaitingFence" /\ slot'[s].complete = {}
        /\ slot'[s].readers = fences
    <3> HIDE DEF fences
    <3> QED
      BY <1>0, <1>2, <1>4, <2>1, SealReadersDoes DEF IInv
  <2>3. fences # {}
    BY <1>4 DEF Tracker!SealReaders, Tracker!CanSealReaders, Tracker!ReaderSet
  <2>4. UNCHANGED <<layout, passes>> /\ SlotAt(layout', passes', next' - 1) = s
    BY <1>0, <1>2, <1>4 DEF life
  <2>5. ASSUME NEW f \in fences
        PROVE  (pc' = "retire" /\ s = SlotAt(layout', passes', next' - 1)) \/ ReportComing(s, f)'
    <3>1. PICK r \in Readers(t) : f = FenceOf(r)
      BY <2>5
    <3>2. r.ticket.slot = s /\ FenceOf(r)' = FenceOf(r)
      BY <1>2 DEF FenceOf
    <3>3. r \in gpu' => ReportComing(s, f)'
      BY <3>1, <3>2 DEF ReportComing, FenceOf
    <3> QED
      BY <1>4, <2>4, <3>3
  <2>6. Attended(s)'
    <3> HIDE DEF fences
    <3> QED
      BY <2>2, <2>3, <2>4, <2>5 DEF Attended
  <2>7. \A u : FillUnderWay(u) => FillUnderWay(u)'
    BY <1>1, SameWork
  <2>8. \A u, f : ReportComing(u, f) => ReportComing(u, f)'
    BY <1>1, <1>4 DEF ReportComing, ReaderMail, FenceOf
  <2> HIDE DEF fences
  <2> QED
    BY <1>0, <1>1, <1>2, <2>2, <2>4, <2>6, <2>7, <2>8, OneSlotMoves
<1> QED
  BY <1>0, <1>2, <1>3, <1>4 DEF Encode

(* A reader of a slot completes.                                           *)
LEMMA OneFenceFewer ==
  ASSUME IInv, UnderWay, NEW t \in AnyTicket, NEW f, Tracker!CompleteReader(t, f),
         t.slot \in SlotsIn(layout), t.slot[1] = seg, pc \in Loop, UNCHANGED <<layout, passes, next>>,
         pc = "retire" /\ slot[t.slot].readers \ slot[t.slot].complete # {f} => pc' = "retire",
         \A g : g # f /\ ReportComing(t.slot, g) => ReportComing(t.slot, g)'
  PROVE  Attended(t.slot)' /\ OthersKept(t.slot)
<1> DEFINE s == t.slot
<1>1. /\ slot[s].state = "AwaitingFence" /\ f \in slot[s].readers \ slot[s].complete
      /\ OthersKept(s) /\ slot'[s].readers = slot[s].readers
      /\ slot'[s].complete = slot[s].complete \cup {f}
      /\ slot'[s].state = IF slot'[s].complete = slot'[s].readers THEN "Vacant" ELSE "AwaitingFence"
  BY CompleteReaderDoes DEF IInv
<1>2. /\ slot[s].complete \subseteq slot[s].readers
      /\ \A g \in slot[s].readers \ slot[s].complete :
           (pc = "retire" /\ s = SlotAt(layout, passes, next - 1)) \/ ReportComing(s, g)
  BY <1>1 DEF UnderWay, Attended
<1> HIDE DEF s
<1>3. ASSUME slot'[s].complete # slot'[s].readers
      PROVE  slot[s].readers \ slot[s].complete # {f}
  BY <1>1, <1>2, <1>3
<1>4. ASSUME slot'[s].complete # slot'[s].readers, NEW g \in slot'[s].readers \ slot'[s].complete
      PROVE  (pc' = "retire" /\ s = SlotAt(layout', passes', next' - 1)) \/ ReportComing(s, g)'
  <2>1. g \in slot[s].readers \ slot[s].complete /\ g # f
    BY <1>1, <1>4
  <2>2. CASE pc = "retire" /\ s = SlotAt(layout, passes, next - 1)
    BY <1>3, <1>4, <2>2 DEF s
  <2>3. CASE ReportComing(s, g)
    BY <2>1, <2>3 DEF s
  <2> QED
    BY <1>2, <2>1, <2>2, <2>3
<1>5. Attended(s)'
  BY <1>1, <1>2, <1>4 DEF Attended
<1> QED
  BY <1>1, <1>5 DEF s

LEMMA RetireAttended == IInv /\ UnderWay /\ Retire => UnderWay'
<1> SUFFICES ASSUME IInv, UnderWay, Retire PROVE UnderWay'
  OBVIOUS
<1>1. /\ pc = "retire" /\ pc \in Loop
      /\ UNCHANGED <<jobs, worker, io, mailbox, gpu, next, seg, layout, passes>>
  BY DEF Retire, Loop, ioVars, mail, loop, life
<1>2. PICK s, t : s = SlotAt(layout, passes, next - 1) /\ t = slot[s].ticket
  OBVIOUS
<1>3. PICK f : /\ Tracker!CompleteReader(t, f)
               /\ pc' = IF slot[s].readers \ slot[s].complete = {f} THEN "check" ELSE "retire"
  BY <1>2, Names, Zenon DEF Retire
<1>4. s \in SlotsIn(layout) /\ s \in AnySlot /\ s[1] = seg
  <2>1. next - 1 \in FirstOf(layout, seg) .. LastOf(layout, seg)
    BY <1>1, InSegment DEF IInv, Safe, Segment
  <2> QED
    BY <1>1, <1>2, <2>1, InSegment
<1>5. t \in AnyTicket /\ t.slot = s
  BY <1>2, <1>4 DEF IInv, TypeOK, Cell, Safe, Cells
<1>6. \A u : FillUnderWay(u) => FillUnderWay(u)'
  BY <1>1, SameWork
<1>7. \A u, g : ReportComing(u, g) => ReportComing(u, g)'
  BY <1>1, SameReports
<1>8. Attended(s)' /\ OthersKept(s)
  BY <1>1, <1>3, <1>4, <1>5, <1>7, OneFenceFewer
<1> QED
  BY <1>1, <1>2, <1>4, <1>6, <1>7, <1>8, OneSlotMoves
-----------------------------------------------------------------------------
(* Records.                                                                *)

LEMMA TailKeeps ==
  ASSUME NEW S, NEW q \in Seq(S), q # <<>>, NEW k \in DOMAIN q, k # 1
  PROVE  \E i \in DOMAIN Tail(q) : Tail(q)[i] = q[k]
<1>1. /\ Len(q) \in Nat /\ DOMAIN q = 1 .. Len(q)
      /\ Len(Tail(q)) = Len(q) - 1 /\ Tail(q) \in Seq(S)
      /\ \A i \in 1 .. Len(Tail(q)) : Tail(q)[i] = q[i + 1]
  BY HeadTailProperties, LenProperties, EmptySeq
<1>2. DOMAIN Tail(q) = 1 .. Len(q) - 1
  BY <1>1, LenProperties
<1>3. k - 1 \in 1 .. Len(q) - 1 /\ (k - 1) + 1 = k
  BY <1>1
<1> QED
  BY <1>1, <1>2, <1>3

(* What is under way when the owner takes the head of the mailbox.         *)
LEMMA HeadTaken ==
  ASSUME TypeOK, mailbox # <<>>, mailbox' = Tail(mailbox), UNCHANGED <<jobs, worker, gpu>>
  PROVE  /\ \A u : u # mailbox[1].ticket.slot /\ FillUnderWay(u) => FillUnderWay(u)'
         /\ \A u : mailbox[1].kind # "fill" /\ FillUnderWay(u) => FillUnderWay(u)'
         /\ \A u, f : mailbox[1].kind # "reader" /\ ReportComing(u, f) => ReportComing(u, f)'
         /\ \A u, f : /\ u # mailbox[1].ticket.slot \/ f # mailbox[1].fence
                      /\ ReportComing(u, f)
                      => ReportComing(u, f)'
<1>1. mailbox \in Seq(MailRecord)
  BY DEF TypeOK
<1>2. ASSUME NEW k \in DOMAIN mailbox, k # 1
      PROVE  \E i \in DOMAIN mailbox' : mailbox'[i] = mailbox[k]
  BY <1>1, <1>2, TailKeeps
<1>3. \A k \in FillMail : k # 1 => \E i \in FillMail' : mailbox'[i] = mailbox[k]
  BY <1>2 DEF FillMail
<1>4. \A k \in ReaderMail : k # 1 => \E i \in ReaderMail' : mailbox'[i] = mailbox[k]
  BY <1>2 DEF ReaderMail
<1>5. ASSUME NEW u, FillUnderWay(u), u # mailbox[1].ticket.slot \/ mailbox[1].kind # "fill"
      PROVE  FillUnderWay(u)'
  <2>1. CASE \E i \in FillMail : mailbox[i].ticket.slot = u
    <3>1. PICK k \in FillMail : mailbox[k].ticket.slot = u
      BY <2>1
    <3>2. k # 1
      BY <1>5, <3>1 DEF FillMail
    <3> QED
      BY <1>3, <3>1, <3>2 DEF FillUnderWay
  <2>2. CASE (\E i \in DOMAIN jobs : jobs[i].slot = u) \/ (\E w \in Busy : worker[w].ticket.slot = u)
    BY <2>2 DEF FillUnderWay, Busy
  <2> QED
    BY <1>5, <2>1, <2>2 DEF FillUnderWay
<1>6. ASSUME NEW u, NEW f, ReportComing(u, f),
             mailbox[1].kind # "reader" \/ u # mailbox[1].ticket.slot \/ f # mailbox[1].fence
      PROVE  ReportComing(u, f)'
  <2>1. CASE \E i \in ReaderMail : mailbox[i].ticket.slot = u /\ mailbox[i].fence = f
    <3>1. PICK k \in ReaderMail : mailbox[k].ticket.slot = u /\ mailbox[k].fence = f
      BY <2>1
    <3>2. k # 1
      BY <1>6, <3>1 DEF ReaderMail
    <3> QED
      BY <1>4, <3>1, <3>2 DEF ReportComing
  <2>2. CASE \E r \in gpu : r.ticket.slot = u /\ FenceOf(r) = f
    BY <2>2 DEF ReportComing, FenceOf
  <2> QED
    BY <1>6, <2>1, <2>2 DEF ReportComing
<1> QED
  BY <1>5, <1>6

LEMMA ConsumeAttended == IInv /\ NSafe /\ UnderWay /\ Consume => UnderWay'
<1> SUFFICES ASSUME IInv, NSafe, UnderWay, Consume PROVE UnderWay'
  OBVIOUS
<1>1. /\ pc \in {"consume", "settle", "finalize"} /\ mailbox # <<>> /\ mailbox' = Tail(mailbox)
      /\ UNCHANGED <<jobs, worker, io, gpu, seg, next>>
  BY DEF Consume, ioVars
<1>2. pc = "consume" /\ pc \in Loop /\ pc \notin Final
  BY <1>1, RecordInLoop
<1>3. PICK r, s : r = mailbox[1] /\ s = r.ticket.slot
  OBVIOUS
<1>4. /\ Head(mailbox) = r /\ r.ticket \in AnyTicket /\ s \in SlotsIn(layout) /\ s[1] = seg
  <2>1. active = seg
    BY <1>2 DEF IInv, Safe, Segment
  <2> QED
    BY <1>1, <1>2, <1>3, <2>1, RecordAtWork
<1>5. /\ \A u : u # s /\ FillUnderWay(u) => FillUnderWay(u)'
      /\ \A u, f : r.kind # "reader" /\ ReportComing(u, f) => ReportComing(u, f)'
      /\ \A u, f : (u # s \/ f # r.fence) /\ ReportComing(u, f) => ReportComing(u, f)'
  BY <1>1, <1>3, HeadTaken DEF IInv
<1>6. CASE \E why : Fail(why)
  BY <1>1, <1>6, LeavesLoop DEF Fail, Loop
<1>7. CASE r.kind = "fill" /\ Tracker!AcceptReady(r.ticket, r.bytes) /\ UNCHANGED <<pc, life>>
  <2>1. OthersKept(s) /\ slot'[s].state = "Ready"
    BY <1>3, <1>4, <1>7, AcceptReadyDoes DEF IInv
  <2>2. Attended(s)'
    BY <2>1 DEF Attended
  <2> QED
    BY <1>1, <1>2, <1>4, <1>5, <1>7, <2>1, <2>2, OneSlotMoves DEF life
<1>8. CASE r.kind = "reader" /\ Tracker!CompleteReader(r.ticket, r.fence) /\ UNCHANGED <<pc, life>>
  <2>1. Attended(s)' /\ OthersKept(s)
    BY <1>1, <1>2, <1>3, <1>4, <1>5, <1>8, OneFenceFewer DEF life
  <2> QED
    BY <1>1, <1>2, <1>4, <1>5, <1>8, <2>1, OneSlotMoves DEF life
<1> QED
  BY <1>4, <1>6, <1>7, <1>8 DEF Consume

-----------------------------------------------------------------------------
(* The begin of a segment, and of the executor.                            *)

LEMMA SegmentAttended == IInv /\ UnderWay /\ BeginSegment => UnderWay'
<1> SUFFICES ASSUME IInv, UnderWay, BeginSegment PROVE UnderWay'
  OBVIOUS
<1>1. pc = "segment" /\ pc \in Resting /\ UNCHANGED <<worker, io>>
  BY DEF BeginSegment, outside, ioVars, Resting
<1>2. live \subseteq drained /\ layout \in Layouts /\ seg \in PoolsOf(layout)
  BY <1>1, AtRest, Types DEF IInv
<1>3. CASE \E why : Fail(why)
  BY <1>1, <1>3, LeavesLoop DEF Fail, Loop
<1>4. CASE Activate /\ UNCHANGED life /\ UNCHANGED seg
  <2>1. ASSUME NEW s \in SlotsIn(layout), s[1] = seg
        PROVE  slot'[s].state \in {"Vacant", "Ready"}
    <3>1. CASE seg \in live
      <4>1. slot' = slot
        BY <1>4, <3>1 DEF Activate, tracker
      <4>2. s[1] \in live \cap drained
        BY <1>2, <2>1, <3>1
      <4> QED
        BY <4>1, <4>2 DEF IInv, Safe, Pools
    <3>2. CASE seg \notin live
      <4> DEFINE gone == IF layout.retain THEN {} ELSE live \cap {active}
      <4>1. CreatePool(seg, gone) /\ gone \in SUBSET live
        BY <1>4, <3>2 DEF Activate
      <4> HIDE DEF gone
      <4> QED
        BY <1>2, <1>4, <2>1, <3>2, <4>1, PoolCreated DEF life
    <3> QED
      BY <3>1, <3>2
  <2>2. layout' = layout
    BY <1>4 DEF life
  <2> QED
    BY <1>1, <1>4, <2>1, <2>2 DEF UnderWay, WorkersThere, Attended
<1> QED
  BY <1>3, <1>4 DEF BeginSegment

LEMMA BeginAttended == IInv /\ UnderWay /\ Begin => UnderWay'
<1> SUFFICES ASSUME IInv, UnderWay, Begin PROVE UnderWay'
  OBVIOUS
<1>1. pc = "begin" /\ worker' = worker
  BY DEF Begin
<1>2. \A w \in Worker : worker[w].state = "idle"
  BY <1>1 DEF IInv, Safe, Stopped
<1>3. pc' \notin Loop
  BY DEF Begin, Fail, Loop
<1> QED
  BY <1>1, <1>2, <1>3 DEF UnderWay, WorkersThere

(* Elsewhere the owner only moves.                                         *)
LEMMA MovesAttended ==
  ASSUME IInv, UnderWay,
         \/ RunPass \/ Poll \/ ConsumeEnd \/ Check \/ Drain \/ Settle \/ PassEnd \/ Finish
         \/ FinishJoin \/ Finalize \/ Abandon \/ Stop \/ JoinWorkers \/ DrainDevice
         \/ RetryDrain \/ ReleaseBacking \/ Destroy \/ RequestCancel \/ UNCHANGED vars
  PROVE  UnderWay'
<1> USE DEF Goto, tracker, pools, outside, ioVars, mail, loop, life, ownerVars, vars
<1>1. CASE Poll \/ ConsumeEnd \/ Check \/ Drain
  <2>1. pc \in Loop \ {"overlap", "encode", "retire"}
    BY <1>1 DEF Poll, ConsumeEnd, Check, Drain, Loop
  <2>2. CASE \E why : Fail(why)
    BY <1>1, <2>2, LeavesLoop DEF Poll, Check, Drain, ConsumeEnd, Fail, Loop
  <2>3. CASE UNCHANGED life
    BY <1>1, <2>1, <2>3, MovesOn DEF Poll, ConsumeEnd, Check, Drain
  <2> QED
    BY <1>1, <2>2, <2>3 DEF Poll, ConsumeEnd, Check, Drain
<1>2. CASE RunPass \/ PassEnd \/ FinishJoin \/ Finalize \/ Abandon \/ JoinWorkers
           \/ DrainDevice \/ RetryDrain \/ ReleaseBacking \/ Destroy \/ Settle
  <2>1. pc' \notin Loop
    BY <1>2 DEF RunPass, PassEnd, FinishJoin, Finalize, Abandon, JoinWorkers, DrainDevice,
                RetryDrain, ReleaseBacking, Destroy, Settle, Loop, Fail
  <2>2. UNCHANGED <<worker, io>>
    BY <1>2 DEF RunPass, PassEnd, FinishJoin, Finalize, Abandon, JoinWorkers, DrainDevice,
                RetryDrain, ReleaseBacking, Destroy, Settle
  <2> QED
    BY <2>1, <2>2, LeavesLoop
<1>3. CASE Stop \/ Finish
  BY <1>3, LeavesLoop DEF Stop, Finish, Fail, Loop
<1>4. CASE RequestCancel \/ UNCHANGED vars
  <2>1. UNCHANGED <<slot, pc, seg, next, layout, passes, jobs, worker, io, mailbox, gpu>>
    BY <1>4 DEF RequestCancel
  <2>2. CASE pc \in Loop
    BY <2>1, <2>2, MovesOn
  <2>3. CASE pc \notin Loop
    BY <2>1, <2>3, LeavesLoop
  <2> QED
    BY <2>2, <2>3
<1> QED
  BY <1>1, <1>2, <1>3, <1>4
-----------------------------------------------------------------------------
(* Workers and GPU callbacks.                                              *)

LEMMA OthersAttended ==
  ASSUME UnderWay, UNCHANGED ownerVars, WorkersThere',
         \A u : FillUnderWay(u) => FillUnderWay(u)',
         \A u, f : ReportComing(u, f) => ReportComing(u, f)'
  PROVE  UnderWay'
<1>1. UNCHANGED <<slot, pc, seg, next, layout, passes>>
  BY DEF ownerVars, tracker, loop, life
<1>2. ASSUME pc \in Loop, NEW s \in SlotsIn(layout), s[1] = seg
      PROVE  Attended(s)'
  <2>1. Attended(s)
    BY <1>2 DEF UnderWay
  <2> QED
    BY <1>1, <2>1, StaysAttended DEF Attended
<1> QED
  BY <1>1, <1>2 DEF UnderWay

LEMMA TakeAttended ==
  ASSUME IInv, UnderWay, NEW w \in Worker, TakeJob(w)
  PROVE  UnderWay'
<1>1. /\ worker[w].state = "idle" /\ jobs # <<>> /\ jobs' = Tail(jobs)
      /\ worker' = [worker EXCEPT ![w].state = "filling", ![w].ticket = Head(jobs)]
      /\ UNCHANGED <<ownerVars, io, mailbox, gpu>>
  BY DEF TakeJob, mail
<1>2. worker \in [Worker -> WorkerRecord] /\ jobs \in Seq(AnyTicket)
  BY Types DEF IInv
<1>3. /\ worker'[w].state = "filling" /\ worker'[w].ticket = jobs[1]
      /\ \A v \in Worker : v # w => worker'[v] = worker[v]
  <2>1. Head(jobs) = jobs[1]
    BY <1>1, <1>2, TailRing
  <2> QED
    BY <1>1, <1>2, <2>1 DEF WorkerRecord
<1>4. WorkersThere'
  BY <1>1, <1>3 DEF UnderWay, WorkersThere
<1>5. ASSUME NEW u, FillUnderWay(u)
      PROVE  FillUnderWay(u)'
  <2>1. w \in Busy' /\ w \notin Busy
    BY <1>1, <1>3 DEF Busy
  <2>2. CASE \E i \in DOMAIN jobs : jobs[i].slot = u
    <3>1. PICK k \in DOMAIN jobs : jobs[k].slot = u
      BY <2>2
    <3>2. CASE k = 1
      BY <1>3, <2>1, <3>1, <3>2 DEF FillUnderWay
    <3>3. CASE k # 1
      BY <1>1, <1>2, <3>1, <3>3, TailKeeps DEF FillUnderWay
    <3> QED
      BY <3>2, <3>3
  <2>3. CASE \E v \in Busy : worker[v].ticket.slot = u
    BY <1>3, <2>1, <2>3 DEF FillUnderWay, Busy
  <2>4. CASE \E i \in FillMail : mailbox[i].ticket.slot = u
    BY <1>1, <2>4 DEF FillUnderWay, FillMail
  <2> QED
    BY <1>5, <2>2, <2>3, <2>4 DEF FillUnderWay
<1> QED
  BY <1>1, <1>4, <1>5, SameReports, OthersAttended

LEMMA EndsAttended ==
  ASSUME IInv, UnderWay, NEW w \in Worker, FillEnds(w) \/ WorkerExits(w)
  PROVE  UnderWay'
<1>1. UNCHANGED <<ownerVars, jobs, io, mailbox, gpu>>
  BY DEF FillEnds, WorkerExits, mail
<1>2. worker \in [Worker -> WorkerRecord]
  BY Types DEF IInv
<1>3. /\ \A v \in Worker : v # w => worker'[v] = worker[v]
      /\ worker'[w].ticket = worker[w].ticket
      /\ w \in Busy => w \in Busy'
      /\ worker'[w].state = "exited" => io = "stopped"
  BY <1>2 DEF FillEnds, WorkerExits, Busy, WorkerRecord
<1>4. WorkersThere'
  BY <1>1, <1>3 DEF UnderWay, WorkersThere
<1>5. \A v \in Busy : v \in Busy' /\ worker'[v].ticket = worker[v].ticket
  BY <1>3 DEF Busy
<1>6. \A u : FillUnderWay(u) => FillUnderWay(u)'
  BY <1>1, <1>5 DEF FillUnderWay, FillMail
<1> QED
  BY <1>1, <1>4, <1>6, SameReports, OthersAttended

(* There is room for a record (RoomInMailbox): it is kept.                 *)
LEMMA RecordKept ==
  ASSUME IInv, NSafe', NEW record, MailboxPost(record)
  PROVE  /\ ~overflow' /\ \E i \in DOMAIN mailbox' : mailbox'[i] = record
         /\ \A i \in DOMAIN mailbox : i \in DOMAIN mailbox' /\ mailbox'[i] = mailbox[i]
<1>1. ~overflow'
  BY DEF NSafe, Healthy, NoInternalError
<1>2. mailbox' = Append(mailbox, record)
  BY <1>1 DEF MailboxPost
<1>3. mailbox \in Seq(MailRecord \cup {record})
  <2>1. mailbox \in Seq(MailRecord)
    BY Types DEF IInv
  <2> QED
    BY <2>1, SeqDef
<1>4. /\ Len(mailbox) + 1 \in DOMAIN mailbox' /\ mailbox'[Len(mailbox) + 1] = record
      /\ \A i \in DOMAIN mailbox : i \in DOMAIN mailbox' /\ mailbox'[i] = mailbox[i]
  BY <1>2, <1>3, AppendRing
<1> QED
  BY <1>1, <1>4

LEMMA PostAttended ==
  ASSUME IInv, UnderWay, NSafe', NEW w \in Worker, PostFill(w)
  PROVE  UnderWay'
<1>1. PICK record : /\ MailboxPost(record) /\ record.kind = "fill"
                    /\ record.ticket = worker[w].ticket
  BY DEF PostFill
<1>2. /\ worker' = [worker EXCEPT ![w] = Idle] /\ io' = IF overflow' THEN "stopped" ELSE io
      /\ UNCHANGED <<ownerVars, jobs, gpu>>
  BY DEF PostFill
<1>3. worker \in [Worker -> WorkerRecord]
  BY Types DEF IInv
<1>4. /\ ~overflow' /\ \E i \in DOMAIN mailbox' : mailbox'[i] = record
      /\ \A i \in DOMAIN mailbox : i \in DOMAIN mailbox' /\ mailbox'[i] = mailbox[i]
  BY <1>1, RecordKept
<1>5. WorkersThere'
  BY <1>2, <1>3, <1>4 DEF UnderWay, WorkersThere, Idle
<1>6. ASSUME NEW u, FillUnderWay(u)
      PROVE  FillUnderWay(u)'
  <2>1. CASE worker[w].ticket.slot = u
    BY <1>1, <1>4, <2>1 DEF FillUnderWay, FillMail
  <2>2. CASE \E v \in Busy : v # w /\ worker[v].ticket.slot = u
    BY <1>2, <1>3, <2>2 DEF FillUnderWay, Busy
  <2>3. CASE (\E i \in DOMAIN jobs : jobs[i].slot = u) \/ (\E i \in FillMail : mailbox[i].ticket.slot = u)
    BY <1>2, <1>4, <2>3 DEF FillUnderWay, FillMail
  <2> QED
    BY <1>6, <2>1, <2>2, <2>3 DEF FillUnderWay
<1>7. \A u, f : ReportComing(u, f) => ReportComing(u, f)'
  BY <1>2, <1>4 DEF ReportComing, ReaderMail, FenceOf
<1> QED
  BY <1>2, <1>5, <1>6, <1>7, OthersAttended

LEMMA ReportAttended ==
  ASSUME IInv, UnderWay, NSafe', NEW r \in gpu, ReaderDone(r)
  PROVE  UnderWay'
<1>1. PICK record : /\ MailboxPost(record) /\ record.kind = "reader"
                    /\ record.ticket = r.ticket /\ record.fence = FenceOf(r)
  BY DEF ReaderDone
<1>2. gpu' = gpu \ {r} /\ UNCHANGED <<ownerVars, jobs, worker, io>>
  BY DEF ReaderDone, ioVars
<1>3. /\ \E i \in DOMAIN mailbox' : mailbox'[i] = record
      /\ \A i \in DOMAIN mailbox : i \in DOMAIN mailbox' /\ mailbox'[i] = mailbox[i]
  BY <1>1, RecordKept
<1>4. WorkersThere'
  BY <1>2 DEF UnderWay, WorkersThere
<1>5. \A u : FillUnderWay(u) => FillUnderWay(u)'
  BY <1>2, <1>3 DEF FillUnderWay, Busy, FillMail
<1>6. ASSUME NEW u, NEW f, ReportComing(u, f)
      PROVE  ReportComing(u, f)'
  <2>1. CASE r.ticket.slot = u /\ FenceOf(r) = f
    BY <1>1, <1>3, <2>1 DEF ReportComing, ReaderMail
  <2>2. CASE \E q \in gpu : q # r /\ q.ticket.slot = u /\ FenceOf(q) = f
    BY <1>2, <2>2 DEF ReportComing, FenceOf
  <2>3. CASE \E i \in ReaderMail : mailbox[i].ticket.slot = u /\ mailbox[i].fence = f
    BY <1>3, <2>3 DEF ReportComing, ReaderMail
  <2> QED
    BY <1>6, <2>1, <2>2, <2>3 DEF ReportComing
<1> QED
  BY <1>2, <1>4, <1>5, <1>6, OthersAttended

-----------------------------------------------------------------------------
(* The segment in every state.                                             *)

LEMMA InitAttended == Init => UnderWay
BY DEF Init, UnderWay, WorkersThere, Loop

LEMMA NextAttended == IInv /\ NSafe /\ UnderWay /\ [Next]_vars => UnderWay'
<1> SUFFICES ASSUME IInv, NSafe, UnderWay, [Next]_vars PROVE UnderWay'
  OBVIOUS
<1>0. NSafe'
  BY NextHealthy
<1>1. CASE \/ RunPass \/ Poll \/ ConsumeEnd \/ Check \/ Drain \/ Settle \/ PassEnd \/ Finish
           \/ FinishJoin \/ Finalize \/ Abandon \/ Stop \/ JoinWorkers \/ DrainDevice
           \/ RetryDrain \/ ReleaseBacking \/ Destroy \/ RequestCancel \/ UNCHANGED vars
  BY <1>1, MovesAttended
<1>2. CASE Begin \/ BeginSegment
  BY <1>2, BeginAttended, SegmentAttended
<1>3. CASE Dispatch \/ OverlapFill \/ CarryFill
  BY <1>3, FillsAttended
<1>4. CASE Claim \/ Encode \/ Retire \/ Consume
  BY <1>4, ClaimAttended, EncodeAttended, RetireAttended, ConsumeAttended
<1>5. CASE \E w \in Worker : WorkerStep(w)
  <2>1. PICK w \in Worker : WorkerStep(w)
    BY <1>5
  <2> QED
    BY <1>0, <2>1, TakeAttended, EndsAttended, PostAttended DEF WorkerStep
<1>6. CASE \E r \in gpu : ReaderDone(r)
  BY <1>0, <1>6, ReportAttended
<1> QED
  BY <1>1, <1>2, <1>3, <1>4, <1>5, <1>6 DEF Next, Driver

(* Where the loop decides what to do next, it need not wait for ever: the  *)
(* segment is complete, or the owner can fill or claim a group right away, *)
(* or a report or a fill or a reader that somebody works on is to come.    *)
OwnerCanWork == MayDispatch \/ MayCarry \/ MayClaim
OthersAtWork ==
  \/ mailbox # <<>> \/ gpu # {} \/ Busy # {}
  \/ jobs # <<>> /\ io = "running" /\ \E w \in Worker : worker[w].state = "idle"

NeverStarves ==
  pc \in {"poll", "consume", "dispatch", "carry", "claim", "check"} =>
    BoundaryComplete \/ OwnerCanWork \/ OthersAtWork

(* The carried group rotates into the other slot.                          *)
LEMMA CarriedElsewhere ==
  ASSUME NEW l \in Layouts, l.carry, NEW pass \in Nat, pass < l.passes
  PROVE  SlotAt(l, pass, LastOf(l, 1)) # SlotAt(l, pass + 1, 1)
<1>1. /\ PoolsOf(l) = {1} /\ l.slots = 2 /\ FirstOf(l, 1) = 1 /\ 1 \in PoolsOf(l)
  BY PoolNumbers, LayoutAssumption DEF LayoutAssumption
<1>2. DOMAIN l.pools = 1 .. Len(l.pools) /\ Len(l.pools) \in Nat \ {0}
  BY <1>1, PoolGroups
<1>3. \A g \in DOMAIN l.pools : l.pools[g] = 1
  BY <1>1 DEF PoolsOf
<1> DEFINE n == Len(l.pools)
           a == pass * n
           b == (pass + 1) * n
<1>4. LastOf(l, 1) = n
  <2> DEFINE Greatest1(g) == l.pools[g] = 1 /\ \A h \in DOMAIN l.pools : l.pools[h] = 1 => h <= g
  <2>1. n \in DOMAIN l.pools /\ Greatest1(n)
    BY <1>2, <1>3
  <2>2. LastOf(l, 1) = CHOOSE g \in DOMAIN l.pools : Greatest1(g)
    BY DEF LastOf
  <2> HIDE DEF Greatest1
  <2>3. LastOf(l, 1) \in DOMAIN l.pools /\ Greatest1(LastOf(l, 1))
    BY <2>1, <2>2
  <2>4. n <= LastOf(l, 1)
    BY <1>3, <2>1, <2>3 DEF Greatest1
  <2> QED
    BY <1>2, <2>3, <2>4
<1>5. a \in Nat /\ b = a + n
  BY EnoughGenerations
<1>6. /\ SlotAt(l, pass, n)[2] = (n - 1 + a) % 2
      /\ SlotAt(l, pass + 1, 1)[2] = (1 - 1 + b) % 2
  <2>1. l.pools[n] = 1 /\ l.pools[1] = 1
    BY <1>2, <1>3
  <2>2. /\ SlotAt(l, pass, n) = <<1, (n - 1 + a) % 2>>
        /\ SlotAt(l, pass + 1, 1) = <<1, (1 - 1 + b) % 2>>
    BY <1>1, <2>1, Zenon DEF SlotAt
  <2> HIDE DEF a, b, n
  <2> QED
    BY <2>2
<1>7. n \in Nat \ {0}
  BY <1>2
<1> HIDE DEF a, b, n
<1>8. (n - 1 + a) % 2 # (1 - 1 + b) % 2
  BY <1>5, <1>7
<1> QED
  BY <1>4, <1>6, <1>8

LEMMA Attendance == IInv /\ NSafe /\ UnderWay => NeverStarves
<1> SUFFICES ASSUME IInv, NSafe, UnderWay, ~OthersAtWork,
                    pc \in {"poll", "consume", "dispatch", "carry", "claim", "check"}
             PROVE  BoundaryComplete \/ OwnerCanWork
  BY DEF NeverStarves
<1> DEFINE last == LastOf(layout, seg)
<1>1. /\ pc \in Loop /\ pc \notin {"overlap", "encode", "retire"}
      /\ io = "running" /\ passes < layout.passes
  BY AtPlace DEF Loop
<1>2. /\ layout \in Layouts /\ seg \in PoolsOf(layout)
      /\ next \in Nat /\ dispatch \in Nat /\ passes \in Nat
      /\ FirstOf(layout, seg) \in Nat /\ last \in Nat
      /\ FirstOf(layout, seg) <= next /\ next <= dispatch /\ dispatch <= last + 1
      /\ \A g \in FirstOf(layout, seg) .. last :
           LET s == SlotAt(layout, passes, g) IN s \in SlotsIn(layout) /\ s[1] = seg
      /\ CarrySlot \in SlotsIn(layout) /\ (layout.carry => CarrySlot[1] = seg)
  BY <1>1, InSegment
<1>3. /\ active = seg
      /\ \A g \in next .. dispatch - 1 : slot[SlotAt(layout, passes, g)].state \in Filled
      /\ \A s \in SlotsIn(layout) : s[1] = seg /\ slot[s].state \in Filled =>
           \/ outgoing # NoTicket /\ s = outgoing.slot
           \/ \E g \in next .. dispatch - 1 : s = SlotAt(layout, passes, g)
      /\ outgoing # NoTicket => layout.carry /\ dispatch = last + 1
  BY <1>1 DEF IInv, Safe, Segment
<1>4. mailbox = <<>> /\ gpu = {} /\ Busy = {} /\ jobs = <<>>
  <2>1. mailbox = <<>> /\ gpu = {} /\ Busy = {}
    BY DEF OthersAtWork
  <2>2. PICK w \in Worker : TRUE
    BY LayoutAssumption DEF LayoutAssumption
  <2>3. worker[w].state = "idle"
    BY <1>1, <2>1, Types DEF IInv, UnderWay, WorkersThere, Busy, WorkerRecord
  <2> QED
    BY <1>1, <2>1, <2>2, <2>3 DEF OthersAtWork
<1>5. ASSUME NEW s \in SlotsIn(layout), s[1] = seg
      PROVE  slot[s].state \in {"Vacant", "Ready"}
  <2>1. Attended(s)
    BY <1>1, <1>5 DEF UnderWay
  <2>2. ~FillUnderWay(s) /\ \A f : ~ReportComing(s, f)
    BY <1>4 DEF FillUnderWay, ReportComing, FillMail, ReaderMail
  <2>3. slot[s].state \in {"Vacant", "Loading", "Ready", "InUse", "AwaitingFence"}
    BY <1>2, Types, SlotsOfLayout DEF IInv, Cell, Tracker!ContentState
  <2>4. slot[s].state # "AwaitingFence"
    BY <1>1, <2>1, <2>2 DEF Attended
  <2> QED
    BY <1>1, <2>1, <2>2, <2>3, <2>4 DEF Attended
<1>6. Last(seg) = last /\ NextSlot = SlotAt(layout, passes, next)
      /\ DispatchSlot = SlotAt(layout, passes, dispatch)
      /\ CarrySlot = SlotAt(layout, passes + 1, 1) /\ Slots = {s \in SlotsIn(layout) : s[1] = seg}
  BY <1>3, Names DEF Slots
<1> HIDE DEF last
<1>7. CASE next > last
  <2>1. \A s \in SlotsIn(layout) : s[1] = seg /\ slot[s].state = "Ready" =>
          outgoing # NoTicket /\ s = outgoing.slot
    BY <1>2, <1>3, <1>7 DEF Filled
  <2>2. CASE outgoing = NoTicket
    BY <1>5, <1>6, <1>7, <2>1, <2>2 DEF BoundaryComplete, Tracker!Quiescent
  <2>3. CASE outgoing # NoTicket
    <3>1. slot[outgoing.slot].state \in {"Loading", "Ready"} /\ outgoing.slot \in SlotsIn(layout)
          /\ slot[outgoing.slot].ticket = outgoing
      BY <1>1, <2>3, CarriedApart
    <3>2. outgoing.slot[1] = seg
      BY <1>1, <1>2, <1>3, <1>6, <2>3 DEF NSafe, Carries, CarriedFor
    <3>3. Tracker!IsReady(outgoing)
      BY <1>5, <3>1, <3>2 DEF Tracker!IsReady, Tracker!Matches
    <3>4. Tracker!Quiescent(Slots \ {outgoing.slot})
      BY <1>5, <1>6, <2>1 DEF Tracker!Quiescent
    <3> QED
      BY <1>6, <1>7, <2>3, <3>3, <3>4 DEF BoundaryComplete, Tracker!QuiescentExceptReady
  <2> QED
    BY <2>2, <2>3
<1>8. CASE next <= last /\ next = dispatch
  <2>1. DispatchSlot \in SlotsIn(layout) /\ DispatchSlot[1] = seg
    BY <1>2, <1>6, <1>8
  <2>2. slot[DispatchSlot].state # "Ready"
    BY <1>2, <1>3, <1>8, <2>1 DEF Filled
  <2>3. Distance \in Nat
    BY <1>2, LayoutAssumption DEF LayoutAssumption, Distance
  <2>4. dispatch <= next + Distance
    BY <1>2, <1>8, <2>3
  <2>5. MayDispatch
    BY <1>5, <1>6, <1>8, <2>1, <2>2, <2>4 DEF MayDispatch
  <2> QED
    BY <2>5 DEF OwnerCanWork
<1>9. CASE next <= last /\ next < dispatch
  <2>1. NextSlot \in SlotsIn(layout) /\ NextSlot[1] = seg /\ slot[NextSlot].state \in Filled
    BY <1>2, <1>3, <1>6, <1>9
  <2>2. slot[NextSlot].state = "Ready"
    BY <1>5, <2>1 DEF Filled
  <2>3. CASE ~(CarryNext /\ AtLast /\ outgoing = NoTicket)
    BY <1>6, <1>9, <2>2, <2>3 DEF MayClaim, OwnerCanWork
  <2>4. CASE CarryNext /\ AtLast /\ outgoing = NoTicket
    <3>1. layout.carry /\ next = last
      BY <1>6, <2>4 DEF CarryNext, AtLast
    <3>2. seg = 1
      BY <1>2, <3>1, PoolNumbers
    <3>3. SlotAt(layout, passes, last) # CarrySlot
      BY <1>1, <1>2, <1>6, <3>1, <3>2, CarriedElsewhere DEF last
    <3>4. slot[CarrySlot].state # "Ready"
      <4>1. \A g \in next .. dispatch - 1 : g = last
        BY <1>2, <3>1
      <4> QED
        BY <1>2, <1>3, <2>4, <3>1, <3>3, <4>1 DEF Filled
    <3>5. slot[CarrySlot].state = "Vacant"
      BY <1>2, <1>5, <3>1, <3>4
    <3> QED
      BY <1>2, <1>6, <1>9, <2>4, <3>1, <3>5 DEF MayCarry, OwnerCanWork
  <2> QED
    BY <2>3, <2>4
<1> QED
  BY <1>2, <1>7, <1>8, <1>9

(* No layout starves: wherever the loop of a segment decides what to do    *)
(* next, either the segment is complete, or the owner may fill or claim a  *)
(* group at once, or a worker, the GPU or a waiting record will change a   *)
(* slot.  Prefetch distance, overlapped fill, rotation of carried slots    *)
(* and the last group's wait for the carried fill never wait for each      *)
(* other (context.cpp:326-441); Completes rests on this.                   *)
THEOREM LoopNeverStarves == Spec => []NeverStarves
<1>1. Init => IInv /\ NSafe /\ UnderWay
  BY InitIInv, InitHealthy, InitAttended
<1>2. IInv /\ NSafe /\ UnderWay /\ [Next]_vars => IInv' /\ NSafe' /\ UnderWay'
  BY NextIInv, NextHealthy, NextAttended
<1> QED
  BY <1>1, <1>2, Attendance, PTL DEF Spec
===============================================================================
