---------------------------- MODULE StageExecutor ----------------------------
(***************************************************************************)
(* One streamed stage of a request                                         *)
(* (native/runtime/streaming/context.cpp, class StageExecutor): the layers *)
(* of a model are grouped; a few physical slots hold the weights of a few  *)
(* groups; while the GPU still reads some slots the I/O workers refill     *)
(* others.                                                                 *)
(*                                                                         *)
(* Processes: the owner thread (pc), the I/O workers (worker), the GPU     *)
(* queues (gpu, the outstanding readers) and the caller's cancel flag.     *)
(* Workers and GPU callbacks only write weights or read them and post      *)
(* completion records; only the owner pops records and moves slots.  The   *)
(* adapter (model specific code) is external: it may fail or throw         *)
(* wherever its interface allows it.                                       *)
(*                                                                         *)
(* tickets[slot] of the code always equals the tracker's ticket of the     *)
(* slot when it is read, so there is one copy.  The prefix of resident     *)
(* layers uses no slot and is left out.                                    *)
(***************************************************************************)
EXTENDS Naturals, Sequences, FiniteSets

CONSTANTS
  Layouts,      \* the compiled layouts an executor may be given
  Worker,       \* the I/O workers
  ReaderQueues, \* the reader queues an encoded group uses
  MaxReaders    \* TC_STREAM_MAX_READER_QUEUES

(* A layout and how its adapter behaves:                                    *)
(*   pools      layout.groups in order, the pool of each group              *)
(*   slots      slots of every pool                                         *)
(*   passes     pass_count                                                  *)
(*   distance   prefetch distance                                           *)
(*   carry      pass_transition = carry_first_group                         *)
(*   retain     multi_pool_policy = retain_all                              *)
(*   overlap    adapter: overlap_next_fill_after_claim()                    *)
(*   immediate  adapter: readers may be complete when encode_group returns  *)
(*   faults     what may go wrong in this instance                          *)

FaultKind == {"cancel", "create", "job", "fill", "short", "prepare", "encode",
              "reader", "drain", "stall", "step", "early_finish"}

PoolsOf(l) == {l.pools[g] : g \in DOMAIN l.pools}

(* What begin() and compile_layout() require of a layout.                   *)
ASSUME LayoutAssumption ==
  /\ IsFiniteSet(Layouts) /\ Layouts # {}
  /\ \A l \in Layouts :
       /\ l.pools \in Seq(Nat) /\ l.pools # <<>>
       /\ PoolsOf(l) = 1 .. Cardinality(PoolsOf(l))
       /\ \A g, h \in DOMAIN l.pools : g <= h => l.pools[g] <= l.pools[h]
       /\ l.slots \in Nat \ {0}
       /\ \A p \in PoolsOf(l) :
            Cardinality({g \in DOMAIN l.pools : l.pools[g] = p}) >= l.slots
       /\ l.passes \in Nat \ {0}
       /\ l.distance \in 0 .. l.slots - 1
       /\ Cardinality(Worker) <= l.slots
       /\ {l.carry, l.retain, l.overlap, l.immediate} \subseteq BOOLEAN
       /\ l.carry => Cardinality(PoolsOf(l)) = 1 /\ l.slots = 2 /\ l.passes >= 2
       /\ l.faults \subseteq FaultKind
  /\ IsFiniteSet(Worker) /\ Worker # {}
  /\ ReaderQueues \subseteq Nat \ {0} /\ IsFiniteSet(ReaderQueues)
  /\ MaxReaders \in Nat /\ Cardinality(ReaderQueues) \in 1 .. MaxReaders

(* Bounds over all layouts: what a slot, a work item or a ticket can be.    *)
Largest(S) == CHOOSE n \in S : \A m \in S : m <= n
MaxGroups == Largest({Len(l.pools) : l \in Layouts})
MaxPasses == Largest({l.passes : l \in Layouts})
AnySlot == UNION {PoolsOf(l) \X (0 .. l.slots - 1) : l \in Layouts}
WorkItem == (0 .. MaxPasses - 1) \X (1 .. MaxGroups)
MaxFills == MaxPasses * MaxGroups

NoItem == <<MaxPasses, 0>>
Empty == <<MaxPasses, 1>>      \* content of a slot: memory freed or never filled
Torn == <<MaxPasses, 2>>       \* being written, or a fill gave up half way
NoTicket == [slot |-> <<0, 0>>, generation |-> 0, item |-> NoItem]

VARIABLES
  layout,                  \* the layout the executor was created for
  slot, poisoned,          \* the trackers of all pools, see SlotSafety
  live, drained, active,   \* pools: created, drained flag, the active one or 0
  backing,                 \* what the memory of each slot holds
  jobs, worker, io,        \* job ring; workers; "none", "running", "stopped"
  mailbox, overflow,       \* completion records
  gpu,                     \* readers the GPU has not completed
  pc,                      \* where the owner is
  seg, next, dispatch,     \* segment = pool index, next group, next to fill
  outgoing, carry,         \* carried tickets: this pass's, and state_->carry
  progress,                \* this iteration of the loop did something
  passes,                  \* counter: passes done
  failure,                 \* why the executor failed, or "none"
  closing,                 \* "no", "finish" or "abandon" (the destructor)
  released,                \* backing_released
  cancel                   \* the caller's flag

-----------------------------------------------------------------------------
(* The layout.  Passes count from 0, groups from 1, slot indices from 0.    *)

GroupPool == layout.pools
Pool == PoolsOf(layout)
Group == DOMAIN GroupPool
GroupCount == Len(GroupPool)
SlotCount == layout.slots
Passes == layout.passes
Distance == layout.distance
SlotId == Pool \X (0 .. SlotCount - 1)

First(p) == CHOOSE g \in Group :
              GroupPool[g] = p /\ \A h \in Group : GroupPool[h] = p => g <= h
Last(p) == CHOOSE g \in Group :
              GroupPool[g] = p /\ \A h \in Group : GroupPool[h] = p => h <= g

(* A carrying layout rotates the mapping so that group 1 of the next pass   *)
(* falls into the slot after the one of the last group.                     *)
SlotOf(pass, g) ==
  LET p == GroupPool[g]
      offset == IF layout.carry THEN pass * GroupCount ELSE 0
  IN  <<p, (g - First(p) + offset) % SlotCount>>

MailboxCapacity == SlotCount * (1 + MaxReaders)

tracker == <<slot, poisoned>>
pools == <<live, drained, active, backing>>
ioVars == <<jobs, worker, io>>
mail == <<mailbox, overflow>>
loop == <<seg, next, dispatch, outgoing, carry, progress>>
life == <<layout, passes, failure, closing, released>>
outside == <<ioVars, mail, gpu, cancel>>     \* shared with the other processes
ownerVars == <<tracker, pc, loop, life>>      \* the owner's own
vars == <<tracker, pools, ioVars, mail, gpu, pc, loop, life, cancel>>

Tracker == INSTANCE SlotSafety WITH
  Slot <- AnySlot, Item <- WorkItem, Queue <- ReaderQueues,
  Sequence <- 1 .. MaxFills, Capacity <- [s \in AnySlot |-> 1],
  MaxGeneration <- MaxFills

SlotsOf(p) == {s \in SlotId : s[1] = p}

Idle == [state |-> "idle", ticket |-> NoTicket, ok |-> TRUE, bytes |-> 0]

Init ==
  /\ layout \in Layouts
  /\ Tracker!SafetyInit
  /\ live = {} /\ drained = Pool /\ active = 0
  /\ backing = [s \in AnySlot |-> Empty]
  /\ jobs = <<>> /\ worker = [w \in Worker |-> Idle] /\ io = "none"
  /\ mailbox = <<>> /\ overflow = FALSE
  /\ gpu = {}
  /\ pc = "begin"
  /\ seg = 1 /\ next = 1 /\ dispatch = 1
  /\ outgoing = NoTicket /\ carry = NoTicket /\ progress = FALSE
  /\ passes = 0 /\ failure = "none" /\ closing = "no"
  /\ released = FALSE
  /\ cancel = FALSE

-----------------------------------------------------------------------------
(* Building blocks of the owner.                                            *)

Goto(from, to) == pc = from /\ pc' = to

(* An exception leaves begin(), run_pass() or finish(): failed is set and   *)
(* retry_drain() runs before the exception reaches the caller.              *)
Fail(why) ==
  /\ pc' = "stop"
  /\ failure' = IF failure = "none" THEN why ELSE failure
  /\ UNCHANGED <<layout, passes, closing, released>>

MayFail(fault) == fault \in layout.faults

Emptied(ps) == [s \in AnySlot |-> IF s[1] \in ps THEN Empty ELSE backing[s]]

(* create_pool(), after the pools in gone were destroyed: a fresh tracker.  *)
(* The adapter may throw after a partial allocation; by then the pool       *)
(* counts as live, active and not drained.                                  *)
CreatePool(p, gone) ==
  /\ slot' = [s \in AnySlot |-> IF s[1] = p THEN Tracker!EmptySlot(s) ELSE slot[s]]
  /\ live' = (live \ gone) \cup {p}
  /\ active' = p
  /\ backing' = Emptied(gone)
  /\ UNCHANGED poisoned

(* destroy_pools(): all pools, or the active one when pools are serial.     *)
Destroyed == IF layout.retain THEN live ELSE live \cap {active}

DestroyPools ==
  /\ backing' = Emptied(Destroyed)
  /\ live' = live \ Destroyed
  /\ drained' = drained \cup Destroyed
  /\ active' = 0
  /\ carry' = NoTicket

HasCredit ==
  Len(jobs) + Cardinality({w \in Worker : worker[w].state = "filling"}) # SlotCount

(* begin_fill, make_fill_job and enqueue of one group ...                   *)
FillSubmitted(s, item) ==
  /\ Tracker!BeginFill(s, item, 1)
  /\ HasCredit /\ io = "running"
  /\ jobs' = Append(jobs, Tracker!NewTicket(s, item))
  /\ UNCHANGED <<worker, io>>

(* ... and the ways they throw.                                             *)
FillRefused(s, item) ==
  \/ ~Tracker!CanBeginFill(s, 1) /\ Tracker!Refuse /\ Fail("violation")
  \/ Tracker!BeginFill(s, item, 1) /\ MayFail("job") /\ Fail("adapter")
  \/ Tracker!BeginFill(s, item, 1) /\ io # "running" /\ Fail("io_stopped")
  \/ Tracker!BeginFill(s, item, 1) /\ io = "running" /\ ~HasCredit /\ Fail("credits")

Slots == SlotsOf(active)
AtLast == next = Last(seg)
CarryNext == layout.carry /\ passes + 1 < Passes
NextSlot == SlotOf(passes, next)
DispatchSlot == SlotOf(passes, dispatch)
CarrySlot == SlotOf(passes + 1, 1)

(* The work item of the carried fill: the first group of the next pass.     *)
CarryItem == <<passes + 1, 1>>

(* Wrong on purpose: a segment ends although the carried fill is not there. *)
BoundaryNotWaiting == next > Last(seg)

BoundaryComplete ==
  /\ next > Last(seg)
  /\ IF outgoing # NoTicket THEN Tracker!QuiescentExceptReady(Slots, outgoing)
                            ELSE Tracker!Quiescent(Slots)

-----------------------------------------------------------------------------
(* begin(): all pools of a retaining layout, otherwise the first pool; then *)
(* the first pool is activated and the workers are started.                 *)
Begin ==
  LET p == Cardinality(live) + 1
      more == p <= IF layout.retain THEN Cardinality(Pool) ELSE 1
  IN
  /\ pc = "begin"
  /\ \/ more /\ CreatePool(p, {}) /\ UNCHANGED <<pc, io, drained, life>>
     \/ /\ more /\ MayFail("create")
        /\ CreatePool(p, {}) /\ drained' = drained \ {p}
        /\ Fail("create") /\ UNCHANGED io
     \/ /\ ~more
        /\ active' = 1 /\ io' = "running" /\ pc' = "idle"
        /\ UNCHANGED <<tracker, live, drained, backing, life>>
  /\ UNCHANGED <<jobs, worker, mail, gpu, loop, cancel>>

(* run_pass() is called.  After a release the first pool is recreated by    *)
(* the activation below, as in any other segment.                           *)
RunPass ==
  /\ Goto("idle", "segment")
  /\ passes < Passes
  /\ live # {} \/ released
  /\ seg' = 1
  /\ released' = FALSE
  /\ UNCHANGED <<tracker, pools, outside, next, dispatch, outgoing, carry, progress,
                 layout, passes, failure, closing>>

(* activate_pool() and what run_pass() does before the loop of a segment.   *)
(* Pools switch only after a drain; a serial layout frees the old pool      *)
(* first.  A ticket carried from the previous pass must be the first group  *)
(* of this one - the caller passes consecutive steps - and counts as        *)
(* dispatched.                                                              *)
Activate ==
  IF seg \in live
  THEN active' = seg /\ UNCHANGED <<tracker, live, backing>>
  ELSE CreatePool(seg, IF layout.retain THEN {} ELSE live \cap {active})

CarryAccepted ==
  /\ seg = 1
  /\ carry.item = <<passes, 1>>
  /\ carry.slot = SlotOf(passes, 1)
  /\ Tracker!IsReady(carry)

(* Wrong on purpose: the pool in use still counts as drained.               *)
StaleDrained == drained \cup (live \ live')

(* The pool of the segment is in use from here on; a destroyed one is not.  *)
SegmentDrained == (drained \cup (live \ live')) \ {seg}

(* A carried group counts as dispatched.                                    *)
FirstDispatch(carried) == IF carried THEN First(seg) + 1 ELSE First(seg)

BeginSegment ==
  LET undrained == active # seg /\ active \in live \ drained
      carried == seg \in live /\ carry # NoTicket
  IN
  /\ pc = "segment"
  /\ \/ undrained /\ Fail("switch_before_drain") /\ UNCHANGED <<tracker, pools, loop>>
     \/ /\ ~undrained
        /\ Activate
        /\ drained' = SegmentDrained
        /\ outgoing' = NoTicket /\ carry' = NoTicket
        /\ next' = First(seg)
        /\ dispatch' = FirstDispatch(carried)
        /\ \/ /\ carried => CarryAccepted
              /\ pc' = "check" /\ UNCHANGED life
           \/ carried /\ ~CarryAccepted /\ Fail("bad_carry")
           \/ carried /\ MayFail("step") /\ Fail("step")
           \/ seg \notin live /\ MayFail("create") /\ Fail("create")
        /\ progress' = TRUE /\ UNCHANGED seg
  /\ UNCHANGED outside

-----------------------------------------------------------------------------
(* The loop of run_pass(): poll, consume, dispatch, carry, claim, overlap,  *)
(* encode, retire, check.                                                   *)

(* Wrong on purpose: the cancel flag is not polled.                         *)
PollUncancelled ==
  /\ pc = "poll"
  /\ \/ overflow /\ Fail("overflow") /\ UNCHANGED progress
     \/ ~overflow /\ pc' = "consume" /\ progress' = FALSE /\ UNCHANGED life
  /\ UNCHANGED <<tracker, pools, outside, seg, next, dispatch, outgoing, carry>>

(* check_cancel().                                                          *)
Poll ==
  /\ pc = "poll"
  /\ \/ cancel /\ Fail("cancelled") /\ UNCHANGED progress
     \/ ~cancel /\ overflow /\ Fail("overflow") /\ UNCHANGED progress
     \/ ~cancel /\ ~overflow /\ pc' = "consume" /\ progress' = FALSE /\ UNCHANGED life
  /\ UNCHANGED <<tracker, pools, outside, seg, next, dispatch, outgoing, carry>>

(* consume(), one record: in the loop, at the drain of a segment and in     *)
(* finish().                                                                *)
Consume ==
  LET r == Head(mailbox)
      mine == live # {} /\ r.ticket.slot[1] = active
  IN
  /\ pc \in {"consume", "settle", "finalize"}
  /\ mailbox # <<>>
  /\ mailbox' = Tail(mailbox)
  /\ \/ ~r.ok /\ Fail("completion") /\ UNCHANGED <<tracker, progress>>
     \/ r.ok /\ ~mine /\ Fail("inactive_pool") /\ UNCHANGED <<tracker, progress>>
     \/ /\ r.ok /\ mine /\ r.kind = "fill"
        /\ Tracker!AcceptReady(r.ticket, r.bytes)
        /\ progress' = TRUE
        /\ UNCHANGED <<pc, life>>
     \/ /\ r.ok /\ mine /\ r.kind = "reader"
        /\ Tracker!CompleteReader(r.ticket, r.fence)
        /\ progress' = TRUE
        /\ UNCHANGED <<pc, life>>
     \/ /\ r.ok /\ mine
        /\ IF r.kind = "fill" THEN ~Tracker!CanAcceptReady(r.ticket, r.bytes)
                              ELSE ~Tracker!CanCompleteReader(r.ticket, r.fence)
        /\ Tracker!Refuse
        /\ Fail(IF r.kind = "fill" /\ r.bytes = 0 THEN "short" ELSE "violation")
        /\ UNCHANGED progress
  /\ UNCHANGED <<pools, ioVars, overflow, gpu, seg, next, dispatch, outgoing,
                 carry, cancel>>

ConsumeEnd ==
  /\ mailbox = <<>> /\ Goto("consume", "dispatch")
  /\ UNCHANGED <<tracker, pools, outside, loop, life>>

(* Wrong on purpose: the group that is next is never within the distance.   *)
MayDispatchStrict ==
  /\ next <= Last(seg) /\ dispatch <= Last(seg)
  /\ dispatch < next + Distance
  /\ slot[DispatchSlot].state = "Vacant"

(* Fill ahead of the next group while the slot of the group is vacant.      *)
MayDispatch ==
  /\ next <= Last(seg) /\ dispatch <= Last(seg)
  /\ dispatch <= next + Distance
  /\ slot[DispatchSlot].state = "Vacant"

Dispatch ==
  /\ pc = "dispatch"
  /\ \/ /\ MayDispatch
        /\ FillSubmitted(DispatchSlot, <<passes, dispatch>>)
        /\ dispatch' = dispatch + 1 /\ progress' = TRUE
        /\ UNCHANGED <<pc, life>>
     \/ /\ MayDispatch
        /\ FillRefused(DispatchSlot, <<passes, dispatch>>)
        /\ UNCHANGED <<ioVars, dispatch, progress>>
     \/ /\ ~MayDispatch
        /\ pc' = "carry"
        /\ UNCHANGED <<tracker, ioVars, dispatch, progress, life>>
  /\ UNCHANGED <<pools, mail, gpu, seg, next, outgoing, carry, cancel>>

(* Before the last group is encoded its successor, the first group of the   *)
(* next pass, is already being filled.                                      *)
MayCarry ==
  /\ CarryNext
  /\ outgoing = NoTicket
  /\ AtLast
  /\ dispatch > Last(seg)
  /\ slot[CarrySlot].state = "Vacant"

CarryFill ==
  /\ pc = "carry"
  /\ \/ /\ MayCarry
        /\ FillSubmitted(CarrySlot, CarryItem)
        /\ outgoing' = Tracker!NewTicket(CarrySlot, CarryItem)
        /\ progress' = TRUE
        /\ pc' = "claim"
        /\ UNCHANGED life
     \/ /\ MayCarry
        /\ FillRefused(CarrySlot, CarryItem)
        /\ UNCHANGED <<ioVars, outgoing, progress>>
     \/ /\ ~MayCarry
        /\ pc' = "claim"
        /\ UNCHANGED <<tracker, ioVars, outgoing, progress, life>>
  /\ UNCHANGED <<pools, mail, gpu, seg, next, dispatch, carry, cancel>>

(* Claim the next group once it is loaded; the last group of a pass waits   *)
(* until the carried fill has been issued.                                  *)
MayClaim ==
  /\ next <= Last(seg)
  /\ ~(CarryNext /\ AtLast /\ outgoing = NoTicket)
  /\ slot[NextSlot].state = "Ready"

Claim ==
  /\ pc = "claim"
  /\ \/ MayClaim /\ cancel /\ Fail("cancelled") /\ UNCHANGED tracker
     \/ MayClaim /\ ~cancel /\ overflow /\ Fail("overflow") /\ UNCHANGED tracker
     \/ MayClaim /\ MayFail("prepare") /\ Fail("adapter") /\ UNCHANGED tracker
     \/ /\ MayClaim /\ ~cancel /\ ~overflow
        /\ Tracker!BeginUse(slot[NextSlot].ticket)
        /\ pc' = "overlap"
        /\ UNCHANGED life
     \/ ~MayClaim /\ pc' = "check" /\ UNCHANGED <<tracker, life>>
  /\ UNCHANGED <<pools, ioVars, mail, gpu, loop, cancel>>

(* The following group is filled after the claim of this one, instead of    *)
(* within the prefetch distance.                                            *)
MayOverlap ==
  /\ layout.overlap /\ Distance = 0 /\ ~CarryNext
  /\ dispatch <= Last(seg) /\ dispatch = next + 1
  /\ slot[DispatchSlot].state = "Vacant"

OverlapFill ==
  /\ pc = "overlap"
  /\ \/ /\ MayOverlap
        /\ FillSubmitted(DispatchSlot, <<passes, dispatch>>)
        /\ dispatch' = dispatch + 1
        /\ pc' = "encode"
        /\ UNCHANGED life
     \/ /\ MayOverlap
        /\ FillRefused(DispatchSlot, <<passes, dispatch>>)
        /\ UNCHANGED <<ioVars, dispatch>>
     \/ ~MayOverlap /\ pc' = "encode" /\ UNCHANGED <<tracker, ioVars, dispatch, life>>
  /\ UNCHANGED <<pools, mail, gpu, seg, next, outgoing, carry, progress, cancel>>

(* encode_group() commits GPU work that reads the slot, one last reader per *)
(* queue.  It may throw with some of the work committed.                    *)
Readers(t) == [ticket: {t}, queue: ReaderQueues, item: {<<passes, next>>}]
FenceOf(r) == [queue |-> r.queue, sequence |-> r.ticket.generation]

Encode ==
  LET t == slot[NextSlot].ticket
      fences == {FenceOf(r) : r \in Readers(t)}
  IN
  /\ pc = "encode"
  /\ \/ /\ Tracker!SealReaders(t, fences)
        /\ \/ gpu' = gpu \cup Readers(t) /\ pc' = "check"
           \/ layout.immediate /\ UNCHANGED gpu /\ pc' = "retire"
        /\ next' = next + 1
        /\ progress' = TRUE
        /\ UNCHANGED life
     \/ /\ ~Tracker!CanSealReaders(t, fences)
        /\ gpu' = gpu \cup Readers(t)
        /\ Tracker!Refuse
        /\ Fail("violation")
        /\ UNCHANGED <<next, progress>>
     \/ /\ MayFail("encode")
        /\ \E some \in SUBSET Readers(t) : gpu' = gpu \cup some
        /\ Fail("adapter")
        /\ UNCHANGED <<tracker, next, progress>>
  /\ UNCHANGED <<pools, ioVars, mail, seg, dispatch, outgoing, carry, cancel>>

(* Readers that were complete on return are retired without the mailbox.    *)
Retire ==
  LET s == SlotOf(passes, next - 1)
  IN
  /\ pc = "retire"
  /\ \E f \in slot[s].readers \ slot[s].complete :
       /\ Tracker!CompleteReader(slot[s].ticket, f)
       /\ pc' = IF slot[s].readers \ slot[s].complete = {f} THEN "check" ELSE "retire"
  /\ UNCHANGED <<pools, ioVars, mail, gpu, loop, life, cancel>>

(* The head of the loop.  Without progress the owner waits at most 5 ms for *)
(* a record and goes round again, until the stall timeout.                  *)
Check ==
  /\ pc = "check"
  /\ \/ BoundaryComplete /\ pc' = "drain" /\ UNCHANGED life
     \/ ~BoundaryComplete /\ pc' = "poll" /\ UNCHANGED life
     \/ ~BoundaryComplete /\ ~progress /\ MayFail("stall") /\ Fail("stall")
  /\ UNCHANGED <<tracker, pools, outside, loop>>

-----------------------------------------------------------------------------
(* drain_active_pool() at the end of a segment.                             *)

(* adapter->drain() waits for the GPU and every callback, or fails.         *)
DrainReturns(ok) == IF ok THEN gpu = {} ELSE MayFail("drain")

Drain ==
  /\ pc = "drain"
  /\ \/ DrainReturns(TRUE) /\ pc' = "settle" /\ UNCHANGED life
     \/ DrainReturns(FALSE) /\ Fail("drain")
  /\ UNCHANGED <<tracker, pools, outside, loop>>

Settled == IF outgoing # NoTicket THEN Tracker!QuiescentExceptReady(Slots, outgoing)
                                  ELSE Tracker!Quiescent(Slots)

Settle ==
  /\ pc = "settle"
  /\ mailbox = <<>>
  /\ \/ /\ Settled
        /\ carry' = outgoing
        /\ drained' = drained \cup {active}
        /\ IF seg + 1 \in Pool THEN seg' = seg + 1 /\ pc' = "segment"
                               ELSE UNCHANGED seg /\ pc' = "pass_end"
        /\ UNCHANGED life
     \/ /\ ~Settled /\ Fail("leftover") /\ UNCHANGED <<carry, drained, seg>>
  /\ UNCHANGED <<tracker, live, active, backing, outside, next, dispatch, outgoing,
                 progress>>

PassEnd ==
  /\ pc = "pass_end"
  /\ \/ cancel /\ Fail("cancelled")
     \/ ~cancel /\ overflow /\ Fail("overflow")
     \/ /\ ~cancel /\ ~overflow
        /\ passes' = passes + 1
        /\ pc' = "idle"
        /\ UNCHANGED <<layout, failure, closing, released>>
  /\ UNCHANGED <<tracker, pools, outside, loop>>

(* release_drained_backing() between passes of a serial reloading stage.    *)
ReleaseBacking ==
  /\ pc = "idle" /\ failure = "none"
  /\ live # {} /\ ~layout.carry /\ ~layout.retain
  /\ \A p \in live : p \in drained /\ Tracker!Quiescent(SlotsOf(p))
  /\ ~overflow /\ mailbox = <<>>
  /\ DestroyPools
  /\ released' = TRUE
  /\ UNCHANGED <<tracker, outside, pc, seg, next, dispatch, outgoing, progress,
                 layout, passes, failure, closing>>

-----------------------------------------------------------------------------
(* finish(), retry_drain() and the destructor.                              *)

Finish ==
  /\ pc = "idle" /\ closing = "no"
  /\ \/ /\ passes = Passes
        /\ closing' = "finish"
        /\ io' = "stopped"
        /\ pc' = "finish_join"
        /\ UNCHANGED <<layout, passes, failure, released>>
     \/ /\ passes # Passes /\ MayFail("early_finish")
        /\ Fail("incomplete")
        /\ UNCHANGED io
  /\ UNCHANGED <<tracker, pools, jobs, worker, mail, gpu, loop, cancel>>

AllExited == \A w \in Worker : worker[w].state = "exited"

FinishJoin ==
  /\ Goto("finish_join", "finalize")
  /\ AllExited
  /\ UNCHANGED <<tracker, pools, outside, loop, life>>

Finalize ==
  /\ pc = "finalize"
  /\ mailbox = <<>>
  /\ \/ overflow /\ Fail("overflow")
     \/ ~overflow /\ pc' = "stop" /\ UNCHANGED life
  /\ UNCHANGED <<tracker, pools, outside, loop>>

(* The executor is dropped between calls; the destructor drains.            *)
Abandon ==
  /\ pc \in {"idle", "quarantined"}
  /\ pc' = "stop"
  /\ closing' = "abandon"
  /\ UNCHANGED <<tracker, pools, outside, loop, layout, passes, failure,
                 released>>

(* Wrong on purpose: the workers are not told to stop.                      *)
StopNothing ==
  /\ Goto("stop", "join")
  /\ released' = FALSE
  /\ UNCHANGED <<tracker, pools, ioVars, mail, gpu, loop, layout, passes, failure,
                 closing, cancel>>

(* retry_drain(): stop and join the workers first ...                       *)
Stop ==
  /\ Goto("stop", "join")
  /\ io' = IF io = "none" THEN "none" ELSE "stopped"
  /\ released' = FALSE
  /\ UNCHANGED <<tracker, pools, jobs, worker, mail, gpu, loop, layout, passes,
                 failure, closing, cancel>>

(* ... then wait for the device unless the active pool is drained already.  *)
NeedsDrain == live # {} /\ (active = 0 \/ active \notin drained)

(* Wrong on purpose: the join does not wait.                                *)
JoinNobody ==
  /\ pc = "join"
  /\ pc' = IF NeedsDrain THEN "device" ELSE "destroy"
  /\ UNCHANGED <<tracker, pools, outside, loop, life>>

JoinWorkers ==
  /\ pc = "join"
  /\ io = "none" \/ AllExited
  /\ pc' = IF NeedsDrain THEN "device" ELSE "destroy"
  /\ UNCHANGED <<tracker, pools, outside, loop, life>>

(* A device that does not drain quarantines the memory; in the destructor   *)
(* it terminates the process.  finish() comes here only after a pass that   *)
(* was drained, so its own answer to a failed drain is left out.            *)
DrainDevice ==
  /\ pc = "device"
  /\ \/ DrainReturns(TRUE) /\ pc' = "destroy"
     \/ /\ DrainReturns(FALSE)
        /\ pc' = IF closing = "abandon" THEN "terminated" ELSE "quarantined"
  /\ UNCHANGED <<tracker, pools, outside, loop, life>>

Destroy ==
  /\ pc = "destroy"
  /\ IF live # {} THEN DestroyPools ELSE UNCHANGED <<pools, carry>>
  /\ pc' = IF failure # "none" THEN "failed"
           ELSE IF closing = "finish" THEN "finished" ELSE "dropped"
  /\ UNCHANGED <<tracker, outside, seg, next, dispatch, outgoing, progress, life>>

(* The caller may call retry_drain() between passes or in quarantine.       *)
RetryDrain ==
  /\ pc \in {"idle", "quarantined"}
  /\ pc' = "stop"
  /\ UNCHANGED <<tracker, pools, outside, loop, life>>

-----------------------------------------------------------------------------
(* The workers: IoExecutor::run() without its mutex (see IoExecutor).       *)

TakeJob(w) ==
  /\ worker[w].state = "idle"
  /\ io = "running"
  /\ jobs # <<>>
  /\ jobs' = Tail(jobs)
  /\ worker' = [worker EXCEPT ![w].state = "filling", ![w].ticket = Head(jobs)]
  /\ backing' = [backing EXCEPT ![Head(jobs).slot] = Torn]
  /\ UNCHANGED <<ownerVars, live, drained, active, io, mail, gpu, cancel>>

(* The fill callback.  It checks the stop flag at chunk boundaries.         *)
FillEnds(w) ==
  LET t == worker[w].ticket
  IN
  /\ worker[w].state = "filling"
  /\ \/ /\ worker' = [worker EXCEPT ![w] = [state |-> "posting", ticket |-> t,
                                            ok |-> TRUE, bytes |-> 1]]
        /\ backing' = [backing EXCEPT ![t.slot] = t.item]
     \/ /\ MayFail("fill") \/ io = "stopped"
        /\ worker' = [worker EXCEPT ![w] = [state |-> "posting", ticket |-> t,
                                            ok |-> FALSE, bytes |-> 0]]
        /\ UNCHANGED backing
     \/ /\ MayFail("short")
        /\ worker' = [worker EXCEPT ![w] = [state |-> "posting", ticket |-> t,
                                            ok |-> TRUE, bytes |-> 0]]
        /\ UNCHANGED backing
  /\ UNCHANGED <<ownerVars, live, drained, active, jobs, io, mail, gpu, cancel>>

(* CompletionMailbox::post() by a worker or by a GPU callback.              *)
MailboxPost(record) ==
  IF Len(mailbox) < MailboxCapacity
  THEN mailbox' = Append(mailbox, record) /\ UNCHANGED overflow
  ELSE overflow' = TRUE /\ UNCHANGED mailbox

PostFill(w) ==
  /\ worker[w].state = "posting"
  /\ MailboxPost([kind |-> "fill", ticket |-> worker[w].ticket, ok |-> worker[w].ok,
                  bytes |-> worker[w].bytes, fence |-> <<>>])
  /\ worker' = [worker EXCEPT ![w] = Idle]
  /\ io' = IF overflow' THEN "stopped" ELSE io
  /\ UNCHANGED <<ownerVars, pools, jobs, gpu, cancel>>

WorkerExits(w) ==
  /\ worker[w].state = "idle"
  /\ io = "stopped"
  /\ worker' = [worker EXCEPT ![w].state = "exited"]
  /\ UNCHANGED <<ownerVars, pools, jobs, io, mail, gpu, cancel>>

(* A GPU queue completes a reader and its callback posts.                   *)
ReaderDone(r) ==
  /\ \E ok \in {TRUE} \cup (IF MayFail("reader") THEN {FALSE} ELSE {}) :
       MailboxPost([kind |-> "reader", ticket |-> r.ticket, ok |-> ok,
                    bytes |-> 0, fence |-> FenceOf(r)])
  /\ gpu' = gpu \ {r}
  /\ UNCHANGED <<ownerVars, pools, ioVars, cancel>>

RequestCancel ==
  /\ MayFail("cancel") /\ ~cancel
  /\ cancel' = TRUE
  /\ UNCHANGED <<ownerVars, pools, ioVars, mail, gpu>>

-----------------------------------------------------------------------------
(* run(): begin, every pass, finish - the calls a caller makes in any case. *)
Driver ==
  \/ Begin \/ RunPass \/ BeginSegment \/ Poll \/ Consume \/ ConsumeEnd
  \/ Dispatch \/ CarryFill \/ Claim \/ OverlapFill \/ Encode
  \/ Retire \/ Check \/ Drain \/ Settle \/ PassEnd
  \/ Finish \/ FinishJoin \/ Finalize \/ Stop \/ JoinWorkers \/ DrainDevice
  \/ Destroy

WorkerStep(w) == TakeJob(w) \/ FillEnds(w) \/ PostFill(w) \/ WorkerExits(w)

Next ==
  \/ Driver
  \/ ReleaseBacking \/ Abandon \/ RetryDrain \/ RequestCancel
  \/ \E w \in Worker : WorkerStep(w)
  \/ \E r \in gpu : ReaderDone(r)

Spec == Init /\ [][Next]_vars

(* The owner thread runs, the workers run, and committed GPU work           *)
(* completes.  A read may hang until the stop flag tells it to end.         *)
Fairness ==
  /\ WF_vars(Driver)
  /\ \A w \in Worker : /\ WF_vars(TakeJob(w) \/ PostFill(w) \/ WorkerExits(w))
                       /\ WF_vars(io = "stopped" /\ FillEnds(w))
  /\ WF_vars(\E r \in gpu : ReaderDone(r))

FairSpec == Spec /\ Fairness

-----------------------------------------------------------------------------
Ended == {"finished", "failed", "dropped", "quarantined", "terminated"}

Places == {"begin", "idle", "segment", "poll", "consume", "dispatch", "carry", "claim",
           "overlap", "encode", "retire", "check", "drain", "settle", "pass_end",
           "finish_join", "finalize", "stop", "join", "device", "destroy"} \cup Ended

(* The records that the variables hold; numbers are not bounded here.       *)
Content == (Nat \X Nat) \cup {NoItem, Empty, Torn}
AnyTicket == [slot : AnySlot, generation : Nat, item : Content]
AnyFence == [queue : Nat, sequence : Nat]
Cell == [state : Tracker!ContentState, expected : Nat, generation : Nat, ticket : AnyTicket,
         readers : SUBSET AnyFence, complete : SUBSET AnyFence]
WorkerRecord == [state : {"idle", "filling", "posting", "exited"},
                 ticket : AnyTicket \cup {NoTicket}, ok : BOOLEAN, bytes : Nat]
MailRecord == [kind : {"fill", "reader"}, ticket : AnyTicket, ok : BOOLEAN, bytes : Nat,
               fence : AnyFence \cup {<<>>}]
ReaderRecord == [ticket : AnyTicket, queue : Nat, item : Content]

TypeOK ==
  /\ layout \in Layouts
  /\ slot \in [AnySlot -> Cell] /\ backing \in [AnySlot -> Content]
  /\ live \subseteq Pool /\ drained \subseteq Pool /\ active \in Pool \cup {0}
  /\ jobs \in Seq(AnyTicket) /\ io \in {"none", "running", "stopped"}
  /\ worker \in [Worker -> WorkerRecord]
  /\ mailbox \in Seq(MailRecord) /\ gpu \subseteq ReaderRecord
  /\ pc \in Places /\ closing \in {"no", "finish", "abandon"}
  /\ seg \in Pool /\ {next, dispatch, passes} \subseteq Nat
  /\ {outgoing, carry} \subseteq AnyTicket \cup {NoTicket}
  /\ {poisoned, overflow, progress, released, cancel} \subseteq BOOLEAN

Users == {r.ticket.slot : r \in gpu}
         \cup {worker[w].ticket.slot : w \in {v \in Worker : worker[v].state = "filling"}}

(* What the GPU reads is the weights of the group it was asked to run: from *)
(* the encoding of a group until its last reader completes, the slot holds  *)
(* that group's content of that pass, whole.  No refill, carried fill,      *)
(* overlapped fill or pool switch gets in between (context.cpp:329-427).    *)
ReadersSeeTheirGroup == \A r \in gpu : backing[r.ticket.slot] = r.item

(* Memory outlives its users: no pool is destroyed - at a pool switch, a    *)
(* release, a finish, a failure or in the destructor - while a fill writes  *)
(* to one of its slots or the GPU may still read one                        *)
(* (context.cpp:35-79, :183-209, :477-492).                                 *)
MemoryOutlivesUsers == \A s \in Users : s[1] \in live

(* The executor trips none of its own checks: as long as fills report the   *)
(* right size, no interleaving of workers, GPU callbacks, failures and      *)
(* cancellation makes it use a slot out of turn, run out of I/O credits or  *)
(* mailbox records, meet a record of another pool, find content left over   *)
(* after a drain or refuse its own carried ticket (context.cpp:216-265,     *)
(* :301-313, :332, :335-359; slot_pool.cpp:31-37).                          *)
InternalError == {"violation", "credits", "io_stopped", "overflow", "inactive_pool",
                  "leftover", "bad_carry", "switch_before_drain"}
NoInternalError ==
  /\ failure \notin InternalError
  /\ poisoned => failure = "short"
  /\ ~overflow

(* Control returns only when it is safe: after a finish, a failure that was *)
(* drained or a drop, all memory is freed, no reader is outstanding and no  *)
(* worker is left; an executor in quarantine has stopped its workers and    *)
(* keeps all memory the GPU may still read (context.cpp:63-79, :452-467).   *)
SafeReturn ==
  /\ pc \in {"finished", "failed", "dropped"} => live = {} /\ gpu = {}
  /\ pc \in Ended => io = "none" \/ AllExited
  /\ pc = "quarantined" => live # {}

(* Control comes back: if reads end, every run gets to an end.  As a fault  *)
(* is never forced, no layout deadlocks - the prefetch distance, the        *)
(* overlapped fill, the rotation of carried slots and the last group's wait *)
(* for the carried fill never wait for each other (context.cpp:326-441).    *)
ReadsEnd == \A w \in Worker : WF_vars(FillEnds(w))
Completes == ReadsEnd => <>(pc \in Ended)

(* A failure ends: once something failed, control returns to the caller or  *)
(* the memory goes into quarantine (context.cpp:450, :466).                 *)
FailureEnds ==
  failure # "none" ~> pc \in {"failed", "quarantined", "terminated"}

(* Cancellation ends a pass even when a read hangs until it is told to      *)
(* stop, without waiting for the stall timeout (context.cpp:210-215, :327). *)
CancelEnds == cancel ~> pc \in Ended \cup {"idle"}
===============================================================================
