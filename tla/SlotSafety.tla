------------------------------ MODULE SlotSafety ------------------------------
(***************************************************************************)
(* The content-safety tracker of a streaming weight pool                   *)
(* (native/runtime/streaming/slot_pool.cpp, class SlotSafetyTracker).      *)
(*                                                                         *)
(* A pool is a set of physical slots that are refilled over and over while *)
(* the GPU still reads older content.  The tracker does not touch memory:  *)
(* it hands out a ticket per fill and checks that every slot runs through  *)
(*    Vacant -> Loading -> Ready -> InUse -> AwaitingFence -> Vacant       *)
(* with the ticket of its current content.  A call that breaks the order   *)
(* poisons the tracker for good, and the call throws.                      *)
(*                                                                         *)
(* Each operation is an action for a call that succeeds, and a predicate   *)
(* Can... for its checks; Refuse is what a call that fails them does.      *)
(* The owner check (all calls come from one thread) is not modelled: the   *)
(* modules that use the tracker have a single owner process.               *)
(***************************************************************************)
EXTENDS Naturals, FiniteSets

CONSTANTS
  Slot,           \* the slots of the pool
  Item,           \* work items: (stage, pass, step, group)
  NoItem,         \* the item of the zero ticket of a slot never filled
  Queue,          \* reader queue ids; 0 is no queue
  Sequence,       \* reader sequence numbers; 0 is no sequence
  Capacity,       \* capacity in bytes of each slot
  MaxGeneration,  \* the largest content generation (2^64 - 1 in the code)
  MaxReaders      \* TC_STREAM_MAX_READER_QUEUES

ASSUME SlotAssumption ==
  /\ IsFiniteSet(Slot)
  /\ NoItem \notin Item
  /\ Queue \subseteq Nat /\ Sequence \subseteq Nat
  /\ Capacity \in [Slot -> Nat \ {0}]
  /\ MaxGeneration \in Nat
  /\ MaxReaders \in Nat \ {0}

VARIABLES
  slot,      \* the record of each slot
  poisoned   \* a call has broken the protocol

safetyVars == <<slot, poisoned>>

ContentState == {"Vacant", "Loading", "Ready", "InUse", "AwaitingFence"}

Fence == [queue: Queue, sequence: Sequence]

(* The ticket names pool slot, content generation and work item.  Issued    *)
(* tickets have a generation of at least 1.                                 *)
Ticket == [slot: Slot, generation: 1 .. MaxGeneration, item: Item]

ZeroTicket(s) == [slot |-> s, generation |-> 0, item |-> NoItem]

EmptySlot(s) ==
  [state |-> "Vacant", expected |-> 0, generation |-> 0,
   ticket |-> ZeroTicket(s), readers |-> {}, complete |-> {}]

SafetyInit ==
  /\ slot = [s \in Slot |-> EmptySlot(s)]
  /\ poisoned = FALSE

-----------------------------------------------------------------------------
(* A refused call poisons the tracker and leaves every slot as it is.       *)
Refuse == poisoned' = TRUE /\ UNCHANGED slot

(* Wrong on purpose: any ticket of the slot will do.                        *)
MatchesAnyGeneration(t) == t.slot = slot[t.slot].ticket.slot

(* match(): the ticket is the one of the slot's current content.            *)
Matches(t) == t = slot[t.slot].ticket

NewTicket(s, item) ==
  [slot |-> s, generation |-> slot[s].generation + 1, item |-> item]

CanBeginFill(s, bytes) ==
  /\ ~poisoned
  /\ slot[s].state = "Vacant"
  /\ bytes \in 1 .. Capacity[s]
  /\ slot[s].generation # MaxGeneration

(* Wrong on purpose: the ticket is numbered but the slot keeps its count.   *)
BeginFillNoAdvance(s, item, bytes) ==
  /\ CanBeginFill(s, bytes)
  /\ slot' = [slot EXCEPT ![s].state = "Loading", ![s].expected = bytes,
                          ![s].ticket = NewTicket(s, item),
                          ![s].readers = {}, ![s].complete = {}]
  /\ UNCHANGED poisoned

BeginFill(s, item, bytes) ==
  /\ CanBeginFill(s, bytes)
  /\ slot' = [slot EXCEPT ![s] =
       [state |-> "Loading", expected |-> bytes,
        generation |-> slot[s].generation + 1, ticket |-> NewTicket(s, item),
        readers |-> {}, complete |-> {}]]
  /\ UNCHANGED poisoned

CanAcceptReady(t, bytes) ==
  /\ ~poisoned
  /\ Matches(t)
  /\ slot[t.slot].state = "Loading"
  /\ bytes = slot[t.slot].expected

AcceptReady(t, bytes) ==
  /\ CanAcceptReady(t, bytes)
  /\ slot' = [slot EXCEPT ![t.slot].state = "Ready"]
  /\ UNCHANGED poisoned

(* Wrong on purpose: content still loading may be used.                     *)
CanBeginUseEarly(t) ==
  /\ ~poisoned
  /\ Matches(t)
  /\ slot[t.slot].state \in {"Loading", "Ready"}

CanBeginUse(t) ==
  /\ ~poisoned
  /\ Matches(t)
  /\ slot[t.slot].state = "Ready"

BeginUse(t) ==
  /\ CanBeginUse(t)
  /\ slot' = [slot EXCEPT ![t.slot].state = "InUse"]
  /\ UNCHANGED poisoned

(* One last reader per queue: the identities are nonzero and no two readers *)
(* of the set share a queue.  (An array that repeats one fence exactly is   *)
(* refused by the code too; a set cannot express it.)                       *)
ReaderSet(fences) ==
  /\ fences # {}
  /\ Cardinality(fences) <= MaxReaders
  /\ \A f \in fences : f.queue # 0 /\ f.sequence # 0
  /\ \A f, g \in fences : f.queue = g.queue => f = g

CanSealReaders(t, fences) ==
  /\ ~poisoned
  /\ Matches(t)
  /\ slot[t.slot].state = "InUse"
  /\ ReaderSet(fences)

SealReaders(t, fences) ==
  /\ CanSealReaders(t, fences)
  /\ slot' = [slot EXCEPT ![t.slot].state = "AwaitingFence",
                          ![t.slot].readers = fences]
  /\ UNCHANGED poisoned

CanCompleteReader(t, f) ==
  /\ ~poisoned
  /\ Matches(t)
  /\ slot[t.slot].state = "AwaitingFence"
  /\ f \in slot[t.slot].readers
  /\ f \notin slot[t.slot].complete

(* Wrong on purpose: the first of several readers frees the slot.           *)
CompleteReaderFirst(t, f) ==
  /\ CanCompleteReader(t, f)
  /\ slot' = [slot EXCEPT ![t.slot].complete = @ \cup {f},
                          ![t.slot].state = "Vacant"]
  /\ UNCHANGED poisoned

CompleteReader(t, f) ==
  /\ CanCompleteReader(t, f)
  /\ LET done == slot[t.slot].complete \cup {f}
     IN  slot' = [slot EXCEPT
           ![t.slot].complete = done,
           ![t.slot].state = IF done = slot[t.slot].readers
                             THEN "Vacant" ELSE "AwaitingFence"]
  /\ UNCHANGED poisoned

-----------------------------------------------------------------------------
(* Queries of the owner.                                                    *)
IsReady(t) == Matches(t) /\ slot[t.slot].state = "Ready"

Quiescent(slots) == \A s \in slots : slot[s].state = "Vacant"

QuiescentExceptReady(slots, t) ==
  IsReady(t) /\ Quiescent(slots \ {t.slot})

SafetyTypeOK ==
  /\ slot \in [Slot -> [state: ContentState, expected: Nat,
                        generation: 0 .. MaxGeneration,
                        ticket: Ticket \cup {ZeroTicket(s) : s \in Slot},
                        readers: SUBSET Fence, complete: SUBSET Fence]]
  /\ poisoned \in BOOLEAN
===============================================================================
