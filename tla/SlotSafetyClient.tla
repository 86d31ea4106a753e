--------------------------- MODULE SlotSafetyClient ---------------------------
(***************************************************************************)
(* The slot tracker under an arbitrary caller: at any time the caller may  *)
(* make any call with any ticket it was given before, however stale, any   *)
(* byte count and any set of reader fences.  This is the protocol the      *)
(* tracker has to defend against late, lost, repeated and reordered        *)
(* completions on its own.                                                 *)
(***************************************************************************)
EXTENDS SlotSafety

CONSTANT Bytes     \* the byte counts a caller may pass

VARIABLES
  issued,    \* history: the tickets begin_fill returned
  filled,    \* history: the tickets whose content was accepted as ready
  sealed,    \* history: <<ticket, fence>> for each reader that was sealed
  reported   \* history: <<ticket, fence>> for each accepted completion

vars == <<slot, poisoned, issued, filled, sealed, reported>>

Init ==
  /\ SafetyInit
  /\ issued = {}
  /\ filled = {}
  /\ sealed = {}
  /\ reported = {}

CallBeginFill(s, item, bytes) ==
  /\ \/ /\ BeginFill(s, item, bytes)
        /\ issued' = issued \cup {slot'[s].ticket}
     \/ ~CanBeginFill(s, bytes) /\ Refuse /\ UNCHANGED issued
  /\ UNCHANGED <<filled, sealed, reported>>

CallAcceptReady(t, bytes) ==
  /\ \/ AcceptReady(t, bytes) /\ filled' = filled \cup {t}
     \/ ~CanAcceptReady(t, bytes) /\ Refuse /\ UNCHANGED filled
  /\ UNCHANGED <<issued, sealed, reported>>

CallBeginUse(t) ==
  /\ BeginUse(t) \/ (~CanBeginUse(t) /\ Refuse)
  /\ UNCHANGED <<issued, filled, sealed, reported>>

CallSealReaders(t, fences) ==
  /\ \/ /\ SealReaders(t, fences)
        /\ sealed' = sealed \cup ({t} \X fences)
     \/ ~CanSealReaders(t, fences) /\ Refuse /\ UNCHANGED sealed
  /\ UNCHANGED <<issued, filled, reported>>

CallCompleteReader(t, f) ==
  /\ \/ CompleteReader(t, f) /\ reported' = reported \cup {<<t, f>>}
     \/ ~CanCompleteReader(t, f) /\ Refuse /\ UNCHANGED reported
  /\ UNCHANGED <<issued, filled, sealed>>

Next ==
  \/ \E s \in Slot, item \in Item, bytes \in Bytes : CallBeginFill(s, item, bytes)
  \/ \E t \in issued :
       \/ \E bytes \in Bytes : CallAcceptReady(t, bytes)
       \/ CallBeginUse(t)
       \/ \E fences \in SUBSET Fence : CallSealReaders(t, fences)
       \/ \E f \in Fence : CallCompleteReader(t, f)

Spec == Init /\ [][Next]_vars

-----------------------------------------------------------------------------
TypeOK ==
  /\ SafetyTypeOK
  /\ issued \subseteq Ticket
  /\ filled \subseteq Ticket
  /\ sealed \subseteq Ticket \X Fence
  /\ reported \subseteq Ticket \X Fence

(* No content is overwritten before its last reader: once a slot has moved  *)
(* on from a sealed content - the slot is vacant again or holds a later     *)
(* generation - every reader sealed for that content was reported complete  *)
(* with that content's own ticket.  A completion left over from an earlier  *)
(* generation never counts for a later one (slot_pool.cpp:45, :84).         *)
NoReuseBeforeReaders ==
  \A r \in sealed :
    \/ r \in reported
    \/ /\ slot[r[1].slot].state = "AwaitingFence"
       /\ slot[r[1].slot].ticket = r[1]

(* Readers only ever see content that was materialised completely: a fence  *)
(* is sealed for a ticket only after a fill of that very ticket was         *)
(* accepted with the expected byte count (slot_pool.cpp:60, :65, :72).      *)
ReadersSeeFilledContent == \A r \in sealed : r[1] \in filled

(* A ticket names one fill: no two fills, of any slot at any time, are      *)
(* given the same slot and generation, whatever items they load             *)
(* (slot_pool.cpp:55).                                                      *)
TicketsAreUnique ==
  \A t, u \in issued : t.slot = u.slot /\ t.generation = u.generation => t = u

(* Poison is final: after a protocol violation no call changes a slot or    *)
(* accepts a completion (slot_pool.cpp:31-37).                              *)
PoisonIsFinal == [][poisoned => UNCHANGED vars]_vars

===============================================================================
