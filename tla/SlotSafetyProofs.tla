--------------------------- MODULE SlotSafetyProofs ---------------------------
(***************************************************************************)
(* Proofs about the slot tracker under an arbitrary caller, for any number *)
(* of slots, items, queues, generations and calls.                         *)
(***************************************************************************)
EXTENDS SlotSafetyClient, TLAPS

(* The ticket a slot keeps names the slot and counts its fills.             *)
TicketOfSlot ==
  \A s \in Slot : /\ slot[s].ticket.slot = s
                  /\ slot[s].ticket.generation = slot[s].generation

(* No ticket is ahead of its slot, and the one that is level is current.    *)
IssuedBehind ==
  \A t \in issued :
    /\ t.generation <= slot[t.slot].generation
    /\ t.generation = slot[t.slot].generation => t = slot[t.slot].ticket

(* The history only speaks of tickets that were issued.                     *)
HistoryIssued ==
  /\ filled \subseteq issued
  /\ \A r \in sealed : r[1] \in issued

(* Content that is ready or read was accepted.                              *)
LoadedIsFilled ==
  \A s \in Slot :
    slot[s].state \in {"Ready", "InUse", "AwaitingFence"} => slot[s].ticket \in filled

(* A slot holds the readers of its current content, and what it counts as   *)
(* complete was reported.                                                   *)
SealedAreReaders ==
  \A r \in sealed :
    r[1] = slot[r[1].slot].ticket =>
      /\ slot[r[1].slot].state \in {"AwaitingFence", "Vacant"}
      /\ r[2] \in slot[r[1].slot].readers

CompleteAreReported ==
  \A s \in Slot : \A f \in slot[s].complete : <<slot[s].ticket, f>> \in reported

IInv ==
  /\ TypeOK
  /\ TicketOfSlot
  /\ IssuedBehind
  /\ HistoryIssued
  /\ LoadedIsFilled
  /\ SealedAreReaders
  /\ CompleteAreReported
  /\ NoReuseBeforeReaders
  /\ ReadersSeeFilledContent
  /\ TicketsAreUnique

-----------------------------------------------------------------------------
SlotRecord ==
  [state: ContentState, expected: Nat, generation: 0 .. MaxGeneration,
   ticket: Ticket \cup {ZeroTicket(s) : s \in Slot},
   readers: SUBSET Fence, complete: SUBSET Fence]

(* The initial state satisfies the inductive invariant.                     *)
LEMMA InitInv == Init => IInv
<1> SUFFICES ASSUME Init PROVE IInv
  OBVIOUS
<1> USE DEF Init, SafetyInit, EmptySlot, ZeroTicket
<1>1. TypeOK
  <2>1. \A s \in Slot : EmptySlot(s) \in SlotRecord
    BY SlotAssumption DEF SlotRecord, ContentState
  <2>2. slot \in [Slot -> SlotRecord]
    BY <2>1
  <2> QED
    BY <2>2 DEF TypeOK, SafetyTypeOK, SlotRecord
<1>2. TicketOfSlot /\ IssuedBehind /\ HistoryIssued /\ LoadedIsFilled
  BY DEF TicketOfSlot, IssuedBehind, HistoryIssued, LoadedIsFilled
<1>3. SealedAreReaders /\ CompleteAreReported
  BY DEF SealedAreReaders, CompleteAreReported
<1>4. NoReuseBeforeReaders /\ ReadersSeeFilledContent /\ TicketsAreUnique
  BY DEF NoReuseBeforeReaders, ReadersSeeFilledContent, TicketsAreUnique
<1> QED
  BY <1>1, <1>2, <1>3, <1>4 DEF IInv

(* A step that leaves the slots and the history alone keeps the invariant.  *)
LEMMA QuietStep ==
  ASSUME IInv, poisoned' \in BOOLEAN,
         UNCHANGED <<slot, issued, filled, sealed, reported>>
  PROVE  IInv'
<1>1. TypeOK'
  BY DEF IInv, TypeOK, SafetyTypeOK
<1>2. (TicketOfSlot /\ IssuedBehind /\ HistoryIssued /\ LoadedIsFilled)'
  BY DEF IInv, TicketOfSlot, IssuedBehind, HistoryIssued, LoadedIsFilled
<1>3. (SealedAreReaders /\ CompleteAreReported)'
  BY DEF IInv, SealedAreReaders, CompleteAreReported
<1>4. (NoReuseBeforeReaders /\ ReadersSeeFilledContent /\ TicketsAreUnique)'
  BY DEF IInv, NoReuseBeforeReaders, ReadersSeeFilledContent, TicketsAreUnique
<1> QED
  BY <1>1, <1>2, <1>3, <1>4 DEF IInv

(* begin_fill: the new ticket is ahead of every ticket issued for the slot, *)
(* and every reader of the vacant slot has been reported.                   *)
LEMMA FillStep ==
  ASSUME IInv, NEW s \in Slot, NEW item \in Item, NEW bytes,
         BeginFill(s, item, bytes),
         issued' = issued \cup {slot'[s].ticket},
         UNCHANGED <<filled, sealed, reported>>
  PROVE  IInv'
<1> DEFINE t == NewTicket(s, item)
           new == [state |-> "Loading", expected |-> bytes,
                   generation |-> slot[s].generation + 1, ticket |-> t,
                   readers |-> {}, complete |-> {}]
<1>1. slot \in [Slot -> SlotRecord] /\ issued \subseteq Ticket
  BY DEF IInv, TypeOK, SafetyTypeOK, SlotRecord
<1>2. /\ slot[s].generation \in 0 .. MaxGeneration /\ slot[s].generation # MaxGeneration
      /\ slot[s].state = "Vacant" /\ bytes \in Nat
  BY <1>1, SlotAssumption DEF BeginFill, CanBeginFill, SlotRecord
<1>3. t \in Ticket /\ t.slot = s /\ t.generation = slot[s].generation + 1
  BY <1>2, SlotAssumption DEF NewTicket, Ticket
<1>4. new \in SlotRecord
  BY <1>2, <1>3, SlotAssumption DEF SlotRecord, ContentState
<1>5. slot' = [slot EXCEPT ![s] = new]
  BY DEF BeginFill
<1> HIDE DEF t, new
<1>6. \A x \in Slot : slot'[x] = IF x = s THEN new ELSE slot[x]
  BY <1>1, <1>5
<1>7. /\ new.state = "Loading" /\ new.generation = slot[s].generation + 1
      /\ new.ticket = t /\ new.complete = {}
  BY DEF new
<1>8. issued' = issued \cup {t}
  BY <1>6, <1>7
<1>9. \A u \in issued :
         /\ u.slot \in Slot /\ u.generation \in Nat
         /\ u.slot = s => u.generation < t.generation /\ u # t
  <2>1. \A u \in issued : u.slot \in Slot /\ u.generation \in Nat
    BY <1>1, SlotAssumption DEF Ticket
  <2>2. \A u \in issued : u.slot = s => u.generation <= slot[s].generation
    BY DEF IInv, IssuedBehind
  <2> QED
    BY <2>1, <2>2, <1>2, <1>3, SlotAssumption
<1>10. TypeOK'
  <2>1. slot' \in [Slot -> SlotRecord]
    BY <1>1, <1>4, <1>5
  <2> QED
    BY <2>1, <1>3, <1>8 DEF IInv, TypeOK, SafetyTypeOK, SlotRecord, BeginFill
<1>11. TicketOfSlot'
  BY <1>3, <1>6, <1>7 DEF IInv, TicketOfSlot
<1>12. IssuedBehind'
  <2> SUFFICES ASSUME NEW u \in issued'
               PROVE  /\ u.generation <= slot'[u.slot].generation
                      /\ u.generation = slot'[u.slot].generation
                           => u = slot'[u.slot].ticket
    BY DEF IssuedBehind
  <2>1. CASE u = t
    <3>1. slot'[u.slot] = new
      BY <2>1, <1>3, <1>6
    <3>2. u.generation = slot'[u.slot].generation /\ u = slot'[u.slot].ticket
      BY <2>1, <3>1, <1>3, <1>7
    <3> QED
      BY <3>2, <1>2, <1>3, <2>1
  <2>2. CASE u \in issued /\ u.slot = s
    <3>1. slot'[u.slot] = new
      BY <2>2, <1>6
    <3>2. slot'[u.slot].generation = t.generation
      BY <3>1, <1>3, <1>7
    <3>3. u.generation \in Nat /\ u.generation < t.generation
      BY <2>2, <1>9
    <3> QED
      BY <3>2, <3>3, <1>2, <1>3
  <2>3. CASE u \in issued /\ u.slot # s
    BY <2>3, <1>6, <1>9 DEF IInv, IssuedBehind
  <2> QED
    BY <2>1, <2>2, <2>3, <1>8
<1>13. HistoryIssued'
  BY <1>8 DEF IInv, HistoryIssued
<1>14. LoadedIsFilled'
  BY <1>6, <1>7 DEF IInv, LoadedIsFilled
<1>15. SealedAreReaders'
  <2> SUFFICES ASSUME NEW r \in sealed, r[1] = slot'[r[1].slot].ticket
               PROVE  /\ slot'[r[1].slot].state \in {"AwaitingFence", "Vacant"}
                      /\ r[2] \in slot'[r[1].slot].readers
    BY DEF SealedAreReaders
  <2>1. r[1] \in issued
    BY DEF IInv, HistoryIssued
  <2>2. r[1].slot \in Slot /\ (r[1].slot = s => r[1] # t)
    BY <2>1, <1>9
  <2>3. r[1].slot # s
    BY <2>2, <1>6, <1>7
  <2>4. slot'[r[1].slot] = slot[r[1].slot]
    BY <2>2, <2>3, <1>6
  <2> QED
    BY <2>4 DEF IInv, SealedAreReaders
<1>16. CompleteAreReported'
  BY <1>6, <1>7 DEF IInv, CompleteAreReported
<1>17. NoReuseBeforeReaders'
  <2> SUFFICES ASSUME NEW r \in sealed, r \notin reported
               PROVE  /\ slot'[r[1].slot].state = "AwaitingFence"
                      /\ slot'[r[1].slot].ticket = r[1]
    BY DEF NoReuseBeforeReaders
  <2>1. slot[r[1].slot].state = "AwaitingFence" /\ slot[r[1].slot].ticket = r[1]
    BY DEF IInv, NoReuseBeforeReaders
  <2>2. r[1] \in issued
    BY DEF IInv, HistoryIssued
  <2>3. r[1].slot \in Slot
    BY <2>2, <1>9
  <2>4. r[1].slot # s
    BY <2>1, <1>2
  <2> QED
    BY <2>1, <2>3, <2>4, <1>6
<1>18. ReadersSeeFilledContent'
  BY DEF IInv, ReadersSeeFilledContent
<1>19. TicketsAreUnique'
  <2> SUFFICES ASSUME NEW u \in issued', NEW v \in issued',
                      u.slot = v.slot, u.generation = v.generation
               PROVE  u = v
    BY DEF TicketsAreUnique
  <2>1. CASE u \in issued /\ v \in issued
    BY <2>1 DEF IInv, TicketsAreUnique
  <2>2. ASSUME NEW x \in issued, x.slot = s
        PROVE  x.generation # t.generation
    BY <2>2, <1>2, <1>3, <1>9
  <2>3. CASE u = t /\ v \in issued
    BY <2>2, <2>3, <1>3
  <2>4. CASE v = t /\ u \in issued
    BY <2>2, <2>4, <1>3
  <2> QED
    BY <2>1, <2>3, <2>4, <1>8
<1> QED
  BY <1>10, <1>11, <1>12, <1>13, <1>14, <1>15, <1>16, <1>17, <1>18, <1>19 DEF IInv

(* The other calls leave tickets and generations alone.                     *)
LEMMA SameTickets ==
  ASSUME IInv, UNCHANGED issued,
         \A x \in Slot : /\ slot'[x].ticket = slot[x].ticket
                         /\ slot'[x].generation = slot[x].generation
  PROVE  (TicketOfSlot /\ IssuedBehind /\ TicketsAreUnique)'
<1>1. \A u \in issued : u.slot \in Slot
  BY DEF IInv, TypeOK, Ticket
<1>2. TicketOfSlot'
  BY DEF IInv, TicketOfSlot
<1>3. IssuedBehind'
  <2> SUFFICES ASSUME NEW u \in issued
               PROVE  /\ u.generation <= slot'[u.slot].generation
                      /\ u.generation = slot'[u.slot].generation
                           => u = slot'[u.slot].ticket
    BY DEF IssuedBehind
  <2>1. u.slot \in Slot
    BY <1>1
  <2>2. /\ slot'[u.slot].generation = slot[u.slot].generation
        /\ slot'[u.slot].ticket = slot[u.slot].ticket
    BY <2>1
  <2> QED
    BY <2>2 DEF IInv, IssuedBehind
<1>4. TicketsAreUnique'
  BY DEF IInv, TicketsAreUnique
<1> QED
  BY <1>2, <1>3, <1>4

(* accept_ready: the content of the current ticket counts as filled.        *)
LEMMA AcceptStep ==
  ASSUME IInv, NEW t \in issued, NEW bytes,
         AcceptReady(t, bytes), filled' = filled \cup {t},
         UNCHANGED <<issued, sealed, reported>>
  PROVE  IInv'
<1>1. slot \in [Slot -> SlotRecord] /\ t \in Ticket /\ t.slot \in Slot
  BY DEF IInv, TypeOK, SafetyTypeOK, SlotRecord, Ticket
<1>2. slot[t.slot].state = "Loading" /\ slot[t.slot].ticket = t
  BY DEF AcceptReady, CanAcceptReady, Matches
<1>3. slot' = [slot EXCEPT ![t.slot] = [slot[t.slot] EXCEPT !.state = "Ready"]]
  BY DEF AcceptReady
<1>4. [slot[t.slot] EXCEPT !.state = "Ready"] \in SlotRecord
  BY <1>1 DEF SlotRecord, ContentState
<1>5. slot' \in [Slot -> SlotRecord]
  BY <1>1, <1>3, <1>4
<1>6. \A x \in Slot :
         /\ slot'[x].ticket = slot[x].ticket
         /\ slot'[x].generation = slot[x].generation
         /\ slot'[x].readers = slot[x].readers
         /\ slot'[x].complete = slot[x].complete
         /\ slot'[x].state = IF x = t.slot THEN "Ready" ELSE slot[x].state
  BY <1>1, <1>3 DEF SlotRecord
<1>7. TypeOK'
  BY <1>1, <1>5 DEF IInv, TypeOK, SafetyTypeOK, SlotRecord, AcceptReady
<1>8. (TicketOfSlot /\ IssuedBehind /\ TicketsAreUnique)'
  BY <1>6, SameTickets
<1>9. HistoryIssued'
  BY DEF IInv, HistoryIssued
<1>10. LoadedIsFilled'
  BY <1>1, <1>2, <1>6 DEF IInv, LoadedIsFilled
<1>11. \A r \in sealed : r[1].slot \in Slot /\ r[1] # t
  <2> SUFFICES ASSUME NEW r \in sealed PROVE r[1].slot \in Slot /\ r[1] # t
    OBVIOUS
  <2>1. r[1] \in Ticket
    BY DEF IInv, HistoryIssued, TypeOK
  <2>2. r[1].slot \in Slot
    BY <2>1 DEF Ticket
  <2>3. r[1] # t
    BY <1>2 DEF IInv, SealedAreReaders
  <2> QED
    BY <2>2, <2>3
<1>12. \A r \in sealed : r[1] = slot[r[1].slot].ticket => r[1].slot # t.slot
  BY <1>2, <1>11
<1>13. SealedAreReaders'
  BY <1>6, <1>11, <1>12 DEF IInv, SealedAreReaders
<1>14. CompleteAreReported'
  BY <1>6 DEF IInv, CompleteAreReported
<1>15. NoReuseBeforeReaders'
  BY <1>6, <1>11, <1>12 DEF IInv, NoReuseBeforeReaders
<1>16. ReadersSeeFilledContent'
  BY DEF IInv, ReadersSeeFilledContent
<1> QED
  BY <1>7, <1>8, <1>9, <1>10, <1>13, <1>14, <1>15, <1>16 DEF IInv

(* begin_use.                                                               *)
LEMMA UseStep ==
  ASSUME IInv, NEW t \in issued, BeginUse(t),
         UNCHANGED <<issued, filled, sealed, reported>>
  PROVE  IInv'
<1>1. slot \in [Slot -> SlotRecord] /\ t \in Ticket /\ t.slot \in Slot
  BY DEF IInv, TypeOK, SafetyTypeOK, SlotRecord, Ticket
<1>2. slot[t.slot].state = "Ready" /\ slot[t.slot].ticket = t
  BY DEF BeginUse, CanBeginUse, Matches
<1>3. slot' = [slot EXCEPT ![t.slot] = [slot[t.slot] EXCEPT !.state = "InUse"]]
  BY DEF BeginUse
<1>4. [slot[t.slot] EXCEPT !.state = "InUse"] \in SlotRecord
  BY <1>1 DEF SlotRecord, ContentState
<1>5. slot' \in [Slot -> SlotRecord]
  BY <1>1, <1>3, <1>4
<1>6. \A x \in Slot :
         /\ slot'[x].ticket = slot[x].ticket
         /\ slot'[x].generation = slot[x].generation
         /\ slot'[x].readers = slot[x].readers
         /\ slot'[x].complete = slot[x].complete
         /\ slot'[x].state = IF x = t.slot THEN "InUse" ELSE slot[x].state
  BY <1>1, <1>3 DEF SlotRecord
<1>7. TypeOK'
  BY <1>1, <1>5 DEF IInv, TypeOK, SafetyTypeOK, SlotRecord, BeginUse
<1>8. (TicketOfSlot /\ IssuedBehind /\ TicketsAreUnique)'
  BY <1>6, SameTickets
<1>9. HistoryIssued'
  BY DEF IInv, HistoryIssued
<1>10. LoadedIsFilled'
  BY <1>1, <1>2, <1>6 DEF IInv, LoadedIsFilled
<1>11. \A r \in sealed : r[1].slot \in Slot
  BY DEF IInv, HistoryIssued, TypeOK, Ticket
<1>12. \A r \in sealed : r[1] # t
  BY <1>2 DEF IInv, SealedAreReaders
<1>13. \A r \in sealed : r[1] = slot[r[1].slot].ticket => r[1].slot # t.slot
  BY <1>2, <1>12
<1>14. SealedAreReaders'
  BY <1>6, <1>11, <1>13 DEF IInv, SealedAreReaders
<1>15. CompleteAreReported'
  BY <1>6 DEF IInv, CompleteAreReported
<1>16. NoReuseBeforeReaders'
  BY <1>6, <1>11, <1>13 DEF IInv, NoReuseBeforeReaders
<1>17. ReadersSeeFilledContent'
  BY DEF IInv, ReadersSeeFilledContent
<1> QED
  BY <1>7, <1>8, <1>9, <1>10, <1>14, <1>15, <1>16, <1>17 DEF IInv

(* seal_readers: a content in use has no sealed reader yet, so the readers  *)
(* of the slot are exactly the ones sealed for its ticket.                  *)
LEMMA SealStep ==
  ASSUME IInv, NEW t \in issued, NEW fences \in SUBSET Fence,
         SealReaders(t, fences), sealed' = sealed \cup ({t} \X fences),
         UNCHANGED <<issued, filled, reported>>
  PROVE  IInv'
<1>1. slot \in [Slot -> SlotRecord] /\ t \in Ticket /\ t.slot \in Slot
  BY DEF IInv, TypeOK, SafetyTypeOK, SlotRecord, Ticket
<1>2. slot[t.slot].state = "InUse" /\ slot[t.slot].ticket = t
  BY DEF SealReaders, CanSealReaders, Matches
<1> DEFINE new == [slot[t.slot] EXCEPT !.state = "AwaitingFence", !.readers = fences]
<1>3. slot' = [slot EXCEPT ![t.slot] = new]
  BY DEF SealReaders
<1>4. new \in SlotRecord
  BY <1>1 DEF SlotRecord, ContentState
<1>5. slot' \in [Slot -> SlotRecord]
  BY <1>1, <1>3, <1>4
<1>6. \A x \in Slot :
         /\ slot'[x].ticket = slot[x].ticket
         /\ slot'[x].generation = slot[x].generation
         /\ slot'[x].readers = IF x = t.slot THEN fences ELSE slot[x].readers
         /\ slot'[x].complete = slot[x].complete
         /\ slot'[x].state = IF x = t.slot THEN "AwaitingFence" ELSE slot[x].state
  BY <1>1, <1>3 DEF SlotRecord
<1>7. TypeOK'
  BY <1>1, <1>5 DEF IInv, TypeOK, SafetyTypeOK, SlotRecord, SealReaders
<1>8. (TicketOfSlot /\ IssuedBehind /\ TicketsAreUnique)'
  BY <1>6, SameTickets
<1>9. \A r \in sealed' : r \in sealed \/ (r[1] = t /\ r[2] \in fences)
  OBVIOUS
<1>10. HistoryIssued'
  BY <1>9 DEF IInv, HistoryIssued
<1>11. LoadedIsFilled'
  BY <1>1, <1>2, <1>6 DEF IInv, LoadedIsFilled
<1>12. \A r \in sealed : r[1].slot \in Slot
  BY DEF IInv, HistoryIssued, TypeOK, Ticket
<1>13. \A r \in sealed : r[1] # t
  BY <1>2 DEF IInv, SealedAreReaders
<1>14. \A r \in sealed : r[1] = slot[r[1].slot].ticket => r[1].slot # t.slot
  BY <1>2, <1>13
<1>15. SealedAreReaders'
  <2> SUFFICES ASSUME NEW r \in sealed', r[1] = slot'[r[1].slot].ticket
               PROVE  /\ slot'[r[1].slot].state \in {"AwaitingFence", "Vacant"}
                      /\ r[2] \in slot'[r[1].slot].readers
    BY DEF SealedAreReaders
  <2>1. CASE r \in sealed
    BY <2>1, <1>6, <1>12, <1>14 DEF IInv, SealedAreReaders
  <2>2. CASE r[1] = t /\ r[2] \in fences
    BY <2>2, <1>1, <1>6
  <2> QED
    BY <2>1, <2>2, <1>9
<1>16. CompleteAreReported'
  BY <1>6 DEF IInv, CompleteAreReported
<1>17. NoReuseBeforeReaders'
  <2> SUFFICES ASSUME NEW r \in sealed', r \notin reported
               PROVE  /\ slot'[r[1].slot].state = "AwaitingFence"
                      /\ slot'[r[1].slot].ticket = r[1]
    BY DEF NoReuseBeforeReaders
  <2>1. CASE r \in sealed
    BY <2>1, <1>6, <1>12, <1>14 DEF IInv, NoReuseBeforeReaders
  <2>2. CASE r[1] = t
    BY <2>2, <1>1, <1>2, <1>6
  <2> QED
    BY <2>1, <2>2, <1>9
<1>18. ReadersSeeFilledContent'
  <2>1. t \in filled
    BY <1>1, <1>2 DEF IInv, LoadedIsFilled
  <2> QED
    BY <2>1, <1>9 DEF IInv, ReadersSeeFilledContent
<1> QED
  BY <1>7, <1>8, <1>10, <1>11, <1>15, <1>16, <1>17, <1>18 DEF IInv

(* complete_reader: the slot is vacant only once every reader was reported. *)
LEMMA CompleteStep ==
  ASSUME IInv, NEW t \in issued, NEW f \in Fence,
         CompleteReader(t, f), reported' = reported \cup {<<t, f>>},
         UNCHANGED <<issued, filled, sealed>>
  PROVE  IInv'
<1> DEFINE done == slot[t.slot].complete \cup {f}
           after == IF done = slot[t.slot].readers THEN "Vacant" ELSE "AwaitingFence"
           new == [slot[t.slot] EXCEPT !.complete = done, !.state = after]
<1>1. slot \in [Slot -> SlotRecord] /\ t \in Ticket /\ t.slot \in Slot
  BY DEF IInv, TypeOK, SafetyTypeOK, SlotRecord, Ticket
<1>2. slot[t.slot].state = "AwaitingFence" /\ slot[t.slot].ticket = t
  BY DEF CompleteReader, CanCompleteReader, Matches
<1>3. slot' = [slot EXCEPT ![t.slot] = new]
  BY DEF CompleteReader
<1>4. new \in SlotRecord
  BY <1>1 DEF SlotRecord, ContentState
<1>5. slot' \in [Slot -> SlotRecord]
  BY <1>1, <1>3, <1>4
<1>6. \A x \in Slot :
         /\ slot'[x].ticket = slot[x].ticket
         /\ slot'[x].generation = slot[x].generation
         /\ slot'[x].readers = slot[x].readers
         /\ slot'[x].complete = IF x = t.slot THEN done ELSE slot[x].complete
         /\ slot'[x].state = IF x = t.slot THEN after ELSE slot[x].state
  BY <1>1, <1>3 DEF SlotRecord
<1>7. TypeOK'
  <2>1. <<t, f>> \in Ticket \X Fence
    BY <1>1
  <2>2. (reported \subseteq Ticket \X Fence)'
    BY <2>1 DEF IInv, TypeOK
  <2> QED
    BY <2>2, <1>5 DEF IInv, TypeOK, SafetyTypeOK, SlotRecord, CompleteReader
<1>8. (TicketOfSlot /\ IssuedBehind /\ TicketsAreUnique)'
  BY <1>6, SameTickets
<1>9. HistoryIssued'
  BY DEF IInv, HistoryIssued
<1>10. LoadedIsFilled'
  BY <1>2, <1>6 DEF IInv, LoadedIsFilled
<1>11. \A r \in sealed : r[1].slot \in Slot
  BY DEF IInv, HistoryIssued, TypeOK, Ticket
<1>12. SealedAreReaders'
  <2> SUFFICES ASSUME NEW r \in sealed, r[1] = slot[r[1].slot].ticket
               PROVE  /\ slot'[r[1].slot].state \in {"AwaitingFence", "Vacant"}
                      /\ r[2] \in slot'[r[1].slot].readers
    BY <1>6, <1>11 DEF SealedAreReaders
  <2> QED
    BY <1>6, <1>11 DEF IInv, SealedAreReaders
<1>13. CompleteAreReported'
  <2>1. \A x \in slot[t.slot].complete : <<t, x>> \in reported
    BY <1>1, <1>2 DEF IInv, CompleteAreReported
  <2>2. \A x \in done : <<t, x>> \in reported'
    BY <2>1
  <2> QED
    BY <2>2, <1>2, <1>6 DEF IInv, CompleteAreReported
<1>14. NoReuseBeforeReaders'
  <2> SUFFICES ASSUME NEW r \in sealed, r \notin reported'
               PROVE  /\ slot'[r[1].slot].state = "AwaitingFence"
                      /\ slot'[r[1].slot].ticket = r[1]
    BY DEF NoReuseBeforeReaders
  <2>1. slot[r[1].slot].state = "AwaitingFence" /\ slot[r[1].slot].ticket = r[1]
    BY DEF IInv, NoReuseBeforeReaders
  <2>2. CASE r[1].slot = t.slot
    <3>1. r[1] = t
      BY <2>1, <2>2, <1>2
    <3>2. r = <<t, r[2]>>
      BY <3>1 DEF IInv, TypeOK
    <3>3. r[2] \in slot[t.slot].readers
      BY <3>1, <1>2 DEF IInv, SealedAreReaders
    <3>4. \A x \in slot[t.slot].complete : <<t, x>> \in reported
      BY <1>1, <1>2 DEF IInv, CompleteAreReported
    <3>5. r[2] \notin done
      BY <3>2, <3>4
    <3>6. after = "AwaitingFence"
      BY <3>3, <3>5
    <3> QED
      BY <3>1, <3>6, <1>1, <1>2, <1>6
  <2>3. CASE r[1].slot # t.slot
    BY <2>1, <2>3, <1>6, <1>11
  <2> QED
    BY <2>2, <2>3
<1>15. ReadersSeeFilledContent'
  BY DEF IInv, ReadersSeeFilledContent
<1> QED
  BY <1>7, <1>8, <1>9, <1>10, <1>12, <1>13, <1>14, <1>15 DEF IInv

-----------------------------------------------------------------------------
(* Every call, accepted or refused, keeps the invariant.                    *)
LEMMA NextInv == IInv /\ [Next]_vars => IInv'
<1> SUFFICES ASSUME IInv, [Next]_vars PROVE IInv'
  OBVIOUS
<1>1. poisoned \in BOOLEAN
  BY DEF IInv, TypeOK, SafetyTypeOK
<1>2. CASE UNCHANGED vars
  BY <1>1, <1>2, QuietStep DEF vars
<1>3. ASSUME NEW s \in Slot, NEW item \in Item, NEW bytes \in Bytes,
             CallBeginFill(s, item, bytes)
      PROVE  IInv'
  <2>1. CASE BeginFill(s, item, bytes) /\ issued' = issued \cup {slot'[s].ticket}
    BY <2>1, <1>3, FillStep DEF CallBeginFill
  <2>2. CASE Refuse /\ UNCHANGED issued
    BY <2>2, <1>3, QuietStep DEF CallBeginFill, Refuse
  <2> QED
    BY <2>1, <2>2, <1>3 DEF CallBeginFill
<1>4. ASSUME NEW t \in issued, NEW bytes \in Bytes, CallAcceptReady(t, bytes)
      PROVE  IInv'
  <2>1. CASE AcceptReady(t, bytes) /\ filled' = filled \cup {t}
    BY <2>1, <1>4, AcceptStep DEF CallAcceptReady
  <2>2. CASE Refuse /\ UNCHANGED filled
    BY <2>2, <1>4, QuietStep DEF CallAcceptReady, Refuse
  <2> QED
    BY <2>1, <2>2, <1>4 DEF CallAcceptReady
<1>5. ASSUME NEW t \in issued, CallBeginUse(t)
      PROVE  IInv'
  <2>1. CASE BeginUse(t)
    BY <2>1, <1>5, UseStep DEF CallBeginUse
  <2>2. CASE Refuse
    BY <2>2, <1>5, QuietStep DEF CallBeginUse, Refuse
  <2> QED
    BY <2>1, <2>2, <1>5 DEF CallBeginUse
<1>6. ASSUME NEW t \in issued, NEW fences \in SUBSET Fence, CallSealReaders(t, fences)
      PROVE  IInv'
  <2>1. CASE SealReaders(t, fences) /\ sealed' = sealed \cup ({t} \X fences)
    BY <2>1, <1>6, SealStep DEF CallSealReaders
  <2>2. CASE Refuse /\ UNCHANGED sealed
    BY <2>2, <1>6, QuietStep DEF CallSealReaders, Refuse
  <2> QED
    BY <2>1, <2>2, <1>6 DEF CallSealReaders
<1>7. ASSUME NEW t \in issued, NEW f \in Fence, CallCompleteReader(t, f)
      PROVE  IInv'
  <2>1. CASE CompleteReader(t, f) /\ reported' = reported \cup {<<t, f>>}
    BY <2>1, <1>7, CompleteStep DEF CallCompleteReader
  <2>2. CASE Refuse /\ UNCHANGED reported
    BY <2>2, <1>7, QuietStep DEF CallCompleteReader, Refuse
  <2> QED
    BY <2>1, <2>2, <1>7 DEF CallCompleteReader
<1> QED
  BY <1>2, <1>3, <1>4, <1>5, <1>6, <1>7 DEF Next

LEMMA Invariance == Spec => []IInv
BY InitInv, NextInv, PTL DEF Spec

(* The state of the tracker and the history always have their types: in     *)
(* particular no generation passes MaxGeneration (slot_pool.cpp:50).        *)
THEOREM TypeCorrect == Spec => []TypeOK
<1>1. IInv => TypeOK
  BY DEF IInv
<1> QED
  BY <1>1, Invariance, PTL

(* No content is overwritten before its last reader was reported, whatever  *)
(* late, repeated or wrong calls the tracker receives.                      *)
THEOREM ReuseSafety == Spec => []NoReuseBeforeReaders
<1>1. IInv => NoReuseBeforeReaders
  BY DEF IInv
<1> QED
  BY <1>1, Invariance, PTL

(* Readers are only sealed for content that was accepted as complete.       *)
THEOREM ContentSafety == Spec => []ReadersSeeFilledContent
<1>1. IInv => ReadersSeeFilledContent
  BY DEF IInv
<1> QED
  BY <1>1, Invariance, PTL

(* No two fills get the same slot and generation.                           *)
THEOREM TicketUniqueness == Spec => []TicketsAreUnique
<1>1. IInv => TicketsAreUnique
  BY DEF IInv
<1> QED
  BY <1>1, Invariance, PTL

(* After a protocol violation no call changes anything any more.            *)
THEOREM PoisonFinality == Spec => PoisonIsFinal
<1>1. IInv /\ [Next]_vars => [poisoned => UNCHANGED vars]_vars
  <2> SUFFICES ASSUME IInv, Next, poisoned PROVE UNCHANGED vars
    OBVIOUS
  <2>1. poisoned = TRUE
    BY DEF IInv, TypeOK, SafetyTypeOK
  <2>2. ASSUME NEW s \in Slot, NEW item \in Item, NEW bytes \in Bytes,
               CallBeginFill(s, item, bytes)
        PROVE  UNCHANGED vars
    BY <2>1, <2>2 DEF CallBeginFill, BeginFill, CanBeginFill, Refuse, vars
  <2>3. ASSUME NEW t \in issued, NEW bytes \in Bytes, CallAcceptReady(t, bytes)
        PROVE  UNCHANGED vars
    BY <2>1, <2>3 DEF CallAcceptReady, AcceptReady, CanAcceptReady, Refuse, vars
  <2>4. ASSUME NEW t \in issued, CallBeginUse(t) PROVE UNCHANGED vars
    BY <2>1, <2>4 DEF CallBeginUse, BeginUse, CanBeginUse, Refuse, vars
  <2>5. ASSUME NEW t \in issued, NEW fences \in SUBSET Fence, CallSealReaders(t, fences)
        PROVE  UNCHANGED vars
    BY <2>1, <2>5 DEF CallSealReaders, SealReaders, CanSealReaders, Refuse, vars
  <2>6. ASSUME NEW t \in issued, NEW f \in Fence, CallCompleteReader(t, f)
        PROVE  UNCHANGED vars
    BY <2>1, <2>6
       DEF CallCompleteReader, CompleteReader, CanCompleteReader, Refuse, vars
  <2> QED
    BY <2>2, <2>3, <2>4, <2>5, <2>6 DEF Next
<1> QED
  BY <1>1, Invariance, PTL DEF Spec, PoisonIsFinal
===============================================================================
