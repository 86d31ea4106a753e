------------------------------ MODULE ImageProofs ------------------------------
(***************************************************************************)
(* Proofs about ImageJobs, for any set of jobs and any number of crashes   *)
(* and failing writes.                                                     *)
(*                                                                         *)
(* The invariant has three parts.  LiveWorkers: a worker that may run is   *)
(* the only one, is saved as started, and the application is occupied with *)
(* it or knows that it has to wait.  ActiveJob: what generate() has saved  *)
(* where it is.  Publication: what a published image looks like on disk    *)
(* and in the records; Reported, that only an image which recovery could   *)
(* not read is reported as failed.                                         *)
(***************************************************************************)
EXTENDS ImageJobs, TLAPS

Live(j) == worker[j] \in {"gated", "working"}

(* The record of a job whose worker may run.                                *)
Launched(r) ==
  r.ref /\ r.started /\ ~r.exited /\ r.state \in {"running", "cancelling", "cleanup_pending"}

(* The record of a job whose worker, if it had one, is known to have ended. *)
Over(r) == r.ref => r.exited

LiveWorkers ==
  /\ \A j, k \in Job : Live(j) /\ Live(k) => j = k
  /\ \A j \in Job : Live(j) =>
       /\ Launched(disk[j])
       /\ pc # "down" => Launched(mem[j])
       /\ pc \in Steps => j = active /\ pc \in {"spawned", "journaled", "supervising", "uncleaned"}
       /\ pc = "idle" => pending /\ (storage = "unread" \/ mem[j].state = "cleanup_pending")
       /\ pc = "recovering" => j \in todo \/ (pending /\ mem[j].state = "cleanup_pending")
       /\ worker[j] = "working" => j \in journal

ActiveJob ==
  /\ pc \in {"recorded", "checking"} =>
       ~mem[active].ref /\ ~mem[active].exited /\ mem[active].state \in {"preparing", "cancelling"}
  /\ pc = "referred" => mem[active].ref /\ ~mem[active].exited
  /\ pc \in {"launching", "spawned", "journaled"} => Launched(mem[active]) /\ Launched(disk[active])
  /\ pc = "journaled" => active \in journal
  /\ pc = "uncleaned" => pending
  /\ pc \in {"generating", "validating", "validated"} => Over(mem[active])
  /\ pc = "finalizing" => mem[active].state = "finalizing" /\ disk[active].state = "finalizing"
  /\ pc = "published" => active \in published
  /\ pc \in {"published", "caught", "dropping"} /\ active \in published =>
       mem[active].state \in {"finalizing", "succeeded"}
  /\ pc \in Steps \ {"published", "caught", "dropping"} => active \notin published

Publication ==
  /\ dest \in Job => dest \in published
  /\ \A j \in published \ taken : dest = j /\ staged[j] = "none"
  /\ \A j \in published : disk[j].state # "absent" /\ (pc # "down" => mem[j].state # "absent")
  /\ \A j \in Job : \A r \in {mem[j], disk[j]} : r.state \in {"finalizing", "succeeded"} => Over(r)
  /\ pc = "recovering" =>
       \A j \in todo : mem[j] = disk[j] /\ mem[j].state \notin Terminal \cup {"absent"}

(* The records of an image that is still at its destination.                *)
Reported ==
  \A j \in published \ taken :
    LET ok == {"finalizing", "succeeded"} \cup (IF j \in unread THEN {"failed"} ELSE {})
    IN  disk[j].state \in ok /\ mem[j].state \in ok \cup {"absent"}

(* generate() throws a failure or a cancellation.                           *)
Thrown == pc \in {"caught", "unspawned"} => why \in {"failed", "cancelled"}

Good == LiveWorkers /\ ActiveJob /\ Publication /\ SuccessMeansPublished /\ Reported

IInv == TypeOK /\ Thrown /\ Good

-----------------------------------------------------------------------------
(* What the helpers of the specification do to a well-typed state.          *)

LEMMA SetRow ==
  ASSUME mem \in [Job -> Records], NEW j \in Job, NEW r \in Records, Set(j, r)
  PROVE  /\ mem' \in [Job -> Records] /\ mem'[j] = r
         /\ \A k \in Job \ {j} : mem'[k] = mem[k]
BY DEF Set

LEMMA InRow ==
  ASSUME mem \in [Job -> Records], active \in Job, NEW s \in States
  PROVE  /\ In(s) \in Records /\ In(s).state = s
         /\ In(s).ref = mem[active].ref /\ In(s).started = mem[active].started
         /\ In(s).exited = mem[active].exited
BY DEF In, Records

LEMMA ReferRow ==
  ASSUME NEW r \in Records
  PROVE  /\ [r EXCEPT !.ref = TRUE] \in Records
         /\ [r EXCEPT !.ref = TRUE].state = r.state
         /\ [r EXCEPT !.ref = TRUE].ref
         /\ [r EXCEPT !.ref = TRUE].exited = r.exited
<1> DEFINE q == [r EXCEPT !.ref = TRUE]
<1>1. q \in Records /\ q.ref = TRUE /\ q.state = r.state
  BY DEF Records
<1>2. q.exited = r.exited
  BY DEF Records
<1> QED
  BY <1>1, <1>2

LEMMA StartRow ==
  ASSUME NEW r \in Records
  PROVE  /\ [r EXCEPT !.started = TRUE] \in Records
         /\ [r EXCEPT !.started = TRUE].state = r.state
         /\ [r EXCEPT !.started = TRUE].ref = r.ref
         /\ [r EXCEPT !.started = TRUE].started
         /\ [r EXCEPT !.started = TRUE].exited = r.exited
<1> DEFINE q == [r EXCEPT !.started = TRUE]
<1>1. q \in Records /\ q.started = TRUE /\ q.state = r.state
  BY DEF Records
<1>2. q.exited = r.exited /\ q.ref = r.ref
  BY DEF Records
<1> QED
  BY <1>1, <1>2

LEMMA ExitRow ==
  ASSUME NEW r \in Records
  PROVE  /\ [r EXCEPT !.exited = TRUE] \in Records
         /\ [r EXCEPT !.exited = TRUE].state = r.state
         /\ [r EXCEPT !.exited = TRUE].ref = r.ref
         /\ [r EXCEPT !.exited = TRUE].started = r.started
         /\ [r EXCEPT !.exited = TRUE].exited
<1> DEFINE q == [r EXCEPT !.exited = TRUE]
<1>1. q \in Records /\ q.exited = TRUE /\ q.state = r.state
  BY DEF Records
<1>2. q.started = r.started /\ q.ref = r.ref
  BY DEF Records
<1> QED
  BY <1>1, <1>2

LEMMA ConfirmedRow ==
  ASSUME mem \in [Job -> Records], NEW j \in Job, NEW s \in States
  PROVE  /\ [Confirmed(j) EXCEPT !.state = s] \in Records
         /\ [Confirmed(j) EXCEPT !.state = s].state = s
         /\ Over([Confirmed(j) EXCEPT !.state = s])
<1> DEFINE b == mem[j].exited \/ mem[j].ref
           q == [Confirmed(j) EXCEPT !.state = s]
<1>1. Confirmed(j) = [mem[j] EXCEPT !.exited = b]
  BY DEF Confirmed
<1>2. b \in BOOLEAN /\ mem[j].ref \in BOOLEAN
  BY DEF Records
<1>3. mem[j].ref => b
  OBVIOUS
<1> HIDE DEF b
<1>4. q \in Records /\ q.state = s
  BY <1>1, <1>2 DEF Records
<1>5. q.exited = b /\ q.ref = mem[j].ref
  BY <1>1, <1>2 DEF Records
<1> HIDE DEF q
<1>6. Over(q)
  BY <1>3, <1>5 DEF Over
<1> QED
  BY <1>4, <1>6 DEF q

LEMMA ReleasedRow ==
  ASSUME NEW r \in Records
  PROVE  /\ [r EXCEPT !.state = "interrupted", !.exited = TRUE] \in Records
         /\ [r EXCEPT !.state = "interrupted", !.exited = TRUE].state = "interrupted"
         /\ [r EXCEPT !.state = "interrupted", !.exited = TRUE].ref = r.ref
         /\ [r EXCEPT !.state = "interrupted", !.exited = TRUE].exited
<1> DEFINE q == [r EXCEPT !.state = "interrupted", !.exited = TRUE]
           p == [r EXCEPT !.state = "interrupted"]
<1>1. p \in Records /\ p.state = "interrupted" /\ p.ref = r.ref
  BY DEF Records, States, Terminal
<1>2. q = [p EXCEPT !.exited = TRUE]
  BY DEF Records
<1> HIDE DEF p
<1> QED
  BY <1>1, <1>2, ExitRow

LEMMA NoRecordRow ==
  /\ NoRecord \in Records /\ NoRecord.state = "absent"
  /\ ~NoRecord.ref /\ ~NoRecord.exited /\ Over(NoRecord)
BY DEF NoRecord, Records, States, Terminal, Over

LEMMA PreparingRow ==
  LET r == [NoRecord EXCEPT !.state = "preparing"]
  IN  r \in Records /\ r.state = "preparing" /\ ~r.ref /\ ~r.exited
BY DEF NoRecord, Records, States, Terminal

LEMMA Named ==
  /\ {"preparing", "running", "cancelling", "cleanup_pending", "finalizing", "succeeded",
      "failed", "cancelled", "interrupted"} \subseteq States
  /\ NoJob \notin Job /\ "none" \notin Job /\ "foreign" \notin Job
BY ImageJobsAssumption DEF States, Terminal

-----------------------------------------------------------------------------
(* Types: a step of generate() with a record saves it or throws.            *)

LEMMA SavesTyped ==
  ASSUME TypeOK, pc \in Steps, NEW r \in Records, Set(active, r), Saved \/ Unsaved
  PROVE  /\ mem' \in [Job -> Records] /\ disk' \in [Job -> Records]
         /\ fails' \in 0..MaxFails /\ active \in Job
<1>1. active \in Job /\ mem' \in [Job -> Records]
  BY SetRow DEF TypeOK
<1> QED
  BY <1>1, ImageJobsAssumption DEF TypeOK, Saved, Unsaved

LEMMA FlowTyped ==
  ASSUME TypeOK, Thrown, Flow
  PROVE  TypeOK'
<1> USE DEF flow, store, latch, process, files
<1>1. ASSUME NEW r \in Records, NEW step \in Steps, pc \in Steps, Set(active, r),
             SaveAndGoto(step), UNCHANGED <<latch, process, files, crashes>>
      PROVE  TypeOK'
  <2>1. Saved \/ Unsaved
    BY <1>1 DEF SaveAndGoto
  <2>2. /\ pc' \in Steps /\ active' = active /\ UNCHANGED <<kind, cancel, stop>>
        /\ why' \in {why, "failed"}
    BY <1>1 DEF SaveAndGoto, Goto, Throw, Steps
  <2> QED
    BY <1>1, <2>1, <2>2, SavesTyped DEF TypeOK
<1>2. CASE Refuse
  BY <1>2 DEF TypeOK, Refuse, Goto, Steps
<1>3. CASE Record
  BY <1>3, <1>1, PreparingRow DEF Record, Steps
<1>4. CASE Refer
  <2>1. pc \in Steps /\ mem[active] \in Records
    BY <1>4 DEF Refer, TypeOK, Steps
  <2>2. CASE UNCHANGED store
    BY <1>4, <2>2 DEF Refer, TypeOK, Throw, SaveAndGoto, Goto, Steps
  <2>3. CASE Set(active, [mem[active] EXCEPT !.ref = TRUE]) /\ SaveAndGoto("referred")
    BY <1>4, <1>1, <2>1, <2>3, ReferRow DEF Refer, Steps
  <2> QED
    BY <1>4, <2>2, <2>3 DEF Refer
<1>5. CASE Start
  <2>1. pc \in Steps /\ active \in Job
    BY <1>5 DEF Start, TypeOK, Steps
  <2>2. [In("running") EXCEPT !.started = TRUE] \in Records
    BY <2>1, InRow, StartRow, Named DEF TypeOK
  <2>3. CASE UNCHANGED store
    BY <1>5, <2>3 DEF Start, TypeOK, Throw, SaveAndGoto, Goto, Steps
  <2>4. CASE Set(active, [In("running") EXCEPT !.started = TRUE]) /\ SaveAndGoto("launching")
    BY <1>5, <1>1, <2>1, <2>2, <2>4 DEF Start, Steps
  <2> QED
    BY <1>5, <2>3, <2>4 DEF Start
<1>6. CASE Spawn
  <2>1. pc \in Steps /\ active \in Job /\ mem[active] \in Records
    BY <1>6 DEF Spawn, TypeOK, Steps
  <2>2. /\ pc' \in Steps /\ UNCHANGED <<active, kind, cancel>> /\ stop' \in {stop, FALSE}
        /\ why' \in {why, "failed", "cancelled"}
    BY <1>6 DEF Spawn, Goto, Steps
  <2>3. worker' \in [Job -> {"none", "gated", "working", "exited", "gone"}]
    BY <1>6, <2>1 DEF Spawn, TypeOK
  <2>4. mem' \in [Job -> Records]
    <3>1. CASE UNCHANGED mem
      BY <3>1 DEF TypeOK
    <3>2. CASE Set(active, [mem[active] EXCEPT !.exited = TRUE])
      BY <2>1, <3>2, ExitRow, SetRow DEF TypeOK
    <3> QED
      BY <1>6, <3>1, <3>2 DEF Spawn
  <2> QED
    <3>1. stop' \in BOOLEAN /\ cancel' \in BOOLEAN
      BY <2>2 DEF TypeOK
    <3> QED
      BY <1>6, <2>1, <2>2, <2>3, <2>4, <3>1 DEF Spawn, TypeOK
<1>7. CASE WriteJournal
  BY <1>7, ImageJobsAssumption DEF WriteJournal, TypeOK, Goto, Supervise, Steps
<1>8. CASE OpenGate
  <2>1. active \in Job
    BY <1>8 DEF OpenGate, TypeOK, Steps
  <2>2. worker' \in [Job -> {"none", "gated", "working", "exited", "gone"}]
    BY <1>8, <2>1 DEF OpenGate, TypeOK
  <2> QED
    BY <1>8, <2>1, <2>2 DEF OpenGate, TypeOK, Supervise, Steps
<1>9. CASE Reap
  BY <1>9 DEF Reap, TypeOK, Goto, Steps
<1>10. CASE GiveUp
  BY <1>10 DEF GiveUp, TypeOK, Goto, Steps
<1>11. CASE Uncleaned
  <2>1. pc \in Steps /\ active \in Job
    BY <1>11 DEF Uncleaned, TypeOK, Steps
  <2>2. In("cleanup_pending") \in Records
    BY <2>1, InRow, Named DEF TypeOK
  <2>3. /\ mem' \in [Job -> Records] /\ disk' \in [Job -> Records] /\ fails' \in 0..MaxFails
    BY <1>11, <2>1, <2>2, SavesTyped DEF Uncleaned
  <2> QED
    BY <1>11, <2>3, Named DEF Uncleaned, Leave, TypeOK, Steps
<1>12. CASE Confirm
  <2>1. pc \in Steps /\ mem[active] \in Records
    BY <1>12 DEF Confirm, TypeOK, Steps
  <2>2. /\ mem' \in [Job -> Records] /\ disk' \in [Job -> Records] /\ fails' \in 0..MaxFails
    BY <1>12, <2>1, ExitRow, SavesTyped DEF Confirm
  <2> QED
    BY <1>12, <2>2 DEF Confirm, TypeOK, Goto, Throw, Steps
<1>13. CASE Generate
  BY <1>13 DEF Generate, TypeOK, Goto, Throw, Steps
<1>14. CASE Validate
  BY <1>14 DEF Validate, TypeOK, Goto, Throw, Steps
<1>15. CASE Finalize
  <2>1. pc \in Steps /\ active \in Job
    BY <1>15 DEF Finalize, TypeOK, Steps
  <2>2. In("finalizing") \in Records
    BY <2>1, InRow, Named DEF TypeOK
  <2>3. CASE cancel
    BY <1>15, <2>1, <2>3 DEF Finalize, TypeOK, Throw, Steps
  <2>4. CASE ~cancel
    BY <1>15, <1>1, <2>1, <2>2, <2>4 DEF Finalize, Steps
  <2> QED
    BY <2>3, <2>4
<1>16. CASE Publish
  BY <1>16 DEF Publish, Rename, TypeOK, Goto, Throw, Steps
<1>17. CASE Succeed
  <2>1. pc \in Steps /\ active \in Job
    BY <1>17 DEF Succeed, TypeOK, Steps
  <2>2. In("succeeded") \in Records
    BY <2>1, InRow, Named DEF TypeOK
  <2>3. SaveAndGoto("dropping")
    BY <1>17 DEF Succeed, SaveAndGoto
  <2> QED
    BY <1>17, <1>1, <2>1, <2>2, <2>3 DEF Succeed, Steps
<1>18. CASE Catch
  <2>1. pc \in Steps /\ active \in Job
    BY <1>18 DEF Catch, TypeOK, Steps
  <2>2. In(CaughtState(why)) \in Records
    <3>1. CaughtState(why) \in States
      BY <1>18, Named DEF Catch, Thrown, CaughtState
    <3> QED
      BY <2>1, <3>1, InRow DEF TypeOK
  <2>3. mem' \in [Job -> Records]
    BY <1>18, <2>1, <2>2, SetRow DEF Catch, TypeOK
  <2>4. disk' \in [Job -> Records] /\ fails' \in 0..MaxFails
    BY <1>18, <2>3, ImageJobsAssumption DEF Catch, TypeOK, Saved, Unsaved
  <2> QED
    BY <1>18, <2>1, <2>3, <2>4 DEF Catch, TypeOK, Goto, Steps
<1>19. CASE Drop
  BY <1>19, Named DEF Drop, Leave, Discard, TypeOK, Steps
<1>20. CASE Check
  BY <1>20 DEF Check, TypeOK, Goto, Throw, Steps
<1>21. CASE Unspawned
  BY <1>21 DEF Unspawned, TypeOK, Throw, Steps
<1>22. CASE Trim
  <2>1. mem' \in [Job -> Records]
    BY <1>22, ExitRow, SetRow DEF Trim, TypeOK, Steps
  <2> QED
    BY <1>22, <2>1 DEF Trim, Goto, TypeOK, Steps
<1> QED
  BY <1>2, <1>3, <1>4, <1>5, <1>6, <1>7, <1>8, <1>9, <1>10, <1>11, <1>12, <1>13, <1>14,
     <1>15, <1>16, <1>17, <1>18, <1>19, <1>20, <1>21, <1>22 DEF Flow

LEMMA StepTyped ==
  ASSUME TypeOK, Thrown, dest \in Job => dest \in published, [Next]_vars
  PROVE  TypeOK'
<1> USE DEF flow, store, latch, process, files
<1>1. ASSUME NEW j \in Job, Submit(j)
      PROVE  TypeOK'
  BY <1>1 DEF Submit, TypeOK, Steps
<1>2. CASE GenerateEnds
  <2>1. active \in Job
    BY <1>2 DEF GenerateEnds, TypeOK, Steps
  <2> QED
    BY <1>2, <2>1 DEF GenerateEnds, TypeOK, Goto, Throw, Steps
<1>3. CASE Cancel
  <2>1. pc \in Steps /\ active \in Job
    BY <1>3 DEF Cancel, Suspended, TypeOK, Steps
  <2>2. CASE pc = "created"
    BY <1>3, <2>2 DEF Cancel, TypeOK
  <2>3. CASE pc # "created"
    <3>1. In("cancelling") \in Records
      BY <2>1, InRow, Named DEF TypeOK
    <3>2. mem' \in [Job -> Records] /\ disk' \in [Job -> Records] /\ fails' \in 0..MaxFails
      BY <1>3, <2>1, <2>3, <3>1, SavesTyped DEF Cancel
    <3> QED
      BY <1>3, <2>3, <3>2 DEF Cancel, TypeOK
  <2> QED
    BY <2>2, <2>3
<1>4. CASE Event
  <2>1. pc \in Steps /\ active \in Job
    BY <1>4 DEF Event, TypeOK, Steps
  <2>2. In("cancelling") \in Records /\ In("running") \in Records
    BY <2>1, InRow, Named DEF TypeOK
  <2>3. mem' \in [Job -> Records]
    BY <1>4, <2>1, <2>2, SetRow DEF Event, TypeOK
  <2>4. disk' \in [Job -> Records] /\ fails' \in 0..MaxFails
    BY <1>4, <2>3, ImageJobsAssumption DEF Event, Saved, TypeOK
  <2>5. cancel' \in BOOLEAN /\ stop' \in BOOLEAN
    BY <1>4 DEF Event, TypeOK
  <2>6. storage' \in {"ok", "error", "unread"}
    BY <1>4 DEF Event, TypeOK
  <2> QED
    BY <1>4, <2>3, <2>4, <2>5, <2>6 DEF Event, TypeOK
<1>5. ASSUME NEW j \in Job, GateCloses(j) \/ WorkerWrites(j) \/ WorkerExits(j)
      PROVE  TypeOK'
  BY <1>5 DEF GateCloses, WorkerWrites, WorkerExits, Exits, TypeOK
<1>6. CASE UserWrites \/ UserRemoves
  <2>1. CASE UserWrites
    BY <2>1 DEF UserWrites, TypeOK
  <2>2. CASE UserRemoves
    BY <2>2 DEF UserRemoves, TypeOK
  <2> QED
    BY <1>6, <2>1, <2>2
<1>7. CASE Crash
  <2>1. mem' \in [Job -> Records] /\ crashes' \in 0..MaxCrashes
    BY <1>7, NoRecordRow, ImageJobsAssumption DEF Crash, TypeOK
  <2>2. worker' \in [Job -> {"none", "gated", "working", "exited", "gone"}]
    BY <1>7 DEF Crash, TypeOK
  <2>3. /\ pc' = "down" /\ active' = NoJob /\ kind' = "none"
        /\ cancel' = FALSE /\ stop' = FALSE /\ why' = "failed"
        /\ pending' = FALSE /\ storage' = "ok" /\ todo' = {} /\ kept' = NoJob
        /\ UNCHANGED <<disk, fails, journal, files>>
    BY <1>7 DEF Crash
  <2> QED
    BY <2>1, <2>2, <2>3, Named DEF TypeOK, Steps
<1>8. CASE Restart
  BY <1>8 DEF Restart, Goto, TypeOK, Steps
<1>9. ASSUME NEW j \in Job, RecoverBlocked(j)
      PROVE  TypeOK'
  <2>1. [mem[j] EXCEPT !.state = "cleanup_pending"] \in Records
    BY Named DEF TypeOK, Records
  <2>2. mem' \in [Job -> Records]
    BY <1>9, <2>1, SetRow DEF RecoverBlocked, TypeOK
  <2> QED
    BY <1>9, <2>2 DEF RecoverBlocked, TypeOK
<1>10. ASSUME NEW j \in Job, RecoverInterrupted(j)
       PROVE  TypeOK'
  <2>1. mem' \in [Job -> Records]
    BY <1>10, ConfirmedRow, SetRow, Named DEF RecoverInterrupted, TypeOK
  <2> QED
    BY <1>10, <2>1 DEF RecoverInterrupted, Discard, TypeOK
<1>11. ASSUME NEW j \in Job, RecoverFinalizing(j)
       PROVE  TypeOK'
  <2>1. mem' \in [Job -> Records]
    BY <1>11, ConfirmedRow, SetRow, Named DEF RecoverFinalizing, TypeOK
  <2> QED
    BY <1>11, <2>1 DEF RecoverFinalizing, WasPublished, Rename, TypeOK
<1>12. CASE RecoverEnds
  <2>1. disk' \in [Job -> Records] /\ fails' \in 0..MaxFails
    BY <1>12, ImageJobsAssumption DEF RecoverEnds, Saved, Unsaved, TypeOK
  <2>2. pc' = "idle" /\ active' = active /\ pending' \in BOOLEAN /\ todo' \subseteq Job
        /\ storage' \in {"ok", "error", "unread"}
    BY <1>12 DEF RecoverEnds, Goto, TypeOK
  <2> QED
    BY <1>12, <2>1, <2>2 DEF RecoverEnds, Goto, TypeOK, Steps
<1>13. CASE PollCleanup
  BY <1>13 DEF PollCleanup, TypeOK
<1>14. CASE Refresh
  <2>1. \A j \in Job : [mem[j] EXCEPT !.state = "interrupted", !.exited = TRUE] \in Records
    BY ReleasedRow DEF TypeOK
  <2>2. mem' \in [Job -> Records]
    BY <1>14, <2>1 DEF Refresh, TypeOK
  <2>3. disk' \in [Job -> Records] /\ fails' \in 0..MaxFails /\ pending' \in BOOLEAN
    <3>1. CASE Saved /\ pending' = (\E j \in Job : mem'[j].state = "cleanup_pending")
      <4>1. pending' \in BOOLEAN
        BY <3>1
      <4> QED
        BY <3>1, <4>1, <2>2 DEF Saved, TypeOK
    <3>2. CASE Unsaved /\ UNCHANGED pending
      BY <3>2, ImageJobsAssumption DEF Unsaved, TypeOK
    <3> QED
      BY <1>14, <3>1, <3>2 DEF Refresh
  <2>4. dir' \subseteq Job /\ staged' \in [Job -> {"none", "partial", "whole"}]
    BY <1>14 DEF Refresh, Discard, TypeOK
  <2> QED
    BY <1>14, <2>2, <2>3, <2>4 DEF Refresh, TypeOK
<1>15. CASE UNCHANGED vars
  BY <1>15 DEF TypeOK, vars
<1>16. ASSUME NEW j \in Job, RecoverFails(j)
       PROVE  TypeOK'
  <2>1. mem' \in [Job -> Records]
    BY <1>16, ConfirmedRow, SetRow, Named DEF RecoverFails, TypeOK
  <2>2. fails' \in 0..MaxFails
    BY <1>16, ImageJobsAssumption DEF RecoverFails, TypeOK
  <2>3. unread' \subseteq published'
    BY <1>16 DEF RecoverFails, TypeOK, WasPublished
  <2> QED
    BY <1>16, <2>1, <2>2, <2>3 DEF RecoverFails, TypeOK
<1>17. CASE Break
  BY <1>17 DEF Break, TypeOK, Steps
<1> QED
  BY <1>1, <1>2, <1>3, <1>4, <1>5, <1>6, <1>7, <1>8, <1>9, <1>10, <1>11, <1>12, <1>13, <1>14,
     <1>15, <1>16, <1>17, FlowTyped DEF Next, Recovery

LEMMA StepThrows ==
  ASSUME TypeOK, Thrown, [Next]_vars
  PROVE  Thrown'
<1> USE DEF flow, Goto, Throw, SaveAndGoto
<1>1. CASE Flow
  BY <1>1 DEF Flow, Refuse, Record, Check, Refer, Start, Spawn, Unspawned, WriteJournal,
     Supervise, OpenGate, Reap, GiveUp, Uncleaned, Trim, Confirm, Generate, Validate, Finalize,
     Publish, Succeed, Catch, Drop, Leave, Thrown
<1>2. CASE UNCHANGED <<pc, why>>
  BY <1>2 DEF Thrown
<1>3. ASSUME NEW j \in Job, Submit(j)
      PROVE  Thrown'
  BY <1>3 DEF Submit, Thrown
<1>4. CASE GenerateEnds \/ Break \/ Crash \/ Restart \/ RecoverEnds
  BY <1>4 DEF GenerateEnds, Break, Crash, Restart, RecoverEnds, Thrown
<1>5. ASSUME NEW j \in Job, GateCloses(j) \/ WorkerWrites(j) \/ WorkerExits(j)
             \/ RecoverBlocked(j) \/ RecoverInterrupted(j) \/ RecoverFinalizing(j)
             \/ RecoverFails(j)
      PROVE  UNCHANGED <<pc, why>>
  BY <1>5 DEF GateCloses, WorkerWrites, WorkerExits, RecoverBlocked, RecoverInterrupted,
     RecoverFinalizing, RecoverFails
<1>6. CASE Cancel \/ Event \/ UserWrites \/ UserRemoves \/ PollCleanup \/ Refresh
           \/ UNCHANGED vars
  <2>1. UNCHANGED <<pc, why>>
    BY <1>6 DEF Cancel, Event, UserWrites, UserRemoves, PollCleanup, Refresh, vars
  <2> QED
    BY <2>1, <1>2
<1> QED
  BY <1>1, <1>2, <1>3, <1>4, <1>5, <1>6 DEF Next, Recovery

-----------------------------------------------------------------------------
(* A step of generate() that changes nothing but its own job.               *)

LEMMA RecordsKeep ==
  ASSUME IInv, NEW j \in Job, pc # "down", pc' \notin {"recovering", "down"},
         \A k \in Job \ {j} : mem'[k] = mem[k], disk' = disk \/ disk' = mem',
         UNCHANGED <<dest, published, taken, unread>>,
         \A k \in published : staged[k] = "none" => staged'[k] = "none",
         mem'[j].state \in {"finalizing", "succeeded"} => Over(mem'[j]),
         mem'[j].state = "succeeded" => j \in published,
         j \in published => mem'[j].state # "absent"
           /\ (j \notin taken => mem'[j].state \in {"finalizing", "succeeded"})
  PROVE  Publication' /\ SuccessMeansPublished' /\ Reported'
<1> USE DEF IInv, Good
<1>1. \A k \in Job : disk'[k] \in {disk[k], mem'[k]} /\ (k = j \/ mem'[k] = mem[k])
  OBVIOUS
<1>2. Publication'
  <2>1. \A k \in published \ taken : dest = k /\ staged'[k] = "none"
    BY DEF Publication, TypeOK
  <2>2. \A k \in published : disk'[k].state # "absent" /\ mem'[k].state # "absent"
    BY <1>1 DEF Publication, TypeOK
  <2>3. \A k \in Job : mem'[k].state \in {"finalizing", "succeeded"} => Over(mem'[k])
    BY <1>1 DEF Publication
  <2>4. \A k \in Job : disk'[k].state \in {"finalizing", "succeeded"} => Over(disk'[k])
    BY <1>1, <2>3 DEF Publication
  <2>5. (dest \in Job => dest \in published)'
    BY DEF Publication
  <2> QED
    BY <2>1, <2>2, <2>3, <2>4, <2>5 DEF Publication
<1>3. SuccessMeansPublished'
  BY <1>1 DEF SuccessMeansPublished
<1>4. Reported'
  BY <1>1 DEF Reported, Publication, TypeOK
<1> QED
  BY <1>2, <1>3, <1>4

LEMMA ActiveKeeps ==
  ASSUME IInv, TypeOK', pc \in Steps, pc' \in Steps, active' = active,
         \A k \in Job \ {active} : mem'[k] = mem[k] /\ worker'[k] = worker[k],
         disk' = disk \/ disk' = mem', journal \subseteq journal',
         Live(active)' =>
           /\ Launched(disk'[active]) /\ Launched(mem'[active])
           /\ pc' \in {"spawned", "journaled", "supervising", "uncleaned"}
           /\ worker'[active] = "working" => active \in journal',
         UNCHANGED <<dest, published, taken, unread>>,
         \A k \in published : staged'[k] = staged[k],
         mem'[active].state \in {"finalizing", "succeeded"} => Over(mem'[active]),
         mem'[active].state = "succeeded" => active \in published,
         active \in published => mem'[active].state \in {"finalizing", "succeeded"},
         ActiveJob'
  PROVE  Good'
<1> USE DEF IInv, Good
<1>1. active \in Job /\ pc \notin {"idle", "recovering", "down"}
  BY DEF TypeOK, Steps
<1>2. pc' \notin {"idle", "recovering", "down"}
  BY DEF Steps
<1>3. \A k \in Job : Live(k)' => k = active
  BY <1>1 DEF LiveWorkers, Live
<1>4. LiveWorkers'
  BY <1>1, <1>2, <1>3 DEF LiveWorkers
<1>5. \A k \in published : staged[k] = "none" => staged'[k] = "none"
  OBVIOUS
<1>6. Publication' /\ SuccessMeansPublished' /\ Reported'
  BY <1>1, <1>2, <1>5, RecordsKeep
<1> QED
  BY <1>4, <1>6

(* No record changes, and no worker starts.                                 *)
LEMMA GoesOn ==
  ASSUME IInv, TypeOK', pc \in Steps, pc' \in Steps, active' = active,
         UNCHANGED <<mem, disk, dest, published, taken, unread>>, journal \subseteq journal',
         \A k \in Job : worker'[k] = worker[k] \/ ~Live(k)',
         \A k \in Job \ {active} : worker'[k] = worker[k],
         Live(active)' => pc' \in {"spawned", "journaled", "supervising", "uncleaned"},
         \A k \in published : staged'[k] = staged[k],
         active \in published => pc \in {"published", "caught", "dropping"},
         ActiveJob'
  PROVE  Good'
<1>1. active \in Job /\ pc # "down"
  BY DEF IInv, TypeOK, Steps
<1>2. Live(active)' => Live(active) /\ worker'[active] = worker[active]
  BY <1>1 DEF Live
<1>3. Live(active)' =>
           /\ Launched(disk[active]) /\ Launched(mem[active])
           /\ worker[active] = "working" => active \in journal
  BY <1>1, <1>2 DEF IInv, Good, LiveWorkers
<1>4. mem[active].state \in {"finalizing", "succeeded"} => Over(mem[active])
  BY <1>1 DEF IInv, Good, Publication
<1>5. mem[active].state = "succeeded" => active \in published
  BY <1>1 DEF IInv, Good, SuccessMeansPublished
<1>6. active \in published => mem[active].state \in {"finalizing", "succeeded"}
  BY DEF IInv, Good, ActiveJob
<1> QED
  BY <1>1, <1>2, <1>3, <1>4, <1>5, <1>6, ActiveKeeps

(* A record is saved, or generate() throws; nothing else changes.           *)
LEMMA SavesKeep ==
  ASSUME IInv, TypeOK', pc \in Steps, pc' \in Steps, active' = active,
         NEW r \in Records, Set(active, r), disk' = disk \/ disk' = mem',
         UNCHANGED <<worker, journal, staged, dest, published, taken, unread>>,
         Live(active) => Launched(r) /\ pc' \in {"spawned", "journaled", "supervising", "uncleaned"},
         r.state \in {"finalizing", "succeeded"} => Over(r),
         r.state = "succeeded" => active \in published,
         active \in published => r.state \in {"finalizing", "succeeded"},
         ActiveJob'
  PROVE  Good'
<1>1. active \in Job /\ pc # "down"
  BY DEF IInv, TypeOK, Steps
<1>2. mem'[active] = r /\ \A k \in Job \ {active} : mem'[k] = mem[k]
  BY <1>1, SetRow DEF IInv, TypeOK
<1>3. Live(active)' <=> Live(active)
  BY DEF Live
<1>4. Live(active) => /\ Launched(disk[active]) /\ Launched(mem[active])
                      /\ worker[active] = "working" => active \in journal
  BY <1>1 DEF IInv, Good, LiveWorkers
<1>5. Live(active) => Launched(disk'[active])
  BY <1>2, <1>4
<1> QED
  BY <1>1, <1>2, <1>3, <1>4, <1>5, ActiveKeeps

(* What the invariant says where generate() is.                             *)
LEMMA Here ==
  ASSUME IInv, pc \in Steps
  PROVE  /\ active \in Job /\ mem[active] \in Records
         /\ pc \notin {"spawned", "journaled", "supervising", "uncleaned"} => ~Live(active)
         /\ \A k \in Job \ {active} : ~Live(k)
         /\ active \in published => pc \in {"published", "caught", "dropping"}
         /\ active \in published => mem[active].state \in {"finalizing", "succeeded"}
         /\ mem[active].state = "succeeded" => active \in published
BY DEF IInv, Good, TypeOK, LiveWorkers, ActiveJob, SuccessMeansPublished, Steps

LEMMA FlowKeeps ==
  ASSUME IInv, TypeOK', Flow
  PROVE  Good'
<1> USE DEF flow, store, latch, process, files, Goto, Throw
<1>0. TypeOK /\ mem \in [Job -> Records]
  BY DEF IInv, TypeOK
<1>1. ASSUME pc \in Steps, pc' \in {"caught", "dropping"}, active' = active,
             UNCHANGED <<store, process, files>>, ~Live(active)
      PROVE  Good'
  <2>1. ActiveJob'
    BY <1>1, Here DEF ActiveJob
  <2> QED
    BY <1>1, <2>1, GoesOn, Here DEF Live, Steps
<1>2. CASE Refuse
  BY <1>1, <1>2, Here DEF Refuse, Steps
<1>3. CASE Record
  <2>1. pc \in Steps /\ pc' \in {"recorded", "caught"} /\ active' = active
    BY <1>3 DEF Record, SaveAndGoto, Steps
  <2> DEFINE r == [NoRecord EXCEPT !.state = "preparing"]
  <2>2. r \in Records /\ r.state = "preparing" /\ ~r.ref /\ ~r.exited
    BY PreparingRow
  <2> HIDE DEF r
  <2>3. Set(active, r) /\ (disk' = disk \/ disk' = mem')
    BY <1>3 DEF Record, SaveAndGoto, Saved, Unsaved, r
  <2>4. mem'[active] = r
    BY <1>0, <2>1, <2>2, <2>3, SetRow, Here
  <2>5. ~Live(active) /\ active \notin published
    BY <1>3, <2>1, Here DEF Record
  <2>6. ActiveJob'
    BY <1>3, <2>1, <2>2, <2>4, <2>5 DEF ActiveJob, Record
  <2> QED
    BY <1>3, <2>1, <2>2, <2>3, <2>5, <2>6, SavesKeep DEF Record, Steps
<1>4. CASE Refer
  <2>1. pc \in Steps /\ pc' \in {"referred", "caught"} /\ active' = active
    BY <1>4 DEF Refer, SaveAndGoto, Steps
  <2>2. ~Live(active) /\ active \notin published /\ mem[active] \in Records
    BY <1>4, <2>1, Here DEF Refer
  <2>3. CASE UNCHANGED store /\ pc' = "caught"
    BY <1>1, <1>4, <2>1, <2>2, <2>3 DEF Refer
  <2>4. CASE Set(active, [mem[active] EXCEPT !.ref = TRUE]) /\ SaveAndGoto("referred")
    <3> DEFINE r == [mem[active] EXCEPT !.ref = TRUE]
    <3>1. /\ r \in Records /\ r.state = mem[active].state /\ r.ref /\ r.exited = mem[active].exited
      BY <2>2, ReferRow
    <3>2. ~mem[active].exited /\ mem[active].state \in {"preparing", "cancelling"}
      BY <1>4 DEF IInv, Good, ActiveJob, Refer
    <3> HIDE DEF r
    <3>3. Set(active, r) /\ (disk' = disk \/ disk' = mem')
      BY <2>4 DEF SaveAndGoto, Saved, Unsaved, r
    <3>4. mem'[active] = r
      BY <1>0, <2>1, <3>1, <3>3, SetRow, Here
    <3>5. ActiveJob'
      BY <2>1, <2>2, <3>1, <3>2, <3>4, <1>4 DEF ActiveJob, Refer
    <3> QED
      BY <1>4, <2>1, <2>2, <3>1, <3>2, <3>3, <3>5, SavesKeep DEF Refer, Steps
  <2> QED
    BY <1>4, <2>3, <2>4 DEF Refer
<1>5. CASE Start
  <2>1. pc \in Steps /\ pc' \in {"launching", "caught"} /\ active' = active
    BY <1>5 DEF Start, SaveAndGoto, Steps
  <2>2. ~Live(active) /\ active \notin published /\ active \in Job
    BY <1>5, <2>1, Here DEF Start
  <2>3. CASE UNCHANGED store /\ pc' = "caught"
    BY <1>1, <1>5, <2>1, <2>2, <2>3 DEF Start
  <2>4. CASE Set(active, [In("running") EXCEPT !.started = TRUE]) /\ SaveAndGoto("launching")
    <3> DEFINE r == [In("running") EXCEPT !.started = TRUE]
    <3>1. mem[active].ref /\ ~mem[active].exited
      BY <1>5 DEF IInv, Good, ActiveJob, Start
    <3>2. /\ In("running") \in Records /\ In("running").state = "running"
          /\ In("running").ref = mem[active].ref /\ In("running").exited = mem[active].exited
      BY <1>0, <2>2, InRow, Named
    <3>3. r \in Records /\ r.state = "running" /\ r.started
          /\ r.ref = In("running").ref /\ r.exited = In("running").exited
      BY <3>2, StartRow
    <3> HIDE DEF r
    <3>4. r.ref /\ ~r.exited
      BY <3>1, <3>2, <3>3
    <3>5. Launched(r)
      BY <3>3, <3>4 DEF Launched
    <3>6. Set(active, r) /\ (disk' = disk \/ disk' = mem')
      BY <2>4 DEF SaveAndGoto, Saved, Unsaved, r
    <3>7. mem'[active] = r
      BY <1>0, <2>2, <3>3, <3>6, SetRow
    <3>8. pc' = "launching" => disk' = mem'
      BY <2>4 DEF SaveAndGoto, Saved
    <3>9. ActiveJob'
      BY <2>1, <2>2, <3>5, <3>7, <3>8, <1>5 DEF ActiveJob, Start
    <3> QED
      BY <1>5, <2>1, <2>2, <3>3, <3>6, <3>9, SavesKeep DEF Start, Steps
  <2> QED
    BY <1>5, <2>3, <2>4 DEF Start
<1>6. CASE Spawn
  <2>1. pc \in Steps /\ pc' \in {"spawned", "unspawned", "caught"} /\ active' = active
    BY <1>6 DEF Spawn, Steps
  <2>2. /\ ~Live(active) /\ active \notin published /\ active \in Job /\ mem[active] \in Records
        /\ Launched(mem[active]) /\ Launched(disk[active])
    BY <1>6, <2>1, Here DEF Spawn, IInv, Good, ActiveJob
  <2>3. CASE UNCHANGED mem /\ pc' = "spawned" /\ worker' = [worker EXCEPT ![active] = "gated"]
    <3>1. worker'[active] = "gated" /\ \A k \in Job \ {active} : worker'[k] = worker[k]
      BY <1>0, <2>2, <2>3 DEF TypeOK
    <3>2. ActiveJob'
      BY <1>6, <2>1, <2>2, <2>3 DEF ActiveJob, Spawn
    <3>3. mem[active].state \notin {"finalizing", "succeeded"}
      BY <2>2 DEF Launched
    <3> QED
      BY <1>6, <2>1, <2>2, <2>3, <3>1, <3>2, <3>3, ActiveKeeps DEF Spawn, Steps
  <2>4. CASE pc' # "spawned" /\ Set(active, [mem[active] EXCEPT !.exited = TRUE]) /\ UNCHANGED worker
    <3> DEFINE r == [mem[active] EXCEPT !.exited = TRUE]
    <3>1. r \in Records /\ r.state = mem[active].state /\ r.exited
      BY <2>2, ExitRow
    <3> HIDE DEF r
    <3>2. r.state \notin {"finalizing", "succeeded"}
      BY <2>2, <3>1 DEF Launched
    <3>3. ActiveJob'
      BY <2>1, <2>2, <2>4, <1>6 DEF ActiveJob, Spawn
    <3> QED
      BY <1>6, <2>1, <2>2, <2>4, <3>1, <3>2, <3>3, SavesKeep DEF Spawn, Steps, r
  <2> QED
    BY <1>6, <2>3, <2>4 DEF Spawn
<1>7. CASE WriteJournal
  <2>1. pc \in Steps /\ pc' \in {"journaled", "supervising"} /\ active' = active
    BY <1>7 DEF WriteJournal, Supervise, Steps
  <2>2. pc' = "journaled" => active \in journal'
    BY <1>7 DEF WriteJournal, Supervise
  <2>3. ActiveJob'
    BY <1>7, <2>1, <2>2, Here DEF ActiveJob, WriteJournal, IInv, Good
  <2> QED
    BY <1>7, <2>1, <2>3, GoesOn, Here DEF WriteJournal, Steps
<1>8. CASE OpenGate
  <2>1. /\ pc \in Steps /\ pc' = "supervising" /\ active' = active /\ active \in Job
        /\ active \notin published
    BY <1>8, Here DEF OpenGate, Supervise, Steps
  <2>2. active \in journal
    BY <1>8 DEF OpenGate, IInv, Good, ActiveJob
  <2>3. \A k \in Job \ {active} : worker'[k] = worker[k]
    BY <1>8 DEF OpenGate, IInv, TypeOK
  <2>4. /\ Live(active)' => Live(active)
    BY <1>8, <2>1 DEF OpenGate, IInv, TypeOK, Live
  <2>5. Launched(mem[active]) /\ Launched(disk[active])
    BY <1>8 DEF OpenGate, IInv, Good, ActiveJob
  <2>6. ActiveJob'
    BY <1>8, <2>1 DEF ActiveJob, OpenGate
  <2>7. mem[active].state \notin {"finalizing", "succeeded"}
    BY <2>5 DEF Launched
  <2> QED
    BY <1>8, <2>1, <2>2, <2>3, <2>5, <2>6, <2>7, ActiveKeeps DEF OpenGate, Steps
<1>9. CASE Reap
  <2>1. /\ pc \in Steps /\ pc' = "reaped" /\ active' = active /\ active \in Job
        /\ active \notin published
    BY <1>9, Here DEF Reap, Steps
  <2>2. worker'[active] = "gone" /\ \A k \in Job \ {active} : worker'[k] = worker[k]
    BY <1>9, <2>1 DEF Reap, IInv, TypeOK
  <2>3. ActiveJob'
    BY <1>9, <2>1 DEF ActiveJob, Reap
  <2>4. \A k \in Job : worker'[k] = worker[k] \/ ~Live(k)'
    BY <2>2 DEF Live
  <2>5. ~Live(active)'
    BY <2>1, <2>2 DEF Live
  <2> QED
    BY <1>9, <2>1, <2>2, <2>3, <2>4, <2>5, GoesOn DEF Reap, Steps
<1>10. CASE GiveUp
  <2>1. /\ pc \in Steps /\ pc' = "uncleaned" /\ active' = active /\ active \in Job
        /\ active \notin published /\ pending'
    BY <1>10, Here DEF GiveUp, Steps
  <2>2. ActiveJob'
    BY <1>10, <2>1 DEF ActiveJob, GiveUp
  <2> QED
    BY <1>10, <2>1, <2>2, GoesOn DEF GiveUp, Steps
<1>11. CASE Uncleaned
  <2>1. /\ pc \in Steps /\ pc' = "idle" /\ active \in Job /\ active \notin published
        /\ pending /\ pending' /\ pc' \notin Steps
    BY <1>11, Here DEF Uncleaned, Leave, Steps, IInv, Good, ActiveJob
  <2> DEFINE r == In("cleanup_pending")
  <2>2. /\ r \in Records /\ r.state = "cleanup_pending" /\ r.ref = mem[active].ref
        /\ r.started = mem[active].started /\ r.exited = mem[active].exited
    BY <1>0, <2>1, InRow, Named
  <2> HIDE DEF r
  <2>3. mem'[active] = r /\ \A k \in Job \ {active} : mem'[k] = mem[k]
    BY <1>0, <1>11, <2>1, <2>2, SetRow DEF Uncleaned, r
  <2>4. disk' = disk \/ disk' = mem'
    BY <1>11 DEF Uncleaned, Saved, Unsaved
  <2>5. UNCHANGED <<worker, journal, staged, dest, published, taken, unread>>
    BY <1>11 DEF Uncleaned
  <2>6. \A k \in Job : Live(k) => k = active /\ Launched(mem[k]) /\ Launched(disk[k])
    BY <2>1, Here DEF IInv, Good, LiveWorkers, Steps
  <2>7. Live(active) => Launched(r)
    BY <2>1, <2>2, <2>6 DEF Launched
  <2>8. LiveWorkers'
    BY <2>1, <2>2, <2>3, <2>4, <2>5, <2>6, <2>7 DEF LiveWorkers, Live, IInv, Good
  <2>9. ActiveJob'
    BY <2>1 DEF ActiveJob, Steps
  <2>10. Publication' /\ SuccessMeansPublished' /\ Reported'
    BY <1>11, <2>1, <2>2, <2>3, <2>4, <2>5, RecordsKeep DEF Uncleaned
  <2> QED
    BY <2>8, <2>9, <2>10 DEF Good
<1>12. CASE Confirm
  <2>1. /\ pc \in Steps /\ pc' \in {"validating", "caught"} /\ active' = active /\ active \in Job
        /\ active \notin published /\ ~Live(active) /\ mem[active] \in Records
        /\ mem[active].state # "succeeded" /\ UNCHANGED published
    BY <1>12, Here DEF Confirm, Steps
  <2> DEFINE r == [mem[active] EXCEPT !.exited = TRUE]
  <2>2. r \in Records /\ r.state = mem[active].state /\ r.exited
    BY <2>1, ExitRow
  <2> HIDE DEF r
  <2>3. Set(active, r) /\ (disk' = disk \/ disk' = mem')
    BY <1>12 DEF Confirm, Saved, Unsaved, r
  <2>4. mem'[active] = r /\ Over(r)
    BY <1>0, <2>1, <2>2, <2>3, SetRow DEF Over
  <2>5. ActiveJob'
    BY <2>1, <2>4 DEF ActiveJob
  <2> QED
    BY <1>12, <2>1, <2>2, <2>3, <2>4, <2>5, SavesKeep DEF Confirm, Steps
<1>13. CASE Generate
  <2>1. /\ pc \in Steps /\ pc' \in {"generating", "caught"} /\ active' = active /\ active \in Job
        /\ active \notin published /\ ~Live(active)
    BY <1>13, Here DEF Generate, Steps
  <2>2. Over(mem[active])
    BY <1>13 DEF Generate, IInv, Good, ActiveJob, Over
  <2>3. ActiveJob'
    BY <1>13, <2>1, <2>2 DEF ActiveJob, Generate
  <2> QED
    BY <1>13, <2>1, <2>3, GoesOn DEF Generate, Steps, Live
<1>14. CASE Validate
  <2>1. /\ pc \in Steps /\ pc' \in {"validated", "caught"} /\ active' = active /\ active \in Job
        /\ active \notin published /\ ~Live(active)
    BY <1>14, Here DEF Validate, Steps
  <2>2. Over(mem[active])
    BY <1>14 DEF Validate, IInv, Good, ActiveJob
  <2>3. ActiveJob'
    BY <1>14, <2>1, <2>2 DEF ActiveJob, Validate
  <2> QED
    BY <1>14, <2>1, <2>3, GoesOn DEF Validate, Steps, Live
<1>15. CASE Finalize
  <2>1. /\ pc \in Steps /\ pc' \in {"finalizing", "caught"} /\ active' = active /\ active \in Job
        /\ active \notin published /\ ~Live(active)
    BY <1>15, Here DEF Finalize, SaveAndGoto, Steps
  <2>2. CASE cancel
    BY <1>1, <1>15, <2>1, <2>2 DEF Finalize
  <2>3. CASE ~cancel
    <3> DEFINE r == In("finalizing")
    <3>1. /\ r \in Records /\ r.state = "finalizing" /\ r.ref = mem[active].ref
          /\ r.exited = mem[active].exited
      BY <1>0, <2>1, InRow, Named
    <3>2. Over(mem[active])
      BY <1>15 DEF Finalize, IInv, Good, ActiveJob
    <3> HIDE DEF r
    <3>3. Over(r)
      BY <3>1, <3>2 DEF Over
    <3>4. Set(active, r) /\ (disk' = disk \/ disk' = mem')
      BY <1>15, <2>3 DEF Finalize, SaveAndGoto, Saved, Unsaved, r
    <3>5. pc' = "finalizing" => disk' = mem'
      BY <1>15, <2>3 DEF Finalize, SaveAndGoto, Saved
    <3>6. mem'[active] = r
      BY <1>0, <2>1, <3>1, <3>4, SetRow
    <3>7. ActiveJob'
      BY <1>15, <2>1, <3>1, <3>5, <3>6 DEF ActiveJob, Finalize
    <3> QED
      BY <1>15, <2>1, <3>1, <3>3, <3>4, <3>7, SavesKeep DEF Finalize, Steps
  <2> QED
    BY <2>2, <2>3
<1>16. CASE Publish
  <2>1. /\ pc \in Steps /\ pc' \in {"published", "caught"} /\ active' = active /\ active \in Job
        /\ active \notin published /\ ~Live(active)
    BY <1>16, Here DEF Publish, Steps
  <2>2. CASE UNCHANGED <<dest, published, staged>> /\ pc' = "caught"
    BY <1>1, <1>16, <2>1, <2>2 DEF Publish
  <2>3. CASE Rename(active) /\ pc' = "published"
    <3>1. /\ mem[active].state = "finalizing" /\ disk[active].state = "finalizing"
      BY <1>16 DEF Publish, IInv, Good, ActiveJob
    <3>2. UNCHANGED <<mem, disk, worker, journal, taken, unread, todo, pending, storage>>
      BY <1>16 DEF Publish
    <3>3. dest = "none" /\ dest' = active /\ published' = published \cup {active}
          /\ staged'[active] = "none"
      BY <2>1, <2>3 DEF Rename, IInv, TypeOK
    <3>4. published \subseteq taken
      BY <3>3, Named DEF IInv, Good, Publication, TypeOK
    <3>5. active \notin taken
      BY <2>1 DEF IInv, TypeOK
    <3>6. LiveWorkers'
      BY <2>1, <2>3, <3>2, Here DEF LiveWorkers, Live, IInv, Good, Steps
    <3>7. ActiveJob'
      BY <2>1, <2>3, <3>1, <3>2, <3>3 DEF ActiveJob
    <3>8. Publication'
      BY <2>1, <2>3, <3>1, <3>2, <3>3, <3>4 DEF Publication, IInv, Good, Steps
    <3>9. SuccessMeansPublished' /\ Reported'
      BY <2>1, <3>1, <3>2, <3>3, <3>4 DEF SuccessMeansPublished, Reported, IInv, Good
    <3> QED
      BY <3>6, <3>7, <3>8, <3>9 DEF Good
  <2> QED
    BY <1>16, <2>2, <2>3 DEF Publish
<1>17. CASE Succeed
  <2>1. /\ pc \in Steps /\ pc' \in {"dropping", "caught"} /\ active' = active /\ active \in Job
        /\ active \in published /\ ~Live(active) /\ mem[active].state \in {"finalizing", "succeeded"}
    BY <1>17, Here DEF Succeed, Steps, IInv, Good, ActiveJob
  <2> DEFINE r == In("succeeded")
  <2>2. /\ r \in Records /\ r.state = "succeeded" /\ r.ref = mem[active].ref
        /\ r.exited = mem[active].exited
    BY <1>0, <2>1, InRow, Named
  <2>3. Over(mem[active])
    BY <2>1 DEF IInv, Good, Publication
  <2> HIDE DEF r
  <2>4. Over(r)
    BY <2>2, <2>3 DEF Over
  <2>5. Set(active, r) /\ (disk' = disk \/ disk' = mem')
    BY <1>17 DEF Succeed, Saved, Unsaved, r
  <2>6. mem'[active] = r
    BY <1>0, <2>1, <2>2, <2>5, SetRow
  <2>7. ActiveJob'
    BY <2>1, <2>2, <2>6 DEF ActiveJob
  <2> QED
    BY <1>17, <2>1, <2>2, <2>4, <2>5, <2>7, SavesKeep DEF Succeed, Steps
<1>18. CASE Catch
  <2>1. /\ pc \in Steps /\ pc' = "dropping" /\ active' = active /\ active \in Job /\ ~Live(active)
        /\ why \in {"failed", "cancelled"}
    BY <1>18, Here DEF Catch, Steps, IInv, Thrown
  <2> DEFINE s == CaughtState(why)
             r == In(s)
  <2>2. s \in States /\ (s = "finalizing" <=> active \in published) /\ s # "succeeded"
    BY <2>1, Named DEF CaughtState
  <2> HIDE DEF s
  <2>3. /\ r \in Records /\ r.state = s /\ r.ref = mem[active].ref
        /\ r.exited = mem[active].exited
    BY <1>0, <2>1, <2>2, InRow
  <2> HIDE DEF r
  <2>4. s = "finalizing" => Over(r)
    <3>1. s = "finalizing" => Over(mem[active])
      BY <1>18, <2>1, <2>2 DEF IInv, Good, Publication, ActiveJob, Catch
    <3> QED
      BY <2>3, <3>1 DEF Over
  <2>5. Set(active, r) /\ (disk' = disk \/ disk' = mem')
    BY <1>18 DEF Catch, Saved, Unsaved, r, s
  <2>6. mem'[active] = r
    BY <1>0, <2>1, <2>3, <2>5, SetRow
  <2>7. UNCHANGED published
    BY <1>18 DEF Catch
  <2>8. ActiveJob'
    BY <2>1, <2>2, <2>3, <2>6, <2>7 DEF ActiveJob
  <2> QED
    BY <1>18, <2>1, <2>2, <2>3, <2>4, <2>5, <2>8, SavesKeep DEF Catch, Steps
<1>19. CASE Drop
  <2>1. /\ pc \in Steps /\ pc' = "idle" /\ pc' \notin Steps /\ \A k \in Job : ~Live(k)
    BY <1>19, Here DEF Drop, Leave, Steps
  <2>2. UNCHANGED <<mem, disk, worker, journal, dest, published, taken, unread>>
    BY <1>19 DEF Drop
  <2>3. LiveWorkers' /\ ActiveJob'
    BY <2>1, <2>2 DEF LiveWorkers, ActiveJob, Live, Steps
  <2>4. \A k \in published : staged[k] = "none" => staged'[k] = "none"
    BY <1>19 DEF Drop, Discard, IInv, TypeOK
  <2>5. Publication'
    BY <2>1, <2>2, <2>4 DEF Publication, IInv, Good, Steps, TypeOK
  <2>6. SuccessMeansPublished' /\ Reported'
    BY <2>2 DEF SuccessMeansPublished, Reported, IInv, Good
  <2> QED
    BY <2>3, <2>5, <2>6 DEF Good
<1>20. CASE Check
  <2>1. /\ pc \in Steps /\ pc' \in {"checking", "caught"} /\ active' = active /\ active \in Job
        /\ active \notin published /\ ~Live(active)
    BY <1>20, Here DEF Check, Steps
  <2>2. ActiveJob'
    BY <1>20, <2>1 DEF ActiveJob, Check, IInv, Good
  <2> QED
    BY <1>20, <2>1, <2>2, GoesOn DEF Check, Steps, Live
<1>21. CASE Unspawned
  BY <1>1, <1>21, Here DEF Unspawned, Steps
<1>22. CASE Trim
  <2>1. /\ pc \in Steps /\ pc' = "trimming" /\ active' = active /\ active \in Job
        /\ active \notin published /\ ~Live(active) /\ mem[active] \in Records
        /\ mem[active].state # "succeeded" /\ UNCHANGED published
    BY <1>22, Here DEF Trim, Steps
  <2> DEFINE r == [mem[active] EXCEPT !.exited = TRUE]
  <2>2. r \in Records /\ r.state = mem[active].state /\ r.exited
    BY <2>1, ExitRow
  <2> HIDE DEF r
  <2>3. Set(active, r) /\ disk' = disk
    BY <1>22 DEF Trim, r
  <2>4. Over(r)
    BY <2>2 DEF Over
  <2>5. ActiveJob'
    BY <2>1 DEF ActiveJob
  <2> QED
    BY <1>22, <2>1, <2>2, <2>3, <2>4, <2>5, SavesKeep DEF Trim, Steps
<1> QED
  BY <1>2, <1>3, <1>4, <1>5, <1>6, <1>7, <1>8, <1>9, <1>10, <1>11, <1>12, <1>13, <1>14,
     <1>15, <1>16, <1>17, <1>18, <1>19, <1>20, <1>21, <1>22 DEF Flow

-----------------------------------------------------------------------------
(* The other actions of the store.                                          *)

LEMMA SubmitKeeps ==
  ASSUME IInv, NEW j \in Job, Submit(j)
  PROVE  Good'
<1> USE DEF Submit, store, latch, process, Steps
<1>1. \A k \in Job : ~Live(k)
  BY DEF IInv, Good, LiveWorkers
<1>2. j \notin published
  BY DEF IInv, Good, Publication
<1>3. LiveWorkers'
  BY <1>1 DEF LiveWorkers, Live
<1>4. ActiveJob'
  BY <1>2 DEF ActiveJob
<1>5. Publication' /\ SuccessMeansPublished' /\ Reported'
  BY DEF Publication, SuccessMeansPublished, Reported, IInv, Good
<1> QED
  BY <1>3, <1>4, <1>5 DEF Good

LEMMA GenerateEndsKeeps ==
  ASSUME IInv, TypeOK', GenerateEnds
  PROVE  Good'
<1> USE DEF GenerateEnds, store, latch, process
<1>1. /\ pc \in Steps /\ pc' \in {"validating", "caught"} /\ active' = active /\ active \in Job
      /\ active \notin published /\ ~Live(active) /\ Over(mem[active])
  BY Here DEF Goto, Throw, Steps, IInv, Good, ActiveJob
<1>2. \A k \in published : staged'[k] = staged[k]
  BY <1>1 DEF IInv, TypeOK
<1>3. ActiveJob'
  BY <1>1 DEF ActiveJob
<1> QED
  BY <1>1, <1>2, <1>3, GoesOn DEF Live, Steps

(* The user cancels, or an event of the worker or of the engine arrives:    *)
(* the job is running or cancelling, as before.                             *)
LEMMA RunsOn ==
  ASSUME IInv, TypeOK', pc \in Suspended,
         NEW s \in {"running", "cancelling"}, Set(active, In(s)),
         disk' = disk \/ disk' = mem', UNCHANGED <<pc, active, pending, process, files>>,
         pc \in {"recorded", "checking"} => s = "cancelling"
  PROVE  Good'
<1> USE DEF process, files
<1>1. /\ pc \in Steps /\ active \in Job /\ active \notin published
      /\ pc \notin {"published", "caught", "dropping", "finalizing", "referred", "uncleaned"}
  BY Here DEF Suspended, Steps
<1> DEFINE r == In(s)
<1>2. /\ r \in Records /\ r.state = s /\ r.ref = mem[active].ref
      /\ r.started = mem[active].started /\ r.exited = mem[active].exited
  BY <1>1, InRow, Named DEF IInv, TypeOK
<1>3. Set(active, r)
  OBVIOUS
<1> HIDE DEF r
<1>4. mem'[active] = r
  BY <1>1, <1>2, <1>3, SetRow DEF IInv, TypeOK
<1>5. Launched(mem[active]) => Launched(r)
  BY <1>2 DEF Launched
<1>6. Over(mem[active]) => Over(r)
  BY <1>2 DEF Over
<1>7. Live(active) => Launched(mem[active]) /\ pc \in {"spawned", "journaled", "supervising"}
  BY <1>1 DEF IInv, Good, LiveWorkers, Steps
<1>8. ActiveJob'
  <2>1. pc \in {"recorded", "checking"} => ~r.ref /\ ~r.exited /\ r.state = "cancelling"
    BY <1>2 DEF IInv, Good, ActiveJob
  <2>2. pc \in {"launching", "spawned", "journaled"} => Launched(r) /\ Launched(disk'[active])
    BY <1>1, <1>4, <1>5 DEF IInv, Good, ActiveJob
  <2>3. pc \in {"generating", "validating", "validated"} => Over(r)
    BY <1>6 DEF IInv, Good, ActiveJob
  <2> QED
    BY <1>1, <1>4, <2>1, <2>2, <2>3 DEF IInv, Good, ActiveJob
<1> QED
  BY <1>1, <1>2, <1>3, <1>5, <1>7, <1>8, SavesKeep

LEMMA BreakKeeps ==
  ASSUME IInv, TypeOK', Break
  PROVE  Good'
<1> USE DEF Break, store, latch, process, files
<1>1. pc \in Steps /\ active \notin published
  BY Here DEF Steps
<1>2. ActiveJob'
  BY DEF IInv, Good, ActiveJob
<1> QED
  BY <1>1, <1>2, GoesOn

LEMMA CancelKeeps ==
  ASSUME IInv, TypeOK', Cancel
  PROVE  Good'
<1> USE DEF process, files
<1>1. CASE pc # "created"
  BY <1>1, RunsOn DEF Cancel, Suspended, Saved, Unsaved
<1>2. CASE pc = "created"
  <2>1. UNCHANGED <<pc, active, mem, disk, pending, process, files>> /\ pc \in Steps
    BY <1>2 DEF Cancel, store, Steps
  <2>2. active \notin published /\ ~Live(active)
    BY <1>2, <2>1, Here
  <2>3. ActiveJob'
    BY <1>2, <2>1, <2>2 DEF ActiveJob
  <2> QED
    BY <2>1, <2>2, <2>3, GoesOn DEF Live
<1> QED
  BY <1>1, <1>2

LEMMA EventKeeps ==
  ASSUME IInv, TypeOK', Event
  PROVE  Good'
BY RunsOn DEF Event, Saved, Suspended

-----------------------------------------------------------------------------
(* Workers, and the user.                                                   *)

LEMMA EndsKeeps ==
  ASSUME IInv, UNCHANGED <<flow, store, storage, pending, todo, journal, files>>,
         NEW j \in Job, \A k \in Job \ {j} : worker'[k] = worker[k],
         worker'[j] \in {"exited", "gone"}
  PROVE  Good'
<1> USE DEF flow, store, files
<1>1. ~Live(j)' /\ \A k \in Job \ {j} : Live(k)' <=> Live(k)
  BY DEF Live
<1>2. LiveWorkers'
  BY <1>1 DEF LiveWorkers, Live, IInv, Good
<1>3. ActiveJob' /\ Publication' /\ SuccessMeansPublished' /\ Reported'
  BY DEF IInv, Good, ActiveJob, Publication, SuccessMeansPublished, Reported
<1> QED
  BY <1>2, <1>3 DEF Good

LEMMA WorkerKeeps ==
  ASSUME IInv, NEW j \in Job, GateCloses(j) \/ WorkerWrites(j) \/ WorkerExits(j)
  PROVE  Good'
<1>1. CASE GateCloses(j) \/ WorkerExits(j)
  <2>1. Exits(j) /\ UNCHANGED <<flow, store, latch, journal, files>>
    BY <1>1 DEF GateCloses, WorkerExits
  <2>2. worker'[j] \in {"exited", "gone"} /\ \A k \in Job \ {j} : worker'[k] = worker[k]
    BY <2>1 DEF Exits, IInv, TypeOK
  <2> QED
    BY <2>1, <2>2, EndsKeeps DEF latch
<1>2. CASE WorkerWrites(j)
  <2> USE DEF WorkerWrites, flow, store, latch, process
  <2>1. Launched(disk[j])
    BY <1>2 DEF IInv, Good, LiveWorkers, Live
  <2>2. j \notin published \ taken
    BY <2>1 DEF IInv, Good, Reported, Launched
  <2>3. \A k \in published \ taken : staged'[k] = staged[k]
    BY <1>2, <2>2 DEF IInv, TypeOK
  <2>4. Publication'
    BY <1>2, <2>3 DEF Publication, IInv, Good
  <2>5. LiveWorkers' /\ ActiveJob' /\ SuccessMeansPublished' /\ Reported'
    BY <1>2 DEF IInv, Good, LiveWorkers, Live, ActiveJob, SuccessMeansPublished,
       Reported
  <2> QED
    BY <2>4, <2>5 DEF Good
<1> QED
  BY <1>1, <1>2

LEMMA UserKeeps ==
  ASSUME IInv, UserWrites \/ UserRemoves
  PROVE  Good'
<1> USE DEF flow, store, latch, process, files
<1>1. /\ UNCHANGED <<flow, store, latch, process, dir, staged, published, unread>>
      /\ taken \subseteq taken' /\ dest' \notin Job
  BY Named DEF UserWrites, UserRemoves
<1>2. published \ taken' = {}
  BY Named DEF UserWrites, UserRemoves, IInv, Good, Publication, TypeOK
<1>3. LiveWorkers' /\ ActiveJob' /\ SuccessMeansPublished'
  BY <1>1 DEF IInv, Good, LiveWorkers, Live, ActiveJob, SuccessMeansPublished
<1>4. Publication'
  BY <1>1, <1>2 DEF IInv, Good, Publication
<1>5. Reported'
  BY <1>1, <1>2 DEF Reported
<1> QED
  BY <1>3, <1>4, <1>5 DEF Good

-----------------------------------------------------------------------------
(* Crash, restart and recovery.                                             *)

LEMMA CrashKeeps ==
  ASSUME IInv, Crash
  PROVE  Good'
<1> USE DEF Crash, files
<1>1. \A k \in Job : Live(k)' => Live(k) /\ worker'[k] = worker[k]
  BY DEF Live
<1>2. LiveWorkers'
  BY <1>1 DEF IInv, Good, LiveWorkers, Steps
<1>3. ActiveJob'
  BY DEF ActiveJob, Steps
<1>4. \A k \in Job : mem'[k] = NoRecord
  OBVIOUS
<1>5. Publication'
  BY <1>4, NoRecordRow DEF IInv, Good, Publication
<1>6. SuccessMeansPublished' /\ Reported'
  <2>1. UNCHANGED <<disk, published, taken, unread>>
    OBVIOUS
  <2> QED
    BY <1>4, <2>1, NoRecordRow DEF IInv, Good, TypeOK, SuccessMeansPublished, Reported
<1> QED
  BY <1>2, <1>3, <1>5, <1>6 DEF Good

LEMMA RestartKeeps ==
  ASSUME IInv, Restart
  PROVE  Good'
<1> USE DEF Restart, Goto, process, files
<1>1. \A k \in Job : Live(k)' => Live(k)
  BY DEF Live
<1>2. \A k \in Job : Live(k) => Launched(disk[k]) /\ k \in todo'
  BY DEF IInv, Good, LiveWorkers, Launched, Terminal
<1>3. LiveWorkers'
  BY <1>1, <1>2 DEF IInv, Good, LiveWorkers, Steps
<1>4. ActiveJob'
  BY DEF ActiveJob, Steps
<1>5. Publication'
  BY DEF IInv, Good, Publication
<1>6. SuccessMeansPublished' /\ Reported'
  BY DEF IInv, Good, SuccessMeansPublished, Reported
<1> QED
  BY <1>3, <1>4, <1>5, <1>6 DEF Good

(* A worker that may run is not taken for one that has ended.               *)
LEMMA LiveMayRun ==
  ASSUME IInv, NEW j \in Job, Live(j), pc # "down"
  PROVE  MayRun(j) /\ ~Releasable(j)
BY DEF IInv, Good, LiveWorkers, Launched, Live, MayRun, Observed, Releasable

(* One job has been looked at.                                              *)
LEMMA RecoveredKeeps ==
  ASSUME IInv, pc = "recovering", NEW j \in todo, todo' = todo \ {j}, NEW r \in Records, Set(j, r),
         UNCHANGED <<pc, active, disk, worker, journal, taken>>, pending => pending',
         unread \ {j} \subseteq unread',
         Live(j) => Launched(r) /\ pending' /\ r.state = "cleanup_pending",
         r.state # "absent", r.state \in {"finalizing", "succeeded"} => Over(r),
         r.state = "succeeded" => j \in published',
         j \in published' \ taken =>
           /\ r.state \in {"finalizing", "succeeded"} \/ (r.state = "failed" /\ j \in unread')
           /\ disk[j].state \in {"finalizing", "succeeded"},
         published \subseteq published', published' \subseteq published \cup {j},
         dest' \in Job => dest' \in published',
         \A k \in published' \ taken : dest' = k /\ staged'[k] = "none"
  PROVE  Good'
<1> USE DEF IInv, Good
<1>1. j \in Job /\ published \subseteq Job /\ mem \in [Job -> Records]
  BY DEF TypeOK
<1>2. mem'[j] = r /\ \A k \in Job \ {j} : mem'[k] = mem[k]
  BY <1>1, SetRow
<1>3. mem[j] = disk[j] /\ disk[j].state # "absent"
  BY DEF Publication
<1>4. \A k \in Job : Live(k)' <=> Live(k)
  BY DEF Live
<1>5. LiveWorkers'
  BY <1>1, <1>2, <1>4 DEF LiveWorkers, Steps
<1>6. ActiveJob'
  BY DEF ActiveJob, Steps
<1>7. Publication'
  <2>1. \A k \in published' : disk'[k].state # "absent" /\ mem'[k].state # "absent"
    BY <1>1, <1>2, <1>3 DEF Publication
  <2>2. \A k \in Job : mem'[k].state \in {"finalizing", "succeeded"} => Over(mem'[k])
    BY <1>2 DEF Publication
  <2>3. \A k \in Job : disk'[k].state \in {"finalizing", "succeeded"} => Over(disk'[k])
    BY DEF Publication
  <2>4. \A k \in todo' : mem'[k] = disk'[k] /\ mem'[k].state \notin Terminal \cup {"absent"}
    BY <1>2 DEF Publication, TypeOK
  <2> QED
    BY <2>1, <2>2, <2>3, <2>4 DEF Publication
<1>8. SuccessMeansPublished'
  BY <1>1, <1>2 DEF SuccessMeansPublished
<1>9. Reported'
  BY <1>1, <1>2 DEF Reported
<1> QED
  BY <1>5, <1>6, <1>7, <1>8, <1>9

LEMMA BlockedKeeps ==
  ASSUME IInv, NEW j \in Job, RecoverBlocked(j)
  PROVE  Good'
<1> USE DEF flow, process, files
<1> DEFINE r == [mem[j] EXCEPT !.state = "cleanup_pending"]
<1>1. /\ pc = "recovering" /\ j \in todo /\ MayRun(j) /\ Set(j, r)
      /\ pending' /\ todo' = todo \ {j}
      /\ UNCHANGED <<pc, active, disk, worker, journal, staged, dest, published, taken, unread>>
  BY DEF RecoverBlocked
<1>2. /\ r \in Records /\ r.state = "cleanup_pending" /\ r.ref = mem[j].ref
      /\ r.started = mem[j].started /\ r.exited = mem[j].exited
  BY Named DEF IInv, TypeOK, Records
<1> HIDE DEF r
<1>3. Live(j) => Launched(r)
  BY <1>1, <1>2 DEF IInv, Good, LiveWorkers, Launched
<1>4. mem[j] = disk[j] /\ ~Over(mem[j]) /\ mem[j].state # "failed"
  BY <1>1 DEF IInv, Good, Publication, MayRun, Over, Terminal
<1>5. j \notin published \ taken
  BY <1>4 DEF IInv, Good, Reported, Publication
<1>6. dest \in Job => dest \in published
  BY DEF IInv, Good, Publication
<1>7. \A k \in published \ taken : dest = k /\ staged[k] = "none"
  BY DEF IInv, Good, Publication
<1> QED
  BY <1>1, <1>2, <1>3, <1>5, <1>6, <1>7, RecoveredKeeps

LEMMA InterruptedKeeps ==
  ASSUME IInv, NEW j \in Job, RecoverInterrupted(j)
  PROVE  Good'
<1> USE DEF flow, process
<1> DEFINE r == [Confirmed(j) EXCEPT !.state = "interrupted"]
<1>1. /\ pc = "recovering" /\ j \in todo /\ ~MayRun(j) /\ mem[j].state # "finalizing"
      /\ Set(j, r) /\ todo' = todo \ {j}
      /\ UNCHANGED <<pc, active, disk, pending, worker, journal, dest, published, taken, unread>>
  BY DEF RecoverInterrupted
<1>2. r \in Records /\ r.state = "interrupted" /\ mem \in [Job -> Records]
  BY ConfirmedRow, Named DEF IInv, TypeOK
<1> HIDE DEF r
<1>3. ~Live(j)
  BY <1>1, LiveMayRun
<1>4. mem[j] = disk[j] /\ mem[j].state \notin Terminal \cup {"absent", "finalizing"}
  BY <1>1 DEF IInv, Good, Publication
<1>5. j \notin published \ taken
  BY <1>4 DEF IInv, Good, Reported, Terminal
<1>6. \A k \in published \ taken : staged'[k] = staged[k]
  BY <1>5 DEF RecoverInterrupted, Discard, IInv, TypeOK
<1>7. dest \in Job => dest \in published
  BY DEF IInv, Good, Publication
<1>8. \A k \in published \ taken : dest = k /\ staged'[k] = "none"
  BY <1>6 DEF IInv, Good, Publication
<1> QED
  BY <1>1, <1>2, <1>3, <1>5, <1>7, <1>8, RecoveredKeeps

LEMMA FinalizingKeeps ==
  ASSUME IInv, NEW j \in Job, RecoverFinalizing(j)
  PROVE  Good'
<1> USE DEF flow, process
<1> DEFINE r == [Confirmed(j) EXCEPT !.state = "succeeded"]
<1>1. /\ pc = "recovering" /\ j \in todo /\ ~MayRun(j) /\ mem[j].state = "finalizing"
      /\ todo' = todo \ {j} /\ Set(j, r) /\ unread' = unread \ {j}
      /\ UNCHANGED <<pc, active, disk, pending, worker, journal, taken>>
  BY DEF RecoverFinalizing
<1>2. r \in Records /\ r.state = "succeeded" /\ Over(r) /\ mem \in [Job -> Records]
  BY ConfirmedRow, Named DEF IInv, TypeOK
<1> HIDE DEF r
<1>3. \/ WasPublished(j) /\ UNCHANGED <<staged, dest, published>>
      \/ Rename(j)
  BY DEF RecoverFinalizing
<1>4. ~Live(j)
  BY <1>1, LiveMayRun
<1>5. disk[j].state = "finalizing"
  BY <1>1 DEF IInv, Good, Publication
<1>6. dest \in Job => dest \in published
  BY DEF IInv, Good, Publication
<1>7. \A k \in published \ taken : dest = k /\ staged[k] = "none"
  BY DEF IInv, Good, Publication
<1>8. CASE WasPublished(j) /\ UNCHANGED <<staged, dest, published>>
  <2>1. j \in published
    BY <1>6, <1>8 DEF WasPublished
  <2> QED
    BY <1>1, <1>2, <1>4, <1>5, <1>6, <1>7, <1>8, <2>1, RecoveredKeeps
<1>9. CASE Rename(j)
  <2>1. dest = "none" /\ dest' = j /\ published' = published \cup {j} /\ staged'[j] = "none"
    BY <1>9 DEF Rename, IInv, TypeOK
  <2>2. published \subseteq taken
    BY <1>7, <2>1, Named DEF IInv, TypeOK
  <2> QED
    BY <1>1, <1>2, <1>4, <1>5, <1>9, <2>1, <2>2, RecoveredKeeps
<1> QED
  BY <1>3, <1>8, <1>9

(* An image that is still at its destination can only be taken for a        *)
(* failure when it could not be read.                                       *)
LEMMA FailsKeeps ==
  ASSUME IInv, NEW j \in Job, RecoverFails(j)
  PROVE  Good'
<1> USE DEF flow, process
<1> DEFINE r == [Confirmed(j) EXCEPT !.state = "failed"]
<1>1. /\ pc = "recovering" /\ j \in todo /\ ~MayRun(j) /\ mem[j].state = "finalizing"
      /\ todo' = todo \ {j} /\ Set(j, r) /\ unread \subseteq unread'
      /\ WasPublished(j) => j \in unread'
      /\ UNCHANGED <<pc, active, disk, pending, worker, journal, staged, dest, published, taken>>
  BY DEF RecoverFails
<1>2. r \in Records /\ r.state = "failed" /\ mem \in [Job -> Records]
  BY ConfirmedRow, Named DEF IInv, TypeOK
<1> HIDE DEF r
<1>3. ~Live(j)
  BY <1>1, LiveMayRun
<1>4. disk[j].state = "finalizing"
  BY <1>1 DEF IInv, Good, Publication
<1>5. dest \in Job => dest \in published
  BY DEF IInv, Good, Publication
<1>6. \A k \in published \ taken : dest = k /\ staged[k] = "none"
  BY DEF IInv, Good, Publication
<1>7. j \in published \ taken => j \in unread'
  BY <1>1, <1>6 DEF WasPublished
<1> QED
  BY <1>1, <1>2, <1>3, <1>4, <1>5, <1>6, <1>7, RecoveredKeeps

LEMMA RecoverEndsKeeps ==
  ASSUME IInv, RecoverEnds
  PROVE  Good'
<1> USE DEF RecoverEnds, Goto, process, files
<1>1. LiveWorkers'
  BY DEF IInv, Good, LiveWorkers, Live, Saved, Unsaved, Steps
<1>2. ActiveJob'
  BY DEF ActiveJob, Steps
<1>3. disk' = disk \/ disk' = mem
  BY DEF Saved, Unsaved
<1>4. Publication'
  BY <1>3 DEF IInv, Good, Publication
<1>5. SuccessMeansPublished' /\ Reported'
  BY <1>3 DEF IInv, Good, SuccessMeansPublished, Reported, Publication
<1> QED
  BY <1>1, <1>2, <1>4, <1>5 DEF Good

LEMMA PollKeeps ==
  ASSUME IInv, PollCleanup
  PROVE  Good'
<1> USE DEF PollCleanup
<1>1. kept \in Job
  BY DEF IInv, TypeOK
<1>2. worker'[kept] = "gone" /\ \A k \in Job \ {kept} : worker'[k] = worker[k]
  BY <1>1 DEF IInv, TypeOK
<1> QED
  BY <1>1, <1>2, EndsKeeps

LEMMA RefreshKeeps ==
  ASSUME IInv, Refresh
  PROVE  Good'
<1> USE DEF flow, process
<1>1. /\ pc = "idle" /\ pending /\ storage # "unread"
      /\ UNCHANGED <<flow, todo, process, dest, published, taken, unread>>
      /\ disk' = disk \/ disk' = mem'
  BY DEF Refresh, Saved, Unsaved
<1>2. \A j \in Job : mem'[j] = IF Releasable(j)
        THEN [mem[j] EXCEPT !.state = "interrupted", !.exited = TRUE] ELSE mem[j]
  BY DEF Refresh
<1>3. \A j \in Job : Releasable(j) => mem'[j].state = "interrupted"
  <2>1. \A j \in Job : [mem[j] EXCEPT !.state = "interrupted", !.exited = TRUE].state = "interrupted"
    BY ReleasedRow DEF IInv, TypeOK
  <2> QED
    BY <1>2, <2>1
<1>4. \A j \in Job : ~Releasable(j) => mem'[j] = mem[j]
  BY <1>2
<1>5. \A j \in Job : Releasable(j) => j \notin published \ taken
  BY <1>1 DEF Releasable, IInv, Good, Reported
<1>6. \A j \in published \ taken : staged'[j] = staged[j]
  BY <1>5 DEF Refresh, Discard, IInv, TypeOK
<1>7. \A j \in Job : Live(j)' <=> Live(j)
  BY <1>1 DEF Live
<1>8. \A j \in Job : Live(j) => ~Releasable(j)
  BY <1>1, LiveMayRun
<1>9. \A j \in Job : Live(j) => mem[j].state = "cleanup_pending"
  BY <1>1 DEF IInv, Good, LiveWorkers
<1>10. \A j \in Job : Live(j) => pending'
  BY <1>1, <1>4, <1>8, <1>9 DEF Refresh
<1>11. LiveWorkers'
  BY <1>1, <1>4, <1>7, <1>8, <1>9, <1>10 DEF IInv, Good, LiveWorkers
<1>12. ActiveJob'
  BY <1>1 DEF ActiveJob, Steps
<1>13. \A j \in Job : disk'[j] \in {disk[j], mem'[j]}
                        /\ (mem'[j] = mem[j] \/ mem'[j].state = "interrupted")
  BY <1>1, <1>3, <1>4
<1>14. Publication'
  BY <1>1, <1>6, <1>13 DEF IInv, Good, Publication, TypeOK
<1>15. SuccessMeansPublished'
  BY <1>1, <1>13 DEF IInv, Good, SuccessMeansPublished
<1>16. Reported'
  BY <1>1, <1>4, <1>5, <1>13 DEF IInv, Good, Reported, Publication, TypeOK
<1> QED
  BY <1>11, <1>12, <1>14, <1>15, <1>16 DEF Good

-----------------------------------------------------------------------------
(* The induction.                                                           *)

LEMMA InitIInv == Init => IInv
<1> SUFFICES ASSUME Init PROVE IInv
  OBVIOUS
<1>1. \A j \in Job : mem[j] = NoRecord /\ disk[j] = NoRecord /\ ~Live(j)
  BY DEF Init, Live
<1>2. TypeOK
  <2>1. mem \in [Job -> Records] /\ disk \in [Job -> Records]
    BY NoRecordRow DEF Init
  <2>2. /\ pc = "idle" /\ active = NoJob /\ kind = "none" /\ cancel = FALSE /\ stop = FALSE
        /\ why = "failed" /\ fails = 0
        /\ pending = FALSE /\ storage = "ok" /\ todo = {} /\ kept = NoJob /\ journal = {}
        /\ dir = {} /\ dest = "none" /\ published = {} /\ taken = {} /\ unread = {}
        /\ crashes = 0
    BY DEF Init
  <2>3. /\ worker \in [Job -> {"none", "gated", "working", "exited", "gone"}]
        /\ staged \in [Job -> {"none", "partial", "whole"}]
    BY DEF Init
  <2>4. active \notin Job /\ pc \notin Steps
    BY <2>2, Named DEF Steps
  <2>5. 0 \in 0..MaxCrashes /\ 0 \in 0..MaxFails
    BY ImageJobsAssumption
  <2> QED
    BY <2>1, <2>2, <2>3, <2>4, <2>5 DEF TypeOK
<1>3. Thrown /\ LiveWorkers /\ ActiveJob
  BY <1>1 DEF Init, Thrown, LiveWorkers, ActiveJob, Steps
<1>4. Publication
  BY <1>1, NoRecordRow, Named DEF Init, Publication
<1>5. SuccessMeansPublished /\ Reported
  BY <1>1, NoRecordRow DEF Init, SuccessMeansPublished, Reported
<1> QED
  BY <1>2, <1>3, <1>4, <1>5 DEF IInv, Good

LEMMA NextKeeps == IInv /\ [Next]_vars => IInv'
<1> SUFFICES ASSUME IInv, [Next]_vars PROVE IInv'
  OBVIOUS
<1>1. TypeOK' /\ Thrown'
  <2>1. dest \in Job => dest \in published
    BY DEF IInv, Good, Publication
  <2> QED
    BY <2>1, StepTyped, StepThrows DEF IInv
<1>2. ASSUME UNCHANGED vars PROVE Good'
  BY <1>2 DEF vars, flow, store, latch, process, files, IInv, Good, LiveWorkers, Live, ActiveJob,
     Publication, SuccessMeansPublished, Reported
<1>3. ASSUME Next PROVE Good'
  <2>1. ASSUME NEW j \in Job, Submit(j) \/ GateCloses(j) \/ WorkerWrites(j) \/ WorkerExits(j)
        PROVE  Good'
    BY <2>1, SubmitKeeps, WorkerKeeps
  <2>2. ASSUME Flow \/ GenerateEnds \/ Break \/ Cancel \/ Event PROVE Good'
    BY <1>1, <2>2, FlowKeeps, GenerateEndsKeeps, BreakKeeps, CancelKeeps, EventKeeps
  <2>3. ASSUME UserWrites \/ UserRemoves \/ Crash \/ Restart \/ PollCleanup \/ Refresh
        PROVE  Good'
    BY <2>3, UserKeeps, CrashKeeps, RestartKeeps, PollKeeps, RefreshKeeps
  <2>4. ASSUME Recovery PROVE Good'
    BY <2>4, RecoverEndsKeeps, BlockedKeeps, InterruptedKeeps, FinalizingKeeps,
       FailsKeeps DEF Recovery
  <2> QED
    BY <1>3, <2>1, <2>2, <2>3, <2>4 DEF Next
<1> QED
  BY <1>1, <1>2, <1>3 DEF IInv

LEMMA Invariance == Spec => []IInv
BY InitIInv, NextKeeps, PTL DEF Spec

-----------------------------------------------------------------------------
(* Every variable of the store keeps its type; a job is the active one      *)
(* exactly while generate() has it.                                         *)
THEOREM TypeCorrect == Spec => []TypeOK
<1>1. IInv => TypeOK
  BY DEF IInv
<1> QED
  BY <1>1, Invariance, PTL

(* However often the application crashes and whatever cannot be saved, a    *)
(* job that is recorded as succeeded has published its own image.           *)
THEOREM SuccessIsReal == Spec => []SuccessMeansPublished
<1>1. IInv => SuccessMeansPublished
  BY DEF IInv, Good
<1> QED
  BY <1>1, Invariance, PTL

(* ... and an image that is at its destination is never recorded as failed, *)
(* cancelled or interrupted, unless recovery looked at it and could not     *)
(* read it: then init says failed, and does not look again.                 *)
THEOREM PublishedStands == Spec => []PublishedIsNotDenied
<1>1. IInv => PublishedIsNotDenied
  BY DEF IInv, Good, Reported, PublishedIsNotDenied
<1> QED
  BY <1>1, Invariance, PTL

(* No two workers generate at a time, and no job beside a worker, also when *)
(* the worker is left over from an application that crashed.                *)
THEOREM OnlyOneWorker == Spec => []OneWorker
<1>1. IInv => OneWorker
  <2> SUFFICES ASSUME IInv, NEW j \in Job, worker[j] = "working"
               PROVE  active \in {j, NoJob} /\ \A k \in Job : worker[k] = "working" => k = j
    BY DEF OneWorker
  <2>1. \A k \in Job : worker[k] = "working" => k = j
    BY DEF IInv, Good, LiveWorkers, Live
  <2>2. pc \in Steps => j = active
    BY DEF IInv, Good, LiveWorkers, Live
  <2> QED
    BY <2>1, <2>2 DEF IInv, TypeOK
<1> QED
  BY <1>1, Invariance, PTL

(* A worker that was let through its gate can be found from what is on      *)
(* disk.                                                                    *)
THEOREM WorkersAreFindable == Spec => []WorkIsFindable
<1>1. IInv => WorkIsFindable
  BY DEF IInv, Good, LiveWorkers, Launched, Live, WorkIsFindable
<1> QED
  BY <1>1, Invariance, PTL

(* Neither generate() nor recovery replaces a file at the destination.      *)
THEOREM DestinationsAreSafe == Spec => NeverOverwrites
<1>1. [Next]_vars => (dest' \in Job /\ dest' # dest => dest = "none")
  <2> SUFFICES ASSUME [Next]_vars, dest' \in Job, dest' # dest
               PROVE  dest = "none"
    OBVIOUS
  <2> USE DEF files
  <2>1. ASSUME NEW j \in Job, Submit(j) \/ GateCloses(j) \/ WorkerWrites(j) \/ WorkerExits(j)
               \/ RecoverBlocked(j) \/ RecoverInterrupted(j) \/ RecoverFinalizing(j)
               \/ RecoverFails(j)
        PROVE  dest = "none"
    BY <2>1 DEF Submit, GateCloses, WorkerWrites, WorkerExits, RecoverBlocked,
       RecoverInterrupted, RecoverFinalizing, RecoverFails, Rename
  <2>2. CASE Flow
    BY <2>2 DEF Flow, Refuse, Record, Check, Refer, Start, Spawn, Unspawned, WriteJournal,
       OpenGate, Reap, GiveUp, Uncleaned, Trim, Confirm, Generate, Validate, Finalize, Publish,
       Rename, Succeed, Catch, Drop
  <2>3. CASE UserWrites \/ UserRemoves
    BY <2>3, Named DEF UserWrites, UserRemoves
  <2>4. CASE GenerateEnds \/ Break \/ Cancel \/ Event \/ Crash \/ Restart \/ RecoverEnds
             \/ PollCleanup \/ Refresh \/ UNCHANGED vars
    BY <2>4 DEF GenerateEnds, Break, Cancel, Event, Crash, Restart, RecoverEnds, PollCleanup, Refresh,
       vars
  <2> QED
    BY <2>1, <2>2, <2>3, <2>4 DEF Next, Recovery
<1> QED
  BY <1>1, PTL DEF Spec, NeverOverwrites

(* A staging directory is removed only when the worker of its job is known  *)
(* to have ended, whoever removes it.                                       *)
THEOREM StagingIsSafe == Spec => StagingOutlivesWorker
<1>1. IInv /\ [Next]_vars =>
        [\A j \in dir \ dir' : worker[j] \notin {"gated", "working"}]_vars
  <2> SUFFICES ASSUME IInv, Next, NEW j \in dir, j \notin dir'
               PROVE  ~Live(j)
    BY DEF Live
  <2>0. j \in Job
    BY DEF IInv, TypeOK
  <2> USE DEF files
  <2>1. ASSUME NEW k \in Job, Submit(k) \/ GateCloses(k) \/ WorkerWrites(k) \/ WorkerExits(k)
               \/ RecoverBlocked(k) \/ RecoverFails(k)
        PROVE  FALSE
    BY <2>1 DEF Submit, GateCloses, WorkerWrites, WorkerExits, RecoverBlocked, RecoverFails
  <2>2. CASE Drop
    BY <2>2, Here DEF Drop, Discard, Steps
  <2>3. CASE Flow /\ ~Drop
    BY <2>3 DEF Flow, Refuse, Record, Check, Refer, Start, Spawn, Unspawned, WriteJournal,
       OpenGate, Reap, GiveUp, Uncleaned, Trim, Confirm, Generate, Validate, Finalize, Publish,
       Succeed, Catch
  <2>4. ASSUME NEW k \in Job, RecoverInterrupted(k) \/ RecoverFinalizing(k)
        PROVE  ~Live(j)
    <3>1. j = k /\ ~MayRun(k) /\ pc = "recovering"
      BY <2>4 DEF RecoverInterrupted, RecoverFinalizing, Discard
    <3> QED
      BY <3>1, LiveMayRun
  <2>5. CASE Refresh
    <3>1. Releasable(j) /\ pc = "idle"
      BY <2>5 DEF Refresh, Discard
    <3> QED
      BY <2>0, <3>1, LiveMayRun
  <2>6. CASE GenerateEnds \/ Break \/ Cancel \/ Event \/ UserWrites \/ UserRemoves \/ Crash
             \/ Restart \/ RecoverEnds \/ PollCleanup
    BY <2>6 DEF GenerateEnds, Break, Cancel, Event, UserWrites, UserRemoves, Crash, Restart, RecoverEnds,
       PollCleanup
  <2> QED
    BY <2>1, <2>2, <2>3, <2>4, <2>5, <2>6 DEF Next, Recovery
<1> QED
  BY <1>1, Invariance, PTL DEF Spec, StagingOutlivesWorker
===============================================================================
