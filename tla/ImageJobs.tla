------------------------------- MODULE ImageJobs -------------------------------
(***************************************************************************)
(* Image jobs of the desktop application (apps/macos/JobStore.swift,       *)
(* ImageOutputTransaction.swift, NativeProcessRunner.swift,                *)
(* WorkerProcessIdentity.swift).                                           *)
(*                                                                         *)
(* generate() writes its image into a private staging directory, verifies  *)
(* it, saves the intent to publish it in jobs.json, renames it to its      *)
(* destination and saves the success.  Streamed images and those of the    *)
(* runtime experiment are made by a worker process: its identity is saved  *)
(* in a journal before it is let through its gate, so that an application  *)
(* that has crashed and starts again can tell whether the worker is still  *)
(* there.                                                                  *)
(*                                                                         *)
(* A step of generate() lasts from one durable effect or suspension to the *)
(* next; the application may crash between any two.  All jobs have the     *)
(* same destination.  A worker and the processes of its group are one      *)
(* process; an identity that the kernel cannot confirm counts as unknown.  *)
(* Deleting and restoring records, moving images to the bin and video jobs *)
(* are left out.                                                           *)
(***************************************************************************)
EXTENDS Naturals, FiniteSets

CONSTANTS
  Job, NoJob,
  MaxCrashes,   \* bounds: crashes of the application ...
  MaxFails      \* ... and writes, or checks of a recoverable image, that fail

ASSUME ImageJobsAssumption ==
  /\ NoJob \notin Job /\ {"none", "foreign"} \cap Job = {}
  /\ MaxCrashes \in Nat /\ MaxFails \in Nat

VARIABLES
  pc,         \* where generate() is, or "idle", "recovering", "down"
  active,     \* the job of generate()
  kind,       \* what makes its image: "engine", or a "public" or "runtime" worker
  mem,        \* the jobs in memory
  disk,       \* jobs.json
  cancel,     \* cancelRequested, while generate() runs
  stop,       \* the task of the runner (publicWorkerTask) is cancelled, while it runs
  pending,    \* workerCleanupPending
  storage,    \* "ok", "error" (storageError) or "unread" (workerRecoveryReadFailed)
  todo,       \* jobs that init has still to look at
  kept,       \* the child that the runner could not reap
  why,        \* what generate() throws: "failed" or "cancelled"; while it waits for
              \* the runner, whether that has met a failure of its own: "broken"
  worker,     \* worker processes: "none", "gated", "working", "exited", "gone"
  journal,    \* jobs with a launch journal
  dir,        \* jobs with a staging directory
  staged,     \* the file in it: "none", "partial" or "whole"
  dest,       \* the file at the destination: "none", "foreign" or a job's
  published,  \* history: jobs whose image was renamed to the destination
  taken,      \* history: jobs whose published image the user took away
  unread,     \* history: jobs whose published image recovery last failed to read
  crashes, fails

flow == <<pc, active, kind, cancel, stop, why>>
store == <<mem, disk, fails>>
latch == <<pending, storage, todo, kept>>
process == <<worker, journal>>
files == <<dir, staged, dest, published, taken, unread>>
vars == <<flow, store, latch, process, files, crashes>>

NoRecord == [state |-> "absent", ref |-> FALSE, started |-> FALSE, exited |-> FALSE]

Terminal == {"succeeded", "failed", "cancelled", "interrupted"}

Init ==
  /\ pc = "idle" /\ active = NoJob /\ kind = "none"
  /\ cancel = FALSE /\ stop = FALSE /\ why = "failed"
  /\ mem = [j \in Job |-> NoRecord] /\ disk = mem /\ fails = 0
  /\ pending = FALSE /\ storage = "ok" /\ todo = {} /\ kept = NoJob
  /\ worker = [j \in Job |-> "none"] /\ journal = {}
  /\ dir = {} /\ staged = [j \in Job |-> "none"]
  /\ dest = "none" /\ published = {} /\ taken = {} /\ unread = {}
  /\ crashes = 0

-----------------------------------------------------------------------------

Set(j, r) == mem' = [mem EXCEPT ![j] = r]
In(state) == [mem[active] EXCEPT !.state = state]

(* persist(): the file is replaced as a whole, or not at all.               *)
Saved == disk' = mem' /\ UNCHANGED fails
Unsaved == fails < MaxFails /\ fails' = fails + 1 /\ UNCHANGED disk

Goto(step) == pc' = step /\ UNCHANGED <<active, kind, cancel, stop, why>>
Throw(reason) == pc' = "caught" /\ why' = reason /\ UNCHANGED <<active, kind, cancel, stop>>

(* generate() is left: its tasks are dropped.                               *)
Leave ==
  /\ pc' = "idle" /\ active' = NoJob /\ kind' = "none" /\ cancel' = FALSE
  /\ UNCHANGED <<stop, why>>

(* The next step when the save succeeds, the catch when it does not.        *)
SaveAndGoto(step) == (Saved /\ Goto(step)) \/ (Unsaved /\ Throw("failed"))

Discard(jobs) ==
  /\ dir' = dir \ jobs
  /\ staged' = [j \in Job |-> IF j \in jobs THEN "none" ELSE staged[j]]

(* WorkerLaunchAdmission.observe(): an exit is only known of a process that *)
(* the journal names.                                                       *)
ObserveMissing(j) == worker[j] \in {"none", "gone"} \/ j \notin journal
Observed(j) == j \in journal /\ worker[j] = "gone"

(* generate(): the guards, and the staging directory.                       *)
Submit(j) ==
  /\ pc = "idle" /\ ~pending /\ storage = "ok"
  /\ mem[j].state = "absent" /\ j \notin dir
  /\ pc' = "created" /\ active' = j /\ kind' \in {"engine", "public", "runtime"}
  /\ UNCHANGED <<cancel, stop, why>>
  /\ dir' = dir \cup {j}
  /\ UNCHANGED <<store, latch, process, staged, dest, published, taken, unread, crashes>>

(* The plan is refused before the job exists.                               *)
Refuse ==
  /\ pc = "created" /\ kind = "engine"
  /\ Goto("dropping")
  /\ UNCHANGED <<store, latch, process, files, crashes>>

Record ==
  /\ pc = "created"
  /\ Set(active, [NoRecord EXCEPT !.state = "preparing"])
  /\ SaveAndGoto("recorded")
  /\ UNCHANGED <<latch, process, files, crashes>>

(* A worker of the runtime needs a trimmed cache of programs: after the     *)
(* last look at cancelRequested generate() waits for the runner to tell     *)
(* whether it is idle.                                                      *)
Check ==
  /\ pc = "recorded" /\ kind = "runtime"
  /\ \/ cancel /\ Throw("cancelled")
     \/ Throw("failed")
     \/ ~cancel /\ Goto("checking")
  /\ UNCHANGED <<store, latch, process, files, crashes>>

(* The reference to the worker is saved before anything is started ...      *)
Refer ==
  /\ \/ pc = "recorded" /\ kind = "public"
     \/ pc = "checking"
  /\ \/ pc = "recorded" /\ cancel /\ Throw("cancelled") /\ UNCHANGED store
     \/ Throw("failed") /\ UNCHANGED store
     \/ /\ pc = "recorded" => ~cancel
        /\ Set(active, [mem[active] EXCEPT !.ref = TRUE]) /\ SaveAndGoto("referred")
  /\ UNCHANGED <<latch, process, files, crashes>>

(* Wrong on purpose: the start is not saved.                                *)
StartUnsaved ==
  /\ pc = "referred"
  /\ Set(active, [In("running") EXCEPT !.started = TRUE])
  /\ Goto("launching")
  /\ UNCHANGED <<disk, fails, latch, process, files, crashes>>

(* ... and so is the intent to start it.  There may be no executable.       *)
Start ==
  /\ pc = "referred"
  /\ \/ Throw("failed") /\ UNCHANGED store
     \/ Set(active, [In("running") EXCEPT !.started = TRUE]) /\ SaveAndGoto("launching")
  /\ UNCHANGED <<latch, process, files, crashes>>

(* NativeProcessRunner.run(): a cancelled task or a failing launch throws   *)
(* before there is a child.                                                 *)
Spawn ==
  /\ pc = "launching"
  /\ \/ ~stop /\ Goto("spawned") /\ worker' = [worker EXCEPT ![active] = "gated"]
        /\ UNCHANGED mem
     \/ /\ pc' = IF kind = "runtime" THEN "unspawned" ELSE "caught"
        /\ why' = IF stop THEN "cancelled" ELSE "failed"
        /\ stop' = FALSE /\ UNCHANGED <<active, kind, cancel>>
        /\ Set(active, [mem[active] EXCEPT !.exited = TRUE]) /\ UNCHANGED worker
  /\ UNCHANGED <<disk, fails, latch, journal, files, crashes>>

(* The cache is trimmed again before the error is thrown.                   *)
Unspawned ==
  /\ pc = "unspawned"
  /\ Throw(why)
  /\ UNCHANGED <<store, latch, process, files, crashes>>

Supervise(outcome) ==
  pc' = "supervising" /\ why' = outcome /\ UNCHANGED <<active, kind, cancel, stop>>

(* The identity of the child is saved ...                                   *)
WriteJournal ==
  /\ pc = "spawned"
  /\ \/ journal' = journal \cup {active} /\ Goto("journaled") /\ UNCHANGED fails
     \/ /\ fails < MaxFails /\ fails' = fails + 1
        /\ journal' \in {journal, journal \cup {active}}
        /\ Supervise("broken")
  /\ UNCHANGED <<mem, disk, latch, worker, files, crashes>>

(* ... and then the gate is opened, unless the task was cancelled or the    *)
(* byte cannot be written, and closed.                                      *)
OpenGate ==
  /\ pc = "journaled"
  /\ \/ /\ worker' = [worker EXCEPT ![active] = IF stop \/ @ # "gated" THEN @ ELSE "working"]
        /\ Supervise("failed")
     \/ ~stop /\ UNCHANGED worker /\ Supervise("broken")
  /\ UNCHANGED <<store, latch, journal, files, crashes>>

(* The runner cannot read what the child writes, it is too much or no       *)
(* event.                                                                   *)
Break ==
  /\ pc = "supervising" /\ why' = "broken"
  /\ UNCHANGED <<pc, active, kind, cancel, stop, store, latch, process, files, crashes>>

(* Wrong on purpose: the runner does not look at the cancellation of its    *)
(* task once the child runs.                                                *)
StoppingUnasked == why = "broken"

Stopping == stop \/ why = "broken"

(* The child has exited and its group is gone.                              *)
Reap ==
  /\ pc = "supervising" /\ worker[active] = "exited"
  /\ worker' = [worker EXCEPT ![active] = "gone"]
  /\ pc' = "reaped" /\ stop' = FALSE /\ UNCHANGED <<active, kind, cancel, why>>
  /\ UNCHANGED <<store, latch, journal, files, crashes>>

(* Wrong on purpose: the store does not stay busy.                          *)
GiveUpIdle ==
  /\ pc = "supervising" /\ (Stopping \/ worker[active] = "exited")
  /\ kept' = active
  /\ pc' = "uncleaned" /\ stop' = FALSE /\ why' = "failed" /\ UNCHANGED <<active, kind, cancel>>
  /\ UNCHANGED <<store, pending, storage, todo, process, files, crashes>>

(* Signals and deadlines have not ended it: the runner keeps the child, the *)
(* store stays busy and keeps the staging directory.                        *)
GiveUp ==
  /\ pc = "supervising" /\ (Stopping \/ worker[active] = "exited")
  /\ kept' = active /\ pending' = TRUE
  /\ pc' = "uncleaned" /\ stop' = FALSE /\ why' = "failed" /\ UNCHANGED <<active, kind, cancel>>
  /\ UNCHANGED <<store, storage, todo, process, files, crashes>>

Uncleaned ==
  /\ pc = "uncleaned"
  /\ Set(active, In("cleanup_pending"))
  /\ \/ Saved /\ UNCHANGED storage
     \/ Unsaved /\ storage' = "error"
  /\ Leave
  /\ UNCHANGED <<pending, todo, kept, process, files, crashes>>

(* After a worker of the runtime the cache is trimmed before its exit is    *)
(* saved.                                                                   *)
Trim ==
  /\ pc = "reaped" /\ kind = "runtime"
  /\ Set(active, [mem[active] EXCEPT !.exited = TRUE]) /\ Goto("trimming")
  /\ UNCHANGED <<disk, fails, latch, process, files, crashes>>

(* exitConfirmed is saved before the answer of the worker is looked at.     *)
Confirm ==
  /\ \/ pc = "reaped" /\ kind = "public"
     \/ pc = "trimming"
  /\ Set(active, [mem[active] EXCEPT !.exited = TRUE])
  /\ \/ Unsaved /\ Throw("failed")
     \/ Saved /\ Throw("failed")
     \/ Saved /\ cancel /\ Throw("cancelled")
     \/ Saved /\ ~cancel /\ why # "broken" /\ staged[active] = "whole" /\ Goto("validating")
  /\ UNCHANGED <<latch, process, files, crashes>>

(* Other images are generated by the engine of the application.             *)
Generate ==
  /\ pc = "recorded" /\ kind = "engine"
  /\ \/ cancel /\ Throw("cancelled")
     \/ Throw("failed")
     \/ ~cancel /\ Goto("generating")
  /\ UNCHANGED <<store, latch, process, files, crashes>>

GenerateEnds ==
  /\ pc = "generating"
  /\ \/ Goto("validating") /\ staged' = [staged EXCEPT ![active] = "whole"]
     \/ /\ staged' \in {staged, [staged EXCEPT ![active] = "partial"]}
        /\ Throw("failed") \/ (cancel /\ Throw("cancelled"))
  /\ UNCHANGED <<store, latch, process, dir, dest, published, taken, unread, crashes>>

(* transaction.prepare(): the whole file is decoded and hashed; the image   *)
(* may be invalid all the same.                                             *)
Validate ==
  /\ pc = "validating"
  /\ Goto("validated") \/ Throw("failed") \/ (cancel /\ Throw("cancelled"))
  /\ UNCHANGED <<store, latch, process, files, crashes>>

(* The durable intent precedes the rename.                                  *)
Finalize ==
  /\ pc = "validated"
  /\ IF cancel THEN Throw("cancelled") /\ UNCHANGED store
     ELSE Set(active, In("finalizing")) /\ SaveAndGoto("finalizing")
  /\ UNCHANGED <<latch, process, files, crashes>>

(* renamex_np with RENAME_EXCL.                                             *)
Rename(j) ==
  /\ dest = "none"
  /\ dest' = j /\ published' = published \cup {j} /\ staged' = [staged EXCEPT ![j] = "none"]

Publish ==
  /\ pc = "finalizing"
  /\ \/ Rename(active) /\ Goto("published")
     \/ Throw("failed") /\ UNCHANGED <<dest, published, staged>>
  /\ UNCHANGED <<store, latch, process, dir, taken, unread, crashes>>

Succeed ==
  /\ pc = "published"
  /\ Set(active, In("succeeded"))
  /\ (Saved /\ Goto("dropping")) \/ (Unsaved /\ Throw("failed"))
  /\ UNCHANGED <<latch, process, files, crashes>>

(* Wrong on purpose: a failed save turns a published image into a failure.  *)
CaughtAnyway(reason) == reason

(* The catch of generate(): an image that was published stays finalizing.   *)
CaughtState(reason) == IF active \in published THEN "finalizing" ELSE reason

Catch ==
  /\ pc = "caught"
  /\ Set(active, In(CaughtState(why)))
  /\ IF active \in published THEN storage' = "error" /\ UNCHANGED <<disk, fails>>
     ELSE \/ Saved /\ UNCHANGED storage
          \/ Unsaved /\ storage' = "error"
  /\ pc' = "dropping" /\ why' = "failed" /\ UNCHANGED <<active, kind, cancel, stop>>
  /\ UNCHANGED <<pending, todo, kept, process, files, crashes>>

(* The transaction ends and removes its directory; generate() returns.      *)
Drop ==
  /\ pc = "dropping"
  /\ Discard({active})
  /\ Leave
  /\ UNCHANGED <<store, latch, process, dest, published, taken, unread, crashes>>

(* cancel() runs on the main actor while generate() is suspended.  It       *)
(* reaches the runner only through its task, which exists from the launch   *)
(* on.                                                                      *)
Suspended == {"recorded", "checking", "launching", "unspawned", "spawned", "journaled",
              "supervising", "reaped", "trimming", "generating", "validating", "validated"}

Tasked == {"launching", "spawned", "journaled", "supervising"}

Cancel ==
  /\ pc \in Suspended \/ (pc = "created" /\ kind = "engine")
  /\ cancel' = TRUE /\ stop' = (stop \/ pc \in Tasked) /\ UNCHANGED <<pc, active, kind, why>>
  /\ IF pc = "created" THEN UNCHANGED <<store, storage>>
     ELSE /\ Set(active, In("cancelling"))
          /\ \/ Saved /\ UNCHANGED storage
             \/ Unsaved /\ storage' = "error"
  /\ UNCHANGED <<pending, todo, kept, process, files, crashes>>

(* receive(): an event changes the state and is saved at most once a        *)
(* second; a save that fails cancels the job.                               *)
Event ==
  /\ pc \in {"supervising", "reaped", "trimming", "generating", "validating", "validated"}
  /\ \/ /\ Set(active, In(IF cancel THEN "cancelling" ELSE "running"))
        /\ Saved \/ UNCHANGED <<disk, fails>>
        /\ UNCHANGED <<cancel, stop, storage>>
     \/ /\ Set(active, In("cancelling"))
        /\ fails < MaxFails /\ fails' = fails + 1 /\ disk' \in {disk, mem'}
        /\ cancel' = TRUE /\ stop' = (stop \/ pc \in Tasked) /\ storage' = "error"
  /\ UNCHANGED <<pc, active, kind, why, pending, todo, kept, process, files, crashes>>

-----------------------------------------------------------------------------

(* A worker waits at its gate for a byte, or for its end; it writes its     *)
(* file, and it exits - whether or not the application still lives.         *)
GateHeld(j) == pc \in {"spawned", "journaled"} /\ active = j
Child(j) == kept = j \/ (pc \in {"spawned", "journaled", "supervising"} /\ active = j)

Exits(j) == worker' = [worker EXCEPT ![j] = IF Child(j) THEN "exited" ELSE "gone"]

GateCloses(j) ==
  /\ worker[j] = "gated" /\ ~GateHeld(j)
  /\ Exits(j)
  /\ UNCHANGED <<flow, store, latch, journal, files, crashes>>

WorkerWrites(j) ==
  /\ worker[j] = "working" /\ j \in dir /\ staged[j] # "whole"
  /\ staged' = [staged EXCEPT ![j] = IF @ = "none" THEN "partial" ELSE "whole"]
  /\ UNCHANGED <<flow, store, latch, process, dir, dest, published, taken, unread, crashes>>

WorkerExits(j) ==
  /\ worker[j] = "working"
  /\ Exits(j)
  /\ UNCHANGED <<flow, store, latch, journal, files, crashes>>

(* The user puts a file of his own at the destination, or takes one away.   *)
UserWrites ==
  /\ dest = "none" /\ dest' = "foreign"
  /\ UNCHANGED <<flow, store, latch, process, dir, staged, published, taken, unread, crashes>>

UserRemoves ==
  /\ dest # "none" /\ dest' = "none"
  /\ taken' = IF dest \in Job THEN taken \cup {dest} ELSE taken
  /\ UNCHANGED <<flow, store, latch, process, dir, staged, published, unread, crashes>>

-----------------------------------------------------------------------------

(* The application dies: nothing is cleaned up.                             *)
Crash ==
  /\ pc # "down" /\ crashes < MaxCrashes /\ crashes' = crashes + 1
  /\ pc' = "down" /\ active' = NoJob /\ kind' = "none"
  /\ cancel' = FALSE /\ stop' = FALSE /\ why' = "failed"
  /\ mem' = [j \in Job |-> NoRecord] /\ UNCHANGED <<disk, fails>>
  /\ pending' = FALSE /\ storage' = "ok" /\ todo' = {} /\ kept' = NoJob
  /\ worker' = [j \in Job |-> IF worker[j] = "exited" THEN "gone" ELSE worker[j]]
  /\ UNCHANGED <<journal, files>>

(* NativeJobStore.init reads jobs.json and looks at every unfinished job.   *)
Restart ==
  /\ pc = "down"
  /\ Goto("recovering")
  /\ mem' = disk /\ UNCHANGED <<disk, fails>>
  /\ todo' = {j \in Job : disk[j].state \notin Terminal \cup {"absent"}}
  /\ UNCHANGED <<pending, storage, kept, process, files, crashes>>

(* A worker that may still be there: the store stays busy.                  *)
MayRun(j) ==
  /\ mem[j].ref /\ ~mem[j].exited
  /\ (mem[j].started \/ j \in journal) /\ ~Observed(j)

RecoverBlocked(j) ==
  /\ pc = "recovering" /\ j \in todo /\ MayRun(j)
  /\ Set(j, [mem[j] EXCEPT !.state = "cleanup_pending"])
  /\ pending' = TRUE /\ todo' = todo \ {j}
  /\ UNCHANGED <<flow, disk, fails, storage, kept, process, files, crashes>>

Confirmed(j) == [mem[j] EXCEPT !.exited = @ \/ mem[j].ref]

(* The staging directory of a worker is removed; the job was interrupted.   *)
RecoverInterrupted(j) ==
  /\ pc = "recovering" /\ j \in todo /\ ~MayRun(j) /\ mem[j].state # "finalizing"
  /\ Set(j, [Confirmed(j) EXCEPT !.state = "interrupted"])
  /\ Discard(IF mem[j].ref /\ ~mem[j].exited THEN {j} ELSE {})
  /\ todo' = todo \ {j}
  /\ UNCHANGED <<flow, disk, fails, pending, storage, kept, process, dest, published,
                 taken, unread, crashes>>

(* Wrong on purpose: any file at the destination counts as the job's.       *)
WasPublishedAnyhow(j) == dest # "none" /\ staged[j] = "none"

(* The file at the destination is the one of the receipt: same device and   *)
(* inode, same content.                                                     *)
WasPublished(j) == dest = j /\ staged[j] = "none"

CanPublish(j) == dest = "none" /\ j \in dir /\ staged[j] = "whole"

(* ImageOutputTransaction.recover(): it recognises the rename, or completes *)
(* it.                                                                      *)
RecoverFinalizing(j) ==
  /\ pc = "recovering" /\ j \in todo /\ ~MayRun(j) /\ mem[j].state = "finalizing"
  /\ \/ WasPublished(j) /\ UNCHANGED <<staged, dest, published>>
     \/ CanPublish(j) /\ Rename(j)
  /\ Set(j, [Confirmed(j) EXCEPT !.state = "succeeded"])
  /\ dir' = dir \ {j} /\ unread' = unread \ {j} /\ todo' = todo \ {j}
  /\ UNCHANGED <<flow, disk, fails, pending, storage, kept, process, taken, crashes>>

(* It throws when there is nothing to recover, and as well when the volume  *)
(* is not there, the image cannot be read or decoded, or the rename fails:  *)
(* init makes no difference, and keeps what is there.                       *)
RecoverFails(j) ==
  /\ pc = "recovering" /\ j \in todo /\ ~MayRun(j) /\ mem[j].state = "finalizing"
  /\ IF WasPublished(j) \/ CanPublish(j) THEN fails < MaxFails /\ fails' = fails + 1
     ELSE UNCHANGED fails
  /\ unread' = IF WasPublished(j) THEN unread \cup {j} ELSE unread
  /\ Set(j, [Confirmed(j) EXCEPT !.state = "failed"])
  /\ todo' = todo \ {j}
  /\ UNCHANGED <<flow, disk, pending, storage, kept, process, dir, staged, dest, published,
                 taken, crashes>>

(* The result is saved once; if that or a removal fails, the store stays    *)
(* busy until the application is started again.                             *)
RecoverEnds ==
  /\ pc = "recovering"
  /\ UNCHANGED mem
  /\ \/ todo = {} /\ Saved /\ UNCHANGED <<pending, storage, todo>>
     \/ Unsaved /\ pending' = TRUE /\ storage' = "unread" /\ todo' = {}
  /\ Goto("idle")
  /\ UNCHANGED <<kept, process, files, crashes>>

(* Wrong on purpose: a job is released with the child of the runner, and    *)
(* after a restart there is none.                                           *)
ReleasableUnseen(j) == mem[j].state = "cleanup_pending" /\ mem[j].ref

(* refreshWorkerCleanup(): when the runner has no child left, the jobs      *)
(* whose worker is known to have exited are interrupted.                    *)
Releasable(j) ==
  /\ mem[j].state = "cleanup_pending" /\ mem[j].ref
  /\ mem[j].exited \/ Observed(j)

(* Wrong on purpose: the runner reaps the child and keeps it.               *)
PollCleanupKeeps ==
  /\ pc = "idle" /\ kept # NoJob /\ worker[kept] = "exited"
  /\ worker' = [worker EXCEPT ![kept] = "gone"]
  /\ UNCHANGED <<flow, store, latch, journal, files, crashes>>

PollCleanup ==
  /\ pc = "idle" /\ kept # NoJob /\ worker[kept] = "exited"
  /\ worker' = [worker EXCEPT ![kept] = "gone"] /\ kept' = NoJob
  /\ UNCHANGED <<flow, store, pending, storage, todo, journal, files, crashes>>

Refresh ==
  /\ pc = "idle" /\ pending /\ storage # "unread" /\ kept = NoJob
  /\ LET released == {j \in Job : Releasable(j)}
     IN /\ mem' = [j \in Job |-> IF j \in released
                     THEN [mem[j] EXCEPT !.state = "interrupted", !.exited = TRUE] ELSE mem[j]]
        /\ Discard(released)
  /\ \/ /\ Saved /\ UNCHANGED storage
        /\ pending' = (\E j \in Job : mem'[j].state = "cleanup_pending")
     \/ Unsaved /\ storage' = "error" /\ UNCHANGED pending
  /\ UNCHANGED <<flow, todo, kept, process, dest, published, taken, unread, crashes>>

-----------------------------------------------------------------------------

Flow ==
  \/ Refuse \/ Record \/ Check \/ Refer \/ Start \/ Spawn \/ Unspawned \/ WriteJournal
  \/ OpenGate \/ Reap \/ GiveUp \/ Uncleaned \/ Trim \/ Confirm \/ Generate \/ Validate
  \/ Finalize \/ Publish \/ Succeed \/ Catch \/ Drop

Recovery ==
  \/ RecoverEnds
  \/ \E j \in Job : RecoverBlocked(j) \/ RecoverInterrupted(j)
                   \/ RecoverFinalizing(j) \/ RecoverFails(j)

Next ==
  \/ \E j \in Job : Submit(j) \/ GateCloses(j) \/ WorkerWrites(j) \/ WorkerExits(j)
  \/ Flow \/ GenerateEnds \/ Break \/ Cancel \/ Event
  \/ UserWrites \/ UserRemoves
  \/ Crash \/ Restart \/ Recovery \/ PollCleanup \/ Refresh

Spec == Init /\ [][Next]_vars

(* The main actor and the runner run; the user polls a pending cleanup and  *)
(* starts the application again; a generation that was cancelled ends, and  *)
(* so does a worker that was killed, or that nobody waits for.              *)
FairSpec ==
  /\ Spec
  /\ WF_vars(Flow) /\ WF_vars(Recovery) /\ WF_vars(Restart)
  /\ WF_vars(PollCleanup) /\ WF_vars(Refresh)
  /\ WF_vars(cancel /\ GenerateEnds)
  /\ \A j \in Job : /\ WF_vars(GateCloses(j))
                    /\ WF_vars((active # j \/ Stopping) /\ WorkerExits(j))

-----------------------------------------------------------------------------

Steps == {"created", "recorded", "checking", "referred", "launching", "unspawned", "spawned",
          "journaled", "supervising", "uncleaned", "reaped", "trimming", "generating",
          "validating", "validated", "finalizing", "published", "caught", "dropping"}

States == Terminal \cup {"absent", "preparing", "running", "cancelling", "cleanup_pending",
                         "finalizing"}

Records == [state : States, ref : BOOLEAN, started : BOOLEAN, exited : BOOLEAN]

(* Type invariant: a job is the active one exactly while generate() has it. *)
TypeOK ==
  /\ pc \in Steps \cup {"idle", "recovering", "down"}
  /\ active \in Job \cup {NoJob} /\ (active \in Job <=> pc \in Steps)
  /\ kind \in {"none", "engine", "public", "runtime"}
  /\ cancel \in BOOLEAN /\ stop \in BOOLEAN /\ why \in {"failed", "cancelled", "broken"}
  /\ mem \in [Job -> Records] /\ disk \in [Job -> Records]
  /\ pending \in BOOLEAN /\ storage \in {"ok", "error", "unread"}
  /\ todo \subseteq Job /\ kept \in Job \cup {NoJob}
  /\ worker \in [Job -> {"none", "gated", "working", "exited", "gone"}]
  /\ journal \subseteq Job /\ dir \subseteq Job
  /\ staged \in [Job -> {"none", "partial", "whole"}]
  /\ dest \in Job \cup {"none", "foreign"}
  /\ published \subseteq Job /\ taken \subseteq published /\ unread \subseteq published
  /\ crashes \in 0..MaxCrashes /\ fails \in 0..MaxFails

(* A job that succeeded, in memory or on disk, has renamed its own image to *)
(* the destination: recovery does not take another file for it.             *)
SuccessMeansPublished ==
  \A j \in Job : "succeeded" \in {mem[j].state, disk[j].state} => j \in published

(* An image at its destination is never reported as failed, cancelled or    *)
(* interrupted, whatever failed or crashed around the rename (the comment   *)
(* in generate(): "Do not turn a published image into a failed/cancelled    *)
(* job if final save fails").  The code makes one exception: init reports   *)
(* as failed, for good, an image that its recovery could not read.          *)
PublishedIsNotDenied ==
  \A j \in published \ (taken \cup unread) :
    /\ disk[j].state \in {"finalizing", "succeeded"}
    /\ mem[j].state \in {"absent", "finalizing", "succeeded"}

(* A worker that generates is the only one, and no other job is being       *)
(* generated beside it, even when its application has crashed and the user  *)
(* goes on in the next one.                                                 *)
OneWorker ==
  \A j \in Job : worker[j] = "working" =>
    /\ active \in {j, NoJob}
    /\ \A k \in Job : worker[k] = "working" => k = j

(* A worker past its gate can be found by the next application: the journal *)
(* names it, and the job is saved as started and not known to have exited.  *)
WorkIsFindable ==
  \A j \in Job : worker[j] = "working" =>
    j \in journal /\ disk[j].ref /\ disk[j].started /\ ~disk[j].exited

(* A file at the destination is never replaced, whoever put it there and    *)
(* whenever it appeared.                                                    *)
NeverOverwrites == [][dest' \in Job /\ dest' # dest => dest = "none"]_vars

(* The staging directory of a worker is not removed while the worker may    *)
(* still write to it.                                                       *)
StagingOutlivesWorker ==
  [][\A j \in dir \ dir' : worker[j] \notin {"gated", "working"}]_vars

(* A worker of a cancelled job that nobody has asked to stop: cancel() came *)
(* before there was a task, while generate() waited for the runner to tell  *)
(* whether it is idle.                                                      *)
Unheard == cancel /\ ~stop /\ active # NoJob /\ worker[active] = "working"

(* A cancelled job ends: when its task was cancelled, at the latest when    *)
(* the deadlines of the runner have passed; when the cancellation came too  *)
(* early to reach the runner, once the worker has ended by itself, or the   *)
(* user has cancelled again.                                                *)
CancelEnds == []<>~Unheard => (cancel /\ active # NoJob ~> active = NoJob)

Awaited == {j \in Job : mem[j].state = "cleanup_pending"}

(* A store that waits for workers that it can identify stops waiting once   *)
(* they have exited (unless the application crashes, or could not save what *)
(* it recovered).  It takes jobs again if no other save has failed before:  *)
(* storageError is never reset.                                             *)
CleanupEnds ==
  pc = "idle" /\ pending /\ Awaited \subseteq journal ~> ~pending \/ storage = "unread"
===============================================================================
